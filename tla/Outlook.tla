--------------------------------- MODULE Outlook ---------------------------------
(***************************************************************************)
(* What the engine makes of the market before it sizes a candidate         *)
(* (Regime). A process that reads no market is parked, as in Operator.     *)
(***************************************************************************)
EXTENDS Integers, Sequences, FiniteSets

CONSTANTS
    NoRead,
    Sample, Shows, KnownLegs, PriorOf, CellsOf, CellsFrom, TiltStrength, DimsOn, ConfirmBars,
    LowestConf, PersistTarget, CorrPenalty, TradesAtMost, Signalled, SidesOf, Shares, ReadEvery

VARIABLES reading, regime, age, raws, view, held, snapshot, slots

regimeVars == <<reading, regime, age, raws, view, held, snapshot, slots>>

O == INSTANCE Regime WITH
        None <- NoRead, Symbols <- Sample, Readings <- Shows, Legs <- KnownLegs,
        Prior <- PriorOf, Cells <- CellsOf, MatrixMinN <- CellsFrom, Strength <- TiltStrength,
        Dims <- DimsOn, Confirm <- ConfirmBars, ConfMin <- LowestConf,
        PersistBars <- PersistTarget, Penalty <- CorrPenalty, MaxOpen <- TradesAtMost,
        Traded <- Signalled, Sides <- SidesOf, Availability <- Shares, Refresh <- ReadEvery

RegimeRuns == reading # NoRead
RegimeParked ==
    /\ reading = NoRead /\ regime = NoRead /\ age = NoRead /\ raws = NoRead
    /\ view = NoRead /\ held = NoRead /\ snapshot = NoRead /\ slots = NoRead

OutlookInit == O!Init \/ RegimeParked
OutlookNext == RegimeRuns /\ O!Next
OutlookSpec == OutlookInit /\ [][OutlookNext]_regimeVars

(***************************************************************************)
(* Properties.                                                             *)
(***************************************************************************)
\* Regime: FlipsAreConfirmed, ClustersAreChains, UnmeasuredSoftens and PileUpShrinks.
RegimeIsEarned ==
    /\ O!FlipsAreConfirmed /\ O!ClustersAreChains /\ O!PileUpShrinks
    /\ [](RegimeRuns => O!UnmeasuredSoftens)
================================================================================
