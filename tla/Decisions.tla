------------------------------- MODULE Decisions -------------------------------
(***************************************************************************)
(* What decides and what learns from it side by side: from the candles to  *)
(* a position of one leg (Signals), and from the signals to the resolved   *)
(* rows (Shadow). They share no variable, and one that does not run is     *)
(* parked, as in Operator.                                                 *)
(***************************************************************************)
EXTENDS Integers, Sequences, FiniteSets

CONSTANTS
    NoValue,
    PriceUnit, Periods, Shapes, Histories, HtfViews, Settings, Asset, SignalBars,  \* Signals
    RowLegs, BarsOf, BelowFloor, CostR, RewardR, ExpiryR, RowBars,                 \* Shadow
    SoftStage, RiskStage, RowEpochs, RowTouches, LastClock, RowBound

VARIABLES
    setting, legs, htf, series, forming, wire, cached, late, position, left,
    clock, bar, rows, trade, traded, todo, writing, ab, epoch

signalVars == <<setting, legs, htf, series, forming, wire, cached, late, position, left>>
shadowVars == <<clock, bar, rows, trade, traded, todo, writing, ab, epoch>>
decisionVars == <<signalVars, shadowVars>>

G == INSTANCE Signals WITH
        None <- NoValue, Unit <- PriceUnit, Cfg <- Periods, Openings <- Histories,
        Base <- Asset, MaxBars <- SignalBars
H == INSTANCE Shadow WITH
        None <- NoValue, Legs <- RowLegs, Frame <- BarsOf, Weak <- BelowFloor,
        Closes <- ExpiryR, MaxBars <- RowBars, Epochs <- RowEpochs, Touches <- RowTouches,
        MaxClock <- LastClock, MaxRows <- RowBound

SignalsRun == setting # NoValue
ShadowRuns == clock # NoValue

SignalsParked ==
    /\ setting = NoValue /\ legs = NoValue /\ htf = NoValue /\ series = NoValue
    /\ forming = NoValue /\ wire = NoValue /\ cached = NoValue /\ late = NoValue
    /\ position = NoValue /\ left = NoValue
ShadowParked ==
    /\ clock = NoValue /\ bar = NoValue /\ rows = <<>> /\ trade = NoValue
    /\ traded = NoValue /\ todo = NoValue /\ writing = NoValue /\ ab = NoValue
    /\ epoch = NoValue

SignalsStep == SignalsRun /\ G!Next /\ UNCHANGED shadowVars
ShadowStep  == ShadowRuns /\ H!Next /\ UNCHANGED signalVars

DecisionInit == (G!Init \/ SignalsParked) /\ (H!Init \/ ShadowParked)
DecisionNext == SignalsStep \/ ShadowStep
DecisionSpec == DecisionInit /\ [][DecisionNext]_decisionVars

(***************************************************************************)
(* Properties.                                                             *)
(***************************************************************************)
\* Signals.FinalUnlessLate.
FinalUnlessLate == SignalsRun => G!FinalUnlessLate
\* Signals.OwnLeg.
OwnLeg == SignalsRun => G!OwnLeg
\* Signals.Mirrored.
Mirrored == [][SignalsRun => G!Turned(cached')]_cached
\* Signals.ExitByOwnLines.
ExitByOwnLines == G!ExitByOwnLines
\* Shadow.OnlyLaterBars: violated, see the README.
OnlyLaterBars == H!OnlyLaterBars
\* Shadow: NoLookahead, LoggedAtMostOnce, ExecutedTracked and AdviceIsEarned.
ShadowIsHonest ==
    /\ H!NoLookahead
    /\ [](ShadowRuns => H!LoggedAtMostOnce /\ H!ExecutedTracked /\ H!AdviceIsEarned)
================================================================================
