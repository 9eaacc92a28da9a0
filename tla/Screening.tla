-------------------------------- MODULE Screening -------------------------------
(***************************************************************************)
(* What becomes of the signals that a scan finds, before any is sized      *)
(* (Gates). A process that screens nothing is parked, as in Operator.      *)
(***************************************************************************)
EXTENDS Integers, Sequences, FiniteSets

CONSTANTS
    NoGate,
    OnExchange, ForcedIn, KeptOut, UniverseSize, PerScan, ScanFinds, ScanMarkets,
    ReferenceSize, SlipCap, TradeHours, RestTime, RiskRefusals, SlotBound, OtherCaps,
    PlanCaps, GateStyles, BarTime, LastMinute, DealsAtMost, TableAtMost

VARIABLES style, minute, deals, phase, queue, room, funnel, table, turned

gateVars == <<style, minute, deals, phase, queue, room, funnel, table, turned>>

F == INSTANCE Gates WITH
        None <- NoGate, trades <- deals, slots <- room,
        Listed <- OnExchange, Include <- ForcedIn, Exclude <- KeptOut, Size <- UniverseSize,
        PerCycle <- PerScan, Finds <- ScanFinds, Markets <- ScanMarkets,
        Reference <- ReferenceSize, SlipPct <- SlipCap, Hours <- TradeHours,
        Cooldown <- RestTime, Refusals <- RiskRefusals, MaxOpen <- SlotBound,
        Caps <- OtherCaps, SlotCaps <- PlanCaps, Styles <- GateStyles, BarLen <- BarTime,
        MaxNow <- LastMinute, MaxTrades <- DealsAtMost, MaxRows <- TableAtMost

GatesRun == minute # NoGate
GatesParked ==
    /\ style = NoGate /\ minute = NoGate /\ deals = {} /\ phase = NoGate
    /\ queue = <<>> /\ room = NoGate /\ funnel = NoGate
    /\ table = <<>> /\ turned = <<>>

ScreeningInit == F!Init \/ GatesParked
ScreeningNext == GatesRun /\ F!Next
ScreeningSpec == ScreeningInit /\ [][ScreeningNext]_gateVars

(***************************************************************************)
(* Properties.                                                             *)
(***************************************************************************)
\* Gates: FunnelExplains, EvidenceIsSound, RestsBetween, and AffordableFill.
MissesExplained ==
    GatesRun => F!FunnelExplains /\ F!EvidenceIsSound /\ F!RestsBetween /\ F!AffordableFill
================================================================================
