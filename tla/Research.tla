--------------------------------- MODULE Research ---------------------------------
(***************************************************************************)
(* The two research programs side by side: walk-forward validation         *)
(* (Replay) and the replay with limit orders (Maker). They share no        *)
(* variable, and one that does not run is parked, as in Operator.          *)
(***************************************************************************)
EXTENDS Integers, Sequences, FiniteSets

CONSTANTS
    NoRecord,
    FirstListed, BarHoles, Limit, Loaders, PerCall, Pair, Warmup, Oos, Stride, \* Replay
    FirstBar, FrameRatio, MinHtf, OpenAtOnce, Pause, TradePnls, Funding, Stake, Bar2, LastBar,
    Kinds, Ttl, TimeStop, Horizon                                                 \* Maker

VARIABLES
    now, loader, disk, fetch, data, start, event, open, lastClose, purse, closed, collected,
    verdict,
    path, mode, at, filled, result, taker

replayVars == <<now, loader, disk, fetch, data, start, event, open, lastClose, purse, closed,
                collected, verdict>>
makerVars == <<path, mode, at, filled, result, taker>>
researchVars == <<replayVars, makerVars>>

W == INSTANCE Replay WITH
        None <- NoRecord, Listed <- FirstListed, Missing <- BarHoles, Symbols <- Pair,
        Step <- Stride, Ratio <- FrameRatio, MaxOpen <- OpenAtOnce, Cooldown <- Pause,
        Results <- TradePnls, Start <- Stake, MaxNow <- LastBar, last <- lastClose
M == INSTANCE Maker WITH None <- NoRecord, Bars <- Kinds, MaxBars <- Horizon

ReplayRuns == now # NoRecord
MakerRuns  == path # NoRecord

ReplayParked ==
    /\ now = NoRecord /\ loader = NoRecord /\ disk = NoRecord /\ fetch = NoRecord
    /\ data = NoRecord /\ start = NoRecord /\ event = NoRecord /\ open = NoRecord
    /\ lastClose = NoRecord /\ purse = NoRecord /\ closed = NoRecord
    /\ collected = NoRecord /\ verdict = NoRecord
MakerParked ==
    /\ path = NoRecord /\ mode = NoRecord /\ at = NoRecord /\ filled = NoRecord
    /\ result = NoRecord /\ taker = NoRecord

ReplayStep == ReplayRuns /\ W!Next /\ UNCHANGED makerVars
MakerStep  == MakerRuns /\ M!Next /\ UNCHANGED replayVars

ResearchInit == (W!Init \/ ReplayParked) /\ (M!Init \/ MakerParked)
ResearchNext == ReplayStep \/ MakerStep
ResearchSpec == ResearchInit /\ [][ResearchNext]_researchVars

(***************************************************************************)
(* Properties.                                                             *)
(***************************************************************************)
\* Replay: BalanceIsNet, HistoryWhole, and CountedOnce.
BalanceIsNet == ReplayRuns => W!BalanceIsNet /\ W!HistoryWhole /\ W!CountedOnce
\* Replay.KnowsNoFuture: violated, see the README.
KnowsNoFuture == ReplayRuns => W!KnowsNoFuture
\* Replay.OutOfSample: violated, see the README.
OutOfSample == ReplayRuns => W!OutOfSample
\* Maker: Pessimistic, and SameExit.
Pessimistic == MakerRuns => M!Pessimistic /\ M!SameExit
================================================================================
