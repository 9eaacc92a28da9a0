-------------------------------- MODULE Evidence --------------------------------
(***************************************************************************)
(* What the measured past decides about the next candidates, and what the  *)
(* owner is told about it: Ranking alone, or Ranking with the trades and   *)
(* the slots that Reports describes. A process that does neither is        *)
(* parked, as in Operator.                                                 *)
(***************************************************************************)
EXTENDS Integers, Sequences, FiniteSets

CONSTANTS
    NoFigure,
    RowShapes, Hopefuls, LabelViews, CoinResults, KnownSetups,
    SoftFrom, RiskFrom, ProfileFrom, LabelFrom,
    TightStop, WideStop, RoundTrip, FirstTarget,
    RowsAtMost, RowsLabelled, ClosesPerCoin,
    CloseShapes, SlotLimit, FirstBalance, DayLossPct, GradesFrom, ReportsAtMost

VARIABLES
    evidence, season, coins, apply, label,   \* Ranking
    history, taken, today                    \* Reports

rankVars == <<evidence, season, coins, apply, label>>
reportVars == <<history, taken, today>>
evidenceVars == <<rankVars, reportVars>>

P == INSTANCE Reports WITH
        None <- NoFigure,
        RowKinds <- RowShapes, Signals <- Hopefuls, Views <- LabelViews,
        CoinRs <- CoinResults, Weighted <- KnownSetups,
        SoftRows <- SoftFrom, RiskRows <- RiskFrom, CoinTrades <- ProfileFrom,
        LabelRows <- LabelFrom, MinStop <- TightStop, MaxStop <- WideStop,
        Cost <- RoundTrip, Tp1R <- FirstTarget,
        MaxRows <- RowsAtMost, GradedRows <- RowsLabelled, MaxClosed <- ClosesPerCoin,
        Kinds <- CloseShapes, MaxSlots <- SlotLimit, Balance <- FirstBalance,
        LossPct <- DayLossPct, GradeRows <- GradesFrom, MaxTrades <- ReportsAtMost,
        rows <- evidence, epoch <- season, view <- label, closed <- history

RankingRuns == evidence # NoFigure /\ taken = NoFigure
ReportsRun  == taken # NoFigure

RankParked == /\ evidence = NoFigure /\ season = NoFigure /\ coins = NoFigure
              /\ apply = NoFigure /\ label = NoFigure
ReportsParked == history = <<>> /\ taken = NoFigure /\ today = NoFigure

RankingInit == P!Init /\ ReportsParked
EvidenceParked == RankParked /\ ReportsParked
EvidenceInit == RankingInit \/ P!ReportInit \/ EvidenceParked

RankingStep == RankingRuns /\ P!Next /\ UNCHANGED reportVars
ReportsStep == ReportsRun /\ P!ReportNext
EvidenceNext == RankingStep \/ ReportsStep
EvidenceSpec == EvidenceInit /\ [][EvidenceNext]_evidenceVars

(***************************************************************************)
(* Properties.                                                             *)
(***************************************************************************)
\* Ranking: EdgeDecides, and NoRewardForLoss.
RankedByEvidence == RankingRuns => P!EdgeDecides /\ P!NoRewardForLoss
\* Ranking.BetterIsNotWorse.
BetterIsNotWorse == P!BetterIsNotWorse
\* Reports: ToldAsDone, and PanelAgrees.
ReportsAgree == ReportsRun => P!ToldAsDone /\ P!PanelAgrees
\* Reports.UnpricedSkewNothing.
UnpricedSkewNothing == P!UnpricedSkewNothing
================================================================================
