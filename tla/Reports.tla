--------------------------------- MODULE Reports ---------------------------------
(***************************************************************************)
(* What the governor tells the owner about the measured past: the metrics  *)
(* of the closed trades (metrics.py), the loss diagnosis (diagnosis.py),   *)
(* the expectancy of the grades (quality.py), the panel and the shadow     *)
(* readiness (governor.py) and the verdict on the score (shadow.py).  It   *)
(* reads the same rows as Ranking, which acts on them.                     *)
(*                                                                         *)
(* A report is a function of the database, so it is not a step: the steps  *)
(* are closes, opens, a new day, and those of Ranking.  Texts are names;   *)
(* R and the profit factor are in hundredths, rounded down.                *)
(***************************************************************************)
EXTENDS Ranking

CONSTANTS
    Kinds,      \* closed trades: pnl (None if nobody saw the exit), r, reason, grade
    MaxSlots,   \* MAX_OPEN_TRADES
    Balance,    \* initial balance
    LossPct,    \* MAX_DAILY_LOSS_PCT
    GradeRows,  \* GRADE_SEPARATION_MIN_N: 100
    MaxTrades   \* bound: closed trades and resolved rows together

VARIABLES
    closed,     \* closed trades of the epoch, oldest first
    taken,      \* open slots
    today       \* how many of the closed trades closed before today

reportVars == <<closed, taken, today>>

\* Towards zero.
Ratio(a, b) == IF a < 0 THEN -(((-a) * 100) \div b) ELSE (a * 100) \div b

(***************************************************************************)
(* compute_metrics. Trades are named by their place in closed.             *)
(***************************************************************************)
\* mutant: a close nobody priced counts as one of zero
PricedAsZero == DOMAIN closed
Priced == {i \in DOMAIN closed : closed[i].pnl # None}

Pnl == [i \in DOMAIN closed |-> IF closed[i].pnl = None THEN 0 ELSE closed[i].pnl]
RMultiple == [i \in DOMAIN closed |-> IF closed[i].pnl = None THEN 0 ELSE closed[i].r]
Won(s) == {i \in s : Pnl[i] > 0}
Lost(s) == {i \in s : Pnl[i] <= 0}
\* None while nothing was lost: an infinite factor is stored as None
Factor(s) ==
    LET won  == SumFunctionOnSet(Pnl, Won(s))
        lost == -SumFunctionOnSet(Pnl, Lost(s))
    IN IF lost > 0 THEN Ratio(won, lost) ELSE IF won > 0 \/ s = {} THEN None ELSE 0
Mean(s, value) ==
    IF s = {} THEN 0 ELSE Ratio(SumFunctionOnSet(value, s), Cardinality(s) * 100)
\* the deepest fall of the equity curve below an earlier point of it
Equity(s, upTo) == SumFunctionOnSet(Pnl, {i \in s : i <= upTo})
Drawdown(s) ==
    LET places == s \cup {0}
        falls  == {Equity(s, p[1]) - Equity(s, p[2]) :
                     p \in {q \in places \X places : q[1] <= q[2]}}
    IN CHOOSE d \in falls : \A e \in falls : e <= d

Metrics ==
    [n |-> Cardinality(Priced), pf |-> Factor(Priced), exp |-> Mean(Priced, RMultiple),
     win |-> Mean(Won(Priced), [i \in DOMAIN closed |-> Pnl[i] * 100]),
     loss |-> Mean(Lost(Priced), [i \in DOMAIN closed |-> Pnl[i] * 100]),
     be |-> Cardinality({i \in Priced : closed[i].reason = "BE"}),
     sl |-> Cardinality({i \in Priced : closed[i].reason = "SL"}),
     drawdown |-> Drawdown(Priced)]

(***************************************************************************)
(* grade_performance: every close counts here, priced or not.              *)
(***************************************************************************)
Graded(g) == {i \in DOMAIN closed : closed[i].grade = g}
GradesSeen == {g \in 1 .. 4 : Graded(g) # {}}
GradeR(g) == Mean(Graded(g), RMultiple)
Separation ==
    CASE GradesSeen = {} \/ (\E g \in GradesSeen : Cardinality(Graded(g)) < GradeRows) ->
           "insufficient"
      [] GradesSeen # {} /\ (\A g \in GradesSeen : Cardinality(Graded(g)) >= GradeRows) ->
           IF \A g, h \in GradesSeen : g < h => GradeR(g) >= GradeR(h)
           THEN "separates" ELSE "no_separation"

(***************************************************************************)
(* The verdict on the score, and what it unlocks.                          *)
(***************************************************************************)
\* predictivity_verdict
Verdict == CASE ~Sufficient -> "insufficient"
             [] Sufficient /\ Monotone -> "predictive"
             [] Sufficient /\ ~Monotone -> "anti_predictive"
\* mutant: enough rows are enough
EligibleEarly == Sufficient
\* shadow_readiness: the second stage
Eligible == Sufficient /\ Monotone
\* _risk_modulation_preflight
Pinned == Verdict = "insufficient"
\* rank_basis with RANK_KEY=edge
Basis == CASE ~Sufficient -> "neutral"
           [] Sufficient /\ Monotone -> "monotone"
           [] Sufficient /\ ~Monotone -> "avg_r"

(***************************************************************************)
(* diagnose: the findings, in the order they are made.                     *)
(***************************************************************************)
UsedPct ==
    LET budget == ((Balance + SumFunctionOnSet(Pnl, Priced)) * LossPct) \div 100
        day    == SumFunctionOnSet(Pnl, {i \in Priced : i > today})
    IN IF budget <= 0 \/ day >= 0 THEN 0 ELSE Ratio(-day, budget)
Unproven(m) == m.pf = None \/ m.pf < 100
SlotsFull == MaxSlots > 0 /\ taken >= MaxSlots
SetupRs == {AvgR(OfSetup(k.setup)) : k \in RowKinds} \ {None}

Finding(code, severity, when) == [code |-> code, severity |-> severity, when |-> when]
FindingsOf(m) ==
    <<Finding("no_trades", 0, m.n = 0),
      Finding("pf_far_below", 2, m.n > 0 /\ m.pf # None /\ m.pf < 70),
      Finding("pf_below", 1, m.n > 0 /\ m.pf # None /\ m.pf >= 70 /\ m.pf < 100),
      Finding("negative_expectancy", 1, m.n > 0 /\ m.exp < 0),
      Finding("winners_too_small", 1, m.n > 0 /\ m.loss # 0 /\ m.win < -m.loss /\ Unproven(m)),
      Finding("back_to_break_even", 1, m.n > 0 /\ m.be * 100 >= 40 * m.n),
      Finding("dangerous_setup", 1, \E r \in SetupRs : r < -30),
      Finding("score_anti_predictive", 1, Verdict = "anti_predictive"),
      Finding("grade_not_validated", 0, Separation = "insufficient"),
      Finding("grade_does_not_separate", 1, Separation = "no_separation"),
      Finding("daily_loss_high", 1, UsedPct >= 70),
      Finding("slots_full", 1, SlotsFull /\ Unproven(m))>>
Findings == FindingsOf(Metrics)
Made(f) == {i \in DOMAIN f : f[i].when}
Codes(f) == {f[i].code : i \in Made(f)}
\* the first of the most severe ones
Headline(f) ==
    LET worst == {i \in Made(f) : \A j \in Made(f) : f[j].severity <= f[i].severity}
    IN IF Made(f) = {} THEN None ELSE f[CHOOSE i \in worst : \A j \in worst : i <= j]

(***************************************************************************)
(* _ceo_summary and _tiered_recommendations.                               *)
(***************************************************************************)
State(m) ==
    CASE m.n = 0 -> "warming_up"
      [] m.n > 0 /\ ~Unproven(m) /\ m.exp > 0 -> "edge_forming"
      [] m.n > 0 /\ (Unproven(m) \/ m.exp <= 0) -> "no_proven_edge"
RiskAction(m) ==
    CASE m.pf # None /\ m.pf < 70 -> "do_not_increase"
      [] Unproven(m) /\ (m.pf = None \/ m.pf >= 70) -> "hold"
      [] ~Unproven(m) -> "within_tolerance"
\* mutant: without a loss yet the edge counts as proven
SlotActionProven(m) ==
    CASE SlotsFull /\ m.pf # None /\ Unproven(m) -> "do_not_add"
      [] SlotsFull /\ (m.pf = None \/ ~Unproven(m)) -> "gather_evidence"
      [] ~SlotsFull -> "no_change"
SlotAction(m) ==
    CASE SlotsFull /\ Unproven(m) -> "do_not_add"
      [] SlotsFull /\ ~Unproven(m) -> "gather_evidence"
      [] ~SlotsFull -> "no_change"
QualityAction == CASE Separation = "separates" -> "candidate_for_promotion"
                   [] Separation # "separates" -> "label_only"
NextStep(f) == IF Made(f) = {} \/ Headline(f).code = "no_trades" THEN "accumulate"
               ELSE Headline(f).code
Immediate(f) == {f[i].code : i \in {j \in Made(f) : f[j].severity > 0}}

(***************************************************************************)
(* Steps.                                                                  *)
(***************************************************************************)
ReportInit == Init /\ closed = <<>> /\ taken = 0 /\ today = 0

\* _close_fraction's last close, or a reconcile that finds the position gone
Close ==
    /\ taken > 0 /\ Len(closed) + AllRows < MaxTrades
    /\ \E t \in Kinds : closed' = Append(closed, t)
    /\ taken' = taken - 1
    /\ UNCHANGED <<today, vars>>
Open ==
    /\ taken < MaxSlots /\ taken' = taken + 1
    /\ UNCHANGED <<closed, today, vars>>
NewDay ==
    /\ today < Len(closed) /\ today' = Len(closed)
    /\ UNCHANGED <<closed, taken, vars>>
RowResolves == Len(closed) + AllRows < MaxTrades /\ Resolve /\ UNCHANGED reportVars
\* the reset deletes the trades, open ones too
Reset == NewEpoch /\ closed' = <<>> /\ taken' = 0 /\ today' = 0

ReportNext == Close \/ Open \/ NewDay \/ RowResolves \/ Reset

(***************************************************************************)
(* Properties.                                                             *)
(***************************************************************************)
\* shadow.py:570-609, governor.py:259-297, engine.py:859-877: what the owner is told
\* about the score is what ranking and sizing do with it. Told "predictive", and only
\* then, the second stage is offered and candidates of a setup are ranked by score; told
\* "insufficient" or "pinned", no size follows the score and no score orders anything; told
\* "anti-predictive", two candidates are ranked by the R of their buckets.
ToldAsDone ==
    /\ Eligible <=> Verdict = "predictive"
    /\ Eligible <=> Basis = "monotone"
    /\ Pinned => \A s \in Signals : RiskOfScore(s) = 100
    /\ \A s, t \in Signals :
          s.setup = t.setup =>
             CASE Verdict = "insufficient" -> Rank("edge", s) = Rank("edge", t)
               [] Eligible -> Rank("edge", s) > Rank("edge", t) <=> Score(s) > Score(t)
               [] OTHER -> LET a == BucketOf(Score(s))
                               b == BucketOf(Score(t))
                           IN None \notin {a, b} /\ None \notin {AvgR(OfBucket(x)) : x \in {a, b}}
                              /\ Rank("edge", s) > Rank("edge", t)
                              => AvgR(OfBucket(a)) > AvgR(OfBucket(b))

\* governor.py:165-256 against diagnosis.py:48-187: the panel and the diagnosis, computed
\* apart, do not contradict each other. An edge is forming, or the risk is within
\* tolerance, only with no finding on the edge; slots are refused exactly when the
\* diagnosis refuses them; the next step is among what is to be fixed at once, if
\* anything is.
PanelAgrees ==
    LET m == Metrics
        f == FindingsOf(m)
    IN /\ State(m) = "edge_forming" =>
             /\ RiskAction(m) = "within_tolerance"
             /\ {"pf_far_below", "pf_below", "negative_expectancy", "winners_too_small"}
                   \cap Codes(f) = {}
       /\ RiskAction(m) = "do_not_increase" => m.n > 0 /\ Headline(f).code = "pf_far_below"
       /\ SlotAction(m) = "do_not_add" <=> "slots_full" \in Codes(f)
       /\ QualityAction = "candidate_for_promotion" <=>
             {"grade_not_validated", "grade_does_not_separate"} \cap Codes(f) = {}
       /\ Immediate(f) # {} => NextStep(f) \in Immediate(f)

\* metrics.py:29-32: a close that nobody priced "can never silently skew expectancy": it
\* changes no metric, and of the findings only those on the grades and the slots.
UnpricedSkewNothing ==
    [][Len(closed') > Len(closed) /\ closed'[Len(closed')].pnl = None
          => /\ Metrics' = Metrics /\ UsedPct' = UsedPct
             /\ LET about == {"grade_not_validated", "grade_does_not_separate", "slots_full"}
                IN Codes(Findings') \ about = Codes(Findings) \ about]_closed
================================================================================
