--------------------------------- MODULE Ranking ---------------------------------
(***************************************************************************)
(* What the measured past says about a candidate: its score (scoring.py),   *)
(* the nudges of the shadow rows and of the coin's profile (shadow.py), the *)
(* key it is ranked by (allocation.py:79-129), the risk it is given          *)
(* (risk.py:126-149), and the quality label (quality.py).                   *)
(*                                                                         *)
(* Shadow rows resolve one at a time, in any order; a new epoch keeps them  *)
(* and starts the count anew. Only the score, the outcome and the R of a    *)
(* row are kept, and the market of a candidate is what the score and the    *)
(* label read of it. Scores and nudges are in hundredths of a point, R and  *)
(* multipliers in hundredths.                                               *)
(***************************************************************************)
EXTENDS Integers, Sequences, FiniteSets, Functions

CONSTANTS
    RowKinds,   \* resolved rows: setup, score, win, r
    Signals,    \* candidates: symbol, setup, factors, base, lean, spread
    Views,      \* what the label reads: align, stop, spread, score
    CoinRs,     \* results a coin's trades close with
    SoftRows,   \* 50: from here the score may be nudged
    RiskRows,   \* 100: from here risk is scaled and buckets count
    CoinTrades, \* MIN_TRADES of a profile
    LabelRows,  \* 10: from here the label looks at the rows
    Weighted,   \* setups that SETUP_WEIGHTS knows
    MinStop, MaxStop, Cost, Tp1R,  \* stop band, cost of a round trip, TP1_R
    MaxRows, GradedRows, MaxClosed, \* bounds: rows, rows while labels are read, trades
    None

VARIABLES
    rows,       \* resolved rows: how many of each kind, by epoch
    epoch,      \* the current one
    coins,      \* profile of each symbol: trades and sum of R; no epoch
    apply,      \* SHADOW_APPLY
    view        \* the candidate just labelled, None after anything else

vars == <<rows, epoch, coins, apply, view>>

Clamp(low, x, high) == IF x < low THEN low ELSE IF x > high THEN high ELSE x
(***************************************************************************)
(* Statistics of the rows.                                                 *)
(***************************************************************************)
\* mutant: the rows of every epoch
ResolvedEver == [k \in RowKinds |-> rows[1][k] + rows[2][k]]
\* _resolved_rows: those of the current epoch
Resolved == rows[epoch]
RowsOf(kinds) == SumFunctionOnSet(Resolved, kinds)
\* None without rows; floor for the rounding to three digits
AvgR(kinds) ==
    IF RowsOf(kinds) = 0 THEN None
    ELSE SumFunctionOnSet([k \in kinds |-> Resolved[k] * k.r], kinds) \div RowsOf(kinds)

OfSetup(setup) == {k \in RowKinds : k.setup = setup}
Edges == <<4500, 5500, 6500, 7500, 20000>>
Buckets == 1 .. 4
InBucket(score, b) == Edges[b] <= score /\ score < Edges[b + 1]
OfBucket(b) == {k \in RowKinds : InBucket(k.score, b)}
\* the bucket of a score, None below the first
BucketOf(score) == IF score < Edges[1] THEN None ELSE CHOOSE b \in Buckets : InBucket(score, b)

WinPct(b) == (RowsOf({k \in OfBucket(b) : k.win}) * 1000) \div RowsOf(OfBucket(b))
Filled == {b \in Buckets : RowsOf(OfBucket(b)) > 0}
\* mutant: two buckets with rows are enough
MonotoneAssumed == Cardinality(Filled) >= 2
Monotone == /\ Cardinality(Filled) >= 2
            /\ \A b, c \in Filled : b < c => WinPct(b) <= WinPct(c)
Tracked == {k \in RowKinds : k.score >= Edges[1]}
Sufficient == RowsOf(Tracked) >= RiskRows

(***************************************************************************)
(* Score: 70% factors, 30% confidence, the lean of the book and the spread; *)
(* then the nudges, if they are applied.                                   *)
(***************************************************************************)
ScoreDelta(setup) ==
    IF RowsOf(RowKinds) < SoftRows \/ AvgR(OfSetup(setup)) = None THEN 0
    ELSE Clamp(-500, AvgR(OfSetup(setup)) * 5, 500)
CoinDelta(symbol) ==
    IF coins[symbol].n < CoinTrades THEN 0
    ELSE Clamp(-500, (coins[symbol].r * 3) \div coins[symbol].n, 500)
Built(s) ==
    LET factors == IF s.setup \in Weighted THEN s.factors ELSE 0
        lean    == IF s.lean = None THEN 0 ELSE Clamp(-300, s.lean * 6, 300)
        spread  == IF s.spread = None THEN 0 ELSE Clamp(0, (100 - s.spread) * 2, 200)
    IN Clamp(0, 70 * factors + 30 * s.base + lean + spread, 10000)
Score(s) == IF apply THEN Clamp(0, Built(s) + ScoreDelta(s.setup) + CoinDelta(s.symbol), 10000)
            ELSE Built(s)

(***************************************************************************)
(* rank_signal and score_risk_multiplier.                                  *)
(***************************************************************************)
Rank(key, s) ==
    LET delta == IF apply THEN ScoreDelta(s.setup) ELSE 0
        b     == BucketOf(Score(s))
    IN CASE key = "score" -> Score(s)
         [] key = "composite" -> Score(s) + delta
         [] key = "edge" /\ ~Sufficient -> delta
         [] key = "edge" /\ Sufficient /\ Monotone -> Score(s) + delta
         [] key = "edge" /\ Sufficient /\ ~Monotone ->
              IF b = None \/ AvgR(OfBucket(b)) = None THEN delta
              ELSE AvgR(OfBucket(b)) * 100 + delta

RiskOfShadow(s) ==
    IF RowsOf(RowKinds) < RiskRows \/ AvgR(OfSetup(s.setup)) = None THEN 100
    ELSE Clamp(70, 100 + (AvgR(OfSetup(s.setup)) * 30) \div 100, 130)
RiskOfScore(s) ==
    LET b == BucketOf(Score(s))
    IN IF ~Sufficient \/ b = None \/ AvgR(OfBucket(b)) = None THEN 100
       ELSE Clamp(80, 100 + (AvgR(OfBucket(b)) * 20) \div 100, 120)

(***************************************************************************)
(* quality.grade: a mean over the parts that are known. A score of zero    *)
(* counts as unknown. Every part is in hundredths.                         *)
(***************************************************************************)
Unit(x) == Clamp(0, x, 100)
DragOf(v) == (Cost * 100) \div v.stop
\* mutant: a wider spread is a better one
SpreadPartWide(v) == Unit(v.spread)
SpreadPart(v) == Unit(100 - v.spread)
Weight == [alignment |-> 30, cost_efficiency |-> 20, rr_structure |-> 15, stop_sanity |-> 5,
           spread |-> 10, score_support |-> 10, shadow_recent |-> 20]
Known(v) ==
         {"alignment", "cost_efficiency", "rr_structure", "stop_sanity"}
    \cup {n \in {"spread"} : v.spread # None}
    \cup {n \in {"score_support"} : v.score # 0}
    \cup {n \in {"shadow_recent"} : RowsOf(OfSetup(v.setup)) >= LabelRows}
Part(v, name) ==
    LET sane == ((v.stop - MinStop) * 100) \div (MaxStop - MinStop)
        off  == IF sane > 45 THEN sane - 45 ELSE 45 - sane
    IN CASE name = "alignment" -> v.align
         [] name = "cost_efficiency" -> Unit(100 - (DragOf(v) * 100) \div 60)
         [] name = "rr_structure" -> Unit(((Tp1R - DragOf(v)) * 100) \div 150)
         [] name = "stop_sanity" -> Unit(100 - (off * 100) \div 55)
         [] name = "spread" -> SpreadPart(v)
         [] name = "score_support" -> Unit((v.score - 4000) \div 40)
         [] name = "shadow_recent" -> Unit(AvgR(OfSetup(v.setup)) + 50)
Grade(v) ==
    LET weighted == SumFunctionOnSet([n \in Known(v) |-> Part(v, n) * Weight[n]], Known(v))
        weights  == SumFunctionOnSet(Weight, Known(v))
    IN CASE weighted >= 72 * weights -> 1
         [] weighted < 72 * weights /\ weighted >= 58 * weights -> 2
         [] weighted < 58 * weights /\ weighted >= 42 * weights -> 3
         [] OTHER -> 4

(***************************************************************************)
(* Steps.                                                                  *)
(***************************************************************************)
Init ==
    /\ rows = [e \in 1 .. 2 |-> [k \in RowKinds |-> 0]] /\ epoch = 1
    /\ coins = [x \in {s.symbol : s \in Signals} |-> [n |-> 0, r |-> 0]]
    /\ apply \in BOOLEAN
    /\ view = None

AllRows == SumFunctionOnSet(rows[1], RowKinds) + SumFunctionOnSet(rows[2], RowKinds)
Resolve ==
    /\ AllRows < MaxRows
    /\ \E k \in RowKinds : rows' = [rows EXCEPT ![epoch][k] = @ + 1]
    /\ view' = None /\ UNCHANGED <<epoch, coins, apply>>
\* reset_for_new_epoch keeps the rows, and the coin profiles
NewEpoch ==
    /\ epoch = 1 /\ epoch' = 2
    /\ view' = None /\ UNCHANGED <<rows, coins, apply>>
\* CoinLibrary.on_trade_closed
CoinClosed ==
    \E x \in DOMAIN coins, r \in CoinRs :
       /\ coins[x].n < MaxClosed
       /\ coins' = [coins EXCEPT ![x] = [n |-> @.n + 1, r |-> @.r + r]]
       /\ view' = None /\ UNCHANGED <<rows, epoch, apply>>
\* the next candidate is labelled
Look ==
    /\ AllRows <= GradedRows
    /\ view' \in Views
    /\ UNCHANGED <<rows, epoch, coins, apply>>

Next == Resolve \/ NewEpoch \/ CoinClosed \/ Look
Spec == Init /\ [][Next]_vars

(***************************************************************************)
(* Evidence, counted from the rows themselves.                             *)
(***************************************************************************)
Rows(kinds) == SumFunctionOnSet(rows[epoch], kinds)
Sum(kinds) == SumFunctionOnSet([k \in kinds |-> rows[epoch][k] * k.r], kinds)
Wins(kinds) == Rows({k \in kinds : k.win})
\* The share of wins is compared as it is reported, to a thousandth.
Ahead(a, b) ==
    \/ Sum(a) * Rows(b) > Sum(b) * Rows(a)
    \/ (Wins(a) * 1000 + Rows(a)) * Rows(b) > (Wins(b) * 1000) * Rows(a)

\* allocation.py:8-19: of two candidates of a setup the one ranked first has, in this
\* epoch, the better record in its bucket, in R or (up to the rounding of a thousandth)
\* in wins; and until there are enough rows the score orders nothing.
EdgeDecides ==
    \A s, t \in Signals :
       LET a == OfBucket(BucketOf(Score(s)))
           b == OfBucket(BucketOf(Score(t)))
       IN /\ s.setup = t.setup /\ BucketOf(Score(s)) # None /\ BucketOf(Score(t)) # None
          /\ Rows(a) > 0 /\ Rows(b) > 0 /\ Rank("edge", s) > Rank("edge", t)
          => Ahead(a, b) /\ Rows(Tracked) >= RiskRows

\* shadow.py:691-719, risk.py:129-136: a score is raised, or a size, only for a setup,
\* a bucket or a coin that has gained: what was measured in an epoch that is over, or
\* fewer rows than the stage asks for, raise nothing.
NoRewardForLoss ==
    \A s \in Signals :
       /\ Score(s) > Built(s) => \/ Sum(OfSetup(s.setup)) > 0 /\ Rows(RowKinds) >= SoftRows
                                 \/ coins[s.symbol].r > 0 /\ coins[s.symbol].n >= CoinTrades
       /\ RiskOfShadow(s) > 100 => Sum(OfSetup(s.setup)) > 0 /\ Rows(RowKinds) >= RiskRows
       /\ RiskOfScore(s) > 100 => Sum(OfBucket(BucketOf(Score(s)))) > 0

\* quality.py:231-296: a candidate that is better in one thing the label knows of both
\* (closer alignment, a narrower spread, a higher score) and the same in the others is
\* not labelled worse. A thing that becomes known may lower the label.
Better(v, w) ==
    \/ w = [v EXCEPT !.align = w.align] /\ w.align > v.align
    \/ w = [v EXCEPT !.spread = w.spread] /\ None \notin {v.spread, w.spread} /\ w.spread < v.spread
    \/ w = [v EXCEPT !.score = w.score] /\ v.score > 0 /\ w.score > v.score
BetterIsNotWorse ==
    [][None \notin {view, view'} /\ Better(view, view') => Grade(view') <= Grade(view)]_view
================================================================================
