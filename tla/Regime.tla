--------------------------------- MODULE Regime ---------------------------------
(***************************************************************************)
(* The market regime and what sizing makes of it: the ensemble of regime.py*)
(* with its hysteresis, the engine's refresh of it (engine.py,             *)
(* _evaluate_regime), the strategy x regime matrix, the correlation        *)
(* controller and the tightened slots of portfolio.py, and the candidates  *)
(* pass 2 sizes with them.                                                 *)
(*                                                                         *)
(* Scores, weights and correlations are in hundredths, confidence too.     *)
(* The indicators (ADX, band width, averages, Pearson) are inputs: a       *)
(* reading says what they came to, None where there was no value.          *)
(***************************************************************************)
EXTENDS Integers, Sequences, FiniteSets, Functions

CONSTANTS
    Symbols,      \* of the universe sample, as a sequence in its order
    Readings,     \* what the closed bars say: see the dimensions below
    Legs,         \* setup types; Prior and Cells say what is known of them
    Prior,        \* [leg -> Sharpe], hundredths: the global prior
    Cells,        \* [leg -> [label -> [n, sharpe]]]
    MatrixMinN,   \* regime_matrix_min_n
    Strength,     \* edge_weight_strength
    Dims,         \* regime_dims
    Confirm,      \* regime_confirm_bars
    ConfMin,      \* regime_conf_min
    PersistBars,  \* regime_conf_persist_bars; the bound of persistence too
    Penalty,      \* corr_penalty
    MaxOpen,      \* max_open_trades
    Traded,       \* symbols that signal
    Sides,
    Availability, \* share of six candidates a cycle finds, in hundredths
    Refresh,      \* cycles between two evaluations (regime_refresh_sec)
    None

VARIABLES
    reading,   \* what the market shows now
    regime,    \* RegimeState of the engine, or None before the first
    age,       \* cycles since the last attempt
    raws,      \* history: raw labels since the start, at most Confirm + 1
    view,      \* live clusters: [symbol -> representative], or None
    held,      \* open trades: [symbol, side], of equal notional
    snapshot,  \* the open trades as pass 2 reads them before its first candidate
    slots      \* slot cap of the cycle, or None between cycles

rvars == <<reading, regime, age, raws, view, held, snapshot, slots>>

Labels == {"STRONG_TREND", "WEAK_TREND", "CHOP", "VOL_EXPANSION", "VOL_COMPRESSION",
           "PANIC", "TREND_WITH_CORR_RISK", "UNCERTAIN"}
Clamped(x, lo, hi) == IF x < lo THEN lo ELSE IF x > hi THEN hi ELSE x
Mean(v, S) == SumFunctionOnSet(v, S) \div Cardinality(S)
Known(s) == {i \in DOMAIN s : s[i] # None}

(***************************************************************************)
(* The dimensions: a score, or None without the data.                      *)
(***************************************************************************)
Trend(r) == IF r.bars < 30 \/ r.adx = None THEN None
            ELSE Clamped(((r.adx - 20) * 100) \div 20, 0, 100)
Vol(r) == IF r.bars < 40 \/ Known(r.widths) = {} THEN None ELSE Mean(r.widths, Known(r.widths))
Breadth(r) == IF r.total < 3 THEN None ELSE (r.ups * 100) \div r.total

\* The pairs of symbols that both have a window of returns, and how each moves together.
Pairs(r) == {p \in SUBSET r.series : Cardinality(p) = 2}
Pearson(r, p) == IF p \in r.linked THEN r.high ELSE r.low
Corr(r) == IF Cardinality(r.series) < 3 THEN None
           ELSE Clamped(Mean([p \in Pairs(r) |-> Pearson(r, p)], Pairs(r)), 0, 100)
Liq(r) == IF Known(r.depths) = {} THEN None ELSE Mean(r.depths, Known(r.depths))

Score(r, d) == CASE d = "trend"   -> Trend(r)
                 [] d = "vol"     -> Vol(r)
                 [] d = "breadth" -> Breadth(r)
                 [] d = "corr"    -> Corr(r)
                 [] d = "liq"     -> Liq(r)
ScoresOf(r) == [d \in {d \in Dims : Score(r, d) # None} |-> Score(r, d)]
SubScores == [r \in Readings |-> ScoresOf(r)]
Get(sub, d, default) == IF d \in DOMAIN sub THEN sub[d] ELSE default

\* The rule table: the first row that applies.
RawLabel(sub) ==
    LET trend == Get(sub, "trend", 0)
        vol == Get(sub, "vol", 50)
        breadth == Get(sub, "breadth", 50)
        corr == Get(sub, "corr", 50)
    IN  IF vol >= 90 /\ breadth <= 20 /\ corr >= 80 THEN "PANIC"
        ELSE IF trend >= 66 /\ corr >= 75 THEN "TREND_WITH_CORR_RISK"
        ELSE IF trend >= 66 /\ breadth >= 50 THEN "STRONG_TREND"
        ELSE IF trend >= 33 THEN "WEAK_TREND"
        ELSE IF vol >= 80 THEN "VOL_EXPANSION"
        ELSE IF vol <= 20 THEN "VOL_COMPRESSION"
        ELSE "CHOP"

(***************************************************************************)
(* Hysteresis, confidence and transition risk.                             *)
(***************************************************************************)
Longer(persist) == IF persist < PersistBars THEN persist + 1 ELSE persist

AnyCandidate(raw, prev) == prev.count + 1                                       \* mutant
Seen(raw, prev) == IF prev.pending = raw THEN prev.count + 1 ELSE 1

Adopted(label) == [label |-> label, persist |-> 1, pending |-> None, count |-> 0]
Hysteresis(raw, prev) ==
    IF prev = None THEN Adopted(raw)
    ELSE IF raw = prev.label
         THEN [label |-> raw, persist |-> Longer(prev.persist), pending |-> None, count |-> 0]
    ELSE IF raw = "PANIC" \/ Seen(raw, prev) >= Confirm THEN Adopted(raw)
    ELSE [label |-> prev.label, persist |-> Longer(prev.persist), pending |-> raw,
          count |-> Seen(raw, prev)]

Persistence(persist) == Clamped((100 * persist) \div PersistBars, 0, 100)
Confidence(sub, persist) ==
    IF DOMAIN sub = {} THEN 0
    ELSE ((50 + (50 * Cardinality(DOMAIN sub)) \div Cardinality(Dims))
             * (50 + Persistence(persist) \div 2)) \div 100

TransitionRisk(sub, prev, persist) ==
    LET now == Get(sub, "trend", 0)
        before == IF prev = None THEN now ELSE Get(prev.sub, "trend", now)
    IN  Clamped((35 * (IF now > before THEN now - before ELSE before - now)
                    + 30 * Get(sub, "vol", 0) + 20 * (100 - Persistence(persist))
                    + 15 * Get(sub, "corr", 0)) \div 100, 0, 100)

\* RegimeEnsemble.evaluate.
Raw(r) == IF Trend(r) = None THEN "UNCERTAIN" ELSE RawLabel(SubScores[r])
Evaluated(r, prev) ==
    LET sub == SubScores[r]
        h == Hysteresis(Raw(r), prev)
        conf == Confidence(sub, h.persist)
        unsure == Trend(r) = None \/ (conf < ConfMin /\ h.label # "PANIC")
    IN  [label |-> IF unsure THEN "UNCERTAIN" ELSE h.label,
         conf |-> conf, sub |-> sub, persist |-> h.persist,
         trans |-> TransitionRisk(sub, prev, h.persist), ok |-> Trend(r) # None,
         pending |-> h.pending, count |-> h.count]

(***************************************************************************)
(* Live clusters: the union-find over the correlated pairs, as what its    *)
(* find returns for each symbol.                                           *)
(***************************************************************************)
Links(r) == {p \in Pairs(r) : Pearson(r, p) >= 70}

LinkMember(root, x, y) == [root EXCEPT ![x] = root[y]]                           \* mutant
Union(root, x, y) == [s \in DOMAIN root |-> IF root[s] = root[x] THEN root[y] ELSE root[s]]

Joined(r, root, i, j) ==
    IF i < j /\ {Symbols[i], Symbols[j]} \in Links(r)
    THEN Union(root, Symbols[i], Symbols[j])
    ELSE root

\* The two loops over the symbols, the inner one the faster.
Outer(k) == 1 + ((k - 1) \div Len(Symbols))
Inner(k) == 1 + ((k - 1) % Len(Symbols))
Roots(r) ==
    LET root[k \in 0 .. Len(Symbols) * Len(Symbols)] ==
            IF k = 0 THEN [s \in r.series |-> s]
            ELSE Joined(r, root[k - 1], Outer(k), Inner(k))
    IN  root[Len(Symbols) * Len(Symbols)]
ClustersOf(r) == IF Cardinality(r.series) < 2 THEN None ELSE Roots(r)
Clusters == [r \in Readings |-> ClustersOf(r)]

(***************************************************************************)
(* What the regime does to sizes and slots.                                *)
(***************************************************************************)
CellOnly(leg, label) == LET c == Cells[leg][label]                                \* mutant
                        IN  (c.n * c.sharpe) \div (c.n + MatrixMinN)
\* The shrunk Sharpe of a cell, and the weight between the weakest and strongest leg.
Shrunk(leg, label) ==
    LET c == Cells[leg][label]
    IN  IF c.n <= 0 THEN Prior[leg]
        ELSE (c.n * c.sharpe + MatrixMinN * Prior[leg]) \div (c.n + MatrixMinN)
Weakest == CHOOSE x \in Range(Prior) : \A y \in Range(Prior) : x <= y
Strongest == CHOOSE x \in Range(Prior) : \A y \in Range(Prior) : x >= y
Tilted(sharpe) ==
    IF Strongest = Weakest THEN 0
    ELSE (Strength * (2 * (sharpe - Weakest) - (Strongest - Weakest))) \div (Strongest - Weakest)
EdgeWeight(leg) ==
    IF regime # None /\ regime.ok
    THEN 100 + (regime.conf * Tilted(Shrunk(leg, regime.label))) \div 100
    ELSE 100 + Tilted(Prior[leg])

OneBet(s, t) == s = t \/ (s \in DOMAIN view /\ t \in DOMAIN view /\ view[s] = view[t])
SameBet(s, side) == {t \in snapshot : OneBet(s, t.symbol) /\ t.side = side}
\* m_correlation against the snapshot: the engine leaves it out without a live view.
CorrFactor(s, side) ==
    IF view = None \/ snapshot = {} THEN 100
    ELSE LET total == Cardinality(snapshot)
         IN  Clamped((100 * total - Penalty * Cardinality(SameBet(s, side))) \div total, 50, 100)

Favour == [STRONG_TREND |-> 100, VOL_EXPANSION |-> 85, WEAK_TREND |-> 70,
           TREND_WITH_CORR_RISK |-> 65, VOL_COMPRESSION |-> 45, CHOP |-> 40,
           UNCERTAIN |-> 30, PANIC |-> 15]
SlotShare == [STRONG_TREND |-> 100, VOL_EXPANSION |-> 85, WEAK_TREND |-> 75,
              TREND_WITH_CORR_RISK |-> 66, VOL_COMPRESSION |-> 50, CHOP |-> 50,
              UNCERTAIN |-> 34, PANIC |-> 25]
Suited(vol) == Clamped(100 - 2 * (IF vol > 50 THEN vol - 50 ELSE 50 - vol), 0, 100)
Opportunity(availability) ==
    LET sub == regime.sub
        base == 30 * Favour[regime.label] + 20 * regime.conf
                    + 15 * Get(sub, "breadth", 50) + 15 * Get(sub, "liq", 50)
                    + 10 * Suited(Get(sub, "vol", 50)) + 10 * availability
        penalty == 15 * Get(sub, "corr", 0) + 15 * regime.trans
    IN  Clamped((2 * base - penalty) \div 200, 0, 100)

Rounded(n, d) == LET q == n \div d
                     r == n % d
                 IN  IF 2 * r < d THEN q ELSE IF 2 * r > d THEN q + 1 ELSE q + (q % 2)
PlanSlots(availability) ==
    IF regime = None \/ ~regime.ok THEN MaxOpen
    ELSE LET share == SlotShare[regime.label] * (50 + Opportunity(availability) \div 2)
         IN  Clamped(Rounded(MaxOpen * share, 10000), 1, MaxOpen)

(***************************************************************************)
(* The cycle.                                                              *)
(***************************************************************************)
Recent(s, x) == LET t == Append(s, x)
                IN  IF Len(t) > Confirm + 1 THEN Tail(t) ELSE t

Due == slots = None /\ age >= Refresh
Evaluate ==
    /\ Due
    /\ regime' = Evaluated(reading, regime)
    /\ view' = Clusters[reading]
    /\ raws' = Recent(raws, Raw(reading))
    /\ age' = 0
    /\ UNCHANGED <<reading, held, snapshot, slots>>

\* An error keeps the last state; the next attempt waits a full refresh all the same.
EvaluateFails ==
    /\ Due
    /\ age' = 0
    /\ UNCHANGED <<reading, regime, raws, view, held, snapshot, slots>>

\* Between the passes: the plan and the snapshot of the open trades.
BeginPass2(availability) ==
    /\ slots = None /\ age < Refresh
    /\ slots' = PlanSlots(availability)
    /\ snapshot' = held
    /\ UNCHANGED <<reading, regime, age, raws, view, held>>

Take(s, side) ==
    /\ slots # None
    /\ Cardinality(held) < slots
    /\ s \notin {t.symbol : t \in held}
    /\ held' = held \cup {[symbol |-> s, side |-> side]}
    /\ UNCHANGED <<reading, regime, age, raws, view, snapshot, slots>>

EndCycle ==
    /\ slots # None
    /\ slots' = None /\ snapshot' = {}
    /\ age' = age + 1
    /\ UNCHANGED <<reading, regime, raws, view, held>>

CloseTrade(t) ==
    /\ t \in held
    /\ held' = held \ {t}
    /\ UNCHANGED <<reading, regime, age, raws, view, snapshot, slots>>

Shift(r) ==
    /\ r # reading
    /\ reading' = r
    /\ UNCHANGED <<regime, age, raws, view, held, snapshot, slots>>

\* The regime is in memory only.
Restart ==
    /\ regime' = None /\ view' = None /\ age' = Refresh /\ raws' = <<>>
    /\ slots' = None /\ snapshot' = {}
    /\ UNCHANGED <<reading, held>>

Init ==
    /\ reading \in Readings
    /\ regime = None /\ view = None /\ age = Refresh /\ raws = <<>>
    /\ held = {} /\ snapshot = {} /\ slots = None

Next ==
    \/ Evaluate \/ EvaluateFails \/ EndCycle \/ Restart
    \/ \E a \in Availability : BeginPass2(a)
    \/ \E s \in Traded, side \in Sides : Take(s, side)
    \/ \E t \in held : CloseTrade(t)
    \/ \E r \in Readings : Shift(r)

Spec == Init /\ [][Next]_rvars

(***************************************************************************)
(* Properties.                                                             *)
(***************************************************************************)
\* The state stays within its types.
TypeOK ==
    /\ reading \in Readings
    /\ regime # None => /\ regime.label \in Labels /\ regime.conf \in 0 .. 100
                        /\ regime.persist \in 1 .. PersistBars /\ regime.count < Confirm
    /\ slots # None => slots \in 1 .. MaxOpen

\* A leg the matrix has not measured never gets a weight beyond its static one: the
\* regime read only pulls it toward neutral, whatever its confidence
\* (regime_matrix.py: "n = 0 -> prior exactly").
UnmeasuredSoftens ==
    \A leg \in Legs :
        (regime # None /\ Cells[leg][regime.label].n = 0) =>
            \/ EdgeWeight(leg) \in 100 .. 100 + Tilted(Prior[leg])
            \/ EdgeWeight(leg) \in 100 + Tilted(Prior[leg]) .. 100

\* The label never changes to one the market has not just shown Confirm times in a
\* row, panic and uncertainty excepted, the first evaluation after a start too: a data
\* gap, a held label or an abandoned candidate never count toward the next one
\* (regime.py: "A different candidate resets the count").
FlipsAreConfirmed ==
    [][(regime # None /\ regime' # None /\ regime'.label # regime.label
            /\ regime'.label \notin {"PANIC", "UNCERTAIN"})
        => /\ Len(raws') >= Confirm
           /\ \A i \in Len(raws') - Confirm + 1 .. Len(raws') : raws'[i] = regime'.label]_rvars

\* A chain of links joins t to s: no set that holds s and no link leaves is without t.
Connected(s, t, links, all) ==
    \A C \in SUBSET all :
        (s \in C /\ \A l \in links : l \cap C # {} => l \subseteq C) => t \in C

\* Two symbols are one bet in the live view exactly when a chain of correlated pairs
\* joins them, in whatever order the pairs were joined.
ClustersAreChains ==
    [][(view' # view /\ view' # None) =>
          \A s, t \in reading.series :
              (view'[s] = view'[t]) <=> Connected(s, t, Links(reading), reading.series)]_rvars

\* A trade that joins an open one of its side and live cluster is sized below what it
\* would get alone, by the share of the book it joins, if that one was open when the
\* cycle was planned and the market was not read again meanwhile (correlation.py:
\* "Treats a set of correlated same-direction positions as ONE market bet").
PileUpShrinks ==
    [][view # None =>
          \A t \in held' \ held :
             (\E o \in held \cap snapshot : OneBet(t.symbol, o.symbol) /\ o.side = t.side)
                => CorrFactor(t.symbol, t.side) * MaxOpen <= 100 * MaxOpen - Penalty]_rvars
================================================================================
