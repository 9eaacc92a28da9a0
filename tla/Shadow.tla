--------------------------------- MODULE Shadow ---------------------------------
(***************************************************************************)
(* The shadow learner (shadow.py) as the engine drives it: what a cycle    *)
(* tracks of its candidates (engine.py), the table that keeps one row per  *)
(* signalled bar (storage.py), and the resolution of the rows bar by bar,  *)
(* with the A/B log and the advice drawn from the resolved rows.           *)
(*                                                                         *)
(* One symbol. Base bar b covers the time from b to b + 1; a leg of        *)
(* timeframe k closes a bar of its own every k base bars. A bar says which *)
(* of a leg's two prices it touched. R is in tenths.                       *)
(***************************************************************************)
EXTENDS Integers, Sequences, FiniteSets, FiniteSetsExt

CONSTANTS
    Legs,
    Frame,      \* [Legs -> base bars in one bar of the leg]
    Weak,       \* legs whose score is below shadow_min_score
    CostR,      \* round trip cost in R
    RewardR,    \* R at the first target
    Closes,     \* R of the close at which a row expires
    MaxBars,    \* shadow_max_bars
    SoftStage,  \* resolved rows before score_delta speaks
    RiskStage,  \* resolved rows before risk_multiplier speaks
    Epochs,     \* labels of the epochs: 1 .. n
    None,
    Touches,    \* what a bar can touch: sets of "stop" and "tp"
    MaxClock,   \* bound: base bars
    MaxRows     \* bound: rows

VARIABLES
    clock,     \* base bars closed
    bar,       \* what the newest of them touched: [Legs -> Touches]
    rows,      \* the table: <<leg, signal_bar_ts>> -> row
    trade,     \* the open trade: <<leg, its own signal bar>>, or None
    traded,    \* trades opened so far: set of those pairs
    todo,      \* keys the running update has not reached, or None outside it
    writing,   \* key whose outcome is stored and whose A/B entry is not, or None
    ab,        \* A/B log: [key -> entries]
    epoch      \* current label

svars == <<clock, bar, rows, trade, traded, todo, writing, ab, epoch>>

Newest == clock - 1
\* Open time of the newest closed bar of a leg.
SignalBar(leg) == (clock \div Frame[leg] - 1) * Frame[leg]
CanSignal == {leg \in Legs : clock >= Frame[leg]}

(***************************************************************************)
(* Tracking: one cycle's candidates.                                       *)
(***************************************************************************)
FloorForAll(leg, source) == leg \notin Weak                                      \* mutant
Admitted(leg, source) == source = "paper" \/ leg \notin Weak

\* INSERT OR IGNORE, for each of some legs: the first row of a signalled bar stays.
Insert(table, some, key, source, reason) ==
    LET new == {<<leg, key>> : leg \in {l \in some : Admitted(l, source)}} \ DOMAIN table
    IN  [k \in DOMAIN table \cup new |->
           IF k \in new
           THEN [own |-> SignalBar(k[1]), source |-> source, reason |-> reason,
                 outcome |-> "OPEN", r |-> 0, bars |-> 0, last |-> key, epoch |-> epoch]
           ELSE table[k]]

\* The others of the cycle are tracked under the signal bar of the chosen one.
WithOthers(table, others, key) == Insert(table, others, key, "rejected", "not_selected")

\* A row of this cycle's decision is stamped with the slot it lost; an older one is not.
Stamped(before, after, leg, key) ==
    IF <<leg, key>> \in DOMAIN before THEN after
    ELSE [after EXCEPT ![<<leg, key>>].reason = "max_open_trades"]

Between == todo = None /\ writing = None
Source(verdict) == IF verdict = "rejected" THEN "rejected" ELSE "paper"
Reason(verdict) == IF verdict = "rejected" THEN "risk" ELSE None

\* `verdict`: rejected by decide(), opened, without a slot, or refused for another cap.
Track(leg, others, verdict) ==
    /\ Between /\ leg \in CanSignal /\ others \subseteq CanSignal \ {leg}
    /\ verdict = "opened" => trade = None
    /\ LET key == SignalBar(leg)
           table == WithOthers(Insert(rows, {leg}, key, Source(verdict), Reason(verdict)),
                               others, key)
       IN  rows' = IF verdict = "no_slot" THEN Stamped(rows, table, leg, key) ELSE table
    /\ Cardinality(DOMAIN rows') <= MaxRows
    /\ IF verdict = "opened"
       THEN trade' = <<leg, SignalBar(leg)>> /\ traded' = traded \cup {<<leg, SignalBar(leg)>>}
       ELSE UNCHANGED <<trade, traded>>
    /\ UNCHANGED <<clock, bar, todo, writing, ab, epoch>>

CloseTrade ==
    /\ trade # None
    /\ trade' = None
    /\ UNCHANGED <<clock, bar, rows, traded, todo, writing, ab, epoch>>

(***************************************************************************)
(* Advice from the resolved rows of the epoch.                             *)
(***************************************************************************)
Resolved(table) == {k \in DOMAIN table : table[k].outcome # "OPEN" /\ table[k].epoch = epoch}
OfLeg(table, leg) == {k \in Resolved(table) : k[1] = leg}
SumR(table, leg) == MapThenSumSet(LAMBDA k : table[k].r, OfLeg(table, leg))
Bounded(x, lo, hi) == IF x < lo THEN lo ELSE IF x > hi THEN hi ELSE x

\* In tenths of a point, and in hundredths.
ScoreDelta(table, leg) ==
    IF Cardinality(Resolved(table)) < SoftStage \/ OfLeg(table, leg) = {} THEN 0
    ELSE Bounded((SumR(table, leg) * 5) \div Cardinality(OfLeg(table, leg)), -50, 50)
RiskMultiplier(table, leg) ==
    IF Cardinality(Resolved(table)) < RiskStage \/ OfLeg(table, leg) = {} THEN 100
    ELSE Bounded(100 + (SumR(table, leg) * 3) \div Cardinality(OfLeg(table, leg)), 70, 130)

(***************************************************************************)
(* Resolution.                                                             *)
(***************************************************************************)
EveryRow == DOMAIN rows                                                          \* mutant
OpenRows == {k \in DOMAIN rows : rows[k].outcome = "OPEN"}

\* An update goes over the rows that are open when it begins.
BeginUpdate ==
    /\ Between /\ clock > 0
    /\ todo' = OpenRows
    /\ UNCHANGED <<clock, bar, rows, trade, traded, writing, ab, epoch>>

CountsSameBar(k) == Newest >= k[2] /\ Newest >= rows[k].last                     \* mutant
\* A closed bar counts once, and only after the signal's.
Counts(k) == Newest > k[2] /\ Newest > rows[k].last

\* The stop is checked first; an untouched row expires at the close of its last bar.
Outcome(k) == CASE "stop" \in bar[k[1]] -> "SL"
                [] bar[k[1]] = {"tp"} -> "TP"
                [] bar[k[1]] = {} -> IF rows[k].bars + 1 >= MaxBars THEN "EXPIRED" ELSE "OPEN"
NetR(k, close) == CASE Outcome(k) = "SL" -> -10 - CostR
                    [] Outcome(k) = "TP" -> RewardR - CostR
                    [] Outcome(k) = "EXPIRED" -> close - CostR
                    [] OTHER -> 0

Skip(k) ==
    /\ todo # None /\ writing = None /\ k \in todo /\ ~Counts(k)
    /\ todo' = todo \ {k}
    /\ UNCHANGED <<clock, bar, rows, trade, traded, writing, ab, epoch>>

\* The outcome is committed first, its A/B entry after it.
Advance(k) ==
    /\ todo # None /\ writing = None /\ k \in todo /\ Counts(k)
    /\ \E close \in Closes :
          rows' = [rows EXCEPT ![k].outcome = Outcome(k), ![k].bars = @ + 1,
                               ![k].last = Newest, ![k].r = NetR(k, close)]
    /\ todo' = todo \ {k}
    /\ writing' = IF Outcome(k) = "OPEN" THEN None ELSE k
    /\ UNCHANGED <<clock, bar, trade, traded, ab, epoch>>

Entry(k) == [r |-> rows[k].r, multiplier |-> RiskMultiplier(rows, k[1]),
             delta |-> ScoreDelta(rows, k[1])]
LogAdvice ==
    /\ writing # None
    /\ ab' = [k \in DOMAIN ab \cup {writing} |->
                IF k # writing THEN ab[k]
                ELSE (IF k \in DOMAIN ab THEN ab[k] ELSE <<>>) \o <<Entry(k)>>]
    /\ writing' = None
    /\ UNCHANGED <<clock, bar, rows, trade, traded, todo, epoch>>

EndUpdate ==
    /\ todo = {} /\ writing = None
    /\ todo' = None
    /\ UNCHANGED <<clock, bar, rows, trade, traded, writing, ab, epoch>>

Restart ==
    /\ todo # None
    /\ todo' = None /\ writing' = None
    /\ UNCHANGED <<clock, bar, rows, trade, traded, ab, epoch>>

\* The next base bar closes; an update may not have seen the one before it.
Tick ==
    /\ clock < MaxClock /\ Between
    /\ clock' = clock + 1
    /\ bar' \in [Legs -> Touches]
    /\ UNCHANGED <<rows, trade, traded, todo, writing, ab, epoch>>

\* reset_for_new_epoch, with the engine stopped: the trades go, the shadow rows stay.
NewEpoch ==
    /\ epoch + 1 \in Epochs /\ Between
    /\ epoch' = epoch + 1 /\ trade' = None /\ traded' = {}
    /\ UNCHANGED <<clock, bar, rows, todo, writing, ab>>

Init ==
    /\ clock = 0 /\ bar = [leg \in Legs |-> {}]
    /\ rows = <<>> /\ trade = None /\ traded = {}
    /\ todo = None /\ writing = None /\ ab = <<>> /\ epoch = 1

Next ==
    \/ \E leg \in Legs, others \in SUBSET Legs,
          verdict \in {"rejected", "opened", "no_slot", "refused"} : Track(leg, others, verdict)
    \/ \E k \in DOMAIN rows : Skip(k) \/ Advance(k)
    \/ BeginUpdate \/ LogAdvice \/ EndUpdate \/ CloseTrade \/ Restart \/ Tick \/ NewEpoch

Spec == Init /\ [][Next]_svars

(***************************************************************************)
(* Properties.                                                             *)
(***************************************************************************)
\* What shadow.py says of every row, "never on/before the signal's own bar (no lookahead)":
\* it moves on base bars only that opened after its own signal bar had closed.  Violated by
\* a leg slower than the base timeframe: update() reads base bars, and those within the slow
\* bar open after it did.
OnlyLaterBars ==
    [][\A k \in DOMAIN rows : rows'[k].bars # rows[k].bars =>
          Newest >= rows[k].own + Frame[k[1]]]_svars

\* What holds: a row moves once on a base bar and never more often than bars went by since
\* the one it is keyed by, and a row of a leg of the base timeframe tracked under its own
\* bar never moves on that bar or on one before it.
NoLookahead ==
    [][\A k \in DOMAIN rows : rows'[k].bars # rows[k].bars =>
          /\ rows[k].own = k[2] /\ Frame[k[1]] = 1 => Newest >= rows[k].own + 1
          /\ rows[k].last < Newest
          /\ rows'[k].bars <= Newest - k[2]]_svars

\* The A/B log has no entry for an open row and no second one for any, whatever update
\* a restart interrupts: an episode is never counted twice.
LoggedAtMostOnce ==
    \A k \in DOMAIN ab : rows[k].outcome # "OPEN" /\ Len(ab[k]) = 1 /\ ab[k][1].r = rows[k].r

\* Every signal that was traded has its row, also one whose score is below the floor, or
\* whose bar another cycle had tracked before (shadow.py: "executed signals are always
\* tracked regardless of shadow_min_score").
ExecutedTracked == traded \subseteq DOMAIN rows

\* The advice stays neutral until enough rows of this very epoch are resolved.
AdviceIsEarned ==
    \A leg \in Legs :
        (RiskMultiplier(rows, leg) # 100 \/ ScoreDelta(rows, leg) # 0) =>
            Cardinality({k \in DOMAIN rows : /\ rows[k].outcome # "OPEN"
                                             /\ rows[k].epoch = epoch}) >= SoftStage

================================================================================
