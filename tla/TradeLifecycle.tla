----------------------------- MODULE TradeLifecycle -----------------------------
(***************************************************************************)
(* The life of one trade: simulate_fill (executors.py), driven bar by bar  *)
(* by the backtest and cycle by cycle by the engine, which reads the row,  *)
(* repairs its exit state once, advances it on the last closed bar and     *)
(* writes it back.                                                         *)
(*                                                                         *)
(* Prices are measured in the direction of the trade, so a SHORT is the    *)
(* mirror of a LONG: a bar is its extreme against the trade (adv), its     *)
(* extreme in its favour (fav) and its close.  A bar's timestamp is its    *)
(* place in bars.  Costs, which only scale the result, are left out.       *)
(***************************************************************************)
EXTENDS Integers, Sequences, SequencesExt, FiniteSetsExt

CONSTANTS
    Bars,       \* bars the market may print
    Histories,  \* bars up to and including the entry bar
    Entry,      \* number of the entry bar
    Plans,      \* trade plans: what the decision and the Config fix for a trade
    Whole,      \* the original position
    Fast, Slow, \* windows of tenkan and kijun (9 and 26)
    MaxBars     \* bound: bars after entry

Plan(p) ==
    /\ p.sl < p.entry /\ p.entry <= p.be /\ p.be <= p.tp[1]
    /\ p.tp[1] <= p.tp[2] /\ p.tp[2] <= p.tp[3]
    /\ p.frac[1] + p.frac[2] + p.frac[3] <= Whole

\* normalize_stop puts the stop below the entry, _build_targets orders the targets,
\* and Config.validate makes the fractions and the runner add up to the whole; the
\* stop distance floor keeps the cost-adjusted break-even below the first target.
ASSUME LifecycleAssumption ==
    /\ Whole \in Nat \ {0}
    /\ Entry \in Nat \ {0}
    /\ MaxBars \in Nat
    /\ Bars \subseteq [adv : Int, fav : Int, close : Int]
    /\ \A b \in Bars : b.adv <= b.close /\ b.close <= b.fav
    /\ Histories \subseteq {h \in Seq(Bars) : Len(h) = Entry}
    /\ Plans \subseteq [sl : Int, entry : Int, be : Int, tp : [1 .. 3 -> Int],
                        frac : [1 .. 3 -> Nat], moveBE : BOOLEAN, trail : Nat,
                        timeStop : Nat, chan : Nat, cross : BOOLEAN]
    /\ \A p \in Plans : Plan(p)

ASSUME WindowAssumption == Fast \in Nat \ {0} /\ Slow \in Nat /\ Fast <= Slow

VARIABLES
    plan,      \* the plan of the trade
    bars,      \* all closed bars so far
    sim,       \* the trade in the backtest
    row,       \* the trade in the database
    seen,      \* the last bar the engine managed the row on
    repaired,  \* metadata flag exit_state_repaired
    skipped,   \* the engine missed a bar while the row was open
    forced     \* the engine force-closed the row

vars == <<plan, bars, sim, row, seen, repaired, skipped, forced>>

WithRunner == {p \in Plans : p.frac[1] + p.frac[2] + p.frac[3] < Whole}

\* The newest n elements (all of a shorter sequence).
Newest(s, n) == IF Len(s) <= n THEN s ELSE SubSeq(s, Len(s) - n + 1, Len(s))

Lowest(S) == Min(S)
Highest(S) == Max(S)

--------------------------------------------------------------------------------
(* simulate_fill.                                                          *)

\* build_trade: the entry bar counts as processed and seeds the TK-cross window.
NewTrade(p, h) ==
    [st |-> "OPEN", rem |-> Whole, stop |-> p.sl, hits |-> 0, be |-> FALSE,
     trailing |-> FALSE, held |-> 0, last |-> Entry, chan |-> <<>>,
     window |-> IF p.cross THEN Newest(h, Slow) ELSE <<>>, pnl |-> 0, reason |-> "none"]

\* _close_fraction.
Take(p, t, price, fraction) ==
    [t EXCEPT !.rem = @ - fraction, !.pnl = @ + fraction * (price - p.entry)]

ClosedKeepingRemainder(p, t, price, reason) ==                             \* mutant
    [t EXCEPT !.st = "CLOSED", !.reason = reason,
              !.pnl = @ + t.rem * (price - p.entry)]
Closed(p, t, price, reason) ==
    [Take(p, t, price, t.rem) EXCEPT !.st = "CLOSED", !.reason = reason]

\* No fill on the entry bar or an earlier one, and one advance per bar.
Fresh(t, n) == t.st = "OPEN" /\ n > Entry /\ n > t.last

Trailed(p, t, b, inputs) ==
    IF t.trailing /\ inputs
    THEN [t EXCEPT !.stop = Highest({@, b.close - p.trail})]
    ELSE t

StopReason(t) == IF t.trailing THEN "TRAIL" ELSE IF t.be THEN "BE" ELSE "SL"

\* What a target that leaves a remainder changes: break-even after the first, the
\* first target's price after the second, trailing after the third.
Secured(p, t, i) ==
    IF i = 1 /\ p.moveBE THEN [t EXCEPT !.stop = p.be, !.be = TRUE]
    ELSE IF i = 2 THEN [t EXCEPT !.stop = Highest({@, p.tp[1]})]
    ELSE IF i = 3 THEN [t EXCEPT !.trailing = TRUE]
    ELSE t

\* Targets are taken in order; the one that leaves nothing closes the trade.
Target(p, t, b, i) ==
    IF t.st = "OPEN" /\ t.hits = i - 1 /\ b.fav >= p.tp[i]
    THEN LET taken == [Take(p, t, p.tp[i], p.frac[i]) EXCEPT !.hits = i] IN
         IF taken.rem = 0
         THEN [taken EXCEPT !.st = "CLOSED", !.reason = "TP"]
         ELSE Secured(p, taken, i)
    ELSE t

TimeExitLate(p, t, b) ==                                                   \* mutant
    IF t.st = "OPEN" /\ p.timeStop > 0 /\ t.held > p.timeStop
    THEN Closed(p, t, b.close, "TIME") ELSE t
TimeExit(p, t, b) ==
    IF t.st = "OPEN" /\ p.timeStop > 0 /\ t.held >= p.timeStop
    THEN Closed(p, t, b.close, "TIME") ELSE t

\* The close breaks the extreme of the p.chan bars before it.
ChannelExit(p, t, b) ==
    IF t.st # "OPEN" \/ p.chan = 0 THEN t
    ELSE LET grown == [t EXCEPT !.chan = Newest(Append(@, b.adv), p.chan)] IN
         IF Len(t.chan) >= p.chan /\ b.close < Lowest(ToSet(t.chan))
         THEN Closed(p, grown, b.close, "CHANNEL")
         ELSE grown

\* Twice the middle of a window of bars.
Middle(w) == Highest({x.fav : x \in ToSet(w)}) + Lowest({x.adv : x \in ToSet(w)})

CrossExit(p, t, b) ==
    IF t.st # "OPEN" \/ ~p.cross THEN t
    ELSE LET grown == [t EXCEPT !.window = Newest(Append(@, b), Slow)] IN
         IF Len(grown.window) >= Slow /\ Middle(Newest(grown.window, Fast)) < Middle(grown.window)
         THEN Closed(p, grown, b.close, "TKCROSS")
         ELSE grown

Counted(t, n) == [t EXCEPT !.last = n, !.held = @ + 1]

Targets(p, t, b) == Target(p, Target(p, Target(p, t, b, 1), b, 2), b, 3)

Exits(p, t, b) == CrossExit(p, ChannelExit(p, TimeExit(p, t, b), b), b)

\* One bar, pessimistically: the stop is checked before everything else.
SimulateFill(p, t, b, n, inputs) ==
    IF ~Fresh(t, n) THEN t
    ELSE LET u == Trailed(p, Counted(t, n), b, inputs) IN
         IF b.adv <= u.stop
         THEN Closed(p, u, u.stop, StopReason(u))
         ELSE Exits(p, Targets(p, u, b), b)

--------------------------------------------------------------------------------
(* The engine.                                                             *)

Between(s, lo, hi) == SubSeq(s, lo + 1, hi)

\* _repair_exit_state, once per trade: rebuild the clock and the windows from the
\* closed bars before the current one, number n.
Repaired(p, t, s, n) ==
    LET held == n - 1 - Entry
        past == Newest(Between(s, Entry, n - 1), p.chan)
        adv  == [i \in 1 .. Len(past) |-> past[i].adv]
    IN [t EXCEPT
          !.held = IF held > @ THEN held ELSE @,
          !.last = IF held > t.held THEN n - 1 ELSE @,
          !.chan = IF p.chan > 0 /\ Len(adv) > Len(@) THEN adv ELSE @,
          !.window = IF p.cross /\ n > 1 THEN Newest(SubSeq(s, 1, n - 1), Slow) ELSE @]

\* An advance without events is persisted as well.
PersistedOnEvents(old, new) ==                                             \* mutant
    IF new.pnl = old.pnl /\ new.hits = old.hits /\ new.st = old.st THEN old ELSE new
Persisted(old, new) == new

Init ==
    /\ plan \in Plans
    /\ bars \in Histories
    /\ sim = NewTrade(plan, bars)
    /\ row = NewTrade(plan, bars)
    /\ seen = Entry - 1
    /\ repaired = FALSE
    /\ skipped = FALSE
    /\ forced = FALSE

\* A bar closes; the backtest advances every open trade on every bar and hands
\* simulate_fill the inputs of the trailing stop.
NewBar(b) ==
    /\ Len(bars) < Entry + MaxBars
    /\ bars' = Append(bars, b)
    /\ sim' = SimulateFill(plan, sim, b, Len(bars'), TRUE)
    /\ skipped' = \/ skipped
                  \/ row.st = "OPEN" /\ seen < Len(bars) /\ Len(bars) > Entry
    /\ UNCHANGED <<plan, row, seen, repaired, forced>>

\* _manage_open_trades on one row: the last closed bar only, no trailing inputs.
Manage ==
    /\ row.st = "OPEN"
    /\ LET n    == Len(bars)
           read == IF repaired THEN row ELSE Repaired(plan, row, bars, n)
       IN row' = Persisted(row, SimulateFill(plan, read, bars[n], n, FALSE))
    /\ seen' = Len(bars)
    /\ repaired' = TRUE
    /\ UNCHANGED <<plan, bars, sim, skipped, forced>>

\* force_close at the last mark: a flatten or a panic.
ForceClose ==
    /\ row.st = "OPEN"
    /\ row' = Closed(plan, row, bars[Len(bars)].close, "FORCED")
    /\ forced' = TRUE
    /\ UNCHANGED <<plan, bars, sim, seen, repaired, skipped>>

Next == (\E b \in Bars : NewBar(b)) \/ Manage \/ ForceClose

Spec == Init /\ [][Next]_vars

--------------------------------------------------------------------------------
(* Properties.                                                             *)

Trade ==
    [st : {"OPEN", "CLOSED"}, rem : 0 .. Whole, stop : Int, hits : 0 .. 3, be : BOOLEAN,
     trailing : BOOLEAN, held : Nat, last : Nat, chan : Seq(Int), window : Seq(Bars),
     pnl : Int, reason : {"none", "SL", "BE", "TRAIL", "TP", "TIME", "CHANNEL", "TKCROSS",
                          "FORCED"}]

\* Both trades hold values a Trade can hold and the bars are bars.
TypeOK ==
    /\ plan \in Plans
    /\ bars \in Seq(Bars) /\ Len(bars) \in Entry .. Entry + MaxBars
    /\ sim \in Trade /\ row \in Trade
    /\ seen \in Entry - 1 .. Len(bars)
    /\ repaired \in BOOLEAN /\ skipped \in BOOLEAN /\ forced \in BOOLEAN

\* The part of the position the taken targets account for.
TakenBy(p, hits) ==
    (IF hits >= 1 THEN p.frac[1] ELSE 0) + (IF hits >= 2 THEN p.frac[2] ELSE 0)
        + (IF hits = 3 THEN p.frac[3] ELSE 0)

ConservedIn(p, t) ==
    /\ t.st = "OPEN" => t.rem = Whole - TakenBy(p, t.hits) /\ t.rem > 0
    /\ t.st = "CLOSED" => t.rem = 0

\* Partial closes account for the whole position: an open trade holds what its
\* targets left, a closed one nothing, whatever exit came on whatever bar.
Conserved == ConservedIn(plan, sim) /\ ConservedIn(plan, row)

\* The stop only moves in the direction of profit.
StopRatchets == [][sim'.stop >= sim.stop /\ row'.stop >= row.stop]_vars

\* A cycle that sees a bar again neither fills nor counts it a second time.
OneAdvancePerBar == [][seen = Len(bars) /\ ~forced' => row' = row]_vars

\* An open trade is younger than its time stop on the bars it was advanced on.
HeldWithinLife ==
    /\ plan.timeStop > 0 /\ sim.st = "OPEN" => sim.held < plan.timeStop
    /\ plan.timeStop > 0 /\ row.st = "OPEN" => row.held < plan.timeStop
    /\ row.held <= Len(bars) - Entry

\* Both: an open trade holds what its targets left and has not outlived its time stop, a
\* closed one holds nothing, on every bar, cycle and repair.
WholeAndOnTime == Conserved /\ HeldWithinLife

Comparable == ~skipped /\ ~forced /\ plan \notin WithRunner /\ ~plan.cross

\* Paper and backtest parity: an engine that missed no bar holds the trade the
\* backtest holds, through restarts, repeated cycles and the repair, unless the
\* trade has a runner or exits on a cross.
Parity == Comparable /\ (row.st = "CLOSED" \/ seen = Len(bars)) => row = sim
================================================================================
