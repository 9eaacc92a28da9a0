--------------------------------- MODULE Ladder ---------------------------------
(***************************************************************************)
(* The offline replay of a shadow row's whole ladder (shadow.py,           *)
(* ladder_replay): the second implementation of the exits that the paper   *)
(* executor plays.  It is a fold over the closed bars after the signal's;  *)
(* prices are measured in the direction of the trade and its cost, which   *)
(* is taken off once at the end, is left out, as in TradeLifecycle.  A     *)
(* missing ATR and a row whose stop is at its entry are left out as well.  *)
(***************************************************************************)
EXTENDS TradeLifecycle

Runs(p) == Whole - (p.frac[1] + p.frac[2] + p.frac[3])

NewReplay(p) == [rem |-> Whole, gross |-> 0, hits |-> 0, be |-> FALSE, trailing |-> FALSE,
                 stop |-> p.sl, outcome |-> "EXPIRED"]

\* The loop has left the row: a stop, or nothing remains.
Done(l) == l.outcome # "EXPIRED"

Ratcheted(p, l, b) == [l EXCEPT !.stop = IF l.trailing THEN Highest({@, b.close - p.trail}) ELSE @]

StoppedOut(p, l) ==
    [l EXCEPT !.gross = @ + l.rem * (l.stop - p.entry), !.rem = 0,
              !.outcome = IF l.trailing THEN "TRAIL" ELSE IF l.be THEN "BE" ELSE "SL"]

\* What the first and the second rung do to the stop.
MovedOnce(p, l, i) ==                                                      \* mutant
    IF i = 1 /\ p.moveBE THEN [l EXCEPT !.stop = p.be, !.be = TRUE] ELSE l
Moved(p, l, i) ==
    IF i = 1 /\ p.moveBE THEN [l EXCEPT !.stop = p.be, !.be = TRUE]
    ELSE IF i = 2 THEN [l EXCEPT !.stop = Highest({@, p.tp[1]})]
    ELSE l

Rung(p, l, b, i) ==
    IF l.hits # i - 1 \/ b.fav < p.tp[i] THEN l
    ELSE Moved(p, [l EXCEPT !.gross = @ + p.frac[i] * (p.tp[i] - p.entry),
                            !.rem = @ - p.frac[i], !.hits = i,
                            !.trailing = i = 3 /\ Runs(p) > 0], i)

\* The third rung, or any that leaves nothing, ends the row as TP3.
Climbed(p, l, b) ==
    LET u == Rung(p, Rung(p, Rung(p, l, b, 1), b, 2), b, 3)
    IN IF u.rem = 0 THEN [u EXCEPT !.outcome = "TP3"] ELSE u

\* One bar: the trailing stop moves first, and the stop comes before the targets.
Replayed(p, l, b) ==
    IF Done(l) THEN l
    ELSE LET u == Ratcheted(p, l, b)
         IN IF b.adv <= u.stop THEN StoppedOut(p, u) ELSE Climbed(p, u, b)

Replay(p, s) ==
    LET upTo[n \in Entry .. Len(s)] ==
            IF n = Entry THEN NewReplay(p) ELSE Replayed(p, upTo[n - 1], s[n])
    IN upTo[Len(s)]

\* What a row is worth: what remains is closed at the last close.
WorthOf(p, l, s) == l.gross + l.rem * (s[Len(s)].close - p.entry)

--------------------------------------------------------------------------------
\* shadow.py:254-262: the replay "simulates the actual engine exit logic".  For a plan
\* without the exits it does not know (time stop, channel, cross), it has at every bar
\* closed the row where the backtest closed the trade, for the same reason and the
\* same result, and an open row is worth what the open trade is worth.
ReplayMirrors ==
    plan.timeStop = 0 /\ plan.chan = 0 /\ ~plan.cross =>
       LET l == Replay(plan, bars)
       IN /\ Done(l) <=> sim.st = "CLOSED"
          /\ WorthOf(plan, l, bars) = sim.pnl + sim.rem * (bars[Len(bars)].close - plan.entry)
          /\ sim.reason \in {"SL", "BE", "TRAIL"} => l.outcome = sim.reason
================================================================================
