---------------------------- MODULE MCTradeLifecycle ----------------------------
EXTENDS Ladder

Bar(a, f, c) == [adv |-> a, fav |-> f, close |-> c]

\* Entry 3, stop 1, break-even 4, targets 5, 6 and 7: a bar that does nothing, one
\* through the stop, ones to each target, one that spans everything, and retreats
\* to break-even and to the first target.
MCBars == {Bar(2, 4, 3), Bar(0, 2, 0), Bar(3, 5, 5), Bar(5, 6, 6), Bar(6, 9, 8),
           Bar(0, 9, 4), Bar(2, 6, 2)}

Ladder == [sl |-> 1, entry |-> 3, be |-> 4, tp |-> <<5, 6, 7>>, frac |-> <<2, 1, 1>>,
           moveBE |-> TRUE, trail |-> 1, timeStop |-> 0, chan |-> 0, cross |-> FALSE]
NoBreakEven == [Ladder EXCEPT !.moveBE = FALSE]
Runner  == [Ladder EXCEPT !.frac = <<1, 1, 1>>]
TimeCut == [Ladder EXCEPT !.tp = <<20, 20, 20>>, !.frac = <<4, 0, 0>>, !.timeStop = 2]
Channel == [TimeCut EXCEPT !.timeStop = 0, !.chan = 2]
Cross   == [TimeCut EXCEPT !.timeStop = 0, !.cross = TRUE]

AllPlans == {Ladder, NoBreakEven, Runner, TimeCut, Channel, Cross}

MCHistories == {<<Bar(2, 4, 3), Bar(2, 4, 3), Bar(2, 4, 3)>>,
                <<Bar(2, 4, 3), Bar(2, 4, 3), Bar(3, 5, 5)>>}
================================================================================
