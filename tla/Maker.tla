---------------------------------- MODULE Maker ----------------------------------
(***************************************************************************)
(* The replay of one signal with limit orders against the taker baseline   *)
(* (maker_replay.py): the resting entry, the walk to the exit, and the     *)
(* record each run makes of it.                                            *)
(*                                                                         *)
(* A bar says how far it went against the position (0 not back to the      *)
(* entry, 1 touched it, 2 through it by the buffer, 3 to the stop) and how *)
(* far with it (0 short of the target, 1 touched it, 2 through it by the   *)
(* buffer). The runs have the buffers of their signatures, which are those *)
(* of maker_experiment.py: the taker's target is bought at a touch.        *)
(***************************************************************************)
EXTENDS Integers, Sequences

CONSTANTS
    Bars,       \* kinds of bar: [against, with]
    Ttl,        \* entry_ttl_bars
    TimeStop,   \* time_stop_bars, 0 for none
    None,
    MaxBars     \* bound: bars after the signal

VARIABLES
    path,       \* bars after the signal
    mode,       \* "maker" or "taker": whose walk is running
    at,         \* bars seen by it
    filled,     \* bar the entry filled on (0 the signal's), or None
    result,     \* its record
    taker       \* the taker's record, once it has one

mvars == <<path, mode, at, filled, result, taker>>

Record(reason, bar) == [reason |-> reason, bar |-> bar, fill |-> filled]
NextBar == path[at + 1]
AtEnd == at = Len(path)

\* The taker run comes first: it is in from the signal on, if there is a bar after it.
NoRoom ==
    /\ mode = "taker" /\ result = None /\ path = <<>>
    /\ result' = Record("NONE", 0)
    /\ UNCHANGED <<path, mode, at, filled, taker>>

(***************************************************************************)
(* The resting entry.                                                      *)
(***************************************************************************)
OnTouch == NextBar.against >= 1                                                   \* mutant
Through == NextBar.against >= 2

Resting == mode = "maker" /\ filled = None /\ result = None
Wait ==
    /\ Resting /\ ~AtEnd /\ at < Ttl /\ ~Through
    /\ at' = at + 1
    /\ UNCHANGED <<path, mode, filled, result, taker>>
Fill ==
    /\ Resting /\ ~AtEnd /\ at < Ttl /\ Through
    /\ at' = at + 1 /\ filled' = at + 1
    /\ UNCHANGED <<path, mode, result, taker>>
Expire ==
    /\ Resting /\ (AtEnd \/ at = Ttl)
    /\ result' = Record("UNFILLED", at)
    /\ UNCHANGED <<path, mode, at, filled, taker>>

(***************************************************************************)
(* _simulate_exit: the stop, the target, the time stop, the end.           *)
(***************************************************************************)
Held == at + 1 - filled
\* exit_buffer_bps: 0 by default for the taker, above 0 for the maker.
TouchForMaker == IF mode = "taker" THEN 2 ELSE 1                                  \* mutant
ExitAt == IF mode = "taker" THEN 1 ELSE 2
ReachesTarget(bar) == bar.with >= ExitAt
TargetFirst(bar) == IF ReachesTarget(bar) THEN "TP" ELSE IF bar.against = 3 THEN "SL" \* mutant
                    ELSE IF TimeStop # 0 /\ Held >= TimeStop THEN "TIME" ELSE None
Exit(bar) == IF bar.against = 3 THEN "SL" ELSE IF ReachesTarget(bar) THEN "TP"
             ELSE IF TimeStop # 0 /\ Held >= TimeStop THEN "TIME" ELSE None

Walking == filled # None /\ result = None
Hold ==
    /\ Walking /\ ~AtEnd /\ Exit(NextBar) = None
    /\ at' = at + 1
    /\ UNCHANGED <<path, mode, filled, result, taker>>
Leave ==
    /\ Walking /\ ~AtEnd /\ Exit(NextBar) # None
    /\ at' = at + 1
    /\ result' = Record(Exit(NextBar), at + 1)
    /\ UNCHANGED <<path, mode, filled, taker>>
\* At the end of the data; an entry filled on the last bar leaves no record.
Force ==
    /\ Walking /\ AtEnd /\ path # <<>>
    /\ result' = IF filled = Len(path) THEN Record("NONE", at) ELSE Record("FORCE", at)
    /\ UNCHANGED <<path, mode, at, filled, taker>>

Second ==
    /\ mode = "taker" /\ result # None
    /\ taker' = result
    /\ mode' = "maker" /\ at' = 0 /\ filled' = None /\ result' = None
    /\ UNCHANGED path

Init ==
    /\ path \in UNION {[1 .. n -> Bars] : n \in 0 .. MaxBars}
    /\ mode = "taker" /\ at = 0 /\ filled = 0 /\ result = None /\ taker = None

Next == NoRoom \/ Wait \/ Fill \/ Expire \/ Hold \/ Leave \/ Force \/ Second

Spec == Init /\ [][Next]_mvars

(***************************************************************************)
(* Properties.                                                             *)
(***************************************************************************)
Finished == mode = "maker" /\ result # None

\* The buffer is all that sets the two runs apart: a limit order that filled while the
\* taker was still in leaves on the same bar and for the same reason, a time stop counted
\* from the fill aside, unless the taker took its target on a bar that only touched it.
\* Then the maker stays in, so the taker's side of the comparison is never the worse for it
\* (maker_replay.py: "so maker vs taker is apples-to-apples", which the touch belies).
SameExit ==
    (Finished /\ filled # None /\ taker.bar > filled /\ TimeStop = 0) =>
        \/ result.reason = taker.reason /\ result.bar = taker.bar
        \/ /\ taker.reason = "TP" /\ path[taker.bar].with = 1
           /\ result.bar >= taker.bar /\ path[taker.bar].against # 3

\* An order never fills on a touch or after its time to live, and no profit is booked on
\* a bar that also reached the stop (maker_replay.py: "never on a mere touch";
\* "Pessimistic: stop checked before TP on the same bar").
Pessimistic ==
    Finished =>
        /\ result.fill # None => path[result.fill].against >= 2 /\ result.fill <= Ttl
        /\ result.reason = "TP" =>
              \A i \in result.fill + 1 .. result.bar : path[i].against # 3
        /\ result.reason = "UNFILLED" =>
              \A i \in 1 .. Len(path) : i <= Ttl => path[i].against < 2

================================================================================
