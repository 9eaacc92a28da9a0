----------------------------- MODULE EntryContract -----------------------------
(***************************************************************************)
(* What send_entry promises its caller (executors.LiveExecutor.open, which *)
(* opens a trade on LIVE_SENT and nothing otherwise), with the exchange    *)
(* reduced to the executed quantity and whether a stop covers it.          *)
(***************************************************************************)
EXTENDS Integers

VARIABLES
    phase,     \* "called", "working", "returned"
    status,    \* the status returned
    claimed,   \* the quantity returned
    executed,  \* entry quantity executed on the exchange
    covered,   \* a closePosition stop reached the exchange and was not canceled
    tripped    \* the adapter refuses further sends

vars == <<phase, status, claimed, executed, covered, tripped>>

Init ==
    /\ phase = "called"
    /\ status = "none"
    /\ claimed = 0
    /\ executed = 0
    /\ covered = FALSE
    /\ tripped \in BOOLEAN

Answer(s, qty) ==
    /\ phase' = "returned"
    /\ status' = s
    /\ claimed' = qty

\* Nothing was attempted; a tripped adapter can do nothing else.
Decline ==
    /\ phase = "called"
    /\ \E s \in {"DISARMED", "REFUSED"} :
          Answer(s, 0) /\ (tripped => s = "DISARMED")
    /\ UNCHANGED <<executed, covered, tripped>>

Start ==
    /\ phase = "called"
    /\ ~tripped
    /\ phase' = "working"
    /\ UNCHANGED <<status, claimed, executed, covered, tripped>>

\* The exchange executes entry quantity, possibly after the answer.
Execute ==
    /\ phase # "called"
    /\ executed' = executed + 1
    /\ UNCHANGED <<phase, status, claimed, covered, tripped>>

Cover ==
    /\ phase = "working"
    /\ covered' \in BOOLEAN
    /\ UNCHANGED <<phase, status, claimed, executed, tripped>>

\* A trade may be opened: it exists, and it is covered.
Sent ==
    /\ phase = "working"
    /\ covered /\ ~tripped
    /\ \E qty \in 1 .. executed : Answer("LIVE_SENT", qty)
    /\ UNCHANGED <<executed, covered, tripped>>

Failed ==
    /\ phase \in {"called", "working"}
    /\ ~tripped
    /\ Answer("FAILED", 0)
    /\ UNCHANGED <<executed, covered, tripped>>

Tripped ==
    /\ phase \in {"called", "working"}
    /\ ~tripped
    /\ \E qty \in 0 .. executed : Answer("TRIPPED", qty)
    /\ tripped' = TRUE
    /\ UNCHANGED <<executed, covered>>

Next == Decline \/ Start \/ Execute \/ Cover \/ Sent \/ Failed \/ Tripped

Spec == Init /\ [][Next]_vars
================================================================================
