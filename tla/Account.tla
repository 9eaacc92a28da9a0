--------------------------------- MODULE Account ---------------------------------
(***************************************************************************)
(* The read-only view of the Binance account (binance_account.py) and the  *)
(* readiness audit that asks it (engine.live_preflight, /livecheck).       *)
(*                                                                         *)
(* Two threads refresh the view: a worker that the cycle starts when the   *)
(* timer is due, one at a time, and the event loop itself while it answers *)
(* /livecheck. They share the last status, the heartbeat and the cache of  *)
(* symbol filters. The loop does nothing else while it refreshes; the      *)
(* reconcile thread may trip the order adapter meanwhile. Balances, fees,  *)
(* positions and the clock drift are only shown, and are left out; that a  *)
(* message reaches the operator is Alerts.                                 *)
(***************************************************************************)
EXTENDS Integers, FiniteSets

CONSTANTS
    Universe,   \* what the scanner found last
    Markets,    \* symbols load_markets returns
    EnvGates,   \* which of LIVE_ENABLED, LIVE_HUMAN_CONFIRM, LIVE_SEND_ORDERS are set
    None

Threads == {"timer", "check"}
AllGates == {"enabled", "confirm", "send"}

VARIABLES
    keys,       \* API keys are set
    gates, mode,\* env gates, and the engine's mode
    tripped,    \* the adapter's own kill
    withdraw,   \* the key can withdraw
    warmed,     \* the scanner has a universe
    cache,      \* symbols with a filter row
    thread,     \* where each refresh is, and the status it came to
    begun,      \* what the audit saw before its refresh
    last,       \* _last_status
    hb,         \* status of the heartbeat
    told,       \* status of the last message
    heard,      \* ghost: the last status "unsafe" was told
    crossed,    \* ghost: refreshes that met another under way
    synced,     \* ghost: none has crossed another since a message of one that had not
    report      \* the audit just made, None after anything else

world == <<keys, gates, withdraw, warmed>>
vars == <<world, mode, tripped, cache, thread, begun, last, hb, told, heard, crossed, synced,
          report>>

At(t, step) == thread[t].at = step
Goes(t, step) == thread' = [thread EXCEPT ![t].at = step]
Ended(t, status) == [at |-> IF t = "check" THEN "report" ELSE None, status |-> status]
Idle == [at |-> None, status |-> None]
NoReport == report' = None

(***************************************************************************)
(* refresh.                                                                *)
(***************************************************************************)
\* with no symbols asked for, or none of them listed, every market is cached
Wanted(t) == IF t = "timer" /\ warmed /\ Universe \cap Markets # {} THEN Universe \cap Markets
             ELSE Markets

\* _collect up to the filters: the account cannot be read, or the markets, or neither fails
Collect(t) ==
    /\ At(t, "collect")
    /\ \/ /\ ~keys
          /\ thread' = [thread EXCEPT ![t] = [at |-> "persist", status |-> "keys_absent"]]
          /\ UNCHANGED cache
       \/ /\ keys
          /\ thread' = [thread EXCEPT ![t] = [at |-> "persist", status |-> "error"]]
          /\ UNCHANGED cache
       \/ /\ keys /\ Goes(t, "permission")
          /\ \/ UNCHANGED cache
             \/ cache' = cache \cup Wanted(t)
    /\ NoReport /\ UNCHANGED <<world, mode, tripped, begun, last, hb, told, heard, crossed, synced>>

\* _withdraw_enabled: a check that fails finds nothing
Permission(t) ==
    /\ At(t, "permission")
    /\ \E answered \in BOOLEAN :
         thread' = [thread EXCEPT ![t] =
            [at |-> "persist",
             status |-> IF answered /\ withdraw THEN "unsafe_key" ELSE "connected"]]
    /\ NoReport
    /\ UNCHANGED <<world, mode, tripped, cache, begun, last, hb, told, heard, crossed, synced>>

\* _emit: the heartbeat, the comparison, the assignment, and the message
Persist(t) ==
    /\ At(t, "persist") /\ hb' = thread[t].status /\ Goes(t, "compare") /\ NoReport
    /\ UNCHANGED <<world, mode, tripped, cache, begun, last, told, heard, crossed, synced>>
Compare(t) ==
    /\ At(t, "compare") /\ NoReport
    /\ thread' = [thread EXCEPT ![t] = IF @.status = last THEN Ended(t, @.status)
                                       ELSE [@ EXCEPT !.at = "assign"]]
    /\ UNCHANGED <<world, mode, tripped, cache, begun, last, hb, told, heard, crossed, synced>>
\* mutant: an error is not remembered as a status
LatchedButErrors(status) == IF status = "error" THEN last ELSE status
Latched(status) == status
Assign(t) ==
    /\ At(t, "assign") /\ Goes(t, "tell") /\ NoReport
    /\ last' = Latched(thread[t].status)
    /\ heard' = (heard /\ last' # "unsafe_key")
    /\ UNCHANGED <<world, mode, tripped, cache, begun, hb, told, crossed, synced>>
Tell(t) ==
    /\ At(t, "tell") /\ NoReport
    /\ told' = thread[t].status /\ heard' = (heard \/ thread[t].status = "unsafe_key")
    /\ thread' = [thread EXCEPT ![t] = Ended(t, @.status)]
    /\ synced' = (synced \/ t \notin crossed)
    /\ UNCHANGED <<world, mode, tripped, cache, begun, last, hb, crossed>>

Begins(t) ==
    /\ thread' = [thread EXCEPT ![t] = [at |-> "collect", status |-> None]]
    /\ LET met == \E u \in Threads \ {t} : thread[u].at \notin {None, "report"}
       IN /\ crossed' = IF met THEN Threads ELSE crossed \ {t}
          /\ synced' = (synced /\ ~met)
    /\ UNCHANGED <<last, hb, told, heard>>

(***************************************************************************)
(* The event loop.                                                         *)
(***************************************************************************)
LoopFree == At("check", None)
\* _maybe_refresh_binance
TimerDue ==
    /\ LoopFree /\ At("timer", None) /\ Begins("timer") /\ NoReport
    /\ UNCHANGED <<world, mode, tripped, cache, begun>>

\* engaged()
Engaged == ~tripped /\ gates = AllGates /\ mode = "live" /\ keys
\* live_preflight up to its refresh; in paper there is no adapter to ask
Audit ==
    /\ LoopFree /\ Begins("check") /\ NoReport
    /\ begun' = (gates = AllGates /\ mode = "live" /\ keys /\ Engaged)
    /\ UNCHANGED <<world, mode, tripped, cache>>
\* mutant: the status of the adapter, not of this refresh
StatusLast(t) == last
StatusOf(t) == thread[t].status
\* and after it: the filters of the universe, if there is one, the feed, the kill switch
Report ==
    /\ At("check", "report") /\ thread' = [thread EXCEPT !["check"] = Idle]
    /\ \E feedOk, fired \in BOOLEAN :
         report' = [ready |-> /\ begun /\ StatusOf("check") = "connected"
                              /\ warmed => Universe \subseteq cache
                              /\ feedOk /\ ~fired,
                    saw |-> thread["check"].status]
    /\ UNCHANGED <<world, mode, tripped, cache, begun, last, hb, told, heard, crossed, synced>>

\* switch_mode, with an adapter that is new
Switch ==
    /\ LoopFree /\ NoReport
    /\ \/ mode = "live" /\ mode' = "paper"
       \/ mode = "paper" /\ gates = AllGates /\ keys /\ mode' = "live"
    /\ tripped' = FALSE
    /\ UNCHANGED <<world, cache, thread, begun, last, hb, told, heard, crossed, synced>>
Scanned ==
    /\ LoopFree /\ ~warmed /\ warmed' = TRUE /\ NoReport
    /\ UNCHANGED <<keys, gates, withdraw, mode, tripped, cache, thread, begun, last, hb,
                   told, heard, crossed, synced>>
\* emergency_stop on the reconcile thread
Trips ==
    /\ mode = "live" /\ ~tripped /\ tripped' = TRUE /\ NoReport
    /\ UNCHANGED <<world, mode, cache, thread, begun, last, hb, told, heard, crossed, synced>>
\* the owner edits the key on the exchange
KeyEdited ==
    /\ withdraw' = ~withdraw /\ NoReport
    /\ UNCHANGED <<keys, gates, warmed, mode, tripped, cache, thread, begun, last, hb,
                   told, heard, crossed, synced>>

Init ==
    /\ keys \in BOOLEAN /\ gates \in EnvGates
    /\ mode = "paper" /\ tripped = FALSE /\ withdraw \in BOOLEAN /\ warmed = FALSE
    /\ cache = {}
    /\ thread = [t \in Threads |-> Idle] /\ begun = FALSE
    /\ last = None /\ hb = None /\ told = None
    /\ heard = FALSE /\ crossed = {} /\ synced = TRUE /\ report = None

Next ==
    \/ \E t \in Threads : Collect(t) \/ Permission(t) \/ Persist(t) \/ Compare(t) \/ Assign(t) \/ Tell(t)
    \/ TimerDue \/ Audit \/ Report \/ Switch \/ Scanned \/ Trips \/ KeyEdited
Spec == Init /\ [][Next]_vars

(***************************************************************************)
(* Properties.                                                             *)
(***************************************************************************)
\* binance_account.py:118-119, 160-177: a message on every transition and on nothing else.
\* When no refresh is under way, the status that is remembered is the one told last and
\* the one on the dashboard, unless two refreshes crossed; and even then a key that can
\* withdraw, if that is the status remembered, was told.
EveryTransitionTold ==
    thread["timer"].at = None /\ thread["check"].at = None =>
       /\ synced => told = last /\ hb = last
       /\ last = "unsafe_key" => heard

\* engine.py:307-318: ready means that nothing critical failed. The audit reads its rows
\* at different moments and the network lies between them; still the mode and the gates
\* are as they were, the filters of the universe are there, and its own check of the key
\* found nothing. Only a trip may have come meanwhile.
ReadyWasTrue ==
    report # None /\ report.ready =>
       /\ Engaged \/ tripped
       /\ warmed => Universe \subseteq cache
       /\ report.saw = "connected"

\* Both: what the account is said to be is what it was found to be.
AccountIsTrue == EveryTransitionTold /\ ReadyWasTrue
================================================================================
