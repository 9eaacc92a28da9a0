------------------------------ MODULE ControlProofs -----------------------------
(***************************************************************************)
(* Proofs about the commands and the boot, for any number of commands and  *)
(* starts, and any subset of the commands: no command leaves a row in a    *)
(* mode that does not run, and the owner's decision survives a restart.    *)
(* The two modules through which the process speaks to its owner follow as *)
(* instances: the account view (Account) and the messages (Alerts); and    *)
(* the scripts that write the file the process starts from (EnvFile).      *)
(***************************************************************************)
EXTENDS Control, Operator, SetSums, SequenceTheorems, TLAPS

\* What the process finds after its boot has applied the decision: the mode that ran
\* on it, or one of the two reasons it may not.
Granted ==
    \/ mode = was
    \/ was = "live" /\ ~gates
    \/ mode = "live" /\ "live" \in rows

\* `was` is the decision stored when the process went down, and nothing but a switch
\* changes the stored one.
Decided ==
    /\ pc \in {"down", "override"} /\ was # None => override = was
    /\ pc = "request" /\ was # None => Granted

IInv == TypeOK /\ NothingOrphaned /\ Decided

--------------------------------------------------------------------------------

LEMMA InitInv == Init => IInv
<1> SUFFICES ASSUME Init PROVE IInv
  OBVIOUS
<1>1. TypeOK
  <2>1. inbox \in Seq(Commands) /\ done \in 0 .. Len(inbox)
    BY DEF Init
  <2>2. sent \in 0 .. MaxSent /\ starts \in 0 .. MaxStarts
    BY ControlAssumption DEF Init
  <2> QED BY <2>1, <2>2 DEF Init, TypeOK, Modes
<1> QED BY <1>1 DEF IInv, Init, NothingOrphaned, Decided

\* The two outcomes of an attempt to switch.
LEMMA SwitchTypes ==
  ASSUME TypeOK, NEW m \in Modes, Switched(m) \/ Unmoved
  PROVE  /\ mode' \in Modes /\ override' \in Modes \cup {None} /\ tripped' \in BOOLEAN
         /\ rows' \subseteq Modes
  BY DEF TypeOK, Switched, Unmoved

\* A switch leaves no row behind: →live closes the paper rows, →paper needs no live one.
LEMMA SwitchOrphansNothing ==
  ASSUME TypeOK, NEW m \in Modes, Allowed(m), Switched(m)
  PROVE  rows' \subseteq {mode'}
<1>1. rows \subseteq {"paper", "live"} /\ m \in {"paper", "live"} /\ mode' = m
  BY DEF TypeOK, Modes, Switched
<1>2. CASE m = "live"
  <2>1. rows' = rows \ {"paper"}
    BY <1>2 DEF Switched
  <2> QED BY <1>1, <1>2, <2>1
<1>3. CASE m # "live"
  <2>1. rows' = rows /\ "live" \notin rows
    BY <1>3 DEF Switched, Allowed
  <2> QED BY <1>1, <1>3, <2>1
<1> QED BY <1>2, <1>3

\* A prefix of the queue is dropped when it is confirmed.
LEMMA DropTypes ==
  ASSUME TypeOK, NEW n \in 1 .. Len(inbox) + 1
  PROVE  SubSeq(inbox, n, Len(inbox)) \in Seq(Commands)
<1>1. inbox \in Seq(Commands) /\ Len(inbox) \in Nat
  BY DEF TypeOK
<1>2. \A i \in n .. Len(inbox) : inbox[i] \in Commands
  BY <1>1
<1> QED BY <1>1, <1>2, SubSeqProperties

--------------------------------------------------------------------------------
(* Steps while the engine runs.                                            *)

\* /live and /paper.
LEMMA SwitchKeeps ==
  ASSUME IInv, Live \/ Paper
  PROVE  IInv'
<1>1. /\ pc = "run" /\ done < Len(inbox) /\ done' = done + 1
      /\ UNCHANGED <<inbox, sent, pc, gates, request, paused, starts, was, granted, stranded, panic>>
  BY DEF Live, Paper, Next1, Dispatched, boot, history
<1>2. PICK m \in Modes : (Allowed(m) /\ Switched(m)) \/ Unmoved
  BY DEF Live, Paper, SwitchMode, Modes
<1>3. TypeOK'
  <2>1. /\ mode' \in Modes /\ override' \in Modes \cup {None} /\ tripped' \in BOOLEAN
        /\ rows' \subseteq Modes
    BY <1>2, SwitchTypes DEF IInv
  <2>2. done' \in 0 .. Len(inbox')
    BY <1>1 DEF IInv, TypeOK
  <2> QED BY <1>1, <2>1, <2>2 DEF IInv, TypeOK
<1>4. NothingOrphaned'
  BY <1>1, <1>2, SwitchOrphansNothing DEF IInv, NothingOrphaned, Unmoved
<1>5. Decided'
  BY <1>1 DEF Decided
<1> QED BY <1>3, <1>4, <1>5 DEF IInv

\* Steps that leave the decision alone and no row outside the running mode.
LEMMA RunKeeps ==
  ASSUME IInv, Open \/ Close \/ Confirm \/ Panic \/ Pause \/ Resume \/ LiveMode
               \/ LiveModeRefused \/ PaperMode
  PROVE  IInv'
<1>1. /\ pc = "run" /\ UNCHANGED <<pc, mode, gates, override, starts, was, granted, stranded, sent>>
      /\ rows' \subseteq rows \cup {mode}
  BY DEF Open, Close, Confirm, Panic, Pause, Resume, LiveMode, LiveModeRefused, PaperMode,
     Queue, Next1, Dispatched, boot, held, queue, history
<1>2. TypeOK'
  <2>1. /\ tripped' \in BOOLEAN /\ paused' \in BOOLEAN /\ panic' \in BOOLEAN
    <3>1. tripped \in BOOLEAN /\ paused \in BOOLEAN /\ panic \in BOOLEAN /\ gates \in BOOLEAN
      BY DEF IInv, TypeOK
    <3>2. CASE Panic
      BY <3>1, <3>2 DEF Panic
    <3>3. CASE ~Panic
      BY <3>1, <3>3 DEF Open, Close, Confirm, Pause, Resume, LiveMode, LiveModeRefused,
         PaperMode, Queue, adapter, history
    <3> QED BY <3>2, <3>3
  <2>2. request' \in [mode : Modes, fresh : BOOLEAN] \cup {None}
    <3>1. CASE request' = request
      BY <3>1 DEF IInv, TypeOK
    <3>2. CASE LiveMode \/ PaperMode
      <4>1. PICK m \in Modes : request' = [mode |-> m, fresh |-> TRUE]
        BY <3>2 DEF LiveMode, PaperMode, Queue, Modes
      <4> QED BY <4>1
    <3> QED BY <3>1, <3>2 DEF Open, Close, Confirm, Panic, Pause, Resume, LiveModeRefused, held
  <2>3. inbox' \in Seq(Commands) /\ done' \in 0 .. Len(inbox')
    <3>1. CASE Confirm
      <4>1. done + 1 \in 1 .. Len(inbox) + 1
        BY DEF IInv, TypeOK
      <4>2. inbox' \in Seq(Commands) /\ done' = 0
        BY <3>1, <4>1, DropTypes DEF Confirm, IInv
      <4> QED BY <4>2
    <3>2. CASE Open \/ Close
      BY <3>2 DEF IInv, TypeOK, Open, Close, queue
    <3>3. CASE Panic \/ Pause \/ Resume \/ LiveMode \/ LiveModeRefused \/ PaperMode
      <4>1. inbox' = inbox /\ done' = done + 1 /\ done < Len(inbox)
        BY <3>3 DEF Panic, Pause, Resume, LiveMode, LiveModeRefused, PaperMode, Queue,
           Next1, Dispatched
      <4> QED BY <4>1 DEF IInv, TypeOK
    <3> QED BY <3>1, <3>2, <3>3
  <2>4. rows' \subseteq Modes
    BY <1>1 DEF IInv, TypeOK
  <2> QED BY <1>1, <2>1, <2>2, <2>3, <2>4 DEF IInv, TypeOK
<1>3. NothingOrphaned' /\ Decided'
  BY <1>1 DEF IInv, NothingOrphaned, Decided
<1> QED BY <1>2, <1>3 DEF IInv

--------------------------------------------------------------------------------
(* The process dies and boots.                                             *)

\* The mode that ran is remembered when the owner had decided it.
LEMMA DownKeeps ==
  ASSUME IInv, Crash \/ Stop
  PROVE  IInv'
<1>1. /\ Down /\ pc # "down"
      /\ UNCHANGED <<mode, gates, override, request, rows, sent, starts, granted, stranded, panic>>
  BY DEF Crash, Stop, Next1, held
<1>2. inbox' \in Seq(Commands)
  <2>1. CASE inbox' = inbox
    BY <2>1 DEF IInv, TypeOK
  <2>2. CASE Stop /\ inbox' = SubSeq(inbox, done + 2, Len(inbox))
    <3>1. done + 2 \in 1 .. Len(inbox) + 1
      BY <2>2 DEF IInv, TypeOK, Stop, Next1
    <3> QED BY <2>2, <3>1, DropTypes DEF IInv
  <2> QED BY <2>1, <2>2 DEF Crash, Stop
<1>3. TypeOK'
  <2>1. was' \in Modes \cup {None}
    BY <1>1 DEF IInv, TypeOK, Down
  <2>2. done' \in 0 .. Len(inbox')
    BY <1>1, <1>2 DEF Down
  <2> QED BY <1>1, <1>2, <2>1, <2>2 DEF IInv, TypeOK, Down
<1>4. NothingOrphaned'
  BY <1>1 DEF NothingOrphaned, Down
<1>5. Decided'
  BY <1>1 DEF IInv, Decided, Down
<1> QED BY <1>3, <1>4, <1>5 DEF IInv

LEMMA StartKeeps ==
  ASSUME IInv, Start
  PROVE  IInv'
<1>1. TypeOK'
  <2>1. starts' \in 0 .. MaxStarts
    BY ControlAssumption DEF IInv, TypeOK, Start
  <2> QED BY <2>1 DEF IInv, TypeOK, Start, held, adapter, queue
<1>2. NothingOrphaned' /\ Decided'
  BY DEF IInv, NothingOrphaned, Decided, Start, held
<1> QED BY <1>1, <1>2 DEF IInv

LEMMA ApplyOverrideKeeps ==
  ASSUME IInv, ApplyOverride
  PROVE  IInv'
<1>1. /\ pc = "override" /\ pc' = "request"
      /\ UNCHANGED <<gates, request, paused, inbox, done, sent, starts, was, granted, stranded, panic>>
  BY DEF ApplyOverride, queue, history
<1>2. CASE override \in Modes \ {mode} /\ Allowed(override)
  <2>1. Switched(override)
    BY <1>2 DEF ApplyOverride
  <2>2. TypeOK'
    BY <1>1, <1>2, <2>1, SwitchTypes DEF IInv, TypeOK
  <2>3. Decided'
    BY <1>1, <2>1 DEF IInv, Decided, Granted, Switched
  <2> QED BY <1>1, <2>2, <2>3 DEF IInv, NothingOrphaned
<1>3. CASE override \in Modes \ {mode} /\ ~Allowed(override)
  <2>1. /\ UNCHANGED <<mode, tripped, rows>>
        /\ override' = IF override = "live" THEN mode ELSE override
    BY <1>3 DEF ApplyOverride
  <2>2. TypeOK'
    BY <1>1, <2>1 DEF IInv, TypeOK
  <2>3. Decided'
    <3>1. override = "live" => ~gates
      BY <1>3 DEF Allowed
    <3>2. override # "live" => mode = "live" /\ "live" \in rows
      BY <1>3 DEF Allowed, Modes, IInv, TypeOK
    <3> QED BY <1>1, <2>1, <3>1, <3>2 DEF IInv, Decided, Granted
  <2> QED BY <1>1, <2>2, <2>3 DEF IInv, NothingOrphaned
<1>4. CASE override \notin Modes \ {mode}
  <2>1. Unmoved
    BY <1>4 DEF ApplyOverride
  <2>2. TypeOK'
    BY <1>1, <2>1 DEF IInv, TypeOK, Unmoved
  <2>3. Decided'
    BY <1>1, <1>4, <2>1 DEF IInv, TypeOK, Decided, Granted, Unmoved
  <2> QED BY <1>1, <2>2, <2>3 DEF IInv, NothingOrphaned
<1> QED BY <1>2, <1>3, <1>4

LEMMA ReadRequestKeeps ==
  ASSUME IInv, ReadRequest
  PROVE  IInv'
<1>1. /\ pc' = "run" /\ request' = None /\ stranded' = rows' \ {mode'}
      /\ UNCHANGED <<gates, paused, inbox, done, sent, starts, was, panic>>
  BY DEF ReadRequest, queue
<1>2. granted' \in BOOLEAN /\ \E m \in Modes : Switched(m) \/ Unmoved
  <2>1. CASE request # None /\ request.fresh
    <3>1. request.mode \in Modes
      BY <2>1 DEF IInv, TypeOK
    <3> QED BY <2>1, <3>1 DEF ReadRequest, SwitchMode
  <2>2. CASE ~(request # None /\ request.fresh)
    BY <2>2 DEF ReadRequest, Modes
  <2> QED BY <2>1, <2>2
<1>3. /\ mode' \in Modes /\ override' \in Modes \cup {None} /\ tripped' \in BOOLEAN
      /\ rows' \subseteq Modes
  BY <1>2, SwitchTypes DEF IInv
<1>4. TypeOK'
  <2>1. stranded' \subseteq Modes
    BY <1>1, <1>3
  <2>2. /\ gates' \in BOOLEAN /\ paused' \in BOOLEAN /\ panic' \in BOOLEAN
        /\ inbox' \in Seq(Commands) /\ done' \in 0 .. Len(inbox')
        /\ sent' \in 0 .. MaxSent /\ starts' \in 0 .. MaxStarts
        /\ was' \in Modes \cup {None}
    BY <1>1 DEF IInv, TypeOK
  <2> QED BY Zenon, <1>1, <1>2, <1>3, <2>1, <2>2 DEF TypeOK
<1>5. NothingOrphaned' /\ Decided'
  BY <1>1 DEF NothingOrphaned, Decided
<1> QED BY <1>4, <1>5 DEF IInv

LEMMA OutsideKeeps ==
  ASSUME IInv, RequestAges \/ (\E c \in Commands : Send(c))
  PROVE  IInv'
<1>1. UNCHANGED <<pc, gates, mode, override, tripped, paused, rows, done, starts, was,
                  granted, stranded, panic>>
  BY DEF RequestAges, Send, boot, held, adapter, queue, history
<1>2. TypeOK'
  <2>1. CASE RequestAges
    <3>1. request' \in [mode : Modes, fresh : BOOLEAN]
      <4>1. request \in [mode : Modes, fresh : BOOLEAN]
        BY <2>1 DEF IInv, TypeOK, RequestAges
      <4>2. request' = [mode |-> request.mode, fresh |-> FALSE]
        BY <2>1, <4>1 DEF RequestAges
      <4> QED BY <4>1, <4>2
    <3> QED BY <1>1, <2>1, <3>1 DEF IInv, TypeOK, RequestAges, queue
  <2>2. ASSUME NEW c \in Commands, Send(c) PROVE TypeOK'
    <3>1. inbox' \in Seq(Commands) /\ Len(inbox') = Len(inbox) + 1
      BY <2>2, AppendProperties DEF IInv, TypeOK, Send
    <3>2. done' \in 0 .. Len(inbox') /\ sent' \in 0 .. MaxSent
      BY <1>1, <2>2, <3>1, ControlAssumption DEF IInv, TypeOK, Send
    <3> QED BY <1>1, <2>2, <3>1, <3>2 DEF IInv, TypeOK, Send, held
  <2> QED BY <2>1, <2>2
<1>3. NothingOrphaned' /\ Decided'
  BY <1>1 DEF IInv, NothingOrphaned, Decided, Granted
<1> QED BY <1>2, <1>3 DEF IInv

--------------------------------------------------------------------------------

LEMMA StepInv ==
  ASSUME IInv, [Next]_vars
  PROVE  IInv'
<1>1. CASE Live \/ Paper
  BY <1>1, SwitchKeeps
<1>2. CASE Open \/ Close \/ Confirm \/ Panic \/ Pause \/ Resume \/ LiveMode
           \/ LiveModeRefused \/ PaperMode
  BY <1>2, RunKeeps
<1>3. CASE Crash \/ Stop
  BY <1>3, DownKeeps
<1>4. CASE Start
  BY <1>4, StartKeeps
<1>5. CASE ApplyOverride
  BY <1>5, ApplyOverrideKeeps
<1>6. CASE ReadRequest
  BY <1>6, ReadRequestKeeps
<1>7. CASE RequestAges \/ (\E c \in Commands : Send(c))
  BY <1>7, OutsideKeeps
<1>8. CASE UNCHANGED vars
  BY <1>8 DEF IInv, TypeOK, NothingOrphaned, Decided, Granted, vars, boot, held, adapter,
     queue, history
<1> QED BY <1>1, <1>2, <1>3, <1>4, <1>5, <1>6, <1>7, <1>8 DEF Next, Dispatch

THEOREM Invariant == Spec => []IInv
<1> QED BY InitInv, StepInv, PTL DEF Spec

\* Every variable keeps its type: a process never confirms more than Telegram holds.
THEOREM TypeCorrect == Spec => []TypeOK
<1>1. IInv => TypeOK
  BY DEF IInv
<1> QED BY <1>1, Invariant, PTL

\* No command, however often it is repeated, leaves an open row in a mode that does not
\* run: only a boot with another environment does.
THEOREM NothingEverOrphaned == Spec => []NothingOrphaned
<1>1. IInv => NothingOrphaned
  BY DEF IInv
<1> QED BY <1>1, Invariant, PTL

\* The owner's decision is what runs after a restart, unless the gates are closed, open
\* live rows hold the boot in live, or a fresh request asks for something else.
THEOREM DecisionAlwaysSurvives == Spec => DecisionSurvives
<1>1. ASSUME IInv, ReadRequest, was # None, ~granted'
      PROVE  mode' = was \/ (was = "live" /\ ~gates) \/ (mode' = "live" /\ "live" \in rows)
  <2>1. pc = "request" /\ mode' = mode
    BY <1>1 DEF ReadRequest, Unmoved
  <2> QED BY <1>1, <2>1 DEF IInv, Decided, Granted
<1> QED BY <1>1, Invariant, PTL DEF DecisionSurvives, Spec

--------------------------------------------------------------------------------
(* The account view and the readiness audit (Account), for any universe,   *)
(* markets and gates, and any number of refreshes, audits and switches.    *)

Steps == {"collect", "permission", "persist", "compare", "assign", "tell"}
Busy(t) == thread[t].at \in Steps

ThreadsTyped ==
    /\ thread \in [B!Threads -> [at : Steps \cup {"report", Absent},
                                 status : {Absent, "keys_absent", "error", "unsafe_key", "connected"}]]
    /\ crossed \subseteq B!Threads /\ synced \in BOOLEAN /\ heard \in BOOLEAN

\* Two refreshes at work have crossed, and a crossing is not forgotten while one of the
\* two is still at work.
CrossingSeen ==
    /\ (\A t \in B!Threads : Busy(t)) => crossed = B!Threads
    /\ \A t \in B!Threads : Busy(t) /\ t \in crossed => ~synced

\* How far a refresh that met no other has come with its status.
Alone ==
    \A t \in B!Threads :
        Busy(t) /\ t \notin crossed =>
            /\ thread[t].at \in {"compare", "assign", "tell"} => hb = thread[t].status
            /\ thread[t].at = "tell" => lastStatus = thread[t].status

\* Between two messages all three agree.
InStep ==
    synced =>
        /\ (\A t \in B!Threads : thread[t].at # "tell") => lastTold = lastStatus
        /\ (\A t \in B!Threads : thread[t].at \notin {"compare", "assign", "tell"}) => hb = lastStatus

\* A dangerous key that is remembered was told, or its message is the next step.
Warned ==
    lastStatus = "unsafe_key" =>
        heard \/ \E t \in B!Threads : thread[t].at = "tell" /\ thread[t].status = "unsafe_key"

\* While an audit is under way the mode cannot be switched.
AuditHolds ==
    thread["check"].at # Absent /\ begun =>
        envGates = B!AllGates /\ engineMode = "live" /\ keys

AccountInv == /\ ThreadsTyped /\ CrossingSeen /\ Alone /\ InStep /\ Warned
              /\ AuditHolds /\ B!ReadyWasTrue

AbsentIsNoStep == Absent \notin Steps \cup {"report", "unsafe_key"}

LEMMA AccountInit == ASSUME AbsentIsNoStep, B!Init PROVE AccountInv
<1>1. /\ \A t \in B!Threads : thread[t].at = Absent /\ thread[t].status = Absent
      /\ lastStatus = Absent /\ hb = Absent /\ lastTold = Absent /\ report = Absent
      /\ crossed = {} /\ synced = TRUE /\ heard = FALSE /\ begun = FALSE
  BY DEF B!Init, B!Idle
<1>2. ThreadsTyped
  BY <1>1 DEF B!Init, B!Idle, ThreadsTyped
<1>3. CrossingSeen /\ Alone
  BY <1>1 DEF AbsentIsNoStep, CrossingSeen, Alone, Busy, B!Threads
<1>4. InStep /\ Warned /\ AuditHolds /\ B!ReadyWasTrue
  BY <1>1 DEF InStep, Warned, AuditHolds, B!ReadyWasTrue, B!Threads, AbsentIsNoStep
<1> QED BY <1>2, <1>3, <1>4 DEF AccountInv

Ats == Steps \cup {"report", Absent}
Statuses == {Absent, "keys_absent", "error", "unsafe_key", "connected"}
Moves(t, a, s) ==
    /\ thread' \in [B!Threads -> [at : Ats, status : Statuses]]
    /\ thread'[t].at = a /\ thread'[t].status = s
    /\ \A u \in B!Threads \ {t} : thread'[u] = thread[u]

LEMMA GoesMoves ==
  ASSUME NEW t \in B!Threads, ThreadsTyped, NEW a \in Steps, B!Goes(t, a)
  PROVE  Moves(t, a, thread[t].status) /\ thread[t].status \in Statuses
<1>1. /\ thread \in [B!Threads -> [at : Ats, status : Statuses]]
      /\ thread' = [thread EXCEPT ![t].at = a] /\ a \in Ats
  BY DEF B!Goes, ThreadsTyped, Statuses, Ats
<1> QED BY <1>1 DEF Moves

LEMMA SetMoves ==
  ASSUME NEW t \in B!Threads, ThreadsTyped, NEW a \in Ats, NEW s \in Statuses,
         thread' = [thread EXCEPT ![t] = [at |-> a, status |-> s]]
  PROVE  Moves(t, a, s)
<1>1. thread \in [B!Threads -> [at : Ats, status : Statuses]]
  BY DEF ThreadsTyped, Statuses, Ats
<1> QED BY <1>1 DEF Moves

\* The steps of a refresh up to its comparison: nothing is told yet.
LEMMA RefreshSteps ==
  ASSUME NEW t \in B!Threads, ThreadsTyped, B!Collect(t) \/ B!Permission(t) \/ B!Persist(t)
  PROVE  /\ thread[t].at \in {"collect", "permission", "persist"}
         /\ \E s \in Statuses, a \in {"permission", "persist", "compare"} :
               /\ Moves(t, a, s)
               /\ a = "compare" => hb' = s
               /\ a # "compare" => hb' = hb
         /\ UNCHANGED <<keys, envGates, engineMode, begun, lastStatus, lastTold, heard, crossed, synced>>
         /\ report' = Absent
<1>0. thread[t].status \in Statuses
  BY DEF ThreadsTyped, Statuses
<1>1. CASE B!Collect(t)
  <2>1. /\ thread[t].at = "collect" /\ hb' = hb
        /\ UNCHANGED <<keys, envGates, engineMode, begun, lastStatus, lastTold, heard, crossed, synced>>
        /\ report' = Absent
    BY <1>1 DEF B!Collect, B!At, B!NoReport, B!world
  <2>2. \/ thread' = [thread EXCEPT ![t] = [at |-> "persist", status |-> "keys_absent"]]
        \/ thread' = [thread EXCEPT ![t] = [at |-> "persist", status |-> "error"]]
        \/ B!Goes(t, "permission")
    BY <1>1 DEF B!Collect
  <2>3. \E s \in Statuses, a \in {"permission", "persist"} : Moves(t, a, s)
    BY <1>0, <2>2, GoesMoves, SetMoves DEF Statuses, Ats, Steps
  <2> QED BY <2>1, <2>3
<1>2. CASE B!Permission(t)
  <2>1. PICK s \in {"unsafe_key", "connected"} :
           thread' = [thread EXCEPT ![t] = [at |-> "persist", status |-> s]]
    BY Zenon, <1>2 DEF B!Permission
  <2>2. Moves(t, "persist", s)
    BY <2>1, SetMoves DEF Statuses, Ats, Steps
  <2> QED BY <1>2, <2>2 DEF B!Permission, B!At, B!NoReport, B!world, Statuses
<1>3. CASE B!Persist(t)
  <2>1. Moves(t, "compare", thread[t].status)
    BY <1>3, GoesMoves DEF B!Persist, Steps
  <2> QED BY <1>0, <1>3, <2>1 DEF B!Persist, B!At, B!NoReport, B!world
<1> QED BY <1>1, <1>2, <1>3

\* What a step of one thread must show to keep the threads' part of the invariant.
LEMMA RefreshKeeps ==
  ASSUME AbsentIsNoStep, AccountInv, NEW t \in B!Threads,
         B!Collect(t) \/ B!Permission(t) \/ B!Persist(t)
  PROVE  AccountInv'
<1>0. ThreadsTyped
  BY DEF AccountInv
<1>1. PICK s \in Statuses, a \in {"permission", "persist", "compare"} :
          Moves(t, a, s) /\ (a = "compare" => hb' = s) /\ (a # "compare" => hb' = hb)
  BY <1>0, RefreshSteps
<1>2. /\ thread[t].at \in {"collect", "permission", "persist"} /\ report' = Absent
      /\ UNCHANGED <<keys, envGates, engineMode, begun, lastStatus, lastTold, heard, crossed, synced>>
  BY <1>0, RefreshSteps
<1>3. Busy(t) /\ Busy(t)' /\ \A u \in B!Threads \ {t} : thread'[u] = thread[u]
  BY <1>1, <1>2 DEF Busy, Steps, Moves
<1>4. ThreadsTyped'
  BY <1>0, <1>1, <1>2 DEF ThreadsTyped, Moves, Ats, Statuses
<1>5. CrossingSeen'
  BY <1>2, <1>3 DEF AccountInv, CrossingSeen, Busy
<1>6. Alone'
  BY <1>1, <1>2, <1>3 DEF AccountInv, Alone, CrossingSeen, Busy, Moves, B!Threads
<1>7. InStep'
  BY <1>1, <1>2, <1>3 DEF AccountInv, InStep, CrossingSeen, Alone, Busy, Moves, B!Threads
<1>8. Warned'
  BY <1>1, <1>2, <1>3 DEF AccountInv, Warned, Moves
<1>9. AuditHolds' /\ B!ReadyWasTrue'
  BY <1>1, <1>2, <1>3 DEF AccountInv, AuditHolds, B!ReadyWasTrue, AbsentIsNoStep, Steps, Busy, B!Threads
<1> QED BY <1>4, <1>5, <1>6, <1>7, <1>8, <1>9 DEF AccountInv

LEMMA CompareKeeps ==
  ASSUME AbsentIsNoStep, AccountInv, NEW t \in B!Threads, B!Compare(t)
  PROVE  AccountInv'
<1>0. ThreadsTyped /\ thread[t].status \in Statuses
  BY DEF AccountInv, ThreadsTyped, Statuses
<1>1. /\ thread[t].at = "compare" /\ report' = Absent
      /\ UNCHANGED <<keys, envGates, engineMode, begun, lastStatus, hb, lastTold, heard, crossed, synced>>
  BY DEF B!Compare, B!At, B!NoReport, B!world
<1>2. \/ Moves(t, "assign", thread[t].status)
      \/ /\ thread[t].status = lastStatus
         /\ \E a \in {"report", Absent} : Moves(t, a, thread[t].status)
  <2>1. CASE thread[t].status = lastStatus
    <3>1. thread' = [thread EXCEPT ![t] = B!Ended(t, thread[t].status)]
      BY <1>0, <2>1 DEF B!Compare, ThreadsTyped
    <3>2. PICK a \in {"report", Absent} : B!Ended(t, thread[t].status) = [at |-> a, status |-> thread[t].status]
      BY DEF B!Ended
    <3> QED BY <1>0, <2>1, <3>1, <3>2, SetMoves DEF Ats
  <2>2. CASE thread[t].status # lastStatus
    <3>1. B!Goes(t, "assign")
      BY <1>0, <2>2 DEF B!Compare, B!Goes, ThreadsTyped
    <3> QED BY <1>0, <3>1, GoesMoves DEF Steps
  <2> QED BY <2>1, <2>2
<1>3. Busy(t) /\ \A u \in B!Threads \ {t} : thread'[u] = thread[u]
  BY <1>1, <1>2 DEF Busy, Steps, Moves
<1>4. ThreadsTyped'
  BY <1>0, <1>1, <1>2 DEF ThreadsTyped, Moves, Ats, Statuses
<1>5. CrossingSeen'
  BY <1>1, <1>3 DEF AccountInv, CrossingSeen, Busy
<1>6. Alone'
  BY <1>1, <1>2, <1>3 DEF AccountInv, Alone, Busy, Moves, AbsentIsNoStep, Steps
<1>7. InStep'
  BY <1>1, <1>2, <1>3 DEF AccountInv, InStep, CrossingSeen, Alone, Busy, Moves, B!Threads, AbsentIsNoStep, Steps
<1>8. Warned'
  BY <1>1, <1>2, <1>3 DEF AccountInv, Warned, Moves
<1>9. AuditHolds' /\ B!ReadyWasTrue'
  BY <1>1, <1>2, <1>3 DEF AccountInv, AuditHolds, B!ReadyWasTrue, AbsentIsNoStep, Steps, Busy, B!Threads
<1> QED BY <1>4, <1>5, <1>6, <1>7, <1>8, <1>9 DEF AccountInv

LEMMA AssignKeeps ==
  ASSUME AbsentIsNoStep, AccountInv, NEW t \in B!Threads, B!Assign(t)
  PROVE  AccountInv'
<1>0. ThreadsTyped
  BY DEF AccountInv
<1>1. /\ thread[t].at = "assign" /\ report' = Absent /\ lastStatus' = thread[t].status
      /\ heard' = (heard /\ lastStatus' # "unsafe_key")
      /\ Moves(t, "tell", thread[t].status)
      /\ UNCHANGED <<keys, envGates, engineMode, begun, hb, lastTold, crossed, synced>>
  BY <1>0, GoesMoves DEF B!Assign, B!At, B!NoReport, B!world, B!Latched, Steps
<1>2. Busy(t) /\ Busy(t)' /\ \A u \in B!Threads \ {t} : thread'[u] = thread[u]
  BY <1>1 DEF Busy, Steps, Moves
<1>3. heard' \in BOOLEAN
  BY <1>0, <1>1 DEF ThreadsTyped
<1>4. ThreadsTyped'
  BY <1>0, <1>1, <1>3 DEF ThreadsTyped, Moves, Ats, Statuses
<1>5. CrossingSeen'
  BY <1>1, <1>2 DEF AccountInv, CrossingSeen, Busy
<1>6. Alone'
  BY <1>1, <1>2 DEF AccountInv, Alone, CrossingSeen, Busy, Moves, B!Threads
<1>7. InStep'
  BY <1>1, <1>2 DEF AccountInv, InStep, Moves
<1>8. Warned'
  BY <1>1, <1>2 DEF AccountInv, Warned, Moves, ThreadsTyped
<1>9. AuditHolds' /\ B!ReadyWasTrue'
  BY <1>1, <1>2 DEF AccountInv, AuditHolds, B!ReadyWasTrue, AbsentIsNoStep, Steps, Busy, B!Threads
<1> QED BY <1>4, <1>5, <1>6, <1>7, <1>8, <1>9 DEF AccountInv

LEMMA TellKeeps ==
  ASSUME AbsentIsNoStep, AccountInv, NEW t \in B!Threads, B!Tell(t)
  PROVE  AccountInv'
<1>0. ThreadsTyped /\ thread[t].status \in Statuses
  BY DEF AccountInv, ThreadsTyped, Statuses
<1>1. /\ thread[t].at = "tell" /\ report' = Absent /\ lastTold' = thread[t].status
      /\ heard' = (heard \/ thread[t].status = "unsafe_key")
      /\ synced' = (synced \/ t \notin crossed)
      /\ UNCHANGED <<keys, envGates, engineMode, begun, hb, lastStatus, crossed>>
  BY DEF B!Tell, B!At, B!NoReport, B!world
<1>2. PICK a \in {"report", Absent} : Moves(t, a, thread[t].status)
  <2>1. thread' = [thread EXCEPT ![t] = B!Ended(t, thread[t].status)]
    BY <1>0 DEF B!Tell, ThreadsTyped
  <2>2. PICK a \in {"report", Absent} : B!Ended(t, thread[t].status) = [at |-> a, status |-> thread[t].status]
    BY DEF B!Ended
  <2> QED BY <1>0, <2>1, <2>2, SetMoves DEF Ats
<1>3. /\ Busy(t) /\ ~Busy(t)' /\ \A u \in B!Threads \ {t} : thread'[u] = thread[u]
      /\ thread'[t].at \notin {"compare", "assign", "tell"}
  BY <1>1, <1>2 DEF Busy, Steps, Moves, AbsentIsNoStep
<1>4. ThreadsTyped'
  BY <1>0, <1>1, <1>2 DEF ThreadsTyped, Moves, Ats, Statuses
<1>5. CrossingSeen'
  <2>1. synced \in BOOLEAN
    BY <1>0 DEF ThreadsTyped
  <2>2. ASSUME NEW u \in B!Threads, Busy(u)', u \in crossed PROVE ~synced'
    <3>1. u # t /\ Busy(u) /\ ~synced
      BY <1>3, <2>2 DEF AccountInv, CrossingSeen, Busy
    <3>2. \A v \in B!Threads : Busy(v)
      BY <1>3, <3>1 DEF B!Threads
    <3> QED BY <1>1, <2>1, <3>1, <3>2 DEF AccountInv, CrossingSeen
  <2>3. ~ \A u \in B!Threads : Busy(u)'
    BY <1>3
  <2> QED BY <1>1, <2>2, <2>3 DEF CrossingSeen, Busy
<1>6. Alone'
  BY <1>1, <1>2, <1>3 DEF AccountInv, Alone, Busy, Moves
<1>7. InStep'
  <2>1. CASE t \in crossed
    BY <1>1, <1>3, <2>1 DEF AccountInv, InStep, CrossingSeen
  <2>2. CASE t \notin crossed
    <3>1. hb = thread[t].status /\ lastStatus = thread[t].status
      BY <1>1, <1>3, <2>2 DEF AccountInv, Alone
    <3> QED BY <1>1, <3>1 DEF InStep
  <2> QED BY <2>1, <2>2
<1>8. Warned'
  <2>1. CASE thread[t].status = "unsafe_key"
    BY <1>1, <2>1 DEF Warned
  <2>2. CASE thread[t].status # "unsafe_key"
    BY <1>1, <1>3, <2>2 DEF AccountInv, Warned
  <2> QED BY <2>1, <2>2
<1>9. AuditHolds' /\ B!ReadyWasTrue'
  BY <1>1, <1>3 DEF AccountInv, AuditHolds, B!ReadyWasTrue, AbsentIsNoStep, Steps, Busy, B!Threads
<1> QED BY <1>4, <1>5, <1>6, <1>7, <1>8, <1>9 DEF AccountInv

\* A refresh begins, on the timer or for an audit.
LEMMA BeginsKeeps ==
  ASSUME AbsentIsNoStep, AccountInv, NEW t \in B!Threads, thread[t].at = Absent, B!Begins(t),
         report' = Absent, AuditHolds'
  PROVE  AccountInv'
<1>0. ThreadsTyped
  BY DEF AccountInv
<1>1. /\ Moves(t, "collect", Absent) /\ UNCHANGED <<lastStatus, hb, lastTold, heard>>
  BY <1>0, SetMoves DEF B!Begins, Ats, Steps, Statuses
<1>2. /\ ~Busy(t) /\ Busy(t)' /\ thread[t].at \notin {"compare", "assign", "tell"}
      /\ \A u \in B!Threads \ {t} : thread'[u] = thread[u]
      /\ thread'[t].at = "collect"
  BY <1>1 DEF Busy, Moves, Steps, AbsentIsNoStep
<1>3. \/ /\ crossed' = B!Threads /\ synced' = FALSE
      \/ /\ crossed' = crossed \ {t} /\ synced' = synced
         /\ \A u \in B!Threads \ {t} : ~Busy(u)
  <2>1. \A u \in B!Threads : Busy(u) => thread[u].at \notin {Absent, "report"}
    BY DEF Busy, Steps, AbsentIsNoStep
  <2>2. synced \in BOOLEAN
    BY <1>0 DEF ThreadsTyped
  <2> QED BY <2>1, <2>2 DEF B!Begins
<1>4. ThreadsTyped'
  <2>1. crossed' \subseteq B!Threads /\ synced' \in BOOLEAN
    BY <1>0, <1>3 DEF ThreadsTyped
  <2> QED BY <1>0, <1>1, <2>1 DEF ThreadsTyped, Moves, Ats, Statuses
<1>5. CrossingSeen'
  BY <1>2, <1>3 DEF AccountInv, CrossingSeen, Busy, B!Threads
<1>6. Alone'
  BY <1>1, <1>2, <1>3 DEF AccountInv, Alone, Busy, Moves
<1>7. InStep'
  BY <1>1, <1>2, <1>3 DEF AccountInv, InStep, Busy, Steps
<1>8. Warned'
  BY <1>1, <1>2 DEF AccountInv, Warned
<1>9. B!ReadyWasTrue'
  BY DEF B!ReadyWasTrue
<1> QED BY <1>4, <1>5, <1>6, <1>7, <1>8, <1>9 DEF AccountInv

LEMMA AccountKeeps == ASSUME AbsentIsNoStep, AccountInv, [B!Next]_B!vars PROVE AccountInv'
<1>1. ASSUME NEW t \in B!Threads,
             B!Collect(t) \/ B!Permission(t) \/ B!Persist(t) \/ B!Compare(t) \/ B!Assign(t) \/ B!Tell(t)
      PROVE  AccountInv'
  BY <1>1, RefreshKeeps, CompareKeeps, AssignKeeps, TellKeeps
<1>2. CASE B!TimerDue
  <2>1. AuditHolds'
    <3>1. UNCHANGED <<keys, envGates, engineMode, begun>> /\ thread["check"].at = Absent
          /\ thread'["check"] = thread["check"]
      BY <1>2 DEF B!TimerDue, B!LoopFree, B!At, B!Begins, B!world, AccountInv, ThreadsTyped, B!Threads
    <3> QED BY <3>1 DEF AuditHolds
  <2> QED BY <1>2, <2>1, BeginsKeeps DEF B!TimerDue, B!At, B!NoReport, B!Threads
<1>3. CASE B!Audit
  <2>1. AuditHolds'
    BY <1>3 DEF B!Audit, B!world, AuditHolds
  <2> QED BY <1>3, <2>1, BeginsKeeps DEF B!Audit, B!LoopFree, B!At, B!NoReport, B!Threads
<1>4. CASE B!Report
  <2>1. /\ thread["check"].at = "report"
        /\ UNCHANGED <<keys, envGates, engineMode, adapterTripped, warmed, cache, begun, lastStatus, hb,
                       lastTold, heard, crossed, synced>>
    BY <1>4 DEF B!Report, B!At, B!world
  <2>2. Moves("check", Absent, Absent)
    BY <1>4, SetMoves DEF AccountInv, B!Report, B!Idle, B!Threads, Ats, Statuses
  <2>3. /\ ~Busy("check") /\ ~Busy("check")'
        /\ {thread["check"].at, thread'["check"].at} \cap {"compare", "assign", "tell"} = {}
        /\ thread'["timer"] = thread["timer"] /\ "check" \in B!Threads /\ "timer" \in B!Threads
    BY <2>1, <2>2 DEF Busy, Steps, Moves, AbsentIsNoStep, B!Threads
  <2>4. ThreadsTyped'
    BY <2>1, <2>2 DEF AccountInv, ThreadsTyped, Moves, Ats, Statuses
  <2>5. CrossingSeen' /\ Alone'
    BY <2>1, <2>3 DEF AccountInv, CrossingSeen, Alone, Busy, B!Threads
  <2>6. InStep' /\ Warned'
    BY <2>1, <2>3 DEF AccountInv, InStep, Warned, B!Threads
  <2>7. AuditHolds'
    BY <2>1, <2>2 DEF AuditHolds, Moves
  <2>8. B!ReadyWasTrue'
    <3>1. PICK feedOk, fired \in BOOLEAN :
             report' = [ready |-> /\ begun /\ B!StatusOf("check") = "connected"
                                  /\ warmed => Universe \subseteq cache
                                  /\ feedOk /\ ~fired,
                        saw |-> thread["check"].status]
      BY <1>4 DEF B!Report
    <3>2. report'.ready => /\ begun /\ thread["check"].status = "connected"
                           /\ warmed => Universe \subseteq cache
                           /\ report'.saw = "connected"
      BY <3>1 DEF B!StatusOf
    <3>3. begun => envGates = B!AllGates /\ engineMode = "live" /\ keys
      BY <2>1 DEF AccountInv, AuditHolds, AbsentIsNoStep
    <3> QED BY <2>1, <3>2, <3>3 DEF B!ReadyWasTrue, B!Engaged
  <2> QED BY <2>4, <2>5, <2>6, <2>7, <2>8 DEF AccountInv
<1>5. CASE B!Switch \/ B!Scanned \/ B!Trips \/ B!KeyEdited
  <2>1. /\ UNCHANGED <<keys, envGates, thread, begun, lastStatus, hb, lastTold, heard, crossed, synced>>
        /\ report' = Absent
        /\ engineMode' = engineMode \/ thread["check"].at = Absent
    BY <1>5 DEF B!Switch, B!Scanned, B!Trips, B!KeyEdited, B!world, B!NoReport, B!LoopFree, B!At
  <2>2. ThreadsTyped' /\ CrossingSeen' /\ Alone' /\ InStep' /\ Warned'
    BY <2>1 DEF AccountInv, ThreadsTyped, CrossingSeen, Alone, InStep, Warned, Busy
  <2>3. AuditHolds' /\ B!ReadyWasTrue'
    BY <2>1 DEF AccountInv, AuditHolds, B!ReadyWasTrue
  <2> QED BY <2>2, <2>3 DEF AccountInv
<1>6. CASE UNCHANGED B!vars
  <2>1. UNCHANGED <<keys, envGates, engineMode, adapterTripped, warmed, cache, thread, begun, lastStatus,
                    hb, lastTold, heard, crossed, synced, report>>
    BY <1>6 DEF B!vars, B!world
  <2>2. ThreadsTyped' /\ CrossingSeen' /\ Alone' /\ InStep' /\ Warned'
    BY <2>1 DEF AccountInv, ThreadsTyped, CrossingSeen, Alone, InStep, Warned, Busy
  <2>3. AuditHolds' /\ B!ReadyWasTrue'
    BY <2>1 DEF AccountInv, AuditHolds, B!ReadyWasTrue, B!Engaged
  <2> QED BY <2>2, <2>3 DEF AccountInv
<1> QED BY <1>1, <1>2, <1>3, <1>4, <1>5, <1>6 DEF B!Next

\* Every transition of the account's status is told, and a READY of the audit was true but
\* for a trip (AccountIsTrue), for any universe, markets and gates and any number of
\* refreshes, which may cross.
THEOREM AccountStaysTrue == ASSUME AbsentIsNoStep PROVE OperatorSpec => []AccountIsTrue
<1> DEFINE Inv == AccountRuns => AccountInv
<1>1. OperatorInit => Inv
  BY AccountInit DEF OperatorInit, AccountParked, AccountRuns
<1>2. Inv /\ [OperatorNext]_operatorVars => Inv'
  <2> SUFFICES ASSUME Inv, [OperatorNext]_operatorVars, AccountRuns' PROVE AccountInv'
    OBVIOUS
  <2>1. CASE AccountStep
    BY <2>1, AccountKeeps DEF AccountStep
  <2>2. CASE ~AccountStep
    <3>1. UNCHANGED B!vars
      BY <2>2 DEF OperatorNext, AlertsStep, EnvStep, DatabaseStep, operatorVars, accountVars,
                  B!vars, B!world
    <3>2. AccountRuns
      BY <3>1 DEF AccountRuns, B!vars, B!world
    <3> QED BY <3>1, <3>2, AccountKeeps
  <2> QED BY <2>1, <2>2
<1>3. Inv => AccountIsTrue
  <2> SUFFICES ASSUME AccountInv PROVE B!AccountIsTrue
    BY DEF AccountIsTrue
  <2>1. B!EveryTransitionTold
    BY DEF AccountInv, InStep, Warned, B!EveryTransitionTold, B!Threads, AbsentIsNoStep, Steps
  <2> QED BY <2>1 DEF AccountInv, B!AccountIsTrue
<1> QED BY <1>1, <1>2, <1>3, PTL DEF OperatorSpec

--------------------------------------------------------------------------------
(* What the operator is told (Alerts), for every length of a day, quiet    *)
(* hours, offset, level and interval, and any number of restarts.          *)

AlertConstants == Day \in Nat \ {0} /\ Offset \in Nat /\ Week \in Nat \ {0} /\ Absent \notin Int

\* The stop warning: until the flag is set, nothing was sent.
WarnInv ==
    /\ "fired" \in DOMAIN row /\ row.fired \in BOOLEAN
    /\ warnings \in 0 .. 1 /\ (~row.fired => warnings = 0)

\* The last word on a subject is what its latch holds; the world has moved on from it
\* only until the subject's handler has run.
InformInv ==
    /\ stage \in 0 .. 11
    /\ {"feed", "exposure"} \subseteq DOMAIN lastWord /\ {"feed", "exposure"} \subseteq DOMAIN latch
    /\ lastWord.feed \in {Absent, latch.feed} /\ lastWord.exposure \in {Absent, latch.exposure}
    /\ stage # 1 => lastWord.exposure \in {Absent, world.over}
    /\ stage \notin {1, 2} => lastWord.feed \in {Absent, world.feed}

LEMMA HandlerStages ==
  ASSUME stage \in 0 .. 11
  PROVE  /\ A!At("exposure") => stage = 1
         /\ A!At("feed") => stage = 2
         /\ \A h : A!At(h) /\ h \notin {"exposure", "feed"} => stage \in 3 .. 11
         /\ A!Finished => stage' = (stage + 1) % 12
<1>1. A!Handlers[1] = "exposure" /\ A!Handlers[2] = "feed" /\ Len(A!Handlers) = 11
  BY DEF A!Handlers
<1>2. \A i \in 3 .. 11 : A!Handlers[i] \notin {"exposure", "feed"}
  <2>1. ASSUME NEW i \in 3 .. 11 PROVE A!Handlers[i] \notin {"exposure", "feed"}
    <3>1. i = 3 \/ i = 4 \/ i = 5 \/ i = 6 \/ i = 7 \/ i = 8 \/ i = 9 \/ i = 10 \/ i = 11
      OBVIOUS
    <3> QED BY <3>1 DEF A!Handlers
  <2> QED BY <2>1
<1> QED BY <1>1, <1>2 DEF A!At, A!Finished

LEMMA InformInit == A!Init => InformInv
BY DEF A!Init, A!Fresh, InformInv

LEMMA InformStep == ASSUME AlertConstants, InformInv, [A!Next]_A!vars PROVE InformInv'
<1> USE DEF InformInv
<1>1. ASSUME NEW delivered \in BOOLEAN, A!ExposureAlert(delivered) PROVE InformInv'
  <2>1. /\ stage = 1 /\ stage' = 2 /\ world' = world
        /\ latch' = [latch EXCEPT !.exposure = world.over]
    BY <1>1, HandlerStages DEF A!ExposureAlert, A!Finished
  <2>2. \/ world.over = latch.exposure /\ lastWord' = lastWord
        \/ \E v \in {Absent, world.over} : lastWord' = [lastWord EXCEPT !["exposure"] = v]
    BY <1>1 DEF A!ExposureAlert, A!Report, A!Silent
  <2> QED BY <2>1, <2>2
<1>2. ASSUME NEW delivered \in BOOLEAN, A!FeedAlert(delivered) PROVE InformInv'
  <2>1. /\ stage = 2 /\ stage' = 3 /\ world' = world
        /\ latch' = [latch EXCEPT !.feed = world.feed]
    BY <1>2, HandlerStages DEF A!FeedAlert, A!Finished
  <2>2. \/ world.feed = latch.feed /\ lastWord' = lastWord
        \/ \E v \in {Absent, world.feed} : lastWord' = [lastWord EXCEPT !["feed"] = v]
    BY <1>2 DEF A!FeedAlert, A!FeedTurned, A!Report, A!Silent
  <2> QED BY <2>1, <2>2
<1>3. ASSUME stage \in 3 .. 11, stage' = (stage + 1) % 12, UNCHANGED <<world, lastWord>>,
             {"feed", "exposure"} \subseteq DOMAIN latch', latch'.feed = latch.feed,
             latch'.exposure = latch.exposure
      PROVE  InformInv'
  BY <1>3
<1>4. CASE \/ A!WalletAlert \/ A!LeverageAlert \/ A!KillSwitch \/ A!ProfitLock \/ A!DailySummary
           \/ A!PositionSummary \/ A!LossBudget \/ A!WeeklyReport
           \/ \E delivered \in BOOLEAN : A!StopApproach(delivered)
  <2>1. stage \in 3 .. 11 /\ A!Finished /\ lastWord' = lastWord
    BY <1>4, HandlerStages DEF A!WalletAlert, A!LeverageAlert, A!KillSwitch, A!ProfitLock,
       A!DailySummary, A!PositionSummary, A!LossBudget, A!WeeklyReport, A!StopApproach, A!Silent
  <2>2. /\ {"feed", "exposure"} \subseteq DOMAIN latch' /\ latch'.feed = latch.feed
        /\ latch'.exposure = latch.exposure
    BY <1>4 DEF A!WalletAlert, A!LeverageAlert, A!KillSwitch, A!ProfitLock, A!DailySummary,
       A!PositionSummary, A!LossBudget, A!WeeklyReport, A!StopApproach
  <2> QED BY <1>3, <2>1, <2>2, HandlerStages DEF A!Finished
<1>5. CASE A!DiesBeforeSend \/ A!Restart
  <2>1. stage' = 0 /\ latch' = A!Fresh /\ lastWord' = A!Nothing
    BY <1>5 DEF A!DiesBeforeSend, A!Restart
  <2>2. /\ {"feed", "exposure"} \subseteq DOMAIN lastWord' /\ lastWord'.feed = Absent
        /\ lastWord'.exposure = Absent
    BY <2>1 DEF A!Nothing
  <2>3. {"feed", "exposure"} \subseteq DOMAIN latch'
    BY <2>1 DEF A!Fresh
  <2> QED BY <2>1, <2>2, <2>3
<1>6. CASE A!Cycle
  <2>1. stage' = 1 /\ UNCHANGED <<latch, lastWord>> /\ stage = 0
    BY <1>6 DEF A!Cycle
  <2> QED BY <2>1
<1>7. CASE A!Close \/ A!Tick \/ UNCHANGED A!vars
  BY <1>7 DEF A!Close, A!Tick, A!vars
<1> QED BY <1>1, <1>2, <1>4, <1>5, <1>6, <1>7 DEF A!Next

\* Between two cycles the operator's last word on the feed and on the exposure is what the
\* engine found, or there is none (Informed).
THEOREM OperatorInformed == ASSUME AlertConstants PROVE OperatorSpec => []Informed
<1> DEFINE Inv == AlertsRun => InformInv
<1>1. OperatorInit => Inv
  BY InformInit DEF OperatorInit, AlertsParked, AlertsRun
<1>2. Inv /\ [OperatorNext]_operatorVars => Inv'
  <2> SUFFICES ASSUME Inv, [OperatorNext]_operatorVars, AlertsRun' PROVE (InformInv)'
    OBVIOUS
  <2>1. CASE AlertsStep
    BY <2>1, InformStep DEF AlertsStep
  <2>2. CASE ~AlertsStep
    <3>1. UNCHANGED A!vars
      BY <2>2 DEF OperatorNext, AccountStep, EnvStep, DatabaseStep, operatorVars, alertVars,
                  A!vars
    <3>2. AlertsRun
      BY <3>1 DEF AlertsRun, A!vars
    <3> QED BY <3>1, <3>2, InformStep
  <2> QED BY <2>1, <2>2
<1>3. Inv => Informed
  BY DEF InformInv, Informed, A!Informed
<1> QED BY <1>1, <1>2, <1>3, PTL DEF OperatorSpec

\* The day of every once-a-day message that was sent is in a latch: those of the kill
\* switch, the lock and the report are the day itself, that of the summary is the day of
\* the last look, and a level of the budget was said on the latch's day exactly if it is
\* among the latch's levels.
LatchFields == {"feed", "exposure", "leverage", "wallet", "kill", "lock", "summary", "digest",
                "budgetDay", "levels", "week", "ran"}
Messages == ({"kill", "lock", "summary", "week"} \X {0}) \cup ({"budget"} \X Levels)
DayLatches ==
    /\ hour \in Nat
    /\ DOMAIN latch = LatchFields /\ DOMAIN said = Messages
    /\ said[<<"kill", 0>>] = latch.kill
    /\ said[<<"lock", 0>>] = latch.lock
    /\ said[<<"week", 0>>] = latch.week
    /\ said[<<"summary", 0>>] \in {Absent, latch.summary}
BudgetLatch ==
    /\ latch.budgetDay # Absent => latch.budgetDay \in Int /\ latch.budgetDay <= A!Today
    /\ \A l \in Levels : said[<<"budget", l>>] # Absent =>
          /\ latch.budgetDay # Absent
          /\ said[<<"budget", l>>] \in Int /\ said[<<"budget", l>>] <= latch.budgetDay
          /\ said[<<"budget", l>>] = latch.budgetDay => l \in latch.levels
SaidInv == DayLatches /\ BudgetLatch /\ ~repeated

LEMMA DaysAreDays ==
  ASSUME AlertConstants, hour \in Nat
  PROVE  /\ A!Today \in Int /\ A!Today # Absent
         /\ A!UtcDay \div Week \in Int /\ A!UtcDay \div Week # Absent
         /\ hour' = hour + 1 => A!Today <= A!Today'
<1>1. hour + Offset \in Nat /\ (hour + Offset) \div Day \in Int /\ hour \div Day \in Int
  BY DEF AlertConstants
<1>2. ASSUME NEW a \in Nat, NEW d \in Nat \ {0} PROVE a \div d <= (a + 1) \div d
  BY <1>2, Z3
<1>3. (hour \div Day) \div Week \in Int
  BY <1>1 DEF AlertConstants
<1>4. hour' = hour + 1 => (hour + Offset) \div Day <= (hour' + Offset) \div Day
  <2>1. (hour + Offset) \div Day <= ((hour + Offset) + 1) \div Day
    BY <1>1, <1>2 DEF AlertConstants
  <2>2. hour' = hour + 1 => hour' + Offset = (hour + Offset) + 1
    BY DEF AlertConstants
  <2> QED BY <2>1, <2>2
<1> QED BY <1>1, <1>3, <1>4 DEF AlertConstants, A!Today, A!LogicalDay, A!UtcDay

\* What a message changes.
LEMMA SayOnly ==
  ASSUME DOMAIN said = Messages, NEW kinds, NEW day, A!Say(kinds, day)
  PROVE  /\ DOMAIN said' = Messages
         /\ \A k \in Messages : said'[k] = IF k \in kinds THEN day ELSE said[k]
         /\ ~repeated /\ (\A k \in kinds : said[k] # day) => ~repeated'
BY DEF A!Say

LEMMA MessagesAre ==
  /\ <<"kill", 0>> \in Messages /\ <<"lock", 0>> \in Messages
  /\ <<"week", 0>> \in Messages /\ <<"summary", 0>> \in Messages
  /\ \A l \in Levels : <<"budget", l>> \in Messages
BY DEF Messages

LEMMA DayInit == ASSUME AlertConstants, A!Init PROVE SaidInv /\ WarnInv
<1>1. DOMAIN latch = LatchFields /\ latch.budgetDay = Absent /\ latch.kill = Absent
      /\ latch.lock = Absent /\ latch.week = Absent /\ latch.summary = Absent
  BY DEF A!Init, A!Fresh, LatchFields
<1>2. DOMAIN said = Messages /\ \A k \in Messages : said[k] = Absent
  BY DEF A!Init, A!Unsaid, Messages
<1>3. WarnInv
  <2>1. row \in {[mark |-> r.mark, stop |-> r.stop, fired |-> FALSE] : r \in RowMarks} /\ warnings = 0
    BY DEF A!Init
  <2>2. PICK r \in RowMarks : row = [mark |-> r.mark, stop |-> r.stop, fired |-> FALSE]
    BY <2>1
  <2> QED BY <2>1, <2>2 DEF WarnInv
<1>4. hour \in Nat /\ ~repeated
  BY DEF A!Init
<1> QED BY <1>1, <1>2, <1>3, <1>4, MessagesAre DEF SaidInv, DayLatches, BudgetLatch

LEMMA WarnStep == ASSUME WarnInv, [A!Next]_A!vars PROVE WarnInv'
<1> USE DEF WarnInv
<1>1. ASSUME NEW delivered \in BOOLEAN, A!StopApproach(delivered) PROVE WarnInv'
  <2>1. CASE A!NearsStop
    <3>1. row' = [row EXCEPT !.fired = TRUE]
      BY <1>1, <2>1 DEF A!StopApproach, A!Flagged
    <3>2. warnings' = warnings + (IF delivered THEN 1 ELSE 0) /\ ~row.fired
      BY <1>1, <2>1 DEF A!StopApproach, A!NearsStop
    <3> QED BY <3>1, <3>2
  <2>2. CASE ~A!NearsStop
    BY <1>1, <2>2 DEF A!StopApproach, A!TradeAsIs
  <2> QED BY <2>1, <2>2
<1>2. CASE A!DiesBeforeSend
  BY <1>2 DEF A!DiesBeforeSend, A!NearsStop, A!Flagged
<1>3. CASE A!Cycle
  <2>1. PICK x \in RowMarks : row' = [row EXCEPT !.mark = x.mark, !.stop = x.stop]
    BY <1>3 DEF A!Cycle
  <2>2. DOMAIN row' = DOMAIN row /\ row'.fired = row.fired /\ warnings' = warnings
    BY <1>3, <2>1 DEF A!Cycle
  <2> QED BY <2>2
<1>4. ASSUME UNCHANGED <<row, warnings>> PROVE WarnInv'
  BY <1>4
<1>5. ASSUME NEW delivered \in BOOLEAN, A!ExposureAlert(delivered) \/ A!FeedAlert(delivered)
      PROVE  UNCHANGED <<row, warnings>>
  BY <1>5 DEF A!ExposureAlert, A!FeedAlert, A!TradeAsIs
<1>6. CASE \/ A!WalletAlert \/ A!LeverageAlert \/ A!KillSwitch \/ A!ProfitLock \/ A!DailySummary
           \/ A!PositionSummary \/ A!LossBudget \/ A!WeeklyReport
  BY <1>4, <1>6 DEF A!WalletAlert, A!LeverageAlert, A!KillSwitch, A!ProfitLock, A!DailySummary,
     A!PositionSummary, A!LossBudget, A!WeeklyReport, A!TradeAsIs
<1>7. CASE A!Close \/ A!Tick \/ A!Restart \/ UNCHANGED A!vars
  BY <1>4, <1>7 DEF A!Close, A!Tick, A!Restart, A!vars
<1> QED BY <1>1, <1>2, <1>3, <1>4, <1>5, <1>6, <1>7 DEF A!Next

\* A step that says nothing and leaves the latches of the days alone.
LEMMA SaidAsIs ==
  ASSUME SaidInv, UNCHANGED <<hour, said, repeated>>, DOMAIN latch' = LatchFields,
         \A f \in {"kill", "lock", "summary", "budgetDay", "levels", "week"} : latch'[f] = latch[f]
  PROVE  SaidInv'
<1>1. A!Today' = A!Today
  BY DEF A!Today, A!LogicalDay
<1>2. /\ latch'.kill = latch.kill /\ latch'.lock = latch.lock /\ latch'.summary = latch.summary
      /\ latch'.budgetDay = latch.budgetDay /\ latch'.levels = latch.levels
      /\ latch'.week = latch.week
  OBVIOUS
<1> QED BY <1>1, <1>2 DEF SaidInv, DayLatches, BudgetLatch

\* A handler of one latched day says its message.
LEMMA SaidOne ==
  ASSUME SaidInv, NEW kind \in {"kill", "lock", "week"}, NEW day, A!Once(kind, day),
         latch[kind] # day, hour' = hour,
         DOMAIN latch' = LatchFields, latch'[kind] = day,
         \A f \in {"kill", "lock", "summary", "budgetDay", "levels", "week"} \ {kind} :
            latch'[f] = latch[f]
  PROVE  SaidInv'
<1>1. A!Today' = A!Today
  BY DEF A!Today, A!LogicalDay
<1>2. /\ DOMAIN said' = Messages
      /\ \A k \in Messages : said'[k] = IF k = <<kind, 0>> THEN day ELSE said[k]
      /\ ~repeated /\ said[<<kind, 0>>] # day => ~repeated'
  BY SayOnly DEF A!Once, SaidInv, DayLatches
<1>3. said[<<kind, 0>>] = latch[kind]
  BY DEF SaidInv, DayLatches
<1>4. ~repeated'
  BY <1>2, <1>3 DEF SaidInv
<1>5. BudgetLatch'
  <2>1. \A l \in Levels : said'[<<"budget", l>>] = said[<<"budget", l>>]
    BY <1>2, MessagesAre
  <2>2. latch'.budgetDay = latch.budgetDay /\ latch'.levels = latch.levels
    OBVIOUS
  <2> QED BY <1>1, <2>1, <2>2 DEF SaidInv, BudgetLatch
<1>6. DayLatches'
  <2>1. said'[<<"summary", 0>>] = said[<<"summary", 0>>] /\ latch'.summary = latch.summary
    BY <1>2, MessagesAre
  <2>2. \A k \in {"kill", "lock", "week"} : said'[<<k, 0>>] = latch'[k]
    <3>1. ASSUME NEW k \in {"kill", "lock", "week"} PROVE said'[<<k, 0>>] = latch'[k]
      <4>1. CASE k = kind
        BY <1>2, <4>1, MessagesAre
      <4>2. CASE k # kind
        BY <1>2, <4>2, MessagesAre DEF SaidInv, DayLatches
      <4> QED BY <4>1, <4>2
    <3> QED BY <3>1
  <2>3. /\ said'[<<"kill", 0>>] = latch'.kill /\ said'[<<"lock", 0>>] = latch'.lock
        /\ said'[<<"week", 0>>] = latch'.week
    BY <2>2
  <2> QED BY <1>2, <2>1, <2>3 DEF SaidInv, DayLatches
<1> QED BY <1>4, <1>5, <1>6 DEF SaidInv

\* The first look at a day: what was said of the day before is older.
LEMMA SummaryDay == ASSUME AlertConstants, SaidInv, A!DailySummary PROVE SaidInv'
<1>1. /\ hour' = hour /\ A!Today' = A!Today /\ latch' = [latch EXCEPT !.summary = A!Today]
      /\ latch.summary \notin {Absent, A!Today} => A!Once("summary", A!Today)
      /\ latch.summary \in {Absent, A!Today} => UNCHANGED <<said, repeated>>
  BY DEF A!DailySummary, A!Finished, A!NothingOnce, A!Today, A!LogicalDay
<1>2. /\ DOMAIN latch' = LatchFields /\ latch'.summary = A!Today
      /\ latch'.kill = latch.kill /\ latch'.lock = latch.lock /\ latch'.week = latch.week
      /\ latch'.budgetDay = latch.budgetDay /\ latch'.levels = latch.levels
  BY <1>1 DEF SaidInv, DayLatches, LatchFields
<1>3. A!Today # Absent
  BY DaysAreDays DEF SaidInv, DayLatches
<1>4. /\ DOMAIN said' = Messages /\ ~repeated'
      /\ \A k \in Messages : k # <<"summary", 0>> => said'[k] = said[k]
      /\ said'[<<"summary", 0>>] \in {Absent, A!Today}
  <2>1. CASE latch.summary \in {Absent, A!Today}
    BY <1>1, <2>1 DEF SaidInv, DayLatches
  <2>2. CASE latch.summary \notin {Absent, A!Today}
    <3>1. /\ DOMAIN said' = Messages
          /\ \A k \in Messages : said'[k] = IF k = <<"summary", 0>> THEN A!Today ELSE said[k]
          /\ said[<<"summary", 0>>] # A!Today => ~repeated'
      BY <1>1, <2>2, SayOnly DEF A!Once, SaidInv, DayLatches
    <3>2. said[<<"summary", 0>>] # A!Today
      BY <1>3, <2>2 DEF SaidInv, DayLatches
    <3> QED BY <3>1, <3>2, MessagesAre
  <2> QED BY <2>1, <2>2
<1>5. BudgetLatch'
  <2>1. \A l \in Levels : said'[<<"budget", l>>] = said[<<"budget", l>>]
    BY <1>4, MessagesAre
  <2> QED BY <1>1, <1>2, <2>1 DEF SaidInv, BudgetLatch
<1>6. DayLatches'
  <2>1. /\ said'[<<"kill", 0>>] = said[<<"kill", 0>>] /\ said'[<<"lock", 0>>] = said[<<"lock", 0>>]
        /\ said'[<<"week", 0>>] = said[<<"week", 0>>]
    BY <1>4, MessagesAre
  <2> QED BY <1>1, <1>2, <1>4, <2>1 DEF SaidInv, DayLatches
<1> QED BY <1>4, <1>5, <1>6 DEF SaidInv

\* A level already said today is among those the latch holds, so the others are new.
LEMMA BudgetDay == ASSUME AlertConstants, SaidInv, A!LossBudget PROVE SaidInv'
<1>1. PICK reached \in SUBSET Levels :
        /\ reached \cap A!Fired = {}
        /\ latch' = [latch EXCEPT !.budgetDay = A!Today, !.levels = A!Fired \cup reached]
        /\ A!Say({"budget"} \X reached, A!Today)
  <2>1. PICK reached : /\ reached = {l \in Levels : -A!PnlUtc >= l} \ A!Fired
                       /\ latch' = [latch EXCEPT !.budgetDay = A!Today,
                                                 !.levels = A!Fired \cup reached]
                       /\ A!Say({"budget"} \X reached, A!Today)
    BY DEF A!LossBudget
  <2> QED BY <2>1
<1>2. hour' = hour /\ A!Today' = A!Today
  BY DEF A!LossBudget, A!Finished, A!Today, A!LogicalDay
<1>3. /\ DOMAIN latch' = LatchFields /\ latch'.summary = latch.summary
      /\ latch'.kill = latch.kill /\ latch'.lock = latch.lock /\ latch'.week = latch.week
      /\ latch'.budgetDay = A!Today /\ latch'.levels = A!Fired \cup reached
  BY <1>1 DEF SaidInv, DayLatches, LatchFields
<1>4. /\ DOMAIN said' = Messages
      /\ \A k \in Messages : said'[k] = IF k \in {"budget"} \X reached THEN A!Today ELSE said[k]
      /\ (\A k \in {"budget"} \X reached : said[k] # A!Today) => ~repeated'
  BY <1>1, SayOnly DEF SaidInv, DayLatches
<1>5. A!Today \in Int /\ A!Today # Absent
  BY DaysAreDays DEF SaidInv, DayLatches
<1>6. \A l \in Levels : said[<<"budget", l>>] = A!Today => l \in A!Fired
  <2>1. ASSUME NEW l \in Levels, said[<<"budget", l>>] = A!Today PROVE l \in A!Fired
    <3>1. latch.budgetDay = A!Today
      BY <1>5, <2>1 DEF SaidInv, BudgetLatch
    <3> QED BY <1>5, <2>1, <3>1 DEF SaidInv, BudgetLatch, A!Fired
  <2> QED BY <2>1
<1>7. ~repeated'
  <2>1. ASSUME NEW k \in {"budget"} \X reached PROVE said[k] # A!Today
    <3>1. PICK l \in reached : k = <<"budget", l>>
      BY <2>1
    <3> QED BY <1>1, <1>6, <3>1
  <2> QED BY <1>4, <2>1
<1>8. \A l \in Levels : said'[<<"budget", l>>] = IF l \in reached THEN A!Today
                                                ELSE said[<<"budget", l>>]
  BY <1>4, MessagesAre
<1>9. BudgetLatch'
  <2>1. ASSUME NEW l \in Levels, said'[<<"budget", l>>] # Absent
        PROVE  /\ said'[<<"budget", l>>] \in Int /\ said'[<<"budget", l>>] <= A!Today
               /\ said'[<<"budget", l>>] = A!Today => l \in A!Fired \cup reached
    <3>1. CASE l \in reached
      BY <1>5, <1>8, <3>1
    <3>2. CASE l \notin reached
      BY <1>5, <1>6, <1>8, <2>1, <3>2 DEF SaidInv, BudgetLatch
    <3> QED BY <3>1, <3>2
  <2> QED BY <1>2, <1>3, <1>5, <2>1 DEF BudgetLatch
<1>10. DayLatches'
  <2>1. /\ said'[<<"kill", 0>>] = said[<<"kill", 0>>] /\ said'[<<"lock", 0>>] = said[<<"lock", 0>>]
        /\ said'[<<"week", 0>>] = said[<<"week", 0>>]
        /\ said'[<<"summary", 0>>] = said[<<"summary", 0>>]
    BY <1>4, MessagesAre
  <2> QED BY <1>2, <1>3, <1>4, <2>1 DEF SaidInv, DayLatches
<1> QED BY <1>7, <1>9, <1>10 DEF SaidInv

LEMMA SaidStep == ASSUME AlertConstants, SaidInv, [A!Next]_A!vars PROVE SaidInv'
<1>1. DOMAIN latch = LatchFields /\ ~repeated /\ hour \in Nat
  BY DEF SaidInv, DayLatches
<1>2. CASE \/ A!WalletAlert \/ A!LeverageAlert \/ A!PositionSummary \/ A!Cycle \/ A!Close
           \/ \E delivered \in BOOLEAN :
                \/ A!ExposureAlert(delivered) \/ A!FeedAlert(delivered)
                \/ A!StopApproach(delivered)
           \/ UNCHANGED A!vars
  <2>1. UNCHANGED <<hour, said, repeated>>
    BY <1>2 DEF A!WalletAlert, A!LeverageAlert, A!PositionSummary, A!Cycle, A!Close,
       A!ExposureAlert, A!FeedAlert, A!StopApproach, A!vars, A!NothingOnce, A!Finished
  <2>2. \/ latch' = latch
        \/ latch' = [latch EXCEPT !.wallet = world.stale /\ latch.ran]
        \/ latch' = [latch EXCEPT !.leverage = world.high]
        \/ latch' = [latch EXCEPT !.digest = hour]
        \/ latch' = [latch EXCEPT !.exposure = world.over]
        \/ latch' = [latch EXCEPT !.feed = world.feed]
    BY <1>2 DEF A!WalletAlert, A!LeverageAlert, A!PositionSummary, A!Cycle, A!Close,
       A!ExposureAlert, A!FeedAlert, A!StopApproach, A!vars, A!FeedTurned
  <2>3. DOMAIN latch' = LatchFields
    BY <1>1, <2>2
  <2>4. \A f \in {"kill", "lock", "summary", "budgetDay", "levels", "week"} : latch'[f] = latch[f]
    BY <1>1, <2>2 DEF LatchFields
  <2> QED BY <2>1, <2>3, <2>4, SaidAsIs
<1>3. CASE A!KillSwitch \/ A!ProfitLock
  <2>1. PICK kind \in {"kill", "lock"} :
          \/ UNCHANGED <<hour, said, repeated, latch>>
          \/ /\ hour' = hour /\ A!Once(kind, A!Today) /\ latch[kind] # A!Today
             /\ latch' = [latch EXCEPT ![kind] = A!Today]
    BY <1>3 DEF A!KillSwitch, A!ProfitLock, A!NothingOnce, A!Finished
  <2>2. CASE UNCHANGED <<hour, said, repeated, latch>>
    BY <1>1, <2>2, SaidAsIs
  <2>3. CASE /\ hour' = hour /\ A!Once(kind, A!Today) /\ latch[kind] # A!Today
             /\ latch' = [latch EXCEPT ![kind] = A!Today]
    <3>1. DOMAIN latch' = LatchFields /\ latch'[kind] = A!Today
      BY <1>1, <2>3 DEF LatchFields
    <3>2. \A f \in {"kill", "lock", "summary", "budgetDay", "levels", "week"} \ {kind} :
            latch'[f] = latch[f]
      BY <1>1, <2>3 DEF LatchFields
    <3> QED BY <2>3, <3>1, <3>2, SaidOne
  <2> QED BY <2>1, <2>2, <2>3
<1>4. CASE A!WeeklyReport
  <2> DEFINE week == A!UtcDay \div Week
  <2>1. PICK due \in BOOLEAN :
          /\ due => latch.week # week /\ A!Once("week", week)
          /\ ~due => UNCHANGED <<said, repeated>>
          /\ latch' = [latch EXCEPT !.ran = TRUE, !.week = IF due THEN week ELSE @]
          /\ hour' = hour
    BY <1>4 DEF A!WeeklyReport, A!NothingOnce, A!Finished
  <2>2. /\ DOMAIN latch' = LatchFields /\ latch'.week = IF due THEN week ELSE latch.week
        /\ \A f \in {"kill", "lock", "summary", "budgetDay", "levels"} : latch'[f] = latch[f]
    BY <1>1, <2>1 DEF LatchFields
  <2> HIDE DEF week
  <2>3. CASE due
    <3>1. /\ latch'["week"] = week
          /\ \A f \in {"kill", "lock", "summary", "budgetDay", "levels", "week"} \ {"week"} :
               latch'[f] = latch[f]
      BY <2>2, <2>3
    <3> QED BY <2>1, <2>2, <2>3, <3>1, SaidOne
  <2>4. CASE ~due
    <3>1. \A f \in {"kill", "lock", "summary", "budgetDay", "levels", "week"} :
            latch'[f] = latch[f]
      BY <2>2, <2>4
    <3> QED BY <2>1, <2>2, <2>4, <3>1, SaidAsIs
  <2> QED BY <2>1, <2>3, <2>4
<1>5. CASE A!Tick
  <2>1. hour' = hour + 1 /\ UNCHANGED <<latch, said, repeated>>
    BY <1>5 DEF A!Tick
  <2>2. A!Today \in Int /\ A!Today' \in Int /\ A!Today <= A!Today'
    <3>1. hour' \in Nat
      BY <1>1, <2>1
    <3>2. A!Today' \in Int
      BY <3>1 DEF A!Today, A!LogicalDay, AlertConstants
    <3> QED BY <1>1, <2>1, <3>2, DaysAreDays
  <2>3. hour' \in Nat
    BY <1>1, <2>1
  <2> QED BY <2>1, <2>2, <2>3 DEF SaidInv, DayLatches, BudgetLatch
<1>6. CASE A!DiesBeforeSend \/ A!Restart
  <2>1. hour' = hour /\ repeated' = repeated /\ latch' = A!Fresh /\ said' = A!Unsaid
    BY <1>6 DEF A!DiesBeforeSend, A!Restart
  <2>2. DOMAIN latch' = LatchFields /\ latch'.budgetDay = Absent /\ latch'.kill = Absent
        /\ latch'.lock = Absent /\ latch'.week = Absent /\ latch'.summary = Absent
    BY <2>1 DEF A!Fresh, LatchFields
  <2>3. DOMAIN said' = Messages /\ \A k \in Messages : said'[k] = Absent
    BY <2>1 DEF A!Unsaid, Messages
  <2> QED BY <1>1, <2>1, <2>2, <2>3, MessagesAre DEF SaidInv, DayLatches, BudgetLatch
<1> QED
  BY <1>2, <1>3, <1>4, <1>5, <1>6, SummaryDay, BudgetDay DEF A!Next

\* The stop warning of a trade is sent once, whatever restarts; and in one process the kill
\* switch, the lock, the summary, each level of the budget and the weekly report are said
\* once for their day or week (SaidOnce).
THEOREM OperatorNotNagged == ASSUME AlertConstants PROVE OperatorSpec => []SaidOnce
<1> DEFINE Inv == AlertsRun => SaidInv /\ WarnInv
<1>1. OperatorInit => Inv
  BY DayInit DEF OperatorInit, AlertsParked, AlertsRun
<1>2. Inv /\ [OperatorNext]_operatorVars => Inv'
  <2> SUFFICES ASSUME Inv, [OperatorNext]_operatorVars, AlertsRun' PROVE (SaidInv /\ WarnInv)'
    OBVIOUS
  <2>1. CASE AlertsStep
    BY <2>1, SaidStep, WarnStep DEF AlertsStep
  <2>2. CASE ~AlertsStep
    <3>1. UNCHANGED A!vars
      BY <2>2 DEF OperatorNext, AccountStep, EnvStep, DatabaseStep, operatorVars, alertVars,
                  A!vars
    <3>2. AlertsRun
      BY <3>1 DEF AlertsRun, A!vars
    <3> QED BY <3>1, <3>2, SaidStep, WarnStep
  <2> QED BY <2>1, <2>2
<1>3. Inv => SaidOnce
  BY DEF SaidInv, WarnInv, SaidOnce, A!SaidOnce, A!WarnedOnce, A!OncePerDay
<1> QED BY <1>1, <1>2, <1>3, PTL DEF OperatorSpec

--------------------------------------------------------------------------------
(* The environment file (EnvFile), for every file, every request and every *)
(* place a script may be killed.                                           *)

CONSTANTS Names, Values

LineSet == [key : Names, value : Values]
Contents == Seq(LineSet)
LiveKeys == {"AX_MODE", "LIVE_ENABLED", "LIVE_SEND_ORDERS", "LIVE_HUMAN_CONFIRM",
             "BINANCE_API_KEY"}

\* The lists of the scripts name no gate and no secret (update_env.py:61-84,
\* apply_session_env.py:72-73), the paper block disarms, and neither the defaults nor the
\* example file are armed.
EnvConstants ==
    /\ Found \subseteq Contents /\ Example \in Contents /\ Absent \notin Contents
    /\ \A s, c, b, l, k, o : Absent # [script |-> s, changes |-> c, before |-> b, lines |-> l,
                                     keep |-> k, open |-> o]
    /\ IsFiniteSet(AllowedKeys) /\ AllowedKeys \subseteq Names /\ AllowedKeys \cap LiveKeys = {}
    /\ LiveKeys \subseteq DOMAIN Profile /\ Profile.LIVE_ENABLED # "true"
    /\ "LIVE_ENABLED" \in DOMAIN FastBlock /\ FastBlock.LIVE_ENABLED = "false"
    /\ DOMAIN SessionBlock \cap LiveKeys = {}
    /\ \A c \in Requests \cup {FastBlock, SessionBlock} :
          DOMAIN c \subseteq Names /\ \A k \in DOMAIN c : c[k] \in Values
    /\ LiveKeys \cup {"LIVE_CANARY_RISK_PCT"} \subseteq Names
    /\ {"true", "false", "token"} \subseteq Values /\ {25, 10000} \subseteq Values
    /\ ~E!Armed(E!Config(Example))

\* A nonempty set of positions has a last one.
LEMMA LastPosition ==
  ASSUME NEW n \in Nat, NEW S \in SUBSET (1 .. n), S # {}
  PROVE  E!Max(S) \in S
<1>1. IsFiniteSet(1 .. n) /\ S \in SUBSET Int
  BY FS_Interval
<1>2. IsFiniteSet(S)
  BY <1>1, FS_Subset
<1>3. \E x \in S : \A y \in S : x >= y
  BY <1>1, <1>2, GreatestElement
<1> QED BY <1>3 DEF E!Max

\* The positions at which a key is assigned.
At(lines, k) == {i \in DOMAIN lines : lines[i].key = k}

LEMMA FileFacts ==
  ASSUME NEW lines \in Contents
  PROVE  /\ Len(lines) \in Nat /\ DOMAIN lines = 1 .. Len(lines)
         /\ \A i \in 1 .. Len(lines) : /\ lines[i] \in LineSet /\ lines[i].key \in Names
                                       /\ lines[i].value \in Values
                                       /\ lines[i] = [key |-> lines[i].key, value |-> lines[i].value]
<1>1. Len(lines) \in Nat /\ DOMAIN lines = 1 .. Len(lines)
  BY DEF Contents
<1>2. ASSUME NEW i \in 1 .. Len(lines)
      PROVE  /\ lines[i] \in LineSet /\ lines[i].key \in Names /\ lines[i].value \in Values
             /\ lines[i] = [key |-> lines[i].key, value |-> lines[i].value]
  <2>1. lines[i] \in [key : Names, value : Values]
    BY <1>2, ElementOfSeq DEF Contents, LineSet
  <2> QED BY <2>1 DEF LineSet
<1> QED BY <1>1, <1>2

\* If two files assign a key at the same lines the same way, it has the same value.
LEMMA SameValue ==
  ASSUME NEW lines \in Contents, NEW new \in Contents, NEW k, At(new, k) = At(lines, k),
         \A i \in At(lines, k) : new[i].value = lines[i].value
  PROVE  E!Value(new, k) = E!Value(lines, k)
<1>1. k \in E!Keys(lines) <=> At(lines, k) # {}
  BY DEF E!Keys, At
<1>2. k \in E!Keys(new) <=> At(new, k) # {}
  BY DEF E!Keys, At
<1>3. At(lines, k) # {} => E!Max(At(lines, k)) \in At(lines, k)
  BY FileFacts, LastPosition DEF At
<1> QED BY <1>1, <1>2, <1>3 DEF E!Value, At

\* If every assignment of a key has one value, that is the value, if it is assigned.
LEMMA OnlyValue ==
  ASSUME NEW lines \in Contents, NEW k, NEW v, \A i \in At(lines, k) : lines[i].value = v
  PROVE  E!Value(lines, k) \in {v, Absent}
<1>1. k \in E!Keys(lines) => At(lines, k) # {}
  BY DEF E!Keys, At
<1>2. At(lines, k) # {} => E!Max(At(lines, k)) \in At(lines, k)
  BY FileFacts, LastPosition DEF At
<1> QED BY <1>1, <1>2 DEF E!Value, At

\* A file in which no live order is enabled does not load armed.
LEMMA NotEnabled ==
  ASSUME EnvConstants, NEW lines, E!Value(lines, "LIVE_ENABLED") \in {"false", Absent}
  PROVE  ~E!Armed(E!Config(lines))
<1>1. E!Setting(lines, "LIVE_ENABLED") # "true"
  BY DEF E!Setting, EnvConstants
<1>2. E!Config(lines).LIVE_ENABLED = E!Setting(lines, "LIVE_ENABLED")
  BY DEF E!Config, EnvConstants, LiveKeys
<1> QED BY <1>1, <1>2 DEF E!Armed

\* Two files with the same live keys load alike as far as these go.
LEMMA SameGates ==
  ASSUME EnvConstants, NEW lines, NEW new,
         \A k \in LiveKeys : E!Value(new, k) = E!Value(lines, k)
  PROVE  E!Armed(E!Config(new)) <=> E!Armed(E!Config(lines))
<1>1. ASSUME NEW k \in LiveKeys PROVE E!Config(new)[k] = E!Config(lines)[k]
  BY <1>1 DEF E!Config, E!Setting, EnvConstants
<1> QED BY <1>1 DEF E!Armed, LiveKeys

--------------------------------------------------------------------------------
(* What each of the two ways to write does to the lines.                   *)

LEMMA UpsertFacts ==
  ASSUME NEW lines \in Contents, NEW k \in Names, NEW v \in Values
  PROVE  /\ E!Upsert(lines, k, v) \in Contents
         /\ E!Value(E!Upsert(lines, k, v), k) \in {v, Absent}
         /\ \A j \in Names \ {k} : E!Value(E!Upsert(lines, k, v), j) = E!Value(lines, j)
<1> DEFINE new == E!Upsert(lines, k, v)
<1> USE DEF E!Line
<1>1. CASE k \in E!Keys(lines)
  <2>1. new = [i \in DOMAIN lines |-> IF lines[i].key = k THEN E!Line(k, v) ELSE lines[i]]
    BY <1>1 DEF E!Upsert
  <2>2. [key |-> k, value |-> v] \in LineSet
    BY DEF LineSet
  <2>3. new \in Contents /\ DOMAIN new = DOMAIN lines
    BY <2>1, <2>2, FileFacts, SeqDef DEF Contents
  <2>4. \A i \in DOMAIN lines : /\ lines[i].key = k => new[i].key = k /\ new[i].value = v
                                /\ lines[i].key # k => new[i] = lines[i]
    BY <2>1
  <2> HIDE DEF new
  <2>5. \A i \in At(new, k) : new[i].value = v
    BY <2>3, <2>4 DEF At
  <2>6. ASSUME NEW j \in Names \ {k}
        PROVE  At(new, j) = At(lines, j) /\ \A i \in At(lines, j) : new[i].value = lines[i].value
    BY <2>3, <2>4 DEF At
  <2>7. \A j \in Names \ {k} : E!Value(new, j) = E!Value(lines, j)
    BY <2>3, <2>6, SameValue
  <2> QED BY <2>3, <2>5, <2>7, OnlyValue DEF new
<1>2. CASE k \notin E!Keys(lines)
  <2>1. new = Append(lines, [key |-> k, value |-> v])
    BY <1>2 DEF E!Upsert
  <2>2. [key |-> k, value |-> v] \in LineSet
    BY DEF LineSet
  <2>3. /\ new \in Contents /\ DOMAIN new = 1 .. Len(lines) + 1
        /\ \A i \in 1 .. Len(lines) : new[i] = lines[i]
        /\ new[Len(lines) + 1] = [key |-> k, value |-> v]
    BY <2>1, <2>2, FileFacts, AppendProperties DEF Contents
  <2> HIDE DEF new
  <2>4. \A i \in DOMAIN lines : lines[i].key # k
    BY <1>2 DEF E!Keys
  <2>5. \A i \in At(new, k) : new[i].value = v
    BY <2>3, <2>4, FileFacts DEF At
  <2>6. ASSUME NEW j \in Names \ {k}
        PROVE  At(new, j) = At(lines, j) /\ \A i \in At(lines, j) : new[i].value = lines[i].value
    BY <2>3, FileFacts DEF At
  <2>7. \A j \in Names \ {k} : E!Value(new, j) = E!Value(lines, j)
    BY <2>3, <2>6, SameValue
  <2> QED BY <2>3, <2>5, <2>7, OnlyValue DEF new
<1> QED BY <1>1, <1>2

Changes(c) == c \in Requests \cup {FastBlock, SessionBlock}

LEMMA ReplacedFacts ==
  ASSUME EnvConstants, NEW lines \in Contents, NEW c, Changes(c)
  PROVE  /\ E!Replaced(lines, c) \in Contents /\ Len(E!Replaced(lines, c)) = Len(lines)
         /\ \A i \in 1 .. Len(lines) :
               /\ E!Replaced(lines, c)[i].key = lines[i].key
               /\ E!Replaced(lines, c)[i].value =
                     IF lines[i].key \in DOMAIN c \ E!Secrets THEN c[lines[i].key]
                     ELSE lines[i].value
<1> DEFINE new == E!Replaced(lines, c)
<1>1. new = [i \in 1 .. Len(lines) |->
               IF lines[i].key \in DOMAIN c \ E!Secrets
               THEN [key |-> lines[i].key, value |-> c[lines[i].key]] ELSE lines[i]]
  BY FileFacts DEF E!Replaced, E!Line
<1>2. \A i \in 1 .. Len(lines) : new[i] \in LineSet
  <2>1. ASSUME NEW i \in 1 .. Len(lines) PROVE new[i] \in LineSet
    <3>1. CASE lines[i].key \in DOMAIN c \ E!Secrets
      <4>1. new[i] = [key |-> lines[i].key, value |-> c[lines[i].key]]
        BY <1>1, <3>1
      <4>2. lines[i].key \in Names /\ c[lines[i].key] \in Values
        BY <3>1, FileFacts DEF Changes, EnvConstants
      <4> HIDE DEF new
      <4> QED BY <4>1, <4>2 DEF LineSet
    <3>2. CASE lines[i].key \notin DOMAIN c \ E!Secrets
      BY <1>1, <3>2, FileFacts
    <3> QED BY <3>1, <3>2
  <2> QED BY <2>1
<1>3. new \in Contents /\ Len(new) = Len(lines)
  BY <1>1, <1>2, FileFacts, SeqDef DEF Contents
<1>4. \A i \in 1 .. Len(lines) :
        /\ new[i].key = lines[i].key
        /\ new[i].value = IF lines[i].key \in DOMAIN c \ E!Secrets THEN c[lines[i].key]
                          ELSE lines[i].value
  BY <1>1
<1> QED BY <1>3, <1>4

\* The new lines are the missing keys, each once, in some order.
LEMMA AppendedFacts ==
  ASSUME EnvConstants, NEW c, Changes(c), NEW added \in SUBSET (DOMAIN c), IsFiniteSet(added)
  PROVE  /\ E!Appended(c, added) \in Contents
         /\ \A i \in 1 .. Len(E!Appended(c, added)) :
               LET l == E!Appended(c, added)[i] IN l.key \in added /\ l.value = c[l.key]
         /\ \A k \in added : \E i \in 1 .. Len(E!Appended(c, added)) : E!Appended(c, added)[i].key = k
<1> DEFINE Lines == {[key |-> k, value |-> c[k]] : k \in added}
           f == E!Appended(c, added)
<1>1. IsFiniteSet(Lines)
  <2> DEFINE g == [k \in added |-> [key |-> k, value |-> c[k]]]
  <2>1. g \in Surjection(added, Lines)
    BY DEF Surjection
  <2> HIDE DEF g, Lines
  <2> QED BY <2>1, FS_Surjection
<1>2. Lines \subseteq LineSet
  BY DEF Changes, EnvConstants, LineSet
<1>3. Cardinality(Lines) \in Nat /\ ExistsBijection(1 .. Cardinality(Lines), Lines)
  BY <1>1, FS_CardinalityType
<1>4. f \in [1 .. Cardinality(Lines) -> Lines] /\ IsInjective(f)
  <2>1. \E g \in [1 .. Cardinality(Lines) -> Lines] : IsInjective(g)
    BY <1>3, Zenon DEF ExistsBijection, Bijection, Injection
  <2>2. f = CHOOSE g \in [1 .. Cardinality(Lines) -> Lines] : IsInjective(g)
    BY Zenon DEF E!Appended, E!SetToSeq, E!Cardinality, Cardinality, E!IsInjective, IsInjective,
       E!Line
  <2> QED BY <2>1, <2>2, Zenon
<1>5. f \in Surjection(1 .. Cardinality(Lines), Lines)
  <2>1. f \in Injection(1 .. Cardinality(Lines), Lines)
    BY <1>4 DEF Injection
  <2>2. Cardinality(1 .. Cardinality(Lines)) = Cardinality(Lines)
    BY <1>3, FS_Interval
  <2> HIDE DEF Lines, f
  <2> QED BY <1>1, <2>1, <2>2, FS_Injection
<1>6. f \in Contents /\ Len(f) = Cardinality(Lines)
  <2> HIDE DEF Lines, f
  <2>1. f \in Seq(Lines) /\ Len(f) = Cardinality(Lines)
    BY <1>3, <1>4, SeqDef
  <2> QED BY <1>2, <2>1, SeqMonotonic DEF Contents
<1>7. \A i \in 1 .. Len(f) : f[i].key \in added /\ f[i].value = c[f[i].key]
  <2>1. \A l \in Lines : l.key \in added /\ l.value = c[l.key]
    OBVIOUS
  <2> HIDE DEF Lines, f
  <2> QED BY <1>4, <1>6, <2>1
<1>8. \A k \in added : \E i \in 1 .. Len(f) : f[i].key = k
  <2>1. ASSUME NEW k \in added PROVE \E i \in 1 .. Len(f) : f[i].key = k
    <3>1. [key |-> k, value |-> c[k]] \in Lines
      OBVIOUS
    <3>2. PICK i \in 1 .. Cardinality(Lines) : f[i] = [key |-> k, value |-> c[k]]
      <4> HIDE DEF Lines, f
      <4> QED BY <1>5, <3>1 DEF Surjection
    <3>3. f[i].key = k
      BY <3>2
    <3> HIDE DEF Lines, f
    <3> QED BY <1>6, <3>2, <3>3
  <2> QED BY <2>1
<1> HIDE DEF Lines, f
<1> QED BY <1>6, <1>7, <1>8 DEF f

\* A plan of changes assigns what it names, in every line and in the missing ones, and no
\* live key that it does not name.
LEMMA ApplyFacts ==
  ASSUME EnvConstants, NEW lines \in Contents, NEW c, Changes(c)
  PROVE  LET new == E!ApplyToLines(lines, c)
         IN  /\ new \in Contents
             /\ \A i \in 1 .. Len(new) :
                   new[i].key \in DOMAIN c \ E!Secrets => new[i].value = c[new[i].key]
             /\ E!Missing(new, c) = {}
             /\ \A k \in LiveKeys \ DOMAIN c : E!Value(new, k) = E!Value(lines, k)
<1> DEFINE kept == E!Replaced(lines, c)
           missing == E!Missing(lines, c)
           added == E!Appended(c, missing)
           new == kept \o added
<1>1. /\ kept \in Contents /\ Len(kept) = Len(lines)
      /\ \A i \in 1 .. Len(lines) :
            /\ kept[i].key = lines[i].key
            /\ kept[i].value = IF lines[i].key \in DOMAIN c \ E!Secrets THEN c[lines[i].key]
                               ELSE lines[i].value
  BY ReplacedFacts
<1>2. missing \subseteq DOMAIN c /\ missing \subseteq AllowedKeys /\ IsFiniteSet(missing)
  BY FS_Subset DEF E!Missing, EnvConstants
<1>3. /\ added \in Contents
      /\ \A i \in 1 .. Len(added) : added[i].key \in missing /\ added[i].value = c[added[i].key]
      /\ \A k \in missing : \E i \in 1 .. Len(added) : added[i].key = k
  BY <1>2, AppendedFacts
<1>4. \A k \in DOMAIN c \cap AllowedKeys : k \in missing \/ \E i \in 1 .. Len(lines) : lines[i].key = k
  BY FileFacts DEF E!Missing, E!Keys
<1>5. E!ApplyToLines(lines, c) = new
  BY DEF E!ApplyToLines
<1> HIDE DEF kept, missing, added
<1>6. /\ new \in Contents /\ Len(new) = Len(lines) + Len(added)
      /\ \A i \in 1 .. Len(lines) + Len(added) :
            new[i] = IF i <= Len(lines) THEN kept[i] ELSE added[i - Len(lines)]
  <2>1. kept \in Seq(LineSet) /\ added \in Seq(LineSet)
    BY <1>1, <1>3 DEF Contents
  <2>2. /\ kept \o added \in Seq(LineSet) /\ Len(kept \o added) = Len(kept) + Len(added)
        /\ \A i \in 1 .. Len(kept) + Len(added) :
              (kept \o added)[i] = IF i <= Len(kept) THEN kept[i] ELSE added[i - Len(kept)]
    BY <2>1, ConcatProperties
  <2> QED BY <1>1, <2>2 DEF Contents
<1>7. Len(lines) \in Nat /\ Len(added) \in Nat
  BY <1>3, FileFacts
<1> HIDE DEF new
<1>8. ASSUME NEW i \in 1 .. Len(new), new[i].key \in DOMAIN c \ E!Secrets
      PROVE  new[i].value = c[new[i].key]
  <2>1. CASE i <= Len(lines)
    BY <1>1, <1>6, <1>7, <1>8, <2>1
  <2>2. CASE ~(i <= Len(lines))
    <3>1. i - Len(lines) \in 1 .. Len(added) /\ new[i] = added[i - Len(lines)]
      BY <1>6, <1>7, <2>2
    <3> QED BY <1>3, <3>1
  <2> QED BY <2>1, <2>2
<1>9. ASSUME NEW k \in DOMAIN c \cap AllowedKeys PROVE k \in E!Keys(new)
  <2>1. \E i \in 1 .. Len(new) : new[i].key = k
    <3>1. CASE k \in missing
      <4>1. PICK i \in 1 .. Len(added) : added[i].key = k
        BY <1>3, <3>1
      <4>2. /\ Len(lines) + i \in 1 .. Len(lines) + Len(added) /\ ~(Len(lines) + i <= Len(lines))
            /\ (Len(lines) + i) - Len(lines) = i
        BY <1>7
      <4>3. new[Len(lines) + i] = added[i]
        BY <1>6, <4>2
      <4> QED BY <1>6, <4>1, <4>2, <4>3
    <3>2. CASE k \notin missing
      <4>1. PICK i \in 1 .. Len(lines) : lines[i].key = k
        BY <1>4, <3>2
      <4> QED BY <1>1, <1>6, <1>7, <4>1
    <3> QED BY <3>1, <3>2
  <2> QED BY <1>6, <2>1, FileFacts DEF E!Keys
<1>10. E!Missing(new, c) = {}
  BY <1>9 DEF E!Missing
<1>11. ASSUME NEW k \in LiveKeys \ DOMAIN c PROVE E!Value(new, k) = E!Value(lines, k)
  <2>1. \A i \in 1 .. Len(added) : added[i].key # k
    BY <1>2, <1>3
  <2>2. \A i \in 1 .. Len(new) : new[i].key = k => i \in 1 .. Len(lines)
    <3>1. ASSUME NEW i \in 1 .. Len(new), i \notin 1 .. Len(lines) PROVE new[i].key # k
      <4>1. i - Len(lines) \in 1 .. Len(added) /\ new[i] = added[i - Len(lines)]
        BY <1>6, <1>7, <3>1
      <4> QED BY <2>1, <4>1
    <3> QED BY <3>1
  <2>3. \A i \in 1 .. Len(lines) :
          i \in 1 .. Len(new) /\ new[i].key = lines[i].key
          /\ (lines[i].key = k => new[i].value = lines[i].value)
    <3>1. ASSUME NEW i \in 1 .. Len(lines) PROVE i \in 1 .. Len(new) /\ new[i] = kept[i]
      BY <1>6, <1>7
    <3> QED BY <1>1, <3>1
  <2>4. At(new, k) = At(lines, k) /\ \A i \in At(lines, k) : new[i].value = lines[i].value
    BY <1>6, <2>2, <2>3, FileFacts DEF At
  <2> QED BY <1>6, <2>4, SameValue
<1> QED BY <1>5, <1>6, <1>8, <1>10, <1>11

\* A second run finds every line as it would write it, and none missing.
LEMMA ApplyTwice ==
  ASSUME EnvConstants, NEW lines \in Contents, NEW c, Changes(c)
  PROVE  E!ApplyToLines(E!ApplyToLines(lines, c), c) = E!ApplyToLines(lines, c)
<1>1. PICK new \in Contents :
        /\ new = E!ApplyToLines(lines, c) /\ E!Missing(new, c) = {}
        /\ \A i \in 1 .. Len(new) :
              new[i].key \in DOMAIN c \ E!Secrets => new[i].value = c[new[i].key]
  BY ApplyFacts
<1>2. E!Replaced(new, c) = new
  <2>1. /\ E!Replaced(new, c) \in Contents /\ Len(E!Replaced(new, c)) = Len(new)
        /\ \A i \in 1 .. Len(new) :
              /\ E!Replaced(new, c)[i].key = new[i].key
              /\ E!Replaced(new, c)[i].value = new[i].value
    BY <1>1, ReplacedFacts
  <2>2. \A i \in 1 .. Len(new) : E!Replaced(new, c)[i] = new[i]
    BY <2>1, FileFacts
  <2> QED BY <1>1, <2>1, <2>2, SeqEqual DEF Contents
<1>3. E!Appended(c, {}) = <<>>
  <2>1. /\ E!Appended(c, {}) \in Contents
        /\ \A i \in 1 .. Len(E!Appended(c, {})) : E!Appended(c, {})[i].key \in {}
    <3>1. IsFiniteSet({})
      BY FS_EmptySet
    <3> QED BY <3>1, AppendedFacts
  <2>2. Len(E!Appended(c, {})) = 0
    BY <2>1, FileFacts
  <2> QED BY <2>1, <2>2, EmptySeq DEF Contents
<1> QED BY <1>1, <1>2, <1>3, ConcatEmptySeq DEF E!ApplyToLines, Contents

--------------------------------------------------------------------------------
(* The runs of the scripts.                                                *)

IsRun(r) == r = [script |-> r.script, changes |-> r.changes, before |-> r.before,
                 lines |-> r.lines, keep |-> r.keep, open |-> r.open]

\* What a script may have planned.
Plan(script, changes, before, lines) ==
    /\ lines \in Contents /\ before \in Contents
    /\ \/ /\ script = "update" /\ changes \in Requests /\ DOMAIN changes \subseteq AllowedKeys
          /\ \E from \in {before, Example} : lines = E!ApplyToLines(from, changes)
       \/ /\ script = "fast" /\ changes = FastBlock
          /\ \E from \in Contents : lines = E!ApplyToLines(from, FastBlock)
       \/ /\ script = "session" /\ changes = SessionBlock
          /\ lines = E!ApplyToLines(before, SessionBlock)
       \/ /\ script = "arm" /\ changes = <<>>
          /\ \E canary \in {25, 10000} : lines = E!ArmedLines(before, canary, "token")
       \/ /\ script = "disarm" /\ changes = <<>> /\ lines = E!Disarmed(before)

LEMMA PlanNeverArms ==
  ASSUME EnvConstants, NEW script, NEW changes, NEW before, NEW lines,
         Plan(script, changes, before, lines)
  PROVE  CASE script \in {"fast", "disarm"} -> ~E!Armed(E!Config(lines))
           [] script = "arm" -> E!Config(lines).AX_MODE = E!Config(before).AX_MODE
           [] OTHER -> E!Armed(E!Config(lines)) => E!Armed(E!Config(before))
<1>0. /\ {"LIVE_ENABLED", "LIVE_SEND_ORDERS", "LIVE_CANARY_RISK_PCT", "LIVE_HUMAN_CONFIRM",
           "AX_MODE"} \subseteq Names
      /\ {"true", "false", "token"} \subseteq Values /\ {25, 10000} \subseteq Values
  BY DEF EnvConstants, LiveKeys
<1>1. CASE script = "update"
  <2>1. PICK from \in {before, Example} : lines = E!ApplyToLines(from, changes)
    BY <1>1 DEF Plan
  <2>2. from \in Contents /\ Changes(changes) /\ LiveKeys \ DOMAIN changes = LiveKeys
    BY <1>1, <2>1 DEF Plan, Changes, EnvConstants
  <2>3. E!Armed(E!Config(lines)) <=> E!Armed(E!Config(from))
    BY <2>1, <2>2, ApplyFacts, SameGates
  <2>4. from = Example => ~E!Armed(E!Config(from))
    BY DEF EnvConstants
  <2> QED BY <1>1, <2>1, <2>3, <2>4
<1>2. CASE script = "session"
  <2>1. lines = E!ApplyToLines(before, SessionBlock) /\ before \in Contents
    BY <1>2 DEF Plan
  <2>2. Changes(SessionBlock) /\ LiveKeys \ DOMAIN SessionBlock = LiveKeys
    BY DEF Changes, EnvConstants
  <2>3. E!Armed(E!Config(lines)) <=> E!Armed(E!Config(before))
    BY <2>1, <2>2, ApplyFacts, SameGates
  <2> QED BY <1>2, <2>3
<1>3. CASE script = "fast"
  <2>1. PICK from \in Contents : lines = E!ApplyToLines(from, FastBlock)
    BY <1>3 DEF Plan
  <2>2. /\ lines \in Contents
        /\ \A i \in 1 .. Len(lines) :
              lines[i].key \in DOMAIN FastBlock \ E!Secrets =>
                lines[i].value = FastBlock[lines[i].key]
    BY <2>1, ApplyFacts DEF Changes
  <2>3. "LIVE_ENABLED" \in DOMAIN FastBlock \ E!Secrets /\ FastBlock["LIVE_ENABLED"] = "false"
    BY DEF EnvConstants, E!Secrets
  <2>4. \A i \in At(lines, "LIVE_ENABLED") : lines[i].value = "false"
    BY <2>2, <2>3, FileFacts DEF At
  <2>5. E!Value(lines, "LIVE_ENABLED") \in {"false", Absent}
    BY <2>2, <2>4, OnlyValue
  <2> QED BY <1>3, <2>5, NotEnabled
<1>4. CASE script = "disarm"
  <2>0. before \in Contents /\ "LIVE_ENABLED" \in Names /\ "false" \in Values
    BY <1>0 DEF Plan
  <2>1. PICK off \in Contents : /\ off = E!Upsert(before, "LIVE_ENABLED", "false")
                                /\ E!Value(off, "LIVE_ENABLED") \in {"false", Absent}
    BY <2>0, UpsertFacts
  <2>2. lines = E!Upsert(off, "LIVE_SEND_ORDERS", "false")
    BY <1>4, <2>1 DEF Plan, E!Disarmed
  <2>3. "LIVE_ENABLED" \in Names \ {"LIVE_SEND_ORDERS"}
    BY <1>0
  <2>4. E!Value(lines, "LIVE_ENABLED") = E!Value(off, "LIVE_ENABLED")
    BY <1>0, <2>1, <2>2, <2>3, UpsertFacts
  <2> QED BY <1>4, <2>1, <2>4, NotEnabled
<1>5. CASE script = "arm"
  <2>1. PICK canary \in {25, 10000} : lines = E!ArmedLines(before, canary, "token")
    BY <1>5 DEF Plan
  <2>2. \A k \in {"LIVE_ENABLED", "LIVE_SEND_ORDERS", "LIVE_CANARY_RISK_PCT", "LIVE_HUMAN_CONFIRM"} :
          "AX_MODE" \in Names \ {k} /\ k \in Names
    BY <1>0
  <2>3. PICK a \in Contents : /\ a = E!Upsert(before, "LIVE_ENABLED", "true")
                              /\ E!Value(a, "AX_MODE") = E!Value(before, "AX_MODE")
    BY <1>0, <2>2, UpsertFacts DEF Plan
  <2>4. PICK b \in Contents : /\ b = E!Upsert(a, "LIVE_SEND_ORDERS", "true")
                              /\ E!Value(b, "AX_MODE") = E!Value(a, "AX_MODE")
    BY <1>0, <2>2, UpsertFacts, SMTT(60)
  <2>5. PICK d \in Contents : /\ d = E!Upsert(b, "LIVE_CANARY_RISK_PCT", canary)
                              /\ E!Value(d, "AX_MODE") = E!Value(b, "AX_MODE")
    <3>1. canary \in Values
      BY <1>0
    <3> QED BY <1>0, <2>2, <3>1, UpsertFacts, SMTT(60)
  <2>6. /\ lines = E!Upsert(d, "LIVE_HUMAN_CONFIRM", "token")
        /\ E!Value(lines, "AX_MODE") = E!Value(d, "AX_MODE")
    <3>1. lines = E!Upsert(d, "LIVE_HUMAN_CONFIRM", "token")
      BY <2>1, <2>3, <2>4, <2>5 DEF E!ArmedLines
    <3> QED BY <1>0, <2>2, <3>1, UpsertFacts
  <2>7. E!Value(lines, "AX_MODE") = E!Value(before, "AX_MODE")
    BY <2>3, <2>4, <2>5, <2>6
  <2>8. E!Config(lines).AX_MODE = E!Config(before).AX_MODE
    BY <2>7 DEF E!Config, E!Setting, EnvConstants, LiveKeys
  <2> QED BY <1>5, <2>8
<1> QED BY <1>1, <1>2, <1>3, <1>4, <1>5 DEF Plan

LEMMA PlanRunsOnce ==
  ASSUME EnvConstants, NEW script, NEW changes, NEW before, NEW lines,
         Plan(script, changes, before, lines), changes # <<>>
  PROVE  E!ApplyToLines(lines, changes) = lines
<1>1. PICK from \in Contents : lines = E!ApplyToLines(from, changes) /\ Changes(changes)
  BY DEF Plan, Changes, EnvConstants
<1> QED BY <1>1, ApplyTwice

--------------------------------------------------------------------------------
Planned(r) == Plan(r.script, r.changes, r.before, r.lines)

\* The copies made, in their order: each is under its name still, unless a later one has
\* the same name; and the lines of a finished run are the file.
EnvTyped ==
    /\ file \in Contents \cup {Absent}
    /\ \A t \in DOMAIN backups : backups[t] \in Contents
    /\ replaced \in Seq([lines : Contents, format : {"zulu", "plain"}, at : Nat]) /\ second \in Nat
Runs ==
    /\ running # Absent => IsRun(running) /\ Planned(running)
    /\ written # Absent => Planned(written) /\ file = written.lines
Name(copy) == <<copy.format, copy.at>>
Saved ==
    \A i \in 1 .. Len(replaced) :
        \/ /\ Name(replaced[i]) \in DOMAIN backups
           /\ backups[Name(replaced[i])] = replaced[i].lines
        \/ \E j \in 1 .. Len(replaced) : i < j /\ Name(replaced[j]) = Name(replaced[i])
EnvInv == EnvTyped /\ Runs /\ Saved

LEMMA EnvInit == ASSUME EnvConstants, E!Init PROVE EnvInv
<1>1. /\ file \in Contents \cup {Absent} /\ backups = <<>> /\ second = 1 /\ running = Absent
      /\ written = Absent /\ replaced = <<>>
  BY DEF E!Init, EnvConstants
<1>2. DOMAIN <<>> = {} /\ Len(<<>>) = 0 /\ 1 .. 0 = {}
  OBVIOUS
<1> QED BY <1>1, <1>2 DEF EnvInv, EnvTyped, Runs, Saved

LEMMA RunIsNotNone == ASSUME EnvConstants, NEW r, IsRun(r) PROVE r # Absent
BY DEF EnvConstants, IsRun

LEMMA FileIsFile ==
  ASSUME EnvConstants, EnvTyped
  PROVE  /\ E!Lines \in Contents /\ (file # Absent => file \in Contents /\ E!Lines = file)
         /\ E!Base \in Contents /\ E!Base \in {E!Lines, Example}
BY EmptySeq DEF EnvTyped, E!Lines, E!Base, EnvConstants, Contents

\* A script that plans what Plan says.
LEMMA PlannedRun ==
  ASSUME EnvConstants, EnvInv, running = Absent, IsRun(running'), ~running'.open, Planned(running'),
         UNCHANGED <<file, backups, second, written, replaced>>
  PROVE  EnvInv'
BY DEF EnvInv, EnvTyped, Runs, Saved

LEMMA PlanStep ==
  ASSUME EnvConstants, EnvInv,
         \/ E!ApplyFast \/ E!ApplySession \/ E!Disarm
         \/ \E r \in Requests, keep \in BOOLEAN : E!Update(r, keep)
         \/ \E c \in {25, 10000} : E!Arm(c, "token")
  PROVE  EnvInv'
<1>1. E!Lines \in Contents /\ E!Base \in Contents /\ E!Base \in {E!Lines, Example}
      /\ (file # Absent => E!Lines = file /\ file \in Contents)
  BY FileIsFile DEF EnvInv
<1>2. CASE E!ApplyFast
  <2>1. E!ApplyToLines(E!Base, FastBlock) \in Contents
    BY <1>1, ApplyFacts DEF Changes
  <2>2. Plan("fast", FastBlock, E!Lines, E!ApplyToLines(E!Base, FastBlock))
    BY <1>1, <2>1 DEF Plan
  <2>3. /\ UNCHANGED <<file, backups, second, written, replaced>> /\ running = Absent
        /\ running' = [script |-> "fast", changes |-> FastBlock, before |-> E!Lines,
                       lines |-> E!ApplyToLines(E!Base, FastBlock), keep |-> TRUE, open |-> FALSE]
    BY <1>2 DEF E!ApplyFast, E!Planned, E!Idle
  <2>4. IsRun(running') /\ ~running'.open /\ Planned(running')
    <3>1. IsRun(running') BY <2>3 DEF IsRun
    <3>2. running'.open = FALSE BY <2>3
    <3>3. Plan(running'.script, running'.changes, running'.before, running'.lines) BY <2>2, <2>3
    <3> QED BY <3>1, <3>2, <3>3 DEF Planned
  <2> QED BY <2>3, <2>4, PlannedRun
<1>3. CASE E!ApplySession
  <2>1. E!ApplyToLines(E!Lines, SessionBlock) \in Contents
    BY <1>1, ApplyFacts DEF Changes
  <2>2. Plan("session", SessionBlock, E!Lines, E!ApplyToLines(E!Lines, SessionBlock))
    BY <1>1, <2>1 DEF Plan
  <2>3. /\ UNCHANGED <<file, backups, second, written, replaced>> /\ running = Absent
        /\ running' = [script |-> "session", changes |-> SessionBlock, before |-> E!Lines,
                       lines |-> E!ApplyToLines(E!Lines, SessionBlock), keep |-> TRUE, open |-> FALSE]
    BY <1>1, <1>3 DEF E!ApplySession, E!Planned, E!Idle
  <2>4. IsRun(running') /\ ~running'.open /\ Planned(running')
    <3>1. IsRun(running') BY <2>3 DEF IsRun
    <3>2. running'.open = FALSE BY <2>3
    <3>3. Plan(running'.script, running'.changes, running'.before, running'.lines) BY <2>2, <2>3
    <3> QED BY <3>1, <3>2, <3>3 DEF Planned
  <2> QED BY <2>3, <2>4, PlannedRun
<1>4. CASE E!Disarm
  <2>1. "LIVE_ENABLED" \in Names /\ "LIVE_SEND_ORDERS" \in Names /\ "false" \in Values
    BY DEF EnvConstants, LiveKeys
  <2>2. E!Disarmed(E!Lines) \in Contents
    BY <1>1, <2>1, UpsertFacts DEF E!Disarmed
  <2>3. Plan("disarm", <<>>, E!Lines, E!Disarmed(E!Lines))
    BY <1>1, <2>2 DEF Plan
  <2>4. /\ UNCHANGED <<file, backups, second, written, replaced>> /\ running = Absent
        /\ running' = [script |-> "disarm", changes |-> <<>>, before |-> E!Lines,
                       lines |-> E!Disarmed(E!Lines), keep |-> TRUE, open |-> FALSE]
    BY <1>1, <1>4 DEF E!Disarm, E!Planned, E!Idle
  <2>5. IsRun(running') /\ ~running'.open /\ Planned(running')
    <3>1. IsRun(running') BY <2>4 DEF IsRun
    <3>2. running'.open = FALSE BY <2>4
    <3>3. Plan(running'.script, running'.changes, running'.before, running'.lines) BY <2>3, <2>4
    <3> QED BY <3>1, <3>2, <3>3 DEF Planned
  <2> QED BY <2>4, <2>5, PlannedRun
<1>5. ASSUME NEW c \in {25, 10000}, E!Arm(c, "token") PROVE EnvInv'
  <2>1. /\ "LIVE_ENABLED" \in Names /\ "LIVE_SEND_ORDERS" \in Names /\ "true" \in Values
        /\ "LIVE_CANARY_RISK_PCT" \in Names /\ "LIVE_HUMAN_CONFIRM" \in Names
        /\ "token" \in Values
    BY DEF EnvConstants, LiveKeys
  <2>2. c \in Values
    BY <1>5 DEF EnvConstants
  <2>3. PICK on \in Contents :
          on = E!Upsert(E!Upsert(E!Lines, "LIVE_ENABLED", "true"), "LIVE_SEND_ORDERS", "true")
    <3>1. PICK a \in Contents : a = E!Upsert(E!Lines, "LIVE_ENABLED", "true")
      BY <1>1, <2>1, UpsertFacts
    <3>2. E!Upsert(a, "LIVE_SEND_ORDERS", "true") \in Contents
      BY <2>1, <3>1, UpsertFacts
    <3> QED BY <3>1, <3>2
  <2>4. E!ArmedLines(E!Lines, c, "token") \in Contents
    <3>1. E!ArmedLines(E!Lines, c, "token") =
             E!Upsert(E!Upsert(on, "LIVE_CANARY_RISK_PCT", c), "LIVE_HUMAN_CONFIRM", "token")
      BY <2>3 DEF E!ArmedLines
    <3>2. PICK a \in Contents : a = E!Upsert(on, "LIVE_CANARY_RISK_PCT", c)
      BY <2>1, <2>2, UpsertFacts
    <3>3. E!Upsert(a, "LIVE_HUMAN_CONFIRM", "token") \in Contents
      BY <2>1, <3>2, UpsertFacts
    <3> QED BY <3>1, <3>2, <3>3
  <2>5. Plan("arm", <<>>, E!Lines, E!ArmedLines(E!Lines, c, "token"))
    BY <1>1, <2>4 DEF Plan
  <2>6. /\ UNCHANGED <<file, backups, second, written, replaced>> /\ running = Absent
        /\ running' = [script |-> "arm", changes |-> <<>>, before |-> E!Lines,
                       lines |-> E!ArmedLines(E!Lines, c, "token"), keep |-> TRUE, open |-> FALSE]
    BY <1>1, <1>5 DEF E!Arm, E!Planned, E!Idle
  <2>7. IsRun(running') /\ ~running'.open /\ Planned(running')
    <3>1. IsRun(running') BY <2>6 DEF IsRun
    <3>2. running'.open = FALSE BY <2>6
    <3>3. Plan(running'.script, running'.changes, running'.before, running'.lines) BY <2>5, <2>6
    <3> QED BY <3>1, <3>2, <3>3 DEF Planned
  <2> QED BY <2>6, <2>7, PlannedRun
<1>6. ASSUME NEW r \in Requests, NEW keep \in BOOLEAN, E!Update(r, keep) PROVE EnvInv'
  <2>1. E!ApplyToLines(E!Base, r) \in Contents
    BY <1>1, ApplyFacts DEF Changes
  <2>2. DOMAIN r \subseteq AllowedKeys
    BY <1>6 DEF E!Update, E!Rails
  <2>3. Plan("update", r, E!Lines, E!ApplyToLines(E!Base, r))
    BY <1>1, <1>6, <2>1, <2>2 DEF Plan
  <2>4. /\ UNCHANGED <<file, backups, second, written, replaced>> /\ running = Absent
        /\ running' = [script |-> "update", changes |-> r, before |-> E!Lines,
                       lines |-> E!ApplyToLines(E!Base, r), keep |-> keep, open |-> FALSE]
    BY <1>6 DEF E!Update, E!Planned, E!Idle
  <2>5. IsRun(running') /\ ~running'.open /\ Planned(running')
    <3>1. IsRun(running') BY <2>4 DEF IsRun
    <3>2. running'.open = FALSE BY <2>4
    <3>3. Plan(running'.script, running'.changes, running'.before, running'.lines) BY <2>3, <2>4
    <3> QED BY <3>1, <3>2, <3>3 DEF Planned
  <2> QED BY <2>4, <2>5, PlannedRun
<1> QED BY <1>2, <1>3, <1>4, <1>5, <1>6

LEMMA WriteStep ==
  ASSUME EnvConstants, EnvInv, E!BackUp \/ E!Write \/ E!Killed
  PROVE  EnvInv'
<1>1. running # Absent /\ IsRun(running) /\ Planned(running)
  BY DEF E!BackUp, E!Write, E!Killed, EnvInv, Runs
<1>2. CASE E!BackUp
  <2>1. /\ ~running.open /\ UNCHANGED <<file, second, written>>
        /\ running' = [running EXCEPT !.open = TRUE]
    BY <1>2 DEF E!BackUp
  <2>2. IsRun(running') /\ Planned(running') /\ running'.open = TRUE
    <3>1. PICK s, c, b, l, k, o : running = [script |-> s, changes |-> c, before |-> b, lines |-> l,
                                            keep |-> k, open |-> o]
      BY <1>1 DEF IsRun
    <3>2. running' = [script |-> s, changes |-> c, before |-> b, lines |-> l, keep |-> k,
                      open |-> TRUE]
      BY <2>1, <3>1
    <3>3. /\ running'.lines = running.lines /\ running'.before = running.before
          /\ running'.script = running.script /\ running'.changes = running.changes
      BY <3>1, <3>2
    <3> QED BY <1>1, <3>2, <3>3 DEF IsRun, Planned
  <2>3. CASE UNCHANGED <<backups, replaced>>
    BY <2>1, <2>2, <2>3 DEF EnvInv, EnvTyped, Runs, Saved
  <2>4. CASE ~UNCHANGED <<backups, replaced>>
    <3> DEFINE copy == [lines |-> file, format |-> E!Format(running.script), at |-> second]
    <3>1. /\ file # Absent /\ replaced' = Append(replaced, copy)
          /\ backups' = [t \in DOMAIN backups \cup {Name(copy)} |->
                           IF t = Name(copy) THEN file ELSE backups[t]]
      BY <1>2, <2>4 DEF E!BackUp, E!Stamp, Name
    <3>2. copy \in [lines : Contents, format : {"zulu", "plain"}, at : Nat]
      BY <3>1 DEF EnvInv, EnvTyped, E!Format
    <3>3. /\ Len(replaced') = Len(replaced) + 1 /\ Len(replaced) \in Nat
          /\ replaced'[Len(replaced) + 1] = copy
          /\ \A i \in 1 .. Len(replaced) : replaced'[i] = replaced[i]
          /\ replaced' \in Seq([lines : Contents, format : {"zulu", "plain"}, at : Nat])
      BY <3>1, <3>2, AppendProperties DEF EnvInv, EnvTyped
    <3> HIDE DEF copy
    <3>4. /\ DOMAIN backups' = DOMAIN backups \cup {Name(copy)} /\ backups'[Name(copy)] = file
          /\ \A t \in DOMAIN backups \ {Name(copy)} : backups'[t] = backups[t]
      BY <3>1
    <3>5. copy.lines = file
      BY DEF copy
    <3>6. EnvTyped'
      BY <2>1, <3>1, <3>3, <3>4 DEF EnvInv, EnvTyped
    <3>7. Saved'
      <4> SUFFICES ASSUME NEW i \in 1 .. Len(replaced')
                   PROVE  \/ /\ Name(replaced'[i]) \in DOMAIN backups'
                             /\ backups'[Name(replaced'[i])] = replaced'[i].lines
                          \/ \E j \in 1 .. Len(replaced') :
                                i < j /\ Name(replaced'[j]) = Name(replaced'[i])
        BY Zenon DEF Saved
      <4>1. CASE i = Len(replaced) + 1
        BY <3>3, <3>4, <3>5, <4>1
      <4>2. CASE i \in 1 .. Len(replaced)
        <5>1. CASE Name(replaced[i]) = Name(copy)
          <6> DEFINE j == Len(replaced) + 1
          <6>1. j \in 1 .. Len(replaced') /\ i < j
            BY <3>3, <4>2
          <6>2. Name(replaced'[j]) = Name(replaced'[i])
            BY <3>3, <4>2, <5>1
          <6> QED BY <6>1, <6>2
        <5>2. CASE Name(replaced[i]) # Name(copy)
          <6>1. CASE /\ Name(replaced[i]) \in DOMAIN backups
                     /\ backups[Name(replaced[i])] = replaced[i].lines
            <7>1. replaced'[i] = replaced[i]
              BY <3>3, <4>2
            <7> QED BY <3>4, <5>2, <6>1, <7>1
          <6>2. CASE \E j \in 1 .. Len(replaced) : i < j /\ Name(replaced[j]) = Name(replaced[i])
            <7>1. PICK j \in 1 .. Len(replaced) : i < j /\ Name(replaced[j]) = Name(replaced[i])
              BY <6>2
            <7>2. j \in 1 .. Len(replaced') /\ Name(replaced'[j]) = Name(replaced'[i])
              BY <3>3, <4>2, <7>1
            <7> QED BY <7>1, <7>2
          <6> QED BY <4>2, <6>1, <6>2 DEF EnvInv, Saved
        <5> QED BY <5>1, <5>2
      <4> QED BY <3>3, <4>1, <4>2
    <3> QED BY <2>1, <2>2, <3>6, <3>7, RunIsNotNone DEF EnvInv, Runs
  <2> QED BY <2>3, <2>4
<1>3. CASE E!Write
  <2>1. /\ file' = running.lines /\ written' = running /\ running' = Absent
        /\ UNCHANGED <<backups, second, replaced>>
    BY <1>3 DEF E!Write
  <2>2. running.lines \in Contents
    BY <1>1 DEF Planned, Plan
  <2> QED BY <1>1, <2>1, <2>2 DEF EnvInv, EnvTyped, Runs, Saved
<1>4. CASE E!Killed
  <2>1. /\ running' = Absent /\ written' = Absent /\ UNCHANGED <<backups, second, replaced>>
    BY <1>4 DEF E!Killed
  <2>2. file' \in Contents \cup {Absent}
    <3>1. CASE running.open
      <4>1. PICK n \in 0 .. Len(running.lines) : file' = SubSeq(running.lines, 1, n)
        BY <1>4, <3>1 DEF E!Killed
      <4>2. running.lines \in Seq(LineSet) /\ Len(running.lines) \in Nat
        BY <1>1 DEF Planned, Plan, Contents
      <4>3. SubSeq(running.lines, 1, n) \in Seq(LineSet)
        BY <4>1, <4>2
      <4> QED BY <4>1, <4>3 DEF Contents
    <3>2. CASE ~running.open
      BY <1>4, <3>2 DEF E!Killed, EnvInv, EnvTyped
    <3> QED BY <3>1, <3>2
  <2> QED BY <2>1, <2>2 DEF EnvInv, EnvTyped, Runs, Saved
<1> QED BY <1>2, <1>3, <1>4

LEMMA EnvKeeps == ASSUME EnvConstants, EnvInv, [E!Next]_E!evars PROVE EnvInv'
<1>1. ASSUME NEW t \in DOMAIN backups, E!Restore(t) PROVE EnvInv'
  BY <1>1 DEF E!Restore, EnvInv, EnvTyped, Runs, Saved
<1>2. CASE E!Load \/ UNCHANGED E!evars
  <2>1. UNCHANGED <<file, backups, second, running, written, replaced>>
    BY <1>2 DEF E!Load, E!evars
  <2> QED BY <2>1 DEF EnvInv, EnvTyped, Runs, Saved
<1>3. CASE E!Wait
  BY <1>3 DEF E!Wait, EnvInv, EnvTyped, Runs, Saved
<1> QED BY <1>1, <1>2, <1>3, PlanStep, WriteStep DEF E!Next

\* Whatever .env held, whatever time runs leave between them, and wherever one was killed:
\* the paper block and --disarm leave a file that loads disarmed, no script but the arming
\* one arms, and that one leaves the mode; what a script replaced is in a backup, unless a
\* later run of the same second copied over it; and a run repeated changes nothing more.
THEOREM EnvironmentSafe == ASSUME EnvConstants PROVE OperatorSpec => []EnvFileIsSafe
<1> DEFINE Inv == EnvRuns => EnvInv
<1>1. OperatorInit => Inv
  BY EnvInit DEF OperatorInit, EnvParked, EnvRuns
<1>2. Inv /\ [OperatorNext]_operatorVars => Inv'
  <2> SUFFICES ASSUME Inv, [OperatorNext]_operatorVars, EnvRuns' PROVE (EnvInv)'
    OBVIOUS
  <2>1. CASE EnvStep
    BY <2>1, EnvKeeps DEF EnvStep
  <2>2. CASE ~EnvStep
    <3>1. UNCHANGED E!evars
      BY <2>2 DEF OperatorNext, AccountStep, AlertsStep, DatabaseStep, operatorVars, envVars,
                  E!evars
    <3>2. EnvRuns
      BY <3>1 DEF EnvRuns, E!evars
    <3> QED BY <3>1, <3>2, EnvKeeps
  <2> QED BY <2>1, <2>2
<1>3. Inv => EnvFileIsSafe
  <2> SUFFICES ASSUME EnvInv PROVE E!EnvFileIsSafe
    BY DEF EnvFileIsSafe
  <2>1. written # Absent => Planned(written) /\ file = written.lines
    BY DEF EnvInv, Runs
  <2>2. E!NeverArms
    BY <2>1, PlanNeverArms DEF E!NeverArms, Planned
  <2>3. E!RunsOnce
    BY <2>1, PlanRunsOnce DEF E!RunsOnce, Planned
  <2>4. E!NothingLost
    <3>1. DOMAIN replaced = 1 .. Len(replaced)
      BY DEF EnvInv, EnvTyped
    <3>2. \A i, j \in 1 .. Len(replaced) :
             Name(replaced[j]) = Name(replaced[i]) =>
               replaced[j].at = replaced[i].at /\ replaced[j].format = replaced[i].format
      BY DEF Name
    <3> QED BY <3>1, <3>2 DEF EnvInv, Saved, E!NothingLost
  <2> QED BY <2>2, <2>3, <2>4 DEF E!EnvFileIsSafe
<1> QED BY <1>1, <1>2, <1>3, PTL DEF OperatorSpec

================================================================================
