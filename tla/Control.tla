--------------------------------- MODULE Control --------------------------------
(***************************************************************************)
(* Who decides whether the engine trades real money: the mode of the       *)
(* environment, the owner's decision in the meta table, the mode-request   *)
(* file, the commands that come over Telegram, and the adapter's trip      *)
(* (engine.py, switch_mode and run; commander.py).  The decision and the   *)
(* file survive the process; the mode, the pause, the trip and the place   *)
(* in Telegram's queue do not, so what was dispatched and not yet          *)
(* confirmed comes again after a restart.                                  *)
(*                                                                         *)
(* Commands run between cycles.  Of the trades, only the modes that have   *)
(* an open row are kept.                                                   *)
(***************************************************************************)
EXTENDS Naturals, Sequences, FiniteSets

CONSTANTS
    None,
    Commands,      \* the commands the owner may send
    MaxSent,       \* bound: commands sent
    MaxStarts      \* bound: process starts

Modes == {"paper", "live"}
AllCommands == {"live", "paper", "panic", "pause", "resume", "livemode", "papermode",
                "stop"}

ASSUME ControlAssumption ==
    /\ None \notin Modes
    /\ Commands \subseteq AllCommands
    /\ MaxSent \in Nat /\ MaxStarts \in Nat

VARIABLES
    pc,         \* "down", "override", "request" or "run"
    mode,       \* cfg.mode
    gates,      \* live_gates_ok of this process's environment
    override,   \* meta 'mode_override'
    request,    \* data/mode_request.json: a mode, and whether it is fresh
    tripped,    \* the adapter at work refuses real sends
    paused,
    rows,       \* modes with an open row
    inbox,      \* updates Telegram holds
    done,       \* how many of them this process has dispatched
    sent,
    starts,
    was,        \* history: the mode the last process ran in, if the owner decided it
    granted,    \* history: a fresh request was applied in this boot
    stranded,   \* history: modes with rows left behind by this boot
    panic       \* history: no /resume since the last /panic

boot    == <<pc, gates>>
held    == <<override, request>>
adapter == <<tripped, paused>>
queue   == <<inbox, done, sent>>
history == <<was, granted, stranded, panic>>
vars == <<boot, mode, held, adapter, rows, queue, starts, history>>

Init ==
    /\ pc = "down" /\ gates = FALSE
    /\ mode = "paper"
    /\ override = None /\ request = None
    /\ tripped = FALSE /\ paused = FALSE
    /\ rows = {}
    /\ inbox = <<>> /\ done = 0 /\ sent = 0
    /\ starts = 0
    /\ was = None /\ granted = FALSE /\ stranded = {} /\ panic = FALSE

--------------------------------------------------------------------------------
(* switch_mode.                                                            *)

GatesOnly(m) == m = "live" => gates                                        \* mutant
Allowed(m) == IF m = "live" THEN gates ELSE "live" \notin rows

\* A new adapter comes with the mode; →live closes the paper rows first.
Switched(m) ==
    /\ mode' = m /\ override' = m
    /\ tripped' = FALSE
    /\ rows' = IF m = "live" THEN rows \ {"paper"} ELSE rows

Unmoved == UNCHANGED <<mode, override, tripped, rows>>

SwitchMode(m) == IF m # mode /\ Allowed(m) THEN Switched(m) ELSE Unmoved

--------------------------------------------------------------------------------
(* Boot.                                                                   *)

\* The environment may have been edited since the last start.
Start ==
    /\ pc = "down" /\ starts < MaxStarts
    /\ mode' \in Modes /\ gates' \in BOOLEAN
    /\ pc' = "override" /\ starts' = starts + 1
    /\ granted' = FALSE /\ stranded' = {}
    /\ UNCHANGED <<held, adapter, rows, queue, was, panic>>

\* _apply_mode_override_on_start: a live decision the gates refuse is replaced.
OverrideNotApplied ==                                                     \* mutant
    /\ pc = "override"
    /\ Unmoved
    /\ pc' = "request"
    /\ UNCHANGED <<gates, request, paused, queue, starts, history>>
ApplyOverride ==
    /\ pc = "override"
    /\ IF override \in Modes \ {mode}
       THEN IF Allowed(override) THEN Switched(override)
            ELSE /\ override' = IF override = "live" THEN mode ELSE override
                 /\ UNCHANGED <<mode, tripped, rows>>
       ELSE Unmoved
    /\ pc' = "request"
    /\ UNCHANGED <<gates, request, paused, queue, starts, history>>

\* The file is consumed in any case, and obeyed when it is fresh.
ReadRequest ==
    /\ pc = "request"
    /\ request' = None
    /\ IF request # None /\ request.fresh
       THEN SwitchMode(request.mode) /\ granted' = TRUE
       ELSE Unmoved /\ granted' = FALSE
    /\ pc' = "run"
    /\ stranded' = rows' \ {mode'}
    /\ UNCHANGED <<gates, paused, queue, starts, was, panic>>

\* What only the process knew is gone; Telegram keeps what was not confirmed.
Down ==
    /\ pc' = "down"
    /\ tripped' = FALSE /\ paused' = FALSE
    /\ done' = 0
    /\ was' = IF pc = "override" THEN was ELSE IF mode = override THEN mode ELSE None

Crash ==
    /\ pc # "down"
    /\ Down
    /\ UNCHANGED <<mode, gates, held, rows, inbox, sent, starts, granted, stranded, panic>>

\* MODE_REQUEST_MAX_AGE_SEC pass.
RequestAges ==
    /\ request # None /\ request.fresh
    /\ request' = [request EXCEPT !.fresh = FALSE]
    /\ UNCHANGED <<boot, mode, override, adapter, rows, queue, starts, history>>

--------------------------------------------------------------------------------
(* Trades, as far as the modes need them.                                  *)

\* While the gates are open and the adapter is not tripped, a live one is real.
Open ==
    /\ pc = "run" /\ ~paused
    /\ rows' = rows \cup {mode}
    /\ UNCHANGED <<boot, mode, held, adapter, queue, starts, history>>

\* The last open trade of the mode closes; rows of the other mode are not managed.
Close ==
    /\ pc = "run" /\ mode \in rows
    /\ rows' = rows \ {mode}
    /\ UNCHANGED <<boot, mode, held, adapter, queue, starts, history>>

--------------------------------------------------------------------------------
(* Commands.                                                               *)

Send(c) ==
    /\ sent < MaxSent
    /\ sent' = sent + 1
    /\ inbox' = Append(inbox, c)
    /\ UNCHANGED <<boot, mode, held, adapter, rows, done, starts, history>>

\* The next getUpdates carries the offset: Telegram forgets what was dispatched.
Confirm ==
    /\ pc = "run" /\ done > 0
    /\ inbox' = SubSeq(inbox, done + 1, Len(inbox))
    /\ done' = 0
    /\ UNCHANGED <<boot, mode, held, adapter, rows, sent, starts, history>>

\* _dispatch of the next update of the batch.
Next1(c) ==
    /\ pc = "run"
    /\ done < Len(inbox) /\ inbox[done + 1] = c

Dispatched == done' = done + 1 /\ UNCHANGED <<inbox, sent>>

Live ==
    /\ Next1("live") /\ Dispatched
    /\ SwitchMode("live")
    /\ UNCHANGED <<boot, request, paused, starts, history>>

Paper ==
    /\ Next1("paper") /\ Dispatched
    /\ SwitchMode("paper")
    /\ UNCHANGED <<boot, request, paused, starts, history>>

\* Every row of the mode is closed, but one whose close raises; armed, the exchange
\* is flattened and the adapter trips, unless the exchange call itself raises.
Panic ==
    /\ Next1("panic") /\ Dispatched
    /\ rows' \in {rows, rows \ {mode}}
    /\ tripped' \in {tripped, tripped \/ (mode = "live" /\ gates)}
    /\ paused' = TRUE /\ panic' = TRUE
    /\ UNCHANGED <<boot, mode, held, starts, was, granted, stranded>>

Pause ==
    /\ Next1("pause") /\ Dispatched
    /\ paused' = TRUE
    /\ UNCHANGED <<boot, mode, held, tripped, rows, starts, history>>

Resume ==
    /\ Next1("resume") /\ Dispatched
    /\ paused' = FALSE /\ panic' = FALSE
    /\ UNCHANGED <<boot, mode, held, tripped, rows, starts, was, granted, stranded>>

\* Nothing changes before the next start.
Queue(c, m) ==
    /\ Next1(c) /\ Dispatched
    /\ request' = [mode |-> m, fresh |-> TRUE]
    /\ UNCHANGED <<boot, mode, override, adapter, rows, starts, history>>

\* Refused while live trading is not enabled at all.
LiveMode == Queue("livemode", "live")
LiveModeRefused ==
    /\ Next1("livemode") /\ Dispatched
    /\ ~gates
    /\ UNCHANGED <<boot, mode, held, adapter, rows, starts, history>>
PaperMode == Queue("papermode", "paper")

\* The engine ends the cycle and exits; its last poll may not have gone out.
Stop ==
    /\ Next1("stop")
    /\ Down
    /\ inbox' \in {inbox, SubSeq(inbox, done + 2, Len(inbox))}
    /\ UNCHANGED <<mode, gates, held, rows, sent, starts, granted, stranded, panic>>

--------------------------------------------------------------------------------

Dispatch == Live \/ Paper \/ Panic \/ Pause \/ Resume \/ LiveMode \/ LiveModeRefused
            \/ PaperMode \/ Stop

Next ==
    \/ Start \/ ApplyOverride \/ ReadRequest \/ Crash \/ RequestAges
    \/ Open \/ Close
    \/ \E c \in Commands : Send(c)
    \/ Confirm \/ Dispatch

Spec == Init /\ [][Next]_vars

TypeOK ==
    /\ pc \in {"down", "override", "request", "run"}
    /\ mode \in Modes /\ gates \in BOOLEAN
    /\ override \in Modes \cup {None}
    /\ request \in [mode : Modes, fresh : BOOLEAN] \cup {None}
    /\ tripped \in BOOLEAN /\ paused \in BOOLEAN
    /\ rows \subseteq Modes
    /\ inbox \in Seq(Commands) /\ done \in 0 .. Len(inbox)
    /\ sent \in 0 .. MaxSent /\ starts \in 0 .. MaxStarts
    /\ was \in Modes \cup {None} /\ granted \in BOOLEAN
    /\ stranded \subseteq Modes /\ panic \in BOOLEAN

\* No command orphans a row: whatever /live, /paper and /panic the owner sends, in
\* any order and as often as Telegram repeats them, every open row belongs to the
\* running mode.  Only a boot leaves rows behind: an edited environment, or gates
\* that were closed under open live rows.
NothingOrphaned == pc = "run" => rows \subseteq {mode} \cup stranded

\* A decision of the owner survives a restart, whatever mode the environment names:
\* the mode that was running on it runs again, unless the gates are closed, open live
\* rows hold the boot in live, or a fresh request asks for something else.
DecisionSurvives ==
    [][ReadRequest /\ was # None /\ ~granted' =>
         \/ mode' = was
         \/ was = "live" /\ ~gates
         \/ mode' = "live" /\ "live" \in rows]_vars

================================================================================
