------------------------------- MODULE LiveEntry -------------------------------
(***************************************************************************)
(* One call of LiveOrderAdapter.send_entry (src/aurvex/live_orders.py):    *)
(* the entry order with its wait / retry / cancel / alert policy, the      *)
(* protective group sized to the fill, and the emergency flatten.          *)
(*                                                                         *)
(* The adapter and the exchange interleave at every API call.  What the    *)
(* code computes between two calls touches only its own locals, so it is   *)
(* one step with the call whose answer it uses.  The exchange fills the    *)
(* live entry order, triggers the stop or a target at any moment.          *)
(* Quantities are in units of the symbol's step_size, time in units of one *)
(* poll.                                                                   *)
(***************************************************************************)
EXTENDS Integers, Sequences

CONSTANTS
    Qty,         \* entry quantity of the validated payload
    MaxRetries,  \* cfg.live_max_retries
    Timeout,     \* cfg.live_order_timeout_sec, in polls
    TPs,         \* quantity of each take-profit payload for a full fill
    Faults       \* API calls that may raise

FaultKinds == {"intent", "create", "lost", "fetch", "garbled", "cancel",
               "protect", "flatten"}

ASSUME EntryAssumption ==
    /\ Qty \in Nat \ {0}
    /\ MaxRetries \in Nat
    /\ Timeout \in Nat \ {0}
    /\ TPs \in Seq(Nat)
    /\ Faults \subseteq FaultKinds

VARIABLES
    pc,          \* the API call the adapter makes next
    gates,       \* the configuration gates of engaged(), all open
    tripped,     \* adapter.tripped
    attempt,     \* retry generation
    elapsed,     \* polls since `started` of this generation
    genQty,      \* gen_qty
    seen,        \* `filled` of the last fetch_order
    prevFilled,  \* prev_filled
    next,        \* index of the protection to place: 0 the stop, then TPs
    flatAmt,     \* position size emergency_flatten read
    report,      \* the SendReport
    orders,      \* exchange: entry order of each generation
    executed,    \* exchange: entry quantity executed in this call
    pos,         \* exchange: size of the position
    sl,          \* exchange: the closePosition stop
    tps          \* exchange: take-profits resting

adapterVars == <<pc, gates, tripped, attempt, elapsed, genQty, seen, prevFilled,
                 next, flatAmt, report>>
exchangeVars == <<orders, executed, pos, sl, tps>>
vars == <<adapterVars, exchangeVars>>

Gens     == 0 .. MaxRetries
HardCap  == Timeout * (MaxRetries + 2)
Smaller(a, b) == IF a < b THEN a ELSE b

NoOrder == [st |-> "none", qty |-> 0, filled |-> 0]
NoReport == [status |-> "none", filled |-> 0]

Statuses == {"none", "DISARMED", "REFUSED", "FAILED", "LIVE_SENT", "TRIPPED"}

Open(g) == orders[g].st = "open"

Init ==
    /\ pc = "idle"
    /\ gates \in BOOLEAN
    /\ tripped \in BOOLEAN
    /\ attempt = 0
    /\ elapsed = 0
    /\ genQty = Qty
    /\ seen = 0
    /\ prevFilled = 0
    /\ next = 0
    /\ flatAmt = 0
    /\ report = NoReport
    /\ orders = [g \in Gens |-> NoOrder]
    /\ executed = 0
    /\ pos = 0
    /\ sl = "none"
    /\ tps = {}

--------------------------------------------------------------------------------
(* How the call ends, or goes on to the protections.                       *)

Return(status, qty) ==
    /\ pc' = "done"
    /\ report' = [status |-> status, filled |-> qty]

ReturnTripped(qty) == Return("TRIPPED", qty) /\ tripped' = TRUE

\* _partial: the entry is LIVE_SENT with this quantity; protections are next.
Partial(qty) ==
    /\ pc' = "protect"
    /\ report' = [status |-> "LIVE_SENT", filled |-> qty]

\* Giving up: what earlier generations filled is kept, else the send FAILED.
GiveUp(qty) == IF qty > 0 THEN Partial(qty) ELSE Return("FAILED", 0)

EngagedIgnoringTrip == gates                                               \* mutant
Engaged == gates /\ ~tripped

\* send_entry: a closed gate, or a payload the cached filters refuse.
Decline ==
    /\ pc = "idle"
    /\ \/ ~Engaged /\ Return("DISARMED", 0)
       \/ Engaged /\ Return("REFUSED", 0)
    /\ UNCHANGED <<gates, tripped, attempt, elapsed, genQty, seen, prevFilled,
                   next, flatAmt, exchangeVars>>

\* The group validated; margin mode and leverage are set, or the send FAILED.
PreOrder ==
    /\ pc = "idle"
    /\ Engaged
    /\ \/ pc' = "create" /\ UNCHANGED report
       \/ "intent" \in Faults /\ Return("FAILED", 0)
    /\ UNCHANGED <<gates, tripped, attempt, elapsed, genQty, seen, prevFilled,
                   next, flatAmt, exchangeVars>>

NewOrder == [st |-> "open", qty |-> genQty, filled |-> 0]

\* create_order is acknowledged.  A replacement restarts the clock after the
\* call; the first generation started it before.
CreateAccepted ==
    /\ pc = "create"
    /\ orders' = [orders EXCEPT ![attempt] = NewOrder]
    /\ pc' = "fetch"
    /\ elapsed' = IF attempt = 0 THEN elapsed ELSE 0
    /\ UNCHANGED <<gates, tripped, attempt, genQty, seen, prevFilled, next,
                   flatAmt, report, executed, pos, sl, tps>>

\* create_order raises: refused, or accepted with the answer lost.
CreateRaises ==
    /\ pc = "create"
    /\ \/ "create" \in Faults /\ UNCHANGED orders
       \/ "lost" \in Faults /\ orders' = [orders EXCEPT ![attempt] = NewOrder]
    /\ GiveUp(prevFilled)
    /\ UNCHANGED <<gates, tripped, attempt, elapsed, genQty, seen, prevFilled,
                   next, flatAmt, executed, pos, sl, tps>>

\* The backstop of send_entry: no client, or an answer the code cannot use.
Backstop ==
    /\ "garbled" \in Faults
    /\ \/ pc = "idle" /\ Engaged /\ UNCHANGED orders
       \/ pc = "create" /\ orders' = [orders EXCEPT ![attempt] = NewOrder]
       \/ pc = "fetch" /\ UNCHANGED orders
    /\ ReturnTripped(0)
    /\ UNCHANGED <<gates, attempt, elapsed, genQty, seen, prevFilled, next,
                   flatAmt, executed, pos, sl, tps>>

\* timeout_policy: "wait", then "alert" past the hard cap, else cancel the
\* order, and with MoreRetries replace it.
YoungWhenExhausted == elapsed < Timeout \/ attempt >= MaxRetries           \* mutant
Young == elapsed < Timeout
Hung  == elapsed >= HardCap

MoreRetries == attempt < MaxRetries

\* fetch_order answers; the order is complete, young, overdue or hung.
FetchAnswers ==
    /\ pc = "fetch"
    /\ seen' = orders[attempt].filled
    /\ \/ /\ orders[attempt].filled >= genQty
          /\ Partial(prevFilled + seen')
          /\ UNCHANGED tripped
       \/ /\ orders[attempt].filled < genQty
          /\ Young
          /\ UNCHANGED <<pc, tripped, report>>
       \/ /\ orders[attempt].filled < genQty
          /\ ~Young /\ ~Hung
          /\ pc' = "cancel"
          /\ UNCHANGED <<tripped, report>>
       \/ /\ orders[attempt].filled < genQty
          /\ ~Young /\ Hung
          /\ ReturnTripped(prevFilled + seen')
    /\ UNCHANGED <<gates, attempt, elapsed, genQty, prevFilled, next, flatAmt,
                   exchangeVars>>

FetchRaises ==
    /\ pc = "fetch"
    /\ "fetch" \in Faults
    /\ GiveUp(prevFilled)
    /\ UNCHANGED <<gates, tripped, attempt, elapsed, genQty, seen, prevFilled,
                   next, flatAmt, exchangeVars>>

\* What a canceled generation adds is the fill fetched before the cancel; the
\* replacement orders the rest.
Counted == prevFilled + seen
Remaining == genQty - seen
Canceled == [orders EXCEPT ![attempt].st = "canceled"]

CancelAccepted ==
    /\ pc = "cancel"
    /\ Open(attempt)
    /\ orders' = Canceled
    /\ prevFilled' = Counted
    /\ IF MoreRetries
       THEN /\ pc' = "create"
            /\ attempt' = attempt + 1
            /\ genQty' = Remaining
            /\ UNCHANGED report
       ELSE /\ GiveUp(prevFilled')
            /\ UNCHANGED <<attempt, genQty>>
    /\ UNCHANGED <<gates, tripped, elapsed, seen, next, flatAmt, executed, pos,
                   sl, tps>>

\* cancel_order raises: an API error, or the order filled in the meantime.
CancelRaises ==
    /\ pc = "cancel"
    /\ "cancel" \in Faults \/ ~Open(attempt)
    /\ ReturnTripped(prevFilled + seen)
    /\ UNCHANGED <<gates, attempt, elapsed, genQty, seen, prevFilled, next,
                   flatAmt, exchangeVars>>

--------------------------------------------------------------------------------
(* _send_group: the stop and the targets, sized to what filled.            *)

\* Target i for the reported fill: the payload's share of it, rounded down.
TpQty(i) == (report.filled * TPs[i]) \div Qty

\* A target the full fill already rounds to nothing is dropped before the
\* send; one the partial fill rounds to nothing is skipped here.
SkipTarget ==
    /\ pc = "protect"
    /\ next \in DOMAIN TPs
    /\ TpQty(next) = 0
    /\ next' = next + 1
    /\ UNCHANGED <<pc, gates, tripped, attempt, elapsed, genQty, seen, prevFilled,
                   flatAmt, report, exchangeVars>>

PlaceProtection ==
    /\ pc = "protect"
    /\ \/ next = 0 /\ sl' = "resting" /\ UNCHANGED tps
       \/ /\ next \in DOMAIN TPs
          /\ TpQty(next) > 0
          /\ tps' = tps \cup {next}
          /\ UNCHANGED sl
    /\ next' = next + 1
    /\ UNCHANGED <<pc, gates, tripped, attempt, elapsed, genQty, seen, prevFilled,
                   flatAmt, report, orders, executed, pos>>

ProtectionRaises ==
    /\ pc = "protect"
    /\ "protect" \in Faults
    /\ next = 0 \/ (next \in DOMAIN TPs /\ TpQty(next) > 0)
    /\ pc' = "flatCancel"
    /\ UNCHANGED <<gates, tripped, attempt, elapsed, genQty, seen, prevFilled,
                   next, flatAmt, report, exchangeVars>>

Protected ==
    /\ pc = "protect"
    /\ next > Len(TPs)
    /\ Return("LIVE_SENT", report.filled)
    /\ UNCHANGED <<gates, tripped, attempt, elapsed, genQty, seen, prevFilled,
                   next, flatAmt, exchangeVars>>

(* emergency_flatten: every call is best effort, its error swallowed.      *)

CancelAll ==
    /\ pc = "flatCancel"
    /\ pc' = "flatRead"
    /\ \/ /\ orders' = [g \in Gens |->
                          IF Open(g) THEN [orders[g] EXCEPT !.st = "canceled"]
                                     ELSE orders[g]]
          /\ sl' = IF sl = "resting" THEN "none" ELSE sl
          /\ tps' = {}
       \/ "flatten" \in Faults /\ UNCHANGED <<orders, sl, tps>>
    /\ UNCHANGED <<gates, tripped, attempt, elapsed, genQty, seen, prevFilled,
                   next, flatAmt, report, executed, pos>>

\* A flat symbol, or a failed read, has nothing to close.
ReadPosition ==
    /\ pc = "flatRead"
    /\ \/ pos > 0 /\ flatAmt' = pos /\ pc' = "flatClose" /\ UNCHANGED <<tripped, report>>
       \/ /\ pos = 0 \/ "flatten" \in Faults
          /\ ReturnTripped(report.filled)
          /\ UNCHANGED flatAmt
    /\ UNCHANGED <<gates, attempt, elapsed, genQty, seen, prevFilled, next,
                   exchangeVars>>

\* A reduce-only market order of the size read, clipped by the exchange.
MarketClose ==
    /\ pc = "flatClose"
    /\ \/ pos' = pos - Smaller(flatAmt, pos)
       \/ "flatten" \in Faults /\ UNCHANGED pos
    /\ ReturnTripped(report.filled)
    /\ UNCHANGED <<gates, attempt, elapsed, genQty, seen, prevFilled, next,
                   flatAmt, orders, executed, sl, tps>>

--------------------------------------------------------------------------------
(* The exchange, and the clock.                                            *)

Fill(g) ==
    /\ Open(g)
    /\ LET filled == orders[g].filled + 1
       IN  orders' = [orders EXCEPT
               ![g].filled = filled,
               ![g].st = IF filled = orders[g].qty THEN "closed" ELSE "open"]
    /\ executed' = executed + 1
    /\ pos' = pos + 1
    /\ UNCHANGED <<adapterVars, sl, tps>>

\* closePosition: whatever size exists is flattened.
StopTriggers ==
    /\ sl = "resting"
    /\ pos > 0
    /\ sl' = "triggered"
    /\ pos' = 0
    /\ UNCHANGED <<adapterVars, orders, executed, tps>>

TargetHit(i) ==
    /\ i \in tps
    /\ pos > 0
    /\ pos' = pos - Smaller(TpQty(i), pos)
    /\ tps' = tps \ {i}
    /\ UNCHANGED <<adapterVars, orders, executed, sl>>

Tick ==
    /\ pc = "fetch" \/ (pc = "create" /\ attempt = 0)
    /\ elapsed < HardCap
    /\ elapsed' = elapsed + 1
    /\ UNCHANGED <<pc, gates, tripped, attempt, genQty, seen, prevFilled, next,
                   flatAmt, report, exchangeVars>>

\* The call goes on with an answer of the exchange (the refusal to cancel an
\* order that is no longer open is one), or with an exception.
Answers ==
    \/ Decline \/ PreOrder
    \/ CreateAccepted \/ FetchAnswers \/ CancelAccepted \/ CancelRaises
    \/ SkipTarget \/ PlaceProtection \/ Protected
    \/ CancelAll \/ ReadPosition \/ MarketClose

Raises == CreateRaises \/ Backstop \/ FetchRaises \/ ProtectionRaises

Adapter == Answers \/ Raises

Exchange ==
    \/ \E g \in Gens : Fill(g)
    \/ StopTriggers
    \/ \E i \in DOMAIN TPs : TargetHit(i)

Next == Adapter \/ Exchange \/ Tick

Spec == Init /\ [][Next]_vars

\* Every API call ends (the client has timeouts) and time passes; no exception
\* is owed to the adapter.
FairSpec == Spec /\ WF_vars(Answers) /\ WF_vars(Tick)

--------------------------------------------------------------------------------
(* Properties.                                                             *)

Done == pc = "done"

\* Every variable holds a value its code or exchange counterpart can hold.
TypeOK ==
    /\ pc \in {"idle", "create", "fetch", "cancel", "protect", "flatCancel",
               "flatRead", "flatClose", "done"}
    /\ gates \in BOOLEAN
    /\ tripped \in BOOLEAN
    /\ attempt \in Gens
    /\ elapsed \in 0 .. HardCap
    /\ genQty \in 1 .. Qty
    /\ seen \in 0 .. Qty
    /\ prevFilled \in Nat
    /\ next \in 0 .. Len(TPs) + 1
    /\ flatAmt \in Nat
    /\ report \in [status : Statuses, filled : Nat]
    /\ orders \in [Gens -> [st : {"none", "open", "closed", "canceled"},
                            qty : 0 .. Qty, filled : 0 .. Qty]]
    /\ executed \in Nat
    /\ pos \in Nat
    /\ sl \in {"none", "resting", "triggered"}
    /\ tps \subseteq DOMAIN TPs

\* The quantity a SendReport claims was really executed on the exchange, across
\* all generations, and was asked for: however often the order was replaced, the book
\* never holds more than was bought, nor more than was sized.
ReportBacked == report.filled <= executed /\ report.filled <= Qty

\* A LIVE_SENT answer means the closePosition stop reached the exchange (it
\* rests, or has already triggered), also for partial fills and given-up retries.
SentIsCovered ==
    Done /\ report.status = "LIVE_SENT" => sl \in {"resting", "triggered"}

\* Cancel-replace never leaves two entry orders live at once.
OneLiveEntry == \A g, h \in Gens : Open(g) /\ Open(h) => g = h

\* Fills that land between a fetch and the cancel are bought again by the
\* replacement, but each generation can lose at most all but one unit: the
\* position of one call is bounded even under every API fault.
ExposureBound == executed <= Qty + MaxRetries * (Qty - 1)

\* The caller is told of a trip by TRIPPED, and TRIPPED is never an empty word.
TripReported ==
    Done => /\ report.status = "TRIPPED" => tripped
            /\ tripped => report.status \in {"TRIPPED", "DISARMED"}

\* send_entry always returns: it runs on the engine's event loop, which stands
\* still until it does.
Returns == <>Done

\* The call implements the contract its caller relies on.
Phase == IF pc = "idle" THEN "called" ELSE IF Done THEN "returned" ELSE "working"
Contract == INSTANCE EntryContract WITH
    phase   <- Phase,
    status  <- IF Done THEN report.status ELSE "none",
    claimed <- IF Done THEN report.filled ELSE 0,
    covered <- sl # "none"

ContractSpec == Contract!Spec

(* What a comment and a test say and the code does not do.                 *)

\* live_orders.py:24-26: "no naked positions, ever".
NoNakedPosition == Done /\ pos > 0 => sl = "resting"
================================================================================
