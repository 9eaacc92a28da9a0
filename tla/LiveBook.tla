-------------------------------- MODULE LiveBook --------------------------------
(***************************************************************************)
(* The book of live trades: the rows the engine thread writes (engine.py,  *)
(* journal.py, storage.py), the positions and stops on the exchange, and   *)
(* the reconcile pass (reconcile.py) that runs in a worker thread beside   *)
(* the engine and compares the two.                                        *)
(*                                                                         *)
(* An action is the code between two points where the other thread, the    *)
(* exchange or a crash can come in: one API call or one committed SQL      *)
(* statement.  A send is the atomic step EntryContract allows: LIVE_SENT   *)
(* with a covering stop, or an entry the engine never hears of.            *)
(***************************************************************************)
EXTENDS Integers

CONSTANTS
    Symbols,
    MaxTrades,    \* bound: entries sent in a behaviour
    MaxCrashes,   \* bound: restarts of the process
    OrderFaults   \* fetch_open_orders may fail

ASSUME BookAssumption ==
    /\ Symbols # {} /\ "none" \notin Symbols
    /\ MaxTrades \in Nat \ {0}
    /\ MaxCrashes \in Nat
    /\ OrderFaults \in BOOLEAN

VARIABLES
    sent,     \* entries sent so far; a trade is known by its number
    symOf,    \* symbol of each entry
    rows,     \* database: the trades table
    pos,      \* exchange: the entry that last added to the position, 0 if flat
    stops,    \* exchange: resting protective stops, by trade and who placed them
    epc,      \* engine: what it does next
    copies,   \* engine: Trade objects read and not yet written back
    cur,      \* engine: the entry to record
    doomed,   \* engine: symbols it has yet to flatten on the exchange
    tripped,  \* the adapter is not engaged: sends are simulated
    rpc,      \* reconcile pass: what it does next
    seenPos,  \* pass: symbols with a position when fetched
    seenRows, \* pass: trades OPEN when read
    noStop,   \* pass: symbols without a protective stop among the orders read
    ghosts,   \* pass: trades it found OPEN with no position
    alerts,   \* symbols named by the critical alerts of the pass
    crashes

engineVars == <<epc, copies, cur, doomed, tripped>>
passVars == <<rpc, seenPos, seenRows, noStop, ghosts, alerts>>
vars == <<sent, symOf, rows, pos, stops, engineVars, passVars, crashes>>

Trades == 1 .. MaxTrades
NoRow  == [st |-> "none", by |-> "none"]

OpenRows   == {t \in Trades : rows[t].st = "OPEN"}
Booked(s)  == \E t \in OpenRows : symOf[t] = s
SymbolsOf(T) == {symOf[t] : t \in T}

Init ==
    /\ sent = 0
    /\ symOf = [t \in Trades |-> "none"]
    /\ rows = [t \in Trades |-> NoRow]
    /\ pos = [s \in Symbols |-> 0]
    /\ stops = [s \in Symbols |-> {}]
    /\ epc = "idle"
    /\ copies = {}
    /\ cur = 0
    /\ doomed = {}
    /\ tripped = FALSE
    /\ rpc = "idle"
    /\ seenPos = {}
    /\ seenRows = {}
    /\ noStop = {}
    /\ ghosts = {}
    /\ alerts = {}
    /\ crashes = 0

--------------------------------------------------------------------------------
(* The engine thread.                                                      *)

\* f_duplicate: no entry on a symbol with an open trade.
NotDuplicate(s) == ~Booked(s)

\* EngineLiveExecutor.open on an engaged adapter: send_entry answers LIVE_SENT,
\* or the engine hears FAILED or TRIPPED of an entry that filled all the same.
SendEntry(s) ==
    /\ epc = "idle"
    /\ sent < MaxTrades
    /\ ~tripped
    /\ NotDuplicate(s)
    /\ sent' = sent + 1
    /\ symOf' = [symOf EXCEPT ![sent'] = s]
    /\ pos' = [pos EXCEPT ![s] = sent']
    /\ \/ /\ stops' = [stops EXCEPT ![s] = @ \cup {<<sent', "entry">>}]
          /\ epc' = "record"
          /\ cur' = sent'
          /\ UNCHANGED tripped
       \/ tripped' \in BOOLEAN /\ UNCHANGED <<stops, epc, cur>>
    /\ UNCHANGED <<rows, copies, doomed, passVars, crashes>>

\* The same open on an adapter that tripped: the entry is SIMULATED, a live row
\* with nothing on the exchange.
SimulateEntry(s) ==
    /\ epc = "idle"
    /\ sent < MaxTrades
    /\ tripped
    /\ NotDuplicate(s)
    /\ sent' = sent + 1
    /\ symOf' = [symOf EXCEPT ![sent'] = s]
    /\ epc' = "record"
    /\ cur' = sent'
    /\ UNCHANGED <<rows, pos, stops, copies, doomed, tripped, passVars, crashes>>

\* journal.record_open.
RecordOpen ==
    /\ epc = "record"
    /\ rows' = [rows EXCEPT ![cur] = [st |-> "OPEN", by |-> "engine"]]
    /\ epc' = "idle"
    /\ UNCHANGED <<sent, symOf, pos, stops, copies, cur, doomed, tripped, passVars, crashes>>

\* _manage_open_trades, a flatten of the daily guards, or panic_flatten reads the
\* open trades once; a panic goes to the exchange even when there are none.
ReadOpen ==
    /\ epc = "idle"
    /\ copies' = OpenRows
    /\ \/ OpenRows # {} /\ epc' \in {"manage", "flatten", "panic"}
       \/ OpenRows = {} /\ epc' = "panicExchange"
    /\ UNCHANGED <<sent, symOf, rows, pos, stops, cur, doomed, tripped, passVars, crashes>>

Handled(t, more, last) ==
    /\ copies' = copies \ {t}
    /\ epc' = IF copies = {t} THEN last ELSE more

\* upsert_trade overwrites the whole row with the copy, whatever it holds now.
Upsert(t, status) == rows' = [rows EXCEPT ![t] = [st |-> status, by |-> "engine"]]

\* The copy advances and stays open, exits on its bar (in the book only: the
\* exchange has its own stop and targets), or saw no new bar.
ManageOne(t) ==
    /\ epc = "manage"
    /\ t \in copies
    /\ \/ Upsert(t, "OPEN")
       \/ Upsert(t, "CLOSED")
       \/ UNCHANGED rows
    /\ Handled(t, "manage", "idle")
    /\ UNCHANGED <<sent, symOf, pos, stops, cur, doomed, tripped, passVars, crashes>>

\* _flatten_all_now books each close before it tries the exchange.
FlattenBook(t) ==
    /\ epc = "flatten"
    /\ t \in copies
    /\ Upsert(t, "CLOSED")
    /\ doomed' = {symOf[t]}
    /\ Handled(t, "flattenExchange", "flattenExchange")
    /\ UNCHANGED <<sent, symOf, pos, stops, cur, tripped, passVars, crashes>>

\* emergency_flatten of the doomed symbols: canceling the orders and closing the
\* position are two calls, each best effort, their errors swallowed.
FlattenDoomed ==
    /\ \E closed \in SUBSET doomed :
          pos' = [s \in Symbols |-> IF s \in closed THEN 0 ELSE pos[s]]
    /\ \E canceled \in SUBSET doomed :
          stops' = [s \in Symbols |-> IF s \in canceled THEN {} ELSE stops[s]]

\* flatten_live: nothing unless the adapter is engaged.
FlattenExchange ==
    /\ epc = "flattenExchange"
    /\ IF tripped THEN UNCHANGED <<pos, stops>> ELSE FlattenDoomed
    /\ doomed' = {}
    /\ epc' = IF copies = {} THEN "idle" ELSE "flatten"
    /\ UNCHANGED <<sent, symOf, rows, copies, cur, tripped, passVars, crashes>>

\* panic_flatten books all closes first and then stops the engaged adapter.
PanicBook(t) ==
    /\ epc = "panic"
    /\ t \in copies
    /\ Upsert(t, "CLOSED")
    /\ doomed' = doomed \cup {symOf[t]}
    /\ Handled(t, "panic", "panicExchange")
    /\ UNCHANGED <<sent, symOf, pos, stops, cur, tripped, passVars, crashes>>

PanicExchange ==
    /\ epc = "panicExchange"
    /\ IF tripped THEN UNCHANGED <<pos, stops>> ELSE FlattenDoomed
    /\ tripped' = TRUE
    /\ doomed' = {}
    /\ epc' = "idle"
    /\ UNCHANGED <<sent, symOf, rows, copies, cur, passVars, crashes>>

--------------------------------------------------------------------------------
(* The reconcile pass, in its worker thread.                               *)

\* _maybe_reconcile starts one pass at a time; run() is enabled in live mode.
\* The positions are fetched first.
FetchPositions ==
    /\ rpc = "idle"
    /\ seenPos' = {s \in Symbols : pos[s] # 0}
    /\ alerts' = {}
    /\ rpc' = "trades"
    /\ UNCHANGED <<sent, symOf, rows, pos, stops, engineVars, seenRows, noStop, ghosts,
                   crashes>>

\* Any exception ends the pass; the next one starts over.
PassFails ==
    /\ rpc \in {"trades", "orders"}
    /\ rpc' = "idle"
    /\ UNCHANGED <<sent, symOf, rows, pos, stops, engineVars, seenPos, seenRows, noStop,
                   ghosts, alerts, crashes>>

ReadTrades ==
    /\ rpc = "trades"
    /\ seenRows' = OpenRows
    /\ rpc' = "orders"
    /\ UNCHANGED <<sent, symOf, rows, pos, stops, engineVars, seenPos, noStop, ghosts, alerts,
                   crashes>>

GhostsInverted == {t \in seenRows : symOf[t] \in seenPos}                    \* mutant
Ghosts == {t \in seenRows : symOf[t] \notin seenPos}

\* A symbol whose order fetch fails has no orders in the pass.  Only an armed
\* adapter makes the exchange the source of truth for the rows.
FetchOrders ==
    /\ rpc = "orders"
    /\ \E failed \in IF OrderFaults THEN SUBSET Symbols ELSE {{}} :
          noStop' = {s \in Symbols : stops[s] = {}} \cup failed
    /\ ghosts' = IF tripped THEN {} ELSE Ghosts
    /\ rpc' = "ghosts"
    /\ UNCHANGED <<sent, symOf, rows, pos, stops, engineVars, seenPos, seenRows, alerts,
                   crashes>>

\* close_trade_exchange and close_trade_reconcile only close an OPEN row.
StillOpen(t) == rows[t].st = "OPEN"

CloseGhost(t) ==
    /\ rpc = "ghosts"
    /\ t \in ghosts
    /\ rows' = IF StillOpen(t)
               THEN [rows EXCEPT ![t] = [st |-> "CLOSED", by |-> "pass"]]
               ELSE rows
    /\ ghosts' = ghosts \ {t}
    /\ UNCHANGED <<sent, symOf, pos, stops, engineVars, rpc, seenPos, seenRows, noStop,
                   alerts, crashes>>

UnknownToHistory ==                                                        \* mutant
    seenPos \ SymbolsOf({t \in Trades : rows[t].st # "none"})
Unknown == seenPos \ SymbolsOf(seenRows)

\* A position the engine does not know is alerted, never adopted.
AlertUnknown ==
    /\ rpc = "ghosts"
    /\ ghosts = {}
    /\ alerts' = alerts \cup Unknown
    /\ rpc' = "stops"
    /\ UNCHANGED <<sent, symOf, rows, pos, stops, engineVars, seenPos, seenRows, noStop,
                   ghosts, crashes>>

NakedIfArmed ==                                                            \* mutant
    {t \in seenRows : ~tripped /\ symOf[t] \in seenPos \cap noStop}
Naked == {t \in seenRows : symOf[t] \in seenPos \cap noStop}

\* place_protective_stop through the armed adapter, else a critical alert.
PlaceStop(t) ==
    /\ rpc = "stops"
    /\ t \in Naked
    /\ \/ /\ ~tripped
          /\ stops' = [stops EXCEPT ![symOf[t]] = @ \cup {<<t, "pass">>}]
          /\ UNCHANGED alerts
       \/ alerts' = alerts \cup {symOf[t]} /\ UNCHANGED stops
    /\ seenRows' = seenRows \ {t}
    /\ UNCHANGED <<sent, symOf, rows, pos, engineVars, rpc, seenPos, noStop, ghosts,
                   crashes>>

EndPass ==
    /\ rpc = "stops"
    /\ Naked = {}
    /\ rpc' = "idle"
    /\ UNCHANGED <<sent, symOf, rows, pos, stops, engineVars, seenPos, seenRows, noStop,
                   ghosts, alerts, crashes>>

--------------------------------------------------------------------------------
(* The exchange, the owner at the exchange, and the process.               *)

\* A stop or the last target triggers, or the owner closes by hand.
ClosedOnExchange(s) ==
    /\ pos[s] # 0
    /\ pos' = [pos EXCEPT ![s] = 0]
    /\ UNCHANGED <<sent, symOf, rows, stops, engineVars, passVars, crashes>>

\* Resting stops trigger, expire with the position or are canceled by hand.
StopVanishes(s) ==
    /\ stops[s] # {}
    /\ stops' = [stops EXCEPT ![s] = {}]
    /\ UNCHANGED <<sent, symOf, rows, pos, engineVars, passVars, crashes>>

\* A restart loses memory and builds an untripped adapter.
Crash ==
    /\ crashes < MaxCrashes
    /\ crashes' = crashes + 1
    /\ epc' = "idle" /\ copies' = {} /\ cur' = 0 /\ doomed' = {} /\ tripped' = FALSE
    /\ rpc' = "idle" /\ seenPos' = {} /\ seenRows' = {} /\ noStop' = {}
    /\ ghosts' = {} /\ alerts' = {}
    /\ UNCHANGED <<sent, symOf, rows, pos, stops>>

Engine ==
    \/ \E s \in Symbols : SendEntry(s) \/ SimulateEntry(s)
    \/ RecordOpen \/ ReadOpen \/ FlattenExchange \/ PanicExchange
    \/ \E t \in Trades : ManageOne(t) \/ FlattenBook(t) \/ PanicBook(t)

Pass ==
    \/ FetchPositions \/ ReadTrades \/ FetchOrders \/ AlertUnknown \/ EndPass
    \/ \E t \in Trades : CloseGhost(t) \/ PlaceStop(t)

Environment == PassFails \/ Crash \/ \E s \in Symbols : ClosedOnExchange(s) \/ StopVanishes(s)

Next == Engine \/ Pass \/ Environment

Spec == Init /\ [][Next]_vars

\* The engine goes on with what it began, passes are started on their timer and
\* an exchange that is asked again and again does answer.
FairSpec ==
    /\ Spec
    /\ WF_vars(Pass) /\ SF_vars(ReadTrades) /\ SF_vars(FetchOrders)
    /\ WF_vars(epc # "idle" /\ Engine)

--------------------------------------------------------------------------------
(* Properties.                                                             *)

\* Every variable holds a value it can hold; rows and stops belong to entries
\* that were sent, and an idle engine holds no stale copies.
TypeOK ==
    /\ sent \in 0 .. MaxTrades
    /\ symOf \in [Trades -> Symbols \cup {"none"}]
    /\ rows \in [Trades -> [st : {"none", "OPEN", "CLOSED"}, by : {"none", "engine", "pass"}]]
    /\ pos \in [Symbols -> 0 .. MaxTrades]
    /\ stops \in [Symbols -> SUBSET (Trades \X {"entry", "pass"})]
    /\ epc \in {"idle", "record", "manage", "flatten", "flattenExchange", "panic",
                "panicExchange"}
    /\ copies \subseteq 1 .. sent
    /\ cur \in 0 .. sent
    /\ doomed \subseteq Symbols
    /\ tripped \in BOOLEAN
    /\ rpc \in {"idle", "trades", "orders", "ghosts", "stops"}
    /\ seenPos \subseteq Symbols
    /\ seenRows \subseteq 1 .. sent
    /\ noStop \subseteq Symbols
    /\ ghosts \subseteq seenRows
    /\ alerts \subseteq Symbols
    /\ crashes \in 0 .. MaxCrashes
    /\ epc = "idle" => copies = {}
    /\ \A t \in Trades : rows[t].st # "none" => t <= sent

\* One symbol never has two open rows, whatever the pass closes and the engine
\* writes back in between.
OneOpenPerSymbol ==
    \A t, u \in OpenRows : symOf[t] = symOf[u] => t = u

\* A close the engine booked is final: the pass, which read the row while it was
\* open, does not overwrite its reason and result.
EngineCloseIsFinal ==
    [][\A t \in Trades :
         rows[t] = [st |-> "CLOSED", by |-> "engine"] => rows'[t] = rows[t]]_vars

\* A row whose position is gone is closed, by the engine or by a pass, unless
\* the adapter trips (a tripped adapter is not armed).
GhostsAreClosed ==
    \A t \in Trades :
        rows[t].st = "OPEN" /\ pos[symOf[t]] = 0 ~> rows[t].st = "CLOSED" \/ tripped

\* A position without an open row is alerted, as long as it is one.
UnknownIsAlerted ==
    \A s \in Symbols :
        pos[s] # 0 /\ ~Booked(s) ~> s \in alerts \/ pos[s] = 0 \/ Booked(s)

\* A booked position without a stop gets one or is alerted, as long as it is one.
NakedIsHandled ==
    \A s \in Symbols :
        pos[s] # 0 /\ Booked(s) /\ stops[s] = {}
            ~> s \in alerts \/ stops[s] # {} \/ pos[s] = 0 \/ ~Booked(s)
================================================================================
