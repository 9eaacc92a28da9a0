--------------------------------- MODULE Ledger ---------------------------------
(***************************************************************************)
(* The money: trade rows with their realized PnL, the one `balance` in the *)
(* meta table that paper and live share, and the ledger of its changes.    *)
(* The engine books each fill through the journal (journal.py): the row    *)
(* first, then per fill read, write and log the balance, each a commit of  *)
(* its own.  The reconcile thread closes ghost rows and mirrors the wallet *)
(* into the same balance while the engine runs.  The process may die       *)
(* between any two commits; the resets of main.py run on a stopped engine. *)
(*                                                                         *)
(* `now` and `next` are the fills of one bar still to be booked: two that  *)
(* move money at most, 0 for none.                                         *)
(***************************************************************************)
EXTENDS Integers, FiniteSets

CONSTANTS
    Trades,
    Pnls,        \* what a fill can realize, 0 for a fill that moves no money
    Wallets,     \* totals the exchange can report, 0 when it reports none
    Initial,     \* initial_paper_balance
    NoBalance,   \* the meta key is absent
    NoTrade,
    MaxBar,      \* bound: closed bars
    MaxStarts    \* bound: process starts

Modes == {"paper", "live"}

ASSUME LedgerAssumption ==
    /\ Pnls \subseteq Int /\ 0 \in Pnls /\ Wallets \subseteq Nat
    /\ Initial \in Int /\ NoBalance \notin Int /\ NoTrade \notin Trades
    /\ MaxBar \in Nat /\ MaxStarts \in Nat

VARIABLES
    up,        \* the engine process runs
    starts,    \* how often it was started
    mode,
    armed,     \* live, the five gates are open and the adapter is not tripped
    clock,     \* closed bars so far
    rows,      \* the trades table
    balance,   \* meta 'balance'
    logged,    \* sum of the fills in the ledger since the last seed
    held,      \* the trade the engine has in hand
    copy,      \* its row, as read
    force,     \* a forced close (mode switch, panic, profit guard), not a bar
    pc,        \* engine: "idle", "row", "get", "set" or "log"
    now, next,
    tmp,       \* balance the engine is about to write
    pp,        \* pass: "idle", "rows", "read", "get", "set" or "log"
    seen,      \* the open rows it listed
    total,     \* the wallet it fetched, then the change it is to make
    ptmp,      \* balance the pass is about to write
    wallet,    \* the exchange's own balance
    credit, booked, lost, cut, times, mirrored   \* history, read by the properties

store   == <<rows, balance, logged>>
engine  == <<held, copy, force, pc, now, next, tmp>>
pass    == <<pp, seen, total, ptmp>>
control == <<up, starts, mode, armed>>
history == <<credit, booked, lost, cut, times, mirrored>>
vars == <<control, clock, store, engine, pass, wallet, history>>

Gates(m) == IF m = "live" THEN BOOLEAN ELSE {FALSE}

NoRow == [st |-> "none", mode |-> "paper", real |-> 0, bar |-> 0]
OpenIn(m) == {t \in Trades : rows[t].st = "open" /\ rows[t].mode = m}

ResetEngine ==
    /\ held' = NoTrade /\ copy' = NoRow /\ force' = FALSE /\ pc' = "idle"
    /\ now' = 0 /\ next' = 0 /\ tmp' = 0
ResetPass == pp' = "idle" /\ seen' = {} /\ total' = 0 /\ ptmp' = 0

Init ==
    /\ up = FALSE /\ starts = 0 /\ mode = "paper" /\ armed = FALSE
    /\ clock = 0
    /\ rows = [t \in Trades |-> NoRow] /\ balance = NoBalance /\ logged = 0
    /\ held = NoTrade /\ copy = NoRow /\ force = FALSE /\ pc = "idle"
    /\ now = 0 /\ next = 0 /\ tmp = 0
    /\ pp = "idle" /\ seen = {} /\ total = 0 /\ ptmp = 0
    /\ wallet \in Wallets
    /\ credit = 0 /\ cut = 0 /\ mirrored = FALSE
    /\ booked = [t \in Trades |-> 0] /\ lost = [t \in Trades |-> 0]
    /\ times = [t \in Trades |-> 0]

--------------------------------------------------------------------------------
(* Start, crash, reset, mode.                                              *)

Seed ==
    /\ balance' = Initial /\ logged' = 0
    /\ credit' = 0 /\ cut' = 0 /\ mirrored' = FALSE

StartAlwaysSeeds ==                                                        \* mutant
    /\ ~up /\ starts < MaxStarts
    /\ up' = TRUE /\ starts' = starts + 1
    /\ mode' \in Modes /\ armed' \in Gates(mode')
    /\ balance' = Initial
    /\ UNCHANGED <<logged, clock, rows, engine, pass, wallet, history>>
\* ensure_balance seeds a database that has no balance, and only that one.
Start ==
    /\ ~up /\ starts < MaxStarts
    /\ up' = TRUE /\ starts' = starts + 1
    /\ mode' \in Modes /\ armed' \in Gates(mode')
    /\ IF balance = NoBalance THEN Seed
       ELSE UNCHANGED <<balance, logged, credit, cut, mirrored>>
    /\ UNCHANGED <<clock, rows, engine, pass, wallet, booked, lost, times>>

\* Money of the trade in hand that no balance holds yet.
Due == CASE pc \in {"get", "set"} -> now + next
         [] pc = "log" -> next
         [] OTHER -> 0

Crash ==
    /\ up
    /\ up' = FALSE /\ mode' = "paper" /\ armed' = FALSE
    /\ lost' = [t \in Trades |-> IF t = held THEN lost[t] + Due ELSE lost[t]]
    /\ cut' = IF pc = "log" THEN cut + now ELSE cut
    /\ ResetEngine /\ ResetPass
    /\ UNCHANGED <<starts, clock, store, wallet, credit, booked, times, mirrored>>

\* The epoch reset wipes and seeds in separate commits; it can die in between.
ResetWipe ==
    /\ ~up
    /\ rows' = [t \in Trades |-> NoRow] /\ balance' = NoBalance /\ logged' = 0
    /\ booked' = [t \in Trades |-> 0] /\ lost' = [t \in Trades |-> 0]
    /\ times' = [t \in Trades |-> 0]
    /\ UNCHANGED <<control, clock, engine, pass, wallet, credit, cut, mirrored>>

\* The seed of the epoch reset, and the balance-only reset.
ResetSeed ==
    /\ ~up
    /\ Seed
    /\ UNCHANGED <<control, clock, rows, engine, pass, wallet, booked, lost, times>>

\* →live closes the paper rows first, →paper is refused over open live rows.
Switch ==
    /\ up /\ pc = "idle"
    /\ OpenIn(mode) = {}
    /\ mode' \in Modes \ {mode} /\ armed' \in Gates(mode')
    /\ UNCHANGED <<up, starts, clock, store, engine, pass, wallet, history>>

Trip ==
    /\ up /\ armed
    /\ armed' = FALSE
    /\ UNCHANGED <<up, starts, mode, clock, store, engine, pass, wallet, history>>

BarCloses ==
    /\ clock < MaxBar
    /\ clock' = clock + 1
    /\ UNCHANGED <<control, store, engine, pass, wallet, history>>

--------------------------------------------------------------------------------
(* The engine and its journal.                                             *)

RecordOpen(t) ==
    /\ up /\ pc = "idle"
    /\ rows[t] = NoRow
    /\ rows' = [rows EXCEPT ![t] = [st |-> "open", mode |-> mode, real |-> 0,
                                    bar |-> clock]]
    /\ UNCHANGED <<control, clock, balance, logged, engine, pass, wallet, history>>

\* A bar is simulated once: the row remembers the last one processed.
BarIsNew(t) == clock > rows[t].bar

Take(t) ==
    /\ up /\ pc = "idle"
    /\ t \in OpenIn(mode)
    /\ force' \in BOOLEAN
    /\ ~force' => BarIsNew(t)
    /\ held' = t /\ copy' = rows[t] /\ pc' = "row"
    /\ UNCHANGED <<control, clock, store, now, next, tmp, pass, wallet, history>>

NextFill(p, q) ==
    IF p = 0 /\ q = 0 THEN ResetEngine
    ELSE /\ now' = IF p # 0 THEN p ELSE q
         /\ next' = IF p # 0 THEN q ELSE 0
         /\ pc' = "get"
         /\ UNCHANGED <<held, copy, force, tmp>>

Booked(row, st, pnl) ==
    [row EXCEPT !.st = st, !.real = @ + pnl, !.bar = IF force THEN @ ELSE clock]

\* record_fills, and the upsert of a bar without a fill: the whole row as the
\* engine has it in hand, whatever happened to the stored one meanwhile.
Upsert ==
    /\ pc = "row"
    /\ \E p \in Pnls, q \in Pnls, st \in {"open", "closed"} :
          /\ force => st = "closed" /\ q = 0
          /\ rows' = [rows EXCEPT ![held] = Booked(copy, st, p + q)]
          /\ NextFill(p, q)
    /\ times' = [times EXCEPT ![held] = IF force THEN @ ELSE @ + 1]
    /\ UNCHANGED <<control, clock, balance, logged, pass, wallet, credit, booked, lost,
                   cut, mirrored>>

\* adjust_balance: get_balance ...
GetBalance ==
    /\ pc = "get"
    /\ tmp' = balance + now
    /\ pc' = "set"
    /\ UNCHANGED <<control, clock, store, held, copy, force, now, next, pass,
                   wallet, history>>

\* ... set_meta ...
SetBalance ==
    /\ pc = "set"
    /\ balance' = tmp /\ tmp' = 0
    /\ credit' = credit + now
    /\ booked' = [booked EXCEPT ![held] = @ + now]
    /\ pc' = "log"
    /\ UNCHANGED <<control, clock, rows, logged, held, copy, force, now, next,
                   pass, wallet, lost, cut, times, mirrored>>

\* ... append_ledger; then the next fill of the bar.
AppendLedger ==
    /\ pc = "log"
    /\ logged' = logged + now
    /\ NextFill(next, 0)
    /\ UNCHANGED <<control, clock, rows, balance, pass, wallet, history>>

--------------------------------------------------------------------------------
(* The reconcile thread.                                                   *)

\* Whether the exchange is the source of truth is decided once for all rows.
PassStart ==
    /\ up /\ pp = "idle" /\ mode = "live"
    /\ pp' = "rows" /\ seen' = IF armed THEN OpenIn("live") ELSE {}
    /\ UNCHANGED <<control, clock, store, engine, total, ptmp, wallet, history>>

\* A ghost: the exchange is flat.  The row takes the exit the exchange reports, or
\* NULL (0); the balance is left to the wallet sync.
GhostClose(t) ==
    /\ pp = "rows"
    /\ t \in seen
    /\ seen' = seen \ {t}
    /\ rows' = IF rows[t].st # "open" THEN rows
               ELSE [rows EXCEPT ![t] = [@ EXCEPT !.st = "ghost", !.real = 0]]
    /\ UNCHANGED <<control, clock, balance, logged, engine, pp, total, ptmp, wallet,
                   history>>

\* fetch_balance raises, or the pass died before it.
PassFails ==
    /\ pp = "rows"
    /\ ResetPass
    /\ UNCHANGED <<control, clock, store, engine, wallet, history>>

FetchBalance ==
    /\ pp = "rows"
    /\ total' = wallet
    /\ pp' = "read"
    /\ UNCHANGED <<control, clock, store, engine, seen, ptmp, wallet, history>>

\* total > 0 and total differs from the balance read now: the change to make.
SyncOnlyUp ==                                                              \* mutant
    /\ pp = "read"
    /\ IF armed /\ total > balance
       THEN total' = total - balance /\ pp' = "get" /\ UNCHANGED <<seen, ptmp>>
       ELSE ResetPass
    /\ UNCHANGED <<control, clock, store, engine, wallet, history>>
Compare ==
    /\ pp = "read"
    /\ IF armed /\ total > 0 /\ total # balance
       THEN total' = total - balance /\ pp' = "get" /\ UNCHANGED <<seen, ptmp>>
       ELSE ResetPass
    /\ UNCHANGED <<control, clock, store, engine, wallet, history>>

\* adjust_balance again, in the thread.
PassGet ==
    /\ pp = "get"
    /\ ptmp' = balance + total /\ total' = 0
    /\ pp' = "set"
    /\ UNCHANGED <<control, clock, store, engine, seen, wallet, history>>

PassSet ==
    /\ pp = "set"
    /\ balance' = ptmp /\ ptmp' = 0
    /\ mirrored' = TRUE
    /\ pp' = "log"
    /\ UNCHANGED <<control, clock, rows, logged, engine, seen, total, wallet,
                   credit, booked, lost, cut, times>>

\* The EXCHANGE_SYNC row of the ledger: no fill.
PassLog ==
    /\ pp = "log"
    /\ ResetPass
    /\ UNCHANGED <<control, clock, store, engine, wallet, history>>

\* The exchange: fills, funding, deposits.
WalletMoves ==
    /\ wallet' \in Wallets \ {wallet}
    /\ UNCHANGED <<control, clock, store, engine, pass, history>>

--------------------------------------------------------------------------------

Engine == Upsert \/ GetBalance \/ SetBalance \/ AppendLedger
Sync == Compare \/ PassGet \/ PassSet \/ PassLog

Next ==
    \/ Start \/ Crash \/ ResetWipe \/ ResetSeed \/ Switch \/ Trip \/ BarCloses
    \/ \E t \in Trades : RecordOpen(t) \/ Take(t) \/ GhostClose(t)
    \/ Engine
    \/ PassStart \/ PassFails \/ FetchBalance \/ Sync
    \/ WalletMoves

Spec == Init /\ [][Next]_vars

\* Started calls finish; while the engine stays up in live mode a pass is due every
\* reconcile_interval_sec, and a wallet fetch tried again and again gets an answer.
FairSpec ==
    /\ Spec
    /\ WF_vars(Engine) /\ WF_vars(Sync)
    /\ WF_vars(PassStart) /\ SF_vars(FetchBalance)

--------------------------------------------------------------------------------

Row == [st : {"none", "open", "closed", "ghost"}, mode : Modes, real : Int,
        bar : 0 .. MaxBar]

TypeOK ==
    /\ up \in BOOLEAN /\ starts \in 0 .. MaxStarts /\ mode \in Modes /\ armed \in BOOLEAN
    /\ clock \in 0 .. MaxBar
    /\ rows \in [Trades -> Row] /\ balance \in Int \cup {NoBalance} /\ logged \in Int
    /\ held \in Trades \cup {NoTrade} /\ copy \in Row /\ force \in BOOLEAN
    /\ pc \in {"idle", "row", "get", "set", "log"}
    /\ now \in Int /\ next \in Int /\ tmp \in Int
    /\ pp \in {"idle", "rows", "read", "get", "set", "log"}
    /\ seen \subseteq Trades /\ total \in Int /\ ptmp \in Int
    /\ wallet \in Wallets
    /\ credit \in Int /\ cut \in Int /\ mirrored \in BOOLEAN
    /\ booked \in [Trades -> Int] /\ lost \in [Trades -> Int] /\ times \in [Trades -> Nat]
    /\ up => balance # NoBalance
    /\ pc # "idle" => up
    /\ held = NoTrade <=> pc = "idle"
    /\ pp # "idle" => up

\* As long as no wallet was ever mirrored into it, the balance is the last seed plus
\* exactly the fills credited: the read-modify-write of two fills of a bar, a restart
\* or a pass in the other thread never loses or repeats one.  And the ledger explains
\* every credit but the one being logged and those a crash cut off.
BooksAgree ==
    balance # NoBalance =>
        /\ ~mirrored => balance = Initial + credit
        /\ credit = logged + cut + (IF pc = "log" THEN now ELSE 0)

\* A fill reaches the balance once at most, and the row first: the PnL of a row the
\* engine wrote is what was credited for it, plus what is still being booked, plus
\* what a crash between the row and the balance lost.  A bar is booked once, before or
\* after a restart, even when the pass closed the row while the engine had it in hand.
FillsBookedOnce ==
    \A t \in Trades :
        /\ rows[t].st \in {"open", "closed"} =>
               rows[t].real = booked[t] + lost[t] + (IF t = held THEN Due ELSE 0)
        /\ times[t] <= rows[t].bar

\* While real orders are sent and the wallet rests at some value, the balance keeps
\* coming back to it, whatever fills the engine booked and whatever update one of the
\* two threads lost to the other.
WalletMirrored ==
    \A w \in Wallets \ {0} :
        <>[](up /\ armed /\ wallet = w) => []<>(balance = w)

================================================================================
