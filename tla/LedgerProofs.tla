------------------------------ MODULE LedgerProofs ------------------------------
(***************************************************************************)
(* Proofs about the money, for every set of trades, every PnL a fill can   *)
(* have, every wallet and any number of bars, starts and resets; and about *)
(* the database file that keeps it.                                        *)
(***************************************************************************)
EXTENDS Ledger, Operator, SetSums, SequenceTheorems, TLAPS

\* What the engine holds agrees with what was booked, whatever the pass did to the
\* stored row and the balance since it was read.
InHand ==
    /\ held # NoTrade => rows[held].st # "none"
    /\ pc = "row" => /\ copy.real = booked[held] + lost[held]
                     /\ times[held] <= copy.bar
                     /\ ~force => clock > copy.bar
    /\ pc = "set" /\ ~mirrored => tmp = balance + now

\* A trade that was never recorded was never booked.
Untouched ==
    \A t \in Trades : rows[t].st = "none" => booked[t] = 0 /\ lost[t] = 0 /\ times[t] = 0

IInv == TypeOK /\ BooksAgree /\ FillsBookedOnce /\ InHand /\ Untouched

--------------------------------------------------------------------------------
\* An empty database agrees with itself.
THEOREM InitInv == Init => IInv
<1> SUFFICES ASSUME Init PROVE IInv
  OBVIOUS
<1> USE LedgerAssumption DEF Init
<1>1. NoRow \in Row
  BY DEF NoRow, Row, Modes
<1>2. TypeOK
  <2>1. rows \in [Trades -> Row] /\ copy \in Row
    BY <1>1
  <2>2. /\ booked \in [Trades -> Int] /\ lost \in [Trades -> Int]
        /\ times \in [Trades -> Nat]
    OBVIOUS
  <2>3. wallet \in Wallets /\ clock \in 0 .. MaxBar /\ starts \in 0 .. MaxStarts
    OBVIOUS
  <2> QED BY <2>1, <2>2, <2>3 DEF TypeOK, Modes
<1>3. \A t \in Trades : rows[t].st = "none"
  BY DEF NoRow
<1> QED BY <1>2, <1>3 DEF IInv, BooksAgree, FillsBookedOnce, InHand, Untouched, NoRow

--------------------------------------------------------------------------------
(* Steps that leave the engine idle or its trade alone.                    *)

\* Every variable the money depends on, but the rows.
Still == UNCHANGED <<held, copy, force, pc, now, next, tmp, credit, booked, lost, cut,
                     times, mirrored, balance, logged>>

LEMMA StillKeeps ==
  ASSUME IInv, Still, rows' = rows, clock' >= clock, clock' \in Int
  PROVE  (BooksAgree /\ FillsBookedOnce /\ InHand /\ Untouched)'
<1> USE DEF IInv, Still
<1>1. BooksAgree'
  BY DEF BooksAgree
<1>2. FillsBookedOnce'
  BY DEF FillsBookedOnce, Due
<1>3. InHand'
  <2>1. pc = "row" /\ ~force => clock' > copy.bar
    BY DEF InHand, TypeOK, Row
  <2> QED BY <2>1 DEF InHand
<1>4. Untouched'
  BY DEF Untouched
<1> QED BY <1>1, <1>2, <1>3, <1>4

LEMMA OutsideKeeps ==
  ASSUME IInv, Switch \/ Trip \/ BarCloses \/ PassStart \/ PassFails \/ FetchBalance
               \/ Compare \/ PassGet \/ PassLog \/ WalletMoves
  PROVE  IInv'
<1>1. clock \in Int /\ clock' \in Int /\ clock' >= clock
  BY LedgerAssumption DEF IInv, TypeOK, Switch, Trip, BarCloses, PassStart, PassFails,
     FetchBalance, Compare, PassGet, PassLog, WalletMoves, ResetPass
<1>2. Still /\ rows' = rows
  BY DEF Still, Switch, Trip, BarCloses, PassStart, PassFails, FetchBalance, Compare,
     PassGet, PassLog, WalletMoves, store, engine, history, ResetPass
<1>3. TypeOK'
  <2>1. CASE Switch \/ Trip \/ BarCloses \/ WalletMoves
    <3>1. /\ mode' \in Modes /\ armed' \in BOOLEAN /\ clock' \in 0 .. MaxBar
          /\ wallet' \in Wallets
      <4>1. CASE Switch
        BY <4>1 DEF IInv, TypeOK, Switch, Gates
      <4>2. CASE Trip
        BY <4>2 DEF IInv, TypeOK, Trip
      <4>3. CASE BarCloses
        BY <4>3, LedgerAssumption DEF IInv, TypeOK, BarCloses, control
      <4>4. CASE WalletMoves
        BY <4>4 DEF IInv, TypeOK, WalletMoves, control
      <4> QED BY <2>1, <4>1, <4>2, <4>3, <4>4
    <3>2. UNCHANGED <<up, starts, store, engine, pass, history>>
      BY <2>1 DEF Switch, Trip, BarCloses, WalletMoves, control
    <3> QED BY <3>1, <3>2 DEF IInv, TypeOK, store, engine, pass, history
  <2>2. CASE PassStart
    BY <2>2 DEF IInv, TypeOK, PassStart, control, store, engine, history, OpenIn
  <2>3. CASE PassFails \/ PassLog
    BY <2>3 DEF IInv, TypeOK, PassFails, PassLog, ResetPass, control, store, engine, history
  <2>4. CASE FetchBalance
    BY <2>4, LedgerAssumption DEF IInv, TypeOK, FetchBalance, control, store, engine, history
  <2>5. CASE Compare
    <3>1. balance \in Int
      BY <2>5 DEF IInv, TypeOK, Compare
    <3> QED BY <2>5, <3>1 DEF IInv, TypeOK, Compare, ResetPass, control, store, engine, history
  <2>6. CASE PassGet
    <3>1. balance \in Int
      BY <2>6 DEF IInv, TypeOK, PassGet
    <3> QED BY <2>6, <3>1 DEF IInv, TypeOK, PassGet, control, store, engine, history
  <2> QED BY <2>1, <2>2, <2>3, <2>4, <2>5, <2>6
<1> QED BY <1>1, <1>2, <1>3, StillKeeps DEF IInv

\* The wallet is written over the balance: the fills no longer explain it.
LEMMA PassSetKeeps ==
  ASSUME IInv, PassSet
  PROVE  IInv'
<1>1. TypeOK'
  <2>1. /\ balance' \in Int /\ balance' # NoBalance /\ ptmp' \in Int
        /\ mirrored' \in BOOLEAN /\ pp' = "log" /\ up
    BY LedgerAssumption DEF IInv, TypeOK, PassSet
  <2> QED BY <2>1 DEF IInv, TypeOK, PassSet, control, engine
<1>2. BooksAgree'
  BY DEF IInv, BooksAgree, PassSet, engine, TypeOK
<1>3. FillsBookedOnce' /\ Untouched'
  BY DEF IInv, FillsBookedOnce, Untouched, Due, PassSet, engine
<1>4. InHand'
  BY DEF IInv, InHand, PassSet, engine
<1> QED BY <1>1, <1>2, <1>3, <1>4 DEF IInv

\* A ghost close: the row leaves the trades the books answer for.
LEMMA GhostCloseKeeps ==
  ASSUME IInv, NEW t \in Trades, GhostClose(t)
  PROVE  IInv'
<1>1. \A u \in Trades :
        \/ rows'[u] = rows[u]
        \/ rows[u].st = "open" /\ rows'[u].st = "ghost" /\ rows'[u].bar = rows[u].bar
           /\ rows'[u] \in Row
  <2>1. rows \in [Trades -> Row]
    BY DEF IInv, TypeOK
  <2>2. CASE rows[t].st # "open"
    BY <2>2 DEF GhostClose
  <2>3. CASE rows[t].st = "open"
    <3>1. rows'[t] = [rows[t] EXCEPT !.st = "ghost", !.real = 0]
      BY <2>1, <2>3 DEF GhostClose
    <3>2. rows[t] \in Row
      BY <2>1
    <3>4. rows'[t].st = "ghost" /\ rows'[t].bar = rows[t].bar
      BY <3>1, <3>2 DEF Row
    <3>5. rows'[t] \in Row
      <4>1. rows'[t] = [st |-> "ghost", mode |-> rows[t].mode, real |-> 0,
                        bar |-> rows[t].bar]
        BY <3>1, <3>2 DEF Row
      <4>2. rows[t].mode \in Modes /\ rows[t].bar \in 0 .. MaxBar
        BY <3>2 DEF Row
      <4> QED BY <4>1, <4>2 DEF Row
    <3>3. \A u \in Trades : u # t => rows'[u] = rows[u]
      BY <2>1, <2>3 DEF GhostClose
    <3> QED BY <2>3, <3>3, <3>4, <3>5
  <2> QED BY <2>2, <2>3
<1>2. rows' \in [Trades -> Row]
  BY <1>1 DEF IInv, TypeOK, GhostClose
<1>3. TypeOK'
  BY <1>2 DEF IInv, TypeOK, GhostClose, control, engine, history
<1>4. BooksAgree'
  BY DEF IInv, BooksAgree, GhostClose, engine, history
<1>5. FillsBookedOnce' /\ Untouched'
  BY <1>1 DEF IInv, FillsBookedOnce, Untouched, Due, GhostClose, engine, history
<1>6. InHand'
  BY <1>1 DEF IInv, InHand, TypeOK, GhostClose, engine, history
<1> QED BY <1>3, <1>4, <1>5, <1>6 DEF IInv

--------------------------------------------------------------------------------
(* Starts, crashes and resets.                                             *)

LEMMA StartKeeps ==
  ASSUME IInv, Start
  PROVE  IInv'
<1>1. TypeOK'
  <2>1. /\ balance' \in Int /\ logged' \in Int /\ credit' \in Int /\ cut' \in Int
        /\ mirrored' \in BOOLEAN /\ balance' # NoBalance
    <3>1. CASE balance = NoBalance
      BY <3>1, LedgerAssumption DEF Start, Seed
    <3>2. CASE balance # NoBalance
      BY <3>2 DEF IInv, TypeOK, Start
    <3> QED BY <3>1, <3>2
  <2>2. up' = TRUE /\ mode' \in Modes /\ armed' \in BOOLEAN
    BY DEF Start, Gates
  <2>3. starts' \in 0 .. MaxStarts
    BY LedgerAssumption DEF IInv, TypeOK, Start
  <2> QED BY <2>1, <2>2, <2>3 DEF IInv, TypeOK, Start, engine, pass
<1>2. pc = "idle" /\ held = NoTrade
  BY DEF IInv, TypeOK, Start
<1>3. BooksAgree'
  <2>1. pc' = "idle"
    BY <1>2 DEF Start, engine
  <2>2. CASE balance = NoBalance
    BY <2>1, <2>2, LedgerAssumption DEF Start, Seed, BooksAgree
  <2>3. CASE balance # NoBalance
    BY <1>2, <2>1, <2>3 DEF IInv, Start, BooksAgree
  <2> QED BY <2>2, <2>3
<1>4. FillsBookedOnce' /\ Untouched'
  BY <1>2 DEF IInv, FillsBookedOnce, Untouched, Due, Start, engine
<1>5. InHand'
  BY <1>2 DEF IInv, InHand, Start, engine
<1> QED BY <1>1, <1>3, <1>4, <1>5 DEF IInv

\* What was due when the process died is lost for good.
LEMMA CrashKeeps ==
  ASSUME IInv, Crash
  PROVE  IInv'
<1>1. Due \in Int
  BY DEF IInv, TypeOK, Due
<1>2. /\ lost' \in [Trades -> Int]
      /\ \A t \in Trades : lost'[t] = lost[t] + (IF t = held THEN Due ELSE 0)
  BY <1>1 DEF IInv, TypeOK, Crash
<1>3. TypeOK'
  <2>1. copy' \in Row
    BY LedgerAssumption DEF Crash, ResetEngine, NoRow, Row, Modes
  <2>2. /\ up' = FALSE /\ mode' \in Modes /\ armed' \in BOOLEAN /\ force' \in BOOLEAN
        /\ held' = NoTrade /\ pc' = "idle" /\ pp' = "idle" /\ seen' = {} /\ now' = 0
        /\ next' = 0 /\ tmp' = 0 /\ total' = 0 /\ ptmp' = 0
    BY DEF Crash, ResetEngine, ResetPass, Modes
  <2>3. cut' \in Int
    BY DEF IInv, TypeOK, Crash
  <2>4. UNCHANGED <<starts, clock, rows, balance, logged, wallet, credit, booked, times,
                    mirrored>>
    BY DEF Crash, store
  <2>5. starts \in 0 .. MaxStarts /\ clock \in 0 .. MaxBar /\ logged \in Int
        /\ rows \in [Trades -> Row] /\ balance \in Int \cup {NoBalance}
        /\ wallet \in Wallets /\ credit \in Int /\ mirrored \in BOOLEAN
        /\ booked \in [Trades -> Int] /\ times \in [Trades -> Nat]
    BY DEF IInv, TypeOK
  <2>6. /\ up' \in BOOLEAN /\ held' \in Trades \cup {NoTrade}
        /\ pc' \in {"idle", "row", "get", "set", "log"}
        /\ pp' \in {"idle", "rows", "read", "get", "set", "log"}
        /\ seen' \subseteq Trades
        /\ now' \in Int /\ next' \in Int /\ tmp' \in Int /\ total' \in Int /\ ptmp' \in Int
    <3>1. seen' \subseteq Trades /\ held' \in Trades \cup {NoTrade} /\ up' \in BOOLEAN
      BY Zenon, <2>2
    <3> QED BY <2>2, <3>1
  <2>7. (up' => balance' # NoBalance) /\ (pc' # "idle" => up')
        /\ (held' = NoTrade <=> pc' = "idle") /\ (pp' # "idle" => up')
    BY Zenon, <2>2
  <2> HIDE DEF Row
  <2> QED BY Zenon, <1>2, <2>1, <2>2, <2>3, <2>4, <2>5, <2>6, <2>7 DEF TypeOK
<1>4. BooksAgree'
  BY DEF IInv, BooksAgree, TypeOK, Crash, ResetEngine, store
<1>5. held' \notin Trades /\ pc' = "idle"
  BY LedgerAssumption DEF Crash, ResetEngine
<1>6. FillsBookedOnce'
  BY <1>1, <1>2, <1>5 DEF IInv, TypeOK, Row, FillsBookedOnce, Crash, store
<1>7. Untouched'
  <2> SUFFICES ASSUME NEW t \in Trades, rows'[t].st = "none"
               PROVE  booked'[t] = 0 /\ lost'[t] = 0 /\ times'[t] = 0
    BY DEF Untouched
  <2>1. rows[t].st = "none" /\ booked' = booked /\ times' = times
    BY DEF Crash, store
  <2>2. t # held
    BY <2>1, LedgerAssumption DEF IInv, InHand
  <2> QED BY <1>2, <2>1, <2>2 DEF IInv, Untouched
<1>8. InHand'
  BY <1>5 DEF InHand, Crash, ResetEngine
<1> QED BY <1>3, <1>4, <1>6, <1>7, <1>8 DEF IInv

LEMMA ResetKeeps ==
  ASSUME IInv, ResetWipe \/ ResetSeed
  PROVE  IInv'
<1>1. pc = "idle" /\ held = NoTrade
  BY DEF IInv, TypeOK, ResetWipe, ResetSeed
<1>2. CASE ResetWipe
  <2>1. NoRow \in Row /\ NoRow.st = "none"
    BY LedgerAssumption DEF NoRow, Row, Modes
  <2>2. TypeOK'
    <3>1. /\ rows' \in [Trades -> Row] /\ booked' \in [Trades -> Int]
          /\ lost' \in [Trades -> Int] /\ times' \in [Trades -> Nat]
      BY <1>2, <2>1 DEF ResetWipe
    <3> QED BY <1>2, <3>1 DEF IInv, TypeOK, ResetWipe, control, engine, pass
  <2>3. BooksAgree'
    BY <1>2 DEF BooksAgree, ResetWipe
  <2>4. FillsBookedOnce' /\ Untouched'
    BY <1>2, <2>1 DEF FillsBookedOnce, Untouched, ResetWipe, NoRow
  <2>5. InHand'
    BY <1>1, <1>2 DEF InHand, ResetWipe, engine
  <2> QED BY <2>2, <2>3, <2>4, <2>5 DEF IInv
<1>3. CASE ResetSeed
  <2>1. TypeOK'
    BY <1>3, LedgerAssumption DEF IInv, TypeOK, ResetSeed, Seed, control, engine, pass
  <2>2. BooksAgree'
    BY <1>1, <1>3, LedgerAssumption DEF BooksAgree, ResetSeed, Seed, engine
  <2>3. FillsBookedOnce' /\ Untouched' /\ InHand'
    BY <1>1, <1>3 DEF IInv, FillsBookedOnce, Untouched, InHand, Due, ResetSeed, engine
  <2> QED BY <2>1, <2>2, <2>3 DEF IInv
<1> QED BY <1>2, <1>3

--------------------------------------------------------------------------------
(* The engine's steps.                                                     *)

LEMMA RecordOpenKeeps ==
  ASSUME IInv, NEW t \in Trades, RecordOpen(t)
  PROVE  IInv'
<1> DEFINE fresh == [st |-> "open", mode |-> mode, real |-> 0, bar |-> clock]
<1>1. fresh \in Row /\ fresh.st = "open" /\ fresh.real = 0 /\ fresh.bar = clock
  BY DEF IInv, TypeOK, Row
<1>2. rows' = [rows EXCEPT ![t] = fresh]
  BY DEF RecordOpen
<1> HIDE DEF fresh
<1>3. rows' \in [Trades -> Row] /\ rows'[t] = fresh
      /\ \A u \in Trades : u # t => rows'[u] = rows[u]
  BY <1>1, <1>2 DEF IInv, TypeOK
<1>4. pc = "idle" /\ held = NoTrade /\ rows[t].st = "none"
  BY DEF IInv, TypeOK, RecordOpen, NoRow
<1>5. TypeOK'
  BY <1>3 DEF IInv, TypeOK, RecordOpen, control, engine, pass, history
<1>6. BooksAgree'
  BY DEF IInv, BooksAgree, RecordOpen, engine, history
<1>7. FillsBookedOnce'
  <2>1. booked[t] = 0 /\ lost[t] = 0 /\ times[t] = 0
    BY <1>4 DEF IInv, Untouched
  <2>2. clock >= 0 /\ clock \in Int
    BY LedgerAssumption DEF IInv, TypeOK
  <2> QED BY <1>1, <1>3, <1>4, <2>1, <2>2, LedgerAssumption
       DEF IInv, FillsBookedOnce, RecordOpen, engine, history
<1>8. Untouched'
  BY <1>1, <1>3 DEF IInv, Untouched, RecordOpen, history
<1>9. InHand'
  BY <1>4 DEF InHand, RecordOpen, engine
<1> QED BY <1>5, <1>6, <1>7, <1>8, <1>9 DEF IInv

LEMMA TakeKeeps ==
  ASSUME IInv, NEW t \in Trades, Take(t)
  PROVE  IInv'
<1>1. pc = "idle" /\ held = NoTrade /\ pc' = "row" /\ held' = t /\ copy' = rows[t]
  BY DEF IInv, TypeOK, Take
<1>2. rows[t] \in Row /\ rows[t].st = "open"
  BY DEF IInv, TypeOK, Take, OpenIn
<1>3. TypeOK'
  <2>1. force' \in BOOLEAN /\ up
    BY DEF Take
  <2>2. t # NoTrade
    BY LedgerAssumption
  <2> QED BY <1>1, <1>2, <2>1, <2>2 DEF IInv, TypeOK, Take, control, store, pass, history
<1>4. BooksAgree'
  BY <1>1 DEF IInv, BooksAgree, Take, store, history
<1>5. FillsBookedOnce'
  BY <1>1, LedgerAssumption DEF IInv, TypeOK, FillsBookedOnce, Due, Take, store, history
<1>6. InHand'
  <2>1. rows[t].real = booked[t] + lost[t] /\ times[t] <= rows[t].bar
    <3>1. t # held
      BY <1>1, LedgerAssumption
    <3>2. booked[t] \in Int /\ lost[t] \in Int
      BY DEF IInv, TypeOK
    <3> QED BY <1>2, <3>1, <3>2 DEF IInv, FillsBookedOnce
  <2>2. ~force' => clock > rows[t].bar
    BY DEF Take, BarIsNew
  <2> QED BY <1>1, <1>2, <2>1, <2>2 DEF InHand, Take, store, history
<1>7. Untouched'
  BY DEF IInv, Untouched, Take, store, history
<1> QED BY <1>3, <1>4, <1>5, <1>6, <1>7 DEF IInv

\* What NextFill leaves due is the money of the two fills it was given.
LEMMA NextFillDue ==
  ASSUME IInv, pc # "idle", NEW p \in Int, NEW q \in Int, NextFill(p, q)
  PROVE  /\ now' \in Int /\ next' \in Int /\ tmp' \in Int /\ force' \in BOOLEAN
         /\ pc' \in {"idle", "get"} /\ copy' \in Row
         /\ \/ held' = held /\ pc' = "get" /\ now' + next' = p + q
            \/ held' = NoTrade /\ pc' = "idle" /\ p + q = 0
<1>1. CASE p = 0 /\ q = 0
  <2>1. NoRow \in Row
    BY LedgerAssumption DEF NoRow, Row, Modes
  <2>2. /\ now' = 0 /\ next' = 0 /\ tmp' = 0 /\ force' = FALSE /\ pc' = "idle"
        /\ copy' = NoRow /\ held' = NoTrade
    BY <1>1 DEF NextFill, ResetEngine
  <2>3. 0 \in Int /\ p + q = 0 /\ FALSE \in BOOLEAN /\ "idle" \in {"idle", "get"}
    BY <1>1
  <2> QED BY Zenon, <2>1, <2>2, <2>3
<1>2. CASE p # 0 \/ q # 0
  BY <1>2 DEF IInv, TypeOK, NextFill
<1> QED BY <1>1, <1>2

\* The facts of TypeOK that the two steps ending in NextFill leave to show.
LEMMA HandTyped ==
  ASSUME IInv, pc # "idle", NEW p \in Int, NEW q \in Int, NextFill(p, q),
         rows' \in [Trades -> Row], times' \in [Trades -> Nat], logged' \in Int,
         UNCHANGED <<control, clock, balance, pass, wallet, credit, booked, lost, cut, mirrored>>
  PROVE  TypeOK'
<1>1. /\ now' \in Int /\ next' \in Int /\ tmp' \in Int /\ force' \in BOOLEAN
      /\ pc' \in {"idle", "get"} /\ copy' \in Row
      /\ \/ held' = held /\ pc' = "get"
         \/ held' = NoTrade /\ pc' = "idle"
  BY NextFillDue
<1>2. up /\ held \in Trades /\ held # NoTrade
  BY LedgerAssumption DEF IInv, TypeOK
<1> QED BY <1>1, <1>2 DEF IInv, TypeOK, control, pass

LEMMA UpsertKeeps ==
  ASSUME IInv, Upsert
  PROVE  IInv'
<1>1. PICK p \in Pnls, q \in Pnls, st \in {"open", "closed"} :
        /\ rows' = [rows EXCEPT ![held] = Booked(copy, st, p + q)]
        /\ NextFill(p, q)
  BY DEF Upsert
<1>2. p \in Int /\ q \in Int /\ p + q \in Int
  BY LedgerAssumption
<1>3. /\ pc = "row" /\ held \in Trades /\ held # NoTrade /\ copy \in Row
      /\ rows \in [Trades -> Row] /\ times \in [Trades -> Nat] /\ force \in BOOLEAN
      /\ clock \in 0 .. MaxBar /\ booked \in [Trades -> Int] /\ lost \in [Trades -> Int]
  BY LedgerAssumption DEF IInv, TypeOK, Upsert
<1> DEFINE bar == IF force THEN copy.bar ELSE clock
<1>4. /\ Booked(copy, st, p + q) \in Row
      /\ Booked(copy, st, p + q).st = st
      /\ Booked(copy, st, p + q).real = copy.real + (p + q)
      /\ Booked(copy, st, p + q).bar = bar
  <2>3. Booked(copy, st, p + q) =
            [copy EXCEPT !.st = st, !.real = copy.real + (p + q), !.bar = bar]
    BY DEF Booked
  <2>2. copy.mode \in Modes /\ copy.real + (p + q) \in Int /\ bar \in 0 .. MaxBar
    BY <1>2, <1>3 DEF Row
  <2> HIDE DEF bar
  <2>1. Booked(copy, st, p + q) = [st |-> st, mode |-> copy.mode,
                                   real |-> copy.real + (p + q), bar |-> bar]
    BY <1>3, <2>3 DEF Row
  <2> QED BY <2>1, <2>2 DEF Row
<1>5. rows' \in [Trades -> Row] /\ rows'[held] = Booked(copy, st, p + q)
      /\ \A u \in Trades : u # held => rows'[u] = rows[u]
  BY <1>1, <1>3, <1>4
<1>6. times' \in [Trades -> Nat] /\ times'[held] = (IF force THEN times[held] ELSE times[held] + 1)
      /\ \A u \in Trades : u # held => times'[u] = times[u]
  BY <1>3 DEF Upsert
<1>7. pc' \in {"idle", "get"}
      /\ \/ held' = held /\ pc' = "get" /\ now' + next' = p + q
         \/ held' = NoTrade /\ pc' = "idle" /\ p + q = 0
  BY <1>1, <1>2, <1>3, NextFillDue
<1>8. UNCHANGED <<control, clock, balance, logged, pass, wallet, credit, booked, lost, cut, mirrored>>
  BY DEF Upsert
<1>9. TypeOK'
  <2>1. logged' \in Int
    BY <1>8 DEF IInv, TypeOK
  <2> QED BY <1>1, <1>2, <1>3, <1>5, <1>6, <1>8, <2>1, HandTyped
<1>10. BooksAgree'
  BY <1>3, <1>7, <1>8 DEF IInv, BooksAgree
<1>11. FillsBookedOnce'
  <2> SUFFICES ASSUME NEW u \in Trades
               PROVE  /\ rows'[u].st \in {"open", "closed"} =>
                          rows'[u].real = booked[u] + lost[u] + (IF u = held' THEN Due' ELSE 0)
                      /\ times'[u] <= rows'[u].bar
    BY <1>8 DEF FillsBookedOnce
  <2>1. CASE u = held
    <3>1. (IF u = held' THEN Due' ELSE 0) = p + q
      BY <1>7, <2>1, LedgerAssumption DEF Due
    <3>2. copy.real = booked[held] + lost[held] /\ times[held] <= copy.bar
          /\ (~force => clock > copy.bar)
      BY <1>3 DEF IInv, InHand
    <3>3. copy.real \in Int /\ copy.bar \in Int /\ clock \in Int /\ times[held] \in Int
          /\ booked[held] \in Int /\ lost[held] \in Int
      BY <1>3 DEF Row
    <3>4. rows'[u].real = copy.real + (p + q) /\ rows'[u].bar = bar
      BY <1>4, <1>5, <2>1
    <3>5. times'[u] <= bar
      BY <1>6, <2>1, <3>2, <3>3
    <3> QED BY <1>2, <2>1, <3>1, <3>2, <3>3, <3>4, <3>5
  <2>2. CASE u # held
    <3>1. u # held'
      BY <1>7, <2>2, LedgerAssumption
    <3> QED BY <1>5, <1>6, <2>2, <3>1 DEF IInv, FillsBookedOnce
  <2> QED BY <2>1, <2>2
<1>12. Untouched'
  BY <1>4, <1>5, <1>6, <1>8 DEF IInv, Untouched
<1>13. InHand'
  <2>1. held' # NoTrade => rows'[held'].st # "none"
    BY <1>4, <1>5, <1>7
  <2> QED BY <1>7, <2>1 DEF InHand
<1> QED BY <1>9, <1>10, <1>11, <1>12, <1>13 DEF IInv

LEMMA GetBalanceKeeps ==
  ASSUME IInv, GetBalance
  PROVE  IInv'
<1>1. balance \in Int /\ now \in Int /\ held # NoTrade
  BY DEF IInv, TypeOK, GetBalance
<1>2. TypeOK'
  BY <1>1 DEF IInv, TypeOK, GetBalance, control, store, pass, history
<1>3. BooksAgree'
  BY DEF IInv, BooksAgree, GetBalance, store, history
<1>4. FillsBookedOnce' /\ Untouched'
  BY DEF IInv, FillsBookedOnce, Untouched, Due, GetBalance, store, history
<1>5. InHand'
  BY DEF IInv, InHand, GetBalance, store, history
<1> QED BY <1>2, <1>3, <1>4, <1>5 DEF IInv

LEMMA SetBalanceKeeps ==
  ASSUME IInv, SetBalance
  PROVE  IInv'
<1>1. tmp \in Int /\ now \in Int /\ next \in Int /\ held \in Trades /\ up /\ balance \in Int
      /\ balance # NoBalance /\ credit \in Int /\ booked \in [Trades -> Int] /\ cut \in Int
      /\ logged \in Int
  BY DEF IInv, TypeOK, SetBalance
<1>2. booked' \in [Trades -> Int] /\ booked'[held] = booked[held] + now
      /\ \A u \in Trades : u # held => booked'[u] = booked[u]
  BY <1>1 DEF SetBalance
<1>3. TypeOK'
  <2>1. balance' \in Int /\ balance' # NoBalance /\ tmp' \in Int /\ credit' \in Int /\ pc' = "log"
    BY <1>1, LedgerAssumption DEF SetBalance
  <2> QED BY <1>1, <1>2, <2>1 DEF IInv, TypeOK, SetBalance, control, pass
<1>4. BooksAgree'
  <2>1. ~mirrored => balance = Initial + credit /\ tmp = balance + now
    BY <1>1 DEF IInv, BooksAgree, InHand, SetBalance
  <2>2. credit = logged + cut
    BY <1>1 DEF IInv, BooksAgree, SetBalance
  <2> QED BY <1>1, <2>1, <2>2, LedgerAssumption DEF BooksAgree, SetBalance
<1>5. FillsBookedOnce'
  <2>1. \A u \in Trades : lost[u] \in Int /\ booked[u] \in Int
    BY DEF IInv, TypeOK
  <2> QED BY <1>1, <1>2, <2>1 DEF IInv, FillsBookedOnce, Due, SetBalance
<1>6. Untouched'
  BY <1>1, <1>2 DEF IInv, InHand, Untouched, SetBalance, TypeOK
<1>7. InHand'
  BY DEF IInv, InHand, SetBalance
<1> QED BY <1>3, <1>4, <1>5, <1>6, <1>7 DEF IInv

LEMMA AppendLedgerKeeps ==
  ASSUME IInv, AppendLedger
  PROVE  IInv'
<1>1. /\ pc = "log" /\ held \in Trades /\ now \in Int /\ next \in Int /\ logged \in Int
      /\ NextFill(next, 0) /\ logged' = logged + now /\ credit \in Int /\ cut \in Int
  BY DEF IInv, TypeOK, AppendLedger
<1>2. UNCHANGED <<control, clock, rows, balance, pass, wallet, history>>
  BY DEF AppendLedger
<1>3. pc' \in {"idle", "get"}
      /\ \/ held' = held /\ pc' = "get" /\ now' + next' = next
         \/ held' = NoTrade /\ pc' = "idle" /\ next = 0
  <2>1. next + 0 = next /\ 0 \in Int
    BY <1>1
  <2> QED BY <1>1, <2>1, NextFillDue
<1>4. TypeOK'
  <2>1. /\ rows' \in [Trades -> Row] /\ times' \in [Trades -> Nat] /\ logged' \in Int
    BY <1>1, <1>2 DEF IInv, TypeOK, history
  <2>2. UNCHANGED <<control, clock, balance, pass, wallet, credit, booked, lost, cut, mirrored>>
    BY <1>2 DEF history
  <2>3. 0 \in Int /\ pc # "idle"
    BY <1>1
  <2> QED BY <1>1, <2>1, <2>2, <2>3, HandTyped
<1>5. BooksAgree'
  BY <1>1, <1>2, <1>3 DEF IInv, BooksAgree, history
<1>6. FillsBookedOnce'
  <2>1. Due = next
    BY <1>1 DEF Due
  <2>2. \A u \in Trades : (IF u = held' THEN Due' ELSE 0) = (IF u = held THEN next ELSE 0)
    BY <1>1, <1>3, LedgerAssumption DEF Due
  <2> QED BY <1>2, <2>1, <2>2 DEF IInv, FillsBookedOnce, history
<1>7. Untouched'
  BY <1>2 DEF IInv, Untouched, history
<1>8. InHand'
  BY <1>2, <1>3 DEF IInv, InHand, history
<1> QED BY <1>4, <1>5, <1>6, <1>7, <1>8 DEF IInv

--------------------------------------------------------------------------------
LEMMA StepInv ==
  ASSUME IInv, [Next]_vars
  PROVE  IInv'
<1>1. CASE Start
  BY <1>1, StartKeeps
<1>2. CASE Crash
  BY <1>2, CrashKeeps
<1>3. CASE ResetWipe \/ ResetSeed
  BY <1>3, ResetKeeps
<1>4. CASE \/ Switch \/ Trip \/ BarCloses \/ PassStart \/ PassFails \/ FetchBalance
           \/ Compare \/ PassGet \/ PassLog \/ WalletMoves
  BY <1>4, OutsideKeeps
<1>5. ASSUME NEW t \in Trades, RecordOpen(t) PROVE IInv'
  BY <1>5, RecordOpenKeeps
<1>6. ASSUME NEW t \in Trades, Take(t) PROVE IInv'
  BY <1>6, TakeKeeps
<1>7. ASSUME NEW t \in Trades, GhostClose(t) PROVE IInv'
  BY <1>7, GhostCloseKeeps
<1>8. CASE Upsert
  BY <1>8, UpsertKeeps
<1>9. CASE GetBalance
  BY <1>9, GetBalanceKeeps
<1>10. CASE SetBalance
  BY <1>10, SetBalanceKeeps
<1>11. CASE AppendLedger
  BY <1>11, AppendLedgerKeeps
<1>12. CASE PassSet
  BY <1>12, PassSetKeeps
<1>13. CASE UNCHANGED vars
  <2>1. UNCHANGED <<up, starts, mode, armed, clock, pp, seen, total, ptmp, wallet, rows>> /\ Still
    BY <1>13 DEF vars, control, store, engine, pass, history, Still
  <2>2. clock' \in Int /\ clock' >= clock
    BY <2>1, LedgerAssumption DEF IInv, TypeOK
  <2>3. TypeOK'
    BY <2>1 DEF IInv, TypeOK, Still
  <2> QED BY <2>1, <2>2, <2>3, StillKeeps DEF IInv
<1> QED BY <1>1, <1>2, <1>3, <1>4, <1>5, <1>6, <1>7, <1>8, <1>9, <1>10, <1>11, <1>12,
        <1>13 DEF Next, Engine, Sync

\* Every reachable state satisfies the strengthening.
THEOREM Invariant == Spec => []IInv
<1> QED BY InitInv, StepInv, PTL DEF Spec

\* Every variable keeps its type: the running engine always finds a balance, and only
\* a running process has a trade in hand or a pass under way.
THEOREM TypeCorrect == Spec => []TypeOK
<1>1. IInv => TypeOK
  BY DEF IInv
<1> QED BY <1>1, Invariant, PTL

\* The balance is the seed plus the fills credited until a wallet is mirrored, and the
\* ledger explains every credit but those a crash cut off.
THEOREM BooksAlwaysAgree == Spec => []BooksAgree
<1>1. IInv => BooksAgree
  BY DEF IInv
<1> QED BY <1>1, Invariant, PTL

\* No fill reaches the balance twice, and a bar is booked once, whatever restarts,
\* ghost closes and wallet syncs do in between.
THEOREM FillsAlwaysBookedOnce == Spec => []FillsBookedOnce
<1>1. IInv => FillsBookedOnce
  BY DEF IInv
<1> QED BY <1>1, Invariant, PTL

--------------------------------------------------------------------------------
(* The database file over its life (Database), for every file an older     *)
(* version may have left, every label, every initial balance, every result *)
(* and any number of starts, deaths and resets.                            *)

\* A trade is known by when it closed and what it made.
IsDeal(t) ==
    /\ t = [at |-> t.at, pnl |-> t.pnl, margin |-> t.margin, clip |-> t.clip]
    /\ t.at \in Nat /\ t.pnl \in Int
AreDeals(S) ==
    /\ IsFiniteSet(S) /\ \A t \in S : IsDeal(t)
    /\ \A t, u \in S : t.at = u.at /\ t.pnl = u.pnl => t = u
Shades == [at : Nat, bar : Int \cup {Absent}, label : EpochLabels \cup {0, Absent}]
Stamps == [label : EpochLabels, since : Nat]
IsDbFile(d) ==
    /\ d = [cols |-> d.cols, trades |-> d.trades, shadows |-> d.shadows,
            index |-> d.index, balance |-> d.balance, stamp |-> d.stamp]
    /\ AreDeals(d.trades) /\ d.shadows \in Seq(Shades) /\ d.index \in BOOLEAN
    /\ d.balance \in Int \cup {Absent} /\ d.stamp \in Stamps \cup {Absent}

\* A file as an older version left it: rows up to time 1, the trades of time 0
\* older than the columns, and perhaps a stamp; a column it knows is filled.
IsOldFile(f) ==
    /\ IsDbFile(f)
    /\ \A t \in f.trades : t.at > 0 =>
          t.margin = TRUE /\ t.clip = "none" /\ {"margin", "clip"} \subseteq f.cols
    /\ "margin" \in f.cols => \A t \in f.trades : t.margin = TRUE
    /\ "clip" \in f.cols => \A t \in f.trades : t.clip = "legacy" <=> t.at = 0
    /\ \A i \in DOMAIN f.shadows : f.shadows[i].at <= 1
    /\ f.stamp # Absent => f.stamp.since <= 1
    /\ "epoch" \in f.cols =>
         \A i \in DOMAIN f.shadows :
           \/ f.shadows[i].label = 0 /\ (f.stamp # Absent => f.shadows[i].at < f.stamp.since)
           \/ /\ f.stamp # Absent /\ f.shadows[i].label = f.stamp.label
              /\ f.shadows[i].at >= f.stamp.since

DatabaseConstants ==
    /\ Absent \notin Int /\ Absent \notin Stamps /\ Absent \notin D!Jobs
    /\ 0 \notin EpochLabels /\ StartMoney \in Int /\ DealPnls \subseteq Int
    /\ \A f \in Files : IsOldFile(f)

\* Where the process is, and what it has behind it.
Reached(n) == job # Absent /\ dbStep >= n
Place ==
    /\ \/ job = Absent /\ dbStep = Absent
       \/ job \in D!Jobs /\ dbStep \in D!First(job) .. D!Final(job)
    /\ time \in Nat /\ time >= (IF job = Absent THEN 1 ELSE 2) /\ dotenv \in EpochLabels
    /\ Reached(2) => "margin" \in dbfile.cols
    /\ Reached(4) => "clip" \in dbfile.cols
    /\ Reached(6) => "bar" \in dbfile.cols
    /\ Reached(8) => "epoch" \in dbfile.cols
    /\ job = "engine" /\ dbStep >= 11 => dbfile.balance # Absent
    /\ job = "engine" /\ dbStep >= 12 => dbfile.stamp # Absent
    /\ job = "reset" /\ dbStep = 11 => dbfile.balance = Absent
    /\ job = "reset" /\ dbStep >= 11 => dbfile.stamp = Absent

\* The balance is what it was last set to and what was made since.
Money ==
    /\ base \in Int
    /\ dbfile.balance = Absent => base = D!Pnl(dbfile.trades)
    /\ dbfile.balance # Absent => dbfile.balance = StartMoney + D!Pnl(dbfile.trades) - base

\* What a reset is about to clear is in its artifact, if both parts of the file were copied.
Saved ==
    /\ unsaved = {}
    /\ job = "reset" /\ dbStep \in 1 .. 10 /\ copied = D!Parts =>
         D!Outcomes(dbfile.trades) \subseteq copies

\* A trade of the engine is younger than the columns; before an old column is filled
\* there are old trades only.
Marked ==
    /\ \A t \in dbfile.trades :
         t.at > 0 => t.margin = TRUE /\ t.clip = "none" /\ {"margin", "clip"} \subseteq dbfile.cols
    /\ D!Migrating(4) => \A t \in dbfile.trades : t.at = 0 /\ t.clip = "none"
    /\ "margin" \in dbfile.cols \ torn /\ ~D!Migrating(2) => \A t \in dbfile.trades : t.margin = TRUE
    /\ "clip" \in dbfile.cols \ torn /\ ~D!Migrating(4) =>
         \A t \in dbfile.trades : t.clip = "legacy" <=> t.at = 0

\* Only the old rows can keep the index from being made.
Indexed ==
    LET shadows == dbfile.shadows
    IN  /\ "bar" \notin dbfile.cols => \A i \in DOMAIN shadows : shadows[i].at <= 1
        /\ D!DistinctIn(shadows, {k \in DOMAIN shadows : shadows[k].at <= 1}) => D!Unique(shadows)
        /\ Reached(10) /\ D!Unique(shadows) => dbfile.index

\* A row carries the label of the epoch it was tracked in. The stamp of a start comes
\* after all rows: a new row is tracked only when the engine runs.
Edge == time + (IF job = Absent \/ D!Running THEN 1 ELSE 0)
Labelling ==
    LET shadows == dbfile.shadows
        stamp   == dbfile.stamp
    IN  /\ \A i \in DOMAIN shadows : shadows[i].at < Edge
        /\ stamp # Absent => stamp.since <= time
        /\ "epoch" \in dbfile.cols =>
             \A i \in DOMAIN shadows :
                /\ \/ shadows[i].label \in labels \cup {0}
                   \/ stamp # Absent /\ shadows[i].label = stamp.label
                /\ stamp # Absent /\ stamp.label \notin labels /\ shadows[i].label = stamp.label
                     => shadows[i].at >= stamp.since
                /\ stamp # Absent /\ "epoch" \notin torn /\ ~D!Migrating(8) /\ shadows[i].at >= stamp.since
                     => shadows[i].label = stamp.label

DbInv == IsDbFile(dbfile) /\ Place /\ Money /\ Saved /\ Marked /\ Indexed /\ Labelling

LEMMA PnlIsTotal == \A S : D!Pnl(S) = Total([t \in S |-> t.pnl], S)
BY Zenon DEF D!Pnl, D!SumFunctionOnSet, D!FoldFunctionOnSet, D!MapThenFoldSet,
             Total, SumFunctionOnSet, FoldFunctionOnSet, MapThenFoldSet

LEMMA PnlIsInt == ASSUME NEW S, AreDeals(S) PROVE D!Pnl(S) \in Int
<1> DEFINE f == [t \in S |-> t.pnl]
<1>1. IsFiniteSet(S) /\ \A t \in S : f[t] \in Int
  BY DEF AreDeals, IsDeal
<1> HIDE DEF f
<1>2. Total(f, S) \in Int
  BY <1>1, TotalIsInt
<1> QED BY <1>2, PnlIsTotal DEF f

LEMMA PnlOfNone == D!Pnl({}) = 0 /\ AreDeals({})
BY PnlIsTotal, TotalEmpty, FS_EmptySet DEF AreDeals

\* A trade more.
LEMMA PnlOfMore ==
  ASSUME NEW S, AreDeals(S), NEW t, IsDeal(t), \A u \in S : ~(t.at = u.at /\ t.pnl = u.pnl)
  PROVE  AreDeals(S \cup {t}) /\ D!Pnl(S \cup {t}) = D!Pnl(S) + t.pnl
<1> DEFINE T == S \cup {t}
           f == [u \in S |-> u.pnl]
           g == [u \in T |-> u.pnl]
<1>1. t \notin S
  OBVIOUS
<1>2. IsFiniteSet(S) /\ \A u \in S \cup {t} : g[u] \in Int
  BY DEF AreDeals, IsDeal
<1>3. g[t] = t.pnl /\ \A u \in S : g[u] \in Int /\ g[u] = f[u]
  BY <1>2
<1> HIDE DEF g, f
<1>4. Total(g, S \cup {t}) = Total(g, S) + g[t]
  BY <1>1, <1>2, TotalAdd
<1>5. Total(g, S) = Total(f, S)
  BY <1>2, <1>3, TotalSame
<1>6. D!Pnl(S) = Total(f, S) /\ D!Pnl(T) = Total(g, T)
  BY PnlIsTotal DEF f, g
<1>7. D!Pnl(S \cup {t}) = D!Pnl(S) + t.pnl
  BY <1>3, <1>4, <1>5, <1>6
<1>8. AreDeals(S \cup {t})
  <2>1. IsFiniteSet(S \cup {t})
    BY <1>2, FS_AddElement
  <2>2. \A u \in S \cup {t} : IsDeal(u)
    BY DEF AreDeals
  <2>3. \A u, v \in S \cup {t} : u.at = v.at /\ u.pnl = v.pnl => u = v
    BY DEF AreDeals
  <2> QED BY <2>1, <2>2, <2>3 DEF AreDeals
<1> QED BY <1>7, <1>8

\* Trades of which a column changes are the same trades.
LEMMA PnlOfChanged ==
  ASSUME NEW S, AreDeals(S), NEW m,
         \A t \in S : IsDeal(m[t]) /\ m[t].at = t.at /\ m[t].pnl = t.pnl,
         NEW T, T = {m[t] : t \in S}
  PROVE  AreDeals(T) /\ D!Pnl(T) = D!Pnl(S) /\ D!Outcomes(T) = D!Outcomes(S)
<1> DEFINE f == [t \in S |-> t.pnl]
           g == [t \in T |-> t.pnl]
<1>1. IsFiniteSet(S) /\ \A t \in S : IsDeal(t)
  BY DEF AreDeals
<1>2. \A t, u \in S : m[t] = m[u] => t = u
  BY DEF AreDeals
<1>3. \A t \in S : f[t] \in Int /\ g[m[t]] = f[t]
  BY <1>1 DEF IsDeal
<1> HIDE DEF f, g
<1>4. Total(g, T) = Total(f, S)
  BY <1>1, <1>2, <1>3, TotalImage
<1>5. D!Pnl(T) = D!Pnl(S)
  BY <1>4, PnlIsTotal DEF f, g
<1>6. AreDeals(T)
  <2>1. IsFiniteSet(T)
    BY <1>1, ImageFinite
  <2>2. \A u \in T : IsDeal(u)
    OBVIOUS
  <2>3. \A u, v \in T : u.at = v.at /\ u.pnl = v.pnl => u = v
    BY DEF AreDeals
  <2> QED BY <2>1, <2>2, <2>3 DEF AreDeals
<1>7. D!Outcomes(T) = D!Outcomes(S)
  BY DEF D!Outcomes
<1> QED BY <1>5, <1>6, <1>7

LEMMA MigratesOn ==
  ASSUME DatabaseConstants, Place, NEW n \in 1 .. 9, D!Migrating(n)
  PROVE  /\ job \in D!Jobs /\ dbStep = n
         /\ D!Proceed => job' = job /\ dbStep' = n + 1
         /\ n < 9 /\ D!Goto(dbStep + 2) => job' = job /\ dbStep' = n + 2
<1>1. job \in D!Jobs /\ dbStep = n
  BY DEF Place, D!Migrating
<1>2. D!Final(job) >= 10
  BY <1>1 DEF D!Final
<1>3. D!Final(job) \in Int
  BY <1>1 DEF D!Final
<1> QED BY <1>1, <1>2, <1>3 DEF D!Proceed, D!Goto

LEMMA ColumnSteps ==
  /\ D!AddOf("margin") = 1 /\ D!AddOf("clip") = 3 /\ D!AddOf("bar") = 5 /\ D!AddOf("epoch") = 7
  /\ \A c \in D!Columns : D!AddOf(c) \in 1 .. 7
BY DEF D!AddOf, D!Columns

\* What a step of the migration leaves alone, and the trades it remakes.
SameMoney ==
    /\ IsDbFile(dbfile) /\ IsDbFile(dbfile)'
    /\ dbfile'.balance = dbfile.balance /\ dbfile'.stamp = dbfile.stamp
    /\ D!Pnl(dbfile'.trades) = D!Pnl(dbfile.trades)
    /\ D!Outcomes(dbfile'.trades) = D!Outcomes(dbfile.trades)
SameTrades == dbfile'.trades = dbfile.trades
SameRows == dbfile'.shadows = dbfile.shadows /\ dbfile'.index = dbfile.index

LEMMA FileIs ==
  ASSUME NEW d, NEW c, NEW t, NEW s, NEW i, NEW b, NEW e,
         d = [cols |-> c, trades |-> t, shadows |-> s, index |-> i, balance |-> b, stamp |-> e],
         AreDeals(t), s \in Seq(Shades), i \in BOOLEAN,
         b \in Int \cup {Absent}, e \in Stamps \cup {Absent}
  PROVE  /\ IsDbFile(d) /\ d.cols = c /\ d.trades = t /\ d.shadows = s /\ d.index = i
         /\ d.balance = b /\ d.stamp = e
<1>1. d.cols = c /\ d.trades = t /\ d.shadows = s /\ d.index = i /\ d.balance = b /\ d.stamp = e
  OBVIOUS
<1>2. d = [cols |-> d.cols, trades |-> d.trades, shadows |-> d.shadows,
           index |-> d.index, balance |-> d.balance, stamp |-> d.stamp]
  BY Zenon, <1>1
<1> QED BY Zenon, <1>1, <1>2 DEF IsDbFile

LEMMA DealsOfFile == IsDbFile(dbfile) => \A t \in dbfile.trades : IsDeal(t)
BY DEF IsDbFile, AreDeals

LEMMA DealChanged ==
  ASSUME NEW t, IsDeal(t), NEW x
  PROVE  /\ [t EXCEPT !.margin = x] = [at |-> t.at, pnl |-> t.pnl, margin |-> x, clip |-> t.clip]
         /\ [t EXCEPT !.clip = x] = [at |-> t.at, pnl |-> t.pnl, margin |-> t.margin, clip |-> x]
BY DEF IsDeal

\* Of the trades S, m is what the step makes of each, and T what it makes of them all.
IsMade(m, mg, cl, S) ==
    \A t \in S : m[t] = [at |-> t.at, pnl |-> t.pnl, margin |-> mg[t], clip |-> cl[t]]
IsImage(T, m, S) == T = {m[t] : t \in S}
OnlyTrades(c, T) ==
    dbfile' = [cols |-> c, trades |-> T, shadows |-> dbfile.shadows, index |-> dbfile.index,
               balance |-> dbfile.balance, stamp |-> dbfile.stamp]

LEMMA TradesRemade ==
  ASSUME IsDbFile(dbfile), NEW c, NEW m, NEW mg, NEW cl,
         IsMade(m, mg, cl, dbfile.trades), NEW T, IsImage(T, m, dbfile.trades), OnlyTrades(c, T)
  PROVE  /\ SameMoney /\ SameRows /\ dbfile'.cols = c
         /\ \A t \in dbfile'.trades : \E u \in dbfile.trades :
               t.at = u.at /\ t.margin = mg[u] /\ t.clip = cl[u]
<1> DEFINE S == dbfile.trades
<1>1. AreDeals(S) /\ \A t \in S : IsDeal(t)
  BY DEF IsDbFile, AreDeals
<1>2. ASSUME NEW t \in S
      PROVE IsDeal(m[t]) /\ m[t].at = t.at /\ m[t].pnl = t.pnl /\ m[t].margin = mg[t] /\ m[t].clip = cl[t]
  <2>1. IsDeal(t) /\ t.at \in Nat /\ t.pnl \in Int
    BY <1>1 DEF IsDeal
  <2>2. m[t] = [at |-> t.at, pnl |-> t.pnl, margin |-> mg[t], clip |-> cl[t]]
    BY DEF IsMade
  <2>3. m[t].at = t.at /\ m[t].pnl = t.pnl /\ m[t].margin = mg[t] /\ m[t].clip = cl[t]
    BY <2>2
  <2>4. m[t] = [at |-> m[t].at, pnl |-> m[t].pnl, margin |-> m[t].margin, clip |-> m[t].clip]
    BY Zenon, <2>2, <2>3
  <2> QED BY Zenon, <2>1, <2>3, <2>4 DEF IsDeal
<1>3. T = {m[t] : t \in S}
  BY DEF IsImage
<1>4. AreDeals(T) /\ D!Pnl(T) = D!Pnl(S) /\ D!Outcomes(T) = D!Outcomes(S)
  BY <1>1, <1>2, <1>3, PnlOfChanged
<1>5. /\ IsDbFile(dbfile') /\ dbfile'.cols = c /\ dbfile'.trades = T
      /\ dbfile'.shadows = dbfile.shadows /\ dbfile'.index = dbfile.index
      /\ dbfile'.balance = dbfile.balance /\ dbfile'.stamp = dbfile.stamp
  <2>1. /\ dbfile.shadows \in Seq(Shades) /\ dbfile.index \in BOOLEAN
        /\ dbfile.balance \in Int \cup {Absent} /\ dbfile.stamp \in Stamps \cup {Absent}
    BY DEF IsDbFile
  <2>2. AreDeals(T)
    BY <1>4
  <2> QED BY <2>1, <2>2, FileIs DEF OnlyTrades
<1>6. \A t \in T : \E u \in S : t.at = u.at /\ t.margin = mg[u] /\ t.clip = cl[u]
  BY <1>2, <1>3
<1> QED BY <1>4, <1>5, <1>6 DEF SameMoney, SameRows

LEMMA MarginAdded ==
  ASSUME IsDbFile(dbfile), dbfile' = [D!Added("margin", dbfile) EXCEPT !.cols = @ \cup {"margin"}]
  PROVE  /\ SameMoney /\ SameRows /\ dbfile'.cols = dbfile.cols \cup {"margin"}
         /\ \A t \in dbfile'.trades : \E u \in dbfile.trades : t.at = u.at /\ t.clip = u.clip
<1> DEFINE S == dbfile.trades
           m == [t \in S |-> [t EXCEPT !.margin = FALSE]]
           mg == [t \in S |-> FALSE]
           cl == [t \in S |-> t.clip]
<1>1. IsMade(m, mg, cl, S)
  BY DealsOfFile, DealChanged DEF IsMade
<1>2. PICK T : IsImage(T, m, S)
  BY DEF IsImage
<1>3. OnlyTrades(dbfile.cols \cup {"margin"}, T)
  BY <1>2 DEF OnlyTrades, IsDbFile, D!Added, IsImage
<1>4. /\ \A t \in S : mg[t] = FALSE
      /\ \A t \in S : cl[t] = t.clip
  OBVIOUS
<1> HIDE DEF m, mg, cl
<1>5. SameMoney /\ SameRows /\ dbfile'.cols = dbfile.cols \cup {"margin"}
  BY <1>1, <1>2, <1>3, TradesRemade
<1>6. \A t \in dbfile'.trades : \E u \in S : t.at = u.at /\ t.margin = mg[u] /\ t.clip = cl[u]
  BY <1>1, <1>2, <1>3, TradesRemade
<1> QED BY <1>4, <1>5, <1>6

LEMMA MarginFilled ==
  ASSUME IsDbFile(dbfile), dbfile' = D!Filled("margin", dbfile)
  PROVE  /\ SameMoney /\ SameRows /\ dbfile'.cols = dbfile.cols
         /\ \A t \in dbfile'.trades : 
              t.margin = TRUE /\ \E u \in dbfile.trades : t.at = u.at /\ t.clip = u.clip
<1> DEFINE S == dbfile.trades
           m == [t \in S |-> [t EXCEPT !.margin = TRUE]]
           mg == [t \in S |-> TRUE]
           cl == [t \in S |-> t.clip]
<1>1. IsMade(m, mg, cl, S)
  BY DealsOfFile, DealChanged DEF IsMade
<1>2. PICK T : IsImage(T, m, S)
  BY DEF IsImage
<1>3. OnlyTrades(dbfile.cols, T)
  BY <1>2 DEF OnlyTrades, IsDbFile, D!Filled, IsImage
<1>4. /\ \A t \in S : mg[t] = TRUE
      /\ \A t \in S : cl[t] = t.clip
  OBVIOUS
<1> HIDE DEF m, mg, cl
<1>5. SameMoney /\ SameRows /\ dbfile'.cols = dbfile.cols
  BY <1>1, <1>2, <1>3, TradesRemade
<1>6. \A t \in dbfile'.trades : \E u \in S : t.at = u.at /\ t.margin = mg[u] /\ t.clip = cl[u]
  BY <1>1, <1>2, <1>3, TradesRemade
<1> QED BY <1>4, <1>5, <1>6

LEMMA ClipAdded ==
  ASSUME IsDbFile(dbfile), dbfile' = [D!Added("clip", dbfile) EXCEPT !.cols = @ \cup {"clip"}]
  PROVE  /\ SameMoney /\ SameRows /\ dbfile'.cols = dbfile.cols \cup {"clip"}
         /\ \A t \in dbfile'.trades :
               t.clip = "none" /\ \E u \in dbfile.trades : t.at = u.at /\ t.margin = u.margin
<1> DEFINE S == dbfile.trades
           m == [t \in S |-> [t EXCEPT !.clip = "none"]]
           mg == [t \in S |-> t.margin]
           cl == [t \in S |-> "none"]
<1>1. IsMade(m, mg, cl, S)
  BY DealsOfFile, DealChanged DEF IsMade
<1>2. PICK T : IsImage(T, m, S)
  BY DEF IsImage
<1>3. OnlyTrades(dbfile.cols \cup {"clip"}, T)
  BY <1>2 DEF OnlyTrades, IsDbFile, D!Added, IsImage
<1>4. /\ \A t \in S : mg[t] = t.margin
      /\ \A t \in S : cl[t] = "none"
  OBVIOUS
<1> HIDE DEF m, mg, cl
<1>5. SameMoney /\ SameRows /\ dbfile'.cols = dbfile.cols \cup {"clip"}
  BY <1>1, <1>2, <1>3, TradesRemade
<1>6. \A t \in dbfile'.trades : \E u \in S : t.at = u.at /\ t.margin = mg[u] /\ t.clip = cl[u]
  BY <1>1, <1>2, <1>3, TradesRemade
<1> QED BY <1>4, <1>5, <1>6

LEMMA ClipFilled ==
  ASSUME IsDbFile(dbfile), dbfile' = D!Filled("clip", dbfile)
  PROVE  /\ SameMoney /\ SameRows /\ dbfile'.cols = dbfile.cols
         /\ \A t \in dbfile'.trades : \E u \in dbfile.trades :
               /\ t.at = u.at /\ t.margin = u.margin
               /\ t.clip = IF u.clip = "none" THEN "legacy" ELSE u.clip
<1> DEFINE S == dbfile.trades
           m == [t \in S |-> [t EXCEPT !.clip = IF t.clip = "none" THEN "legacy" ELSE t.clip]]
           mg == [t \in S |-> t.margin]
           cl == [t \in S |-> IF t.clip = "none" THEN "legacy" ELSE t.clip]
<1>1. IsMade(m, mg, cl, S)
  BY DealsOfFile, DealChanged DEF IsMade
<1>2. PICK T : IsImage(T, m, S)
  BY DEF IsImage
<1>3. OnlyTrades(dbfile.cols, T)
  BY <1>2 DEF OnlyTrades, IsDbFile, D!Filled, IsImage
<1>4. /\ \A t \in S : mg[t] = t.margin
      /\ \A t \in S : cl[t] = IF t.clip = "none" THEN "legacy" ELSE t.clip
  OBVIOUS
<1> HIDE DEF m, mg, cl
<1>5. SameMoney /\ SameRows /\ dbfile'.cols = dbfile.cols
  BY <1>1, <1>2, <1>3, TradesRemade
<1>6. \A t \in dbfile'.trades : \E u \in S : t.at = u.at /\ t.margin = mg[u] /\ t.clip = cl[u]
  BY <1>1, <1>2, <1>3, TradesRemade
<1> QED BY <1>4, <1>5, <1>6

\* The shadow rows before and after a step, row by row.
LEMMA RowsRemade ==
  ASSUME IsDbFile(dbfile), NEW c, NEW q \in Seq(Shades),
         dbfile' = [cols |-> c, trades |-> dbfile.trades, shadows |-> q, index |-> dbfile.index,
                    balance |-> dbfile.balance, stamp |-> dbfile.stamp]
  PROVE  /\ SameMoney /\ SameTrades /\ dbfile'.cols = c /\ dbfile'.shadows = q
         /\ dbfile'.index = dbfile.index
<1>1. /\ AreDeals(dbfile.trades) /\ dbfile.index \in BOOLEAN
      /\ dbfile.balance \in Int \cup {Absent} /\ dbfile.stamp \in Stamps \cup {Absent}
  BY DEF IsDbFile
<1>2. /\ IsDbFile(dbfile') /\ dbfile'.cols = c /\ dbfile'.trades = dbfile.trades
      /\ dbfile'.shadows = q /\ dbfile'.index = dbfile.index
      /\ dbfile'.balance = dbfile.balance /\ dbfile'.stamp = dbfile.stamp
  BY <1>1, FileIs
<1> QED BY <1>2 DEF SameMoney, SameTrades

LEMMA BarAdded ==
  ASSUME IsDbFile(dbfile), dbfile' = [D!Added("bar", dbfile) EXCEPT !.cols = @ \cup {"bar"}]
  PROVE  /\ SameMoney /\ SameTrades /\ dbfile'.cols = dbfile.cols \cup {"bar"}
         /\ dbfile'.index = dbfile.index /\ DOMAIN dbfile'.shadows = DOMAIN dbfile.shadows
         /\ \A i \in DOMAIN dbfile.shadows :
               /\ dbfile'.shadows[i].at = dbfile.shadows[i].at
               /\ dbfile'.shadows[i].label = dbfile.shadows[i].label
<1> DEFINE q == [i \in DOMAIN dbfile.shadows |-> [dbfile.shadows[i] EXCEPT !.bar = 0]]
<1>1. dbfile.shadows \in Seq(Shades)
  BY DEF IsDbFile
<1>2. /\ q \in Seq(Shades) /\ DOMAIN q = DOMAIN dbfile.shadows
      /\ \A i \in DOMAIN dbfile.shadows :
            q[i].at = dbfile.shadows[i].at /\ q[i].label = dbfile.shadows[i].label
  <2>1. Len(dbfile.shadows) \in Nat /\ DOMAIN dbfile.shadows = 1 .. Len(dbfile.shadows)
    BY <1>1
  <2>2. ASSUME NEW i \in DOMAIN dbfile.shadows
        PROVE  q[i] \in Shades /\ q[i].at = dbfile.shadows[i].at /\ q[i].label = dbfile.shadows[i].label
    <3>1. dbfile.shadows[i] \in Shades
      BY <1>1
    <3> QED BY <3>1 DEF Shades
  <2>3. q \in [1 .. Len(dbfile.shadows) -> Shades]
    BY <2>1, <2>2
  <2> QED BY <2>1, <2>2, <2>3, SeqDef
<1>3. dbfile' = [cols |-> dbfile.cols \cup {"bar"}, trades |-> dbfile.trades, shadows |-> q,
                 index |-> dbfile.index, balance |-> dbfile.balance, stamp |-> dbfile.stamp]
  BY DEF IsDbFile, D!Added
<1> HIDE DEF q
<1>4. /\ SameMoney /\ SameTrades /\ dbfile'.cols = dbfile.cols \cup {"bar"}
      /\ dbfile'.shadows = q /\ dbfile'.index = dbfile.index
  BY <1>2, <1>3, RowsRemade
<1> QED BY <1>2, <1>4

LEMMA EpochAdded ==
  ASSUME IsDbFile(dbfile), dbfile' = [D!Added("epoch", dbfile) EXCEPT !.cols = @ \cup {"epoch"}]
  PROVE  /\ SameMoney /\ SameTrades /\ dbfile'.cols = dbfile.cols \cup {"epoch"}
         /\ dbfile'.index = dbfile.index /\ DOMAIN dbfile'.shadows = DOMAIN dbfile.shadows
         /\ \A i \in DOMAIN dbfile.shadows :
               /\ dbfile'.shadows[i].at = dbfile.shadows[i].at
               /\ dbfile'.shadows[i].bar = dbfile.shadows[i].bar
               /\ dbfile'.shadows[i].label = 0
<1> DEFINE q == [i \in DOMAIN dbfile.shadows |-> [dbfile.shadows[i] EXCEPT !.label = 0]]
<1>1. dbfile.shadows \in Seq(Shades)
  BY DEF IsDbFile
<1>2. /\ q \in Seq(Shades) /\ DOMAIN q = DOMAIN dbfile.shadows
      /\ \A i \in DOMAIN dbfile.shadows :
            /\ q[i].at = dbfile.shadows[i].at /\ q[i].bar = dbfile.shadows[i].bar
            /\ q[i].label = 0
  <2>1. Len(dbfile.shadows) \in Nat /\ DOMAIN dbfile.shadows = 1 .. Len(dbfile.shadows)
    BY <1>1
  <2>2. ASSUME NEW i \in DOMAIN dbfile.shadows
        PROVE  /\ q[i] \in Shades /\ q[i].at = dbfile.shadows[i].at
               /\ q[i].bar = dbfile.shadows[i].bar /\ q[i].label = 0
    <3>1. dbfile.shadows[i] \in Shades
      BY <1>1
    <3> QED BY <3>1 DEF Shades
  <2>3. q \in [1 .. Len(dbfile.shadows) -> Shades]
    BY <2>1, <2>2
  <2> QED BY <2>1, <2>2, <2>3, SeqDef
<1>3. dbfile' = [cols |-> dbfile.cols \cup {"epoch"}, trades |-> dbfile.trades, shadows |-> q,
                 index |-> dbfile.index, balance |-> dbfile.balance, stamp |-> dbfile.stamp]
  BY DEF IsDbFile, D!Added, D!Legacy
<1> HIDE DEF q
<1>4. /\ SameMoney /\ SameTrades /\ dbfile'.cols = dbfile.cols \cup {"epoch"}
      /\ dbfile'.shadows = q /\ dbfile'.index = dbfile.index
  BY <1>2, <1>3, RowsRemade
<1> QED BY <1>2, <1>4

LEMMA EpochFilled ==
  ASSUME IsDbFile(dbfile), dbfile' = D!Filled("epoch", dbfile), dbfile.stamp # Absent
  PROVE  /\ SameMoney /\ SameTrades /\ dbfile'.cols = dbfile.cols
         /\ dbfile'.index = dbfile.index /\ DOMAIN dbfile'.shadows = DOMAIN dbfile.shadows
         /\ \A i \in DOMAIN dbfile.shadows :
               /\ dbfile'.shadows[i].at = dbfile.shadows[i].at
               /\ dbfile'.shadows[i].bar = dbfile.shadows[i].bar
               /\ dbfile'.shadows[i].label =
                    IF dbfile.shadows[i].at >= dbfile.stamp.since THEN dbfile.stamp.label
                    ELSE dbfile.shadows[i].label
<1> DEFINE q == D!Labelled(dbfile)
<1>1. dbfile.shadows \in Seq(Shades) /\ dbfile.stamp \in Stamps
  BY DEF IsDbFile
<1>2. /\ q \in Seq(Shades) /\ DOMAIN q = DOMAIN dbfile.shadows
      /\ \A i \in DOMAIN dbfile.shadows :
            /\ q[i].at = dbfile.shadows[i].at /\ q[i].bar = dbfile.shadows[i].bar
            /\ q[i].label = IF dbfile.shadows[i].at >= dbfile.stamp.since THEN dbfile.stamp.label
                            ELSE dbfile.shadows[i].label
  <2>1. Len(dbfile.shadows) \in Nat /\ DOMAIN dbfile.shadows = 1 .. Len(dbfile.shadows)
    BY <1>1
  <2>2. ASSUME NEW i \in DOMAIN dbfile.shadows
        PROVE  /\ q[i] \in Shades /\ q[i].at = dbfile.shadows[i].at
               /\ q[i].bar = dbfile.shadows[i].bar
               /\ q[i].label = IF dbfile.shadows[i].at >= dbfile.stamp.since
                               THEN dbfile.stamp.label ELSE dbfile.shadows[i].label
    <3>1. dbfile.shadows[i] \in Shades /\ dbfile.stamp.label \in EpochLabels
      BY <1>1 DEF Stamps
    <3>2. q[i] = IF dbfile.shadows[i].at >= dbfile.stamp.since
                 THEN [dbfile.shadows[i] EXCEPT !.label = dbfile.stamp.label] ELSE dbfile.shadows[i]
      BY DEF D!Labelled
    <3> HIDE DEF q
    <3> QED BY <3>1, <3>2 DEF Shades
  <2>3. DOMAIN q = DOMAIN dbfile.shadows /\ q \in [1 .. Len(dbfile.shadows) -> Shades]
    BY <2>1, <2>2 DEF D!Labelled
  <2> HIDE DEF q
  <2> QED BY <2>1, <2>2, <2>3, SeqDef
<1>3. dbfile' = [cols |-> dbfile.cols, trades |-> dbfile.trades, shadows |-> q,
                 index |-> dbfile.index, balance |-> dbfile.balance, stamp |-> dbfile.stamp]
  BY DEF IsDbFile, D!Filled
<1> HIDE DEF q
<1>4. /\ SameMoney /\ SameTrades /\ dbfile'.cols = dbfile.cols
      /\ dbfile'.shadows = q /\ dbfile'.index = dbfile.index
  BY <1>2, <1>3, RowsRemade
<1> QED BY <1>2, <1>4

--------------------------------------------------------------------------------
(* A step of the migration.                                                *)

\* The steps a migration takes do not concern the place of the money.
LEMMA MigratesPlace ==
  ASSUME DatabaseConstants, Place, SameMoney, NEW n \in 1 .. 9, D!Migrating(n),
         job' = job, dbStep' \in n + 1 .. n + 2, time' = time, dotenv' = dotenv, dbStep' <= 10,
         dbfile.cols \subseteq dbfile'.cols,
         dbStep' >= 2 => "margin" \in dbfile'.cols, dbStep' >= 4 => "clip" \in dbfile'.cols,
         dbStep' >= 6 => "bar" \in dbfile'.cols, dbStep' >= 8 => "epoch" \in dbfile'.cols
  PROVE  Place'
<1>1. job \in D!Jobs /\ job # Absent /\ dbStep = n
  BY MigratesOn DEF DatabaseConstants
<1>2. D!First(job) <= dbStep' /\ dbStep' <= D!Final(job) /\ D!First(job) \in Int /\ D!Final(job) \in Int
  BY <1>1 DEF D!First, D!Final, D!Jobs
<1>3. dbStep' \in Int /\ dbStep' <= 10
  OBVIOUS
<1> QED BY <1>1, <1>2, <1>3 DEF Place, Reached

LEMMA MigratesMoney ==
  ASSUME DatabaseConstants, Place, SameMoney, Money, Saved, NEW n \in 1 .. 9, D!Migrating(n),
         job' = job, UNCHANGED <<base, unsaved, copied, copies>>
  PROVE  Money' /\ Saved'
<1>1. job \in D!Jobs /\ job # Absent /\ dbStep = n /\ n \in 1 .. 10
  BY MigratesOn DEF DatabaseConstants
<1>2. Money'
  BY DEF Money, SameMoney
<1>3. Saved'
  BY <1>1 DEF Saved, SameMoney
<1> QED BY <1>2, <1>3

--------------------------------------------------------------------------------
(* What stays as it is.                                                    *)

LEMMA MarkedStays ==
  ASSUME Marked, SameTrades, \A c \in {"margin", "clip"} : c \in dbfile'.cols <=> c \in dbfile.cols,
         \A c \in {"margin", "clip"} : c \in torn => c \in torn',
         ~D!Migrating(2), ~D!Migrating(4), ~D!Migrating(2)', ~D!Migrating(4)'
  PROVE  Marked'
BY DEF Marked, SameTrades

\* Rows of which the step changes at most the label, or at most the bar.
SameBars ==
    /\ DOMAIN dbfile'.shadows = DOMAIN dbfile.shadows
    /\ \A i \in DOMAIN dbfile.shadows :
          /\ dbfile'.shadows[i].at = dbfile.shadows[i].at
          /\ dbfile'.shadows[i].bar = dbfile.shadows[i].bar
SameLabels ==
    /\ DOMAIN dbfile'.shadows = DOMAIN dbfile.shadows
    /\ \A i \in DOMAIN dbfile.shadows :
          /\ dbfile'.shadows[i].at = dbfile.shadows[i].at
          /\ dbfile'.shadows[i].label = dbfile.shadows[i].label

LEMMA SameRowsAre == dbfile'.shadows = dbfile.shadows => SameBars /\ SameLabels
BY DEF SameBars, SameLabels

LEMMA IndexedStays ==
  ASSUME Indexed, SameBars, dbfile'.index = dbfile.index,
         "bar" \in dbfile.cols => "bar" \in dbfile'.cols, Reached(10)' => Reached(10)
  PROVE  Indexed'
<1> DEFINE p == dbfile.shadows
           q == dbfile'.shadows
           Old(r) == {k \in DOMAIN r : r[k].at <= 1}
<1>1. /\ DOMAIN q = DOMAIN p
      /\ \A i \in DOMAIN p : q[i].at = p[i].at /\ q[i].bar = p[i].bar
  BY DEF SameBars
<1>2. D!Unique(p) <=> D!Unique(q)
  BY <1>1 DEF D!Unique, D!DistinctIn
<1>3. Old(q) = Old(p)
  BY <1>1
<1>4. D!DistinctIn(p, Old(p)) <=> D!DistinctIn(q, Old(q))
  BY <1>1, <1>3 DEF D!DistinctIn
<1>5. ("bar" \notin dbfile.cols => \A i \in DOMAIN p : p[i].at <= 1)
      /\ (D!DistinctIn(p, Old(p)) => D!Unique(p)) /\ (Reached(10) /\ D!Unique(p) => dbfile.index)
  BY DEF Indexed
<1>6. "bar" \notin dbfile'.cols => \A i \in DOMAIN q : q[i].at <= 1
  BY <1>1, <1>5
<1>7. D!DistinctIn(q, Old(q)) => D!Unique(q)
  BY Zenon, <1>2, <1>4, <1>5
<1>8. Reached(10)' /\ D!Unique(q) => dbfile'.index
  BY Zenon, <1>2, <1>5
<1> QED BY Zenon, <1>6, <1>7, <1>8 DEF Indexed

LEMMA RowsOfFile ==
  ASSUME IsDbFile(dbfile), NEW i \in DOMAIN dbfile.shadows
  PROVE  dbfile.shadows[i] \in Shades /\ dbfile.shadows[i].at \in Nat
<1>1. dbfile.shadows \in Seq(Shades)
  BY DEF IsDbFile
<1>2. dbfile.shadows[i] \in Shades
  BY <1>1
<1> QED BY <1>2 DEF Shades

LEMMA LabellingStays ==
  ASSUME IsDbFile(dbfile), Labelling, SameLabels, dbfile'.stamp = dbfile.stamp,
         "epoch" \in dbfile'.cols <=> "epoch" \in dbfile.cols, labels' = labels,
         "epoch" \in torn => "epoch" \in torn',
         ~D!Migrating(8) \/ "epoch" \in torn', ~D!Migrating(8)', time \in Nat, time' \in Nat,
         time <= time', Edge \in Int, Edge' \in Int, Edge <= Edge'
  PROVE  Labelling'
<1>1. \A i \in DOMAIN dbfile.shadows : dbfile.shadows[i].at \in Nat
  BY RowsOfFile
<1>2. \A i \in DOMAIN dbfile.shadows : dbfile.shadows[i].at < Edge'
  BY <1>1 DEF Labelling
<1>3. dbfile.stamp # Absent => dbfile.stamp.since <= time'
  BY DEF Labelling, IsDbFile, Stamps
<1>4. /\ DOMAIN dbfile'.shadows = DOMAIN dbfile.shadows
      /\ \A i \in DOMAIN dbfile.shadows :
            /\ dbfile'.shadows[i].at = dbfile.shadows[i].at
            /\ dbfile'.shadows[i].label = dbfile.shadows[i].label
  BY DEF SameLabels
<1> QED BY <1>2, <1>3, <1>4 DEF Labelling

\* How far rows may reach stays the same within a migration.
LEMMA EdgeStays ==
  ASSUME DatabaseConstants, Place, job' = job, dbStep' = dbStep \/ dbStep' < 12, ~D!Running, time' = time
  PROVE  Edge' = Edge /\ Edge \in Int /\ time \in Nat
BY DEF Edge, Place, D!Running, D!Doing

--------------------------------------------------------------------------------
(* Migration.                                                              *)

\* A column that is there already is passed over.
LEMMA ColumnKnown ==
  ASSUME DatabaseConstants, DbInv, NEW c \in D!Columns, D!Migrating(D!AddOf(c)), c \in dbfile.cols,
         dbfile' = dbfile, D!Goto(dbStep + 2),
         UNCHANGED <<dotenv, copies, copied, time, torn, labels, unsaved, base>>
  PROVE  DbInv'
<1> DEFINE n == D!AddOf(c)
<1>1. n \in {1, 3, 5, 7}
  BY DEF D!AddOf, D!Columns
<1>2. job \in D!Jobs /\ job # Absent /\ dbStep = n /\ job' = job /\ dbStep' = n + 2 /\ dbStep' <= 10
  BY <1>1, MigratesOn DEF DbInv, DatabaseConstants
<1>3. SameMoney /\ SameTrades /\ SameRows
  BY DEF DbInv, SameMoney, SameTrades, SameRows
<1>4. Place'
  <2>1. /\ n = 1 => c = "margin"
        /\ n = 3 => c = "clip"
        /\ n = 5 => c = "bar"
        /\ n = 7 => c = "epoch"
    BY DEF D!AddOf, D!Columns
  <2> HIDE DEF n
  <2>2. /\ dbStep' >= 2 => "margin" \in dbfile'.cols
        /\ dbStep' >= 4 => "clip" \in dbfile'.cols
        /\ dbStep' >= 6 => "bar" \in dbfile'.cols
        /\ dbStep' >= 8 => "epoch" \in dbfile'.cols
    BY <1>1, <1>2, <2>1 DEF DbInv, Place, Reached
  <2>3. dbStep' \in n + 1 .. n + 2 /\ n \in 1 .. 9 /\ D!Migrating(n)
    BY <1>1, <1>2 DEF D!Migrating
  <2> QED BY <1>2, <1>3, <2>2, <2>3, MigratesPlace DEF DbInv
<1> HIDE DEF n
<1>5. Money' /\ Saved'
  BY <1>1, <1>2, <1>3, MigratesMoney DEF DbInv, D!Migrating
<1>6. ~D!Migrating(2) /\ ~D!Migrating(4) /\ ~D!Migrating(2)' /\ ~D!Migrating(4)'
      /\ ~D!Migrating(8) /\ ~D!Migrating(8)' /\ (Reached(10)' => Reached(10)) /\ ~D!Running
  BY <1>1, <1>2 DEF D!Migrating, Reached, D!Running, D!Doing
<1>7. Marked' /\ Indexed'
  BY <1>3, <1>6, MarkedStays, IndexedStays, SameRowsAre DEF DbInv
<1>8. Labelling'
  <2>1. Edge' = Edge /\ Edge \in Int /\ time \in Nat
    BY <1>1, <1>2, <1>6, EdgeStays DEF DbInv
  <2> QED BY <1>6, <2>1, LabellingStays, SameRowsAre DEF DbInv
<1> QED BY <1>3, <1>4, <1>5, <1>7, <1>8 DEF DbInv, SameMoney

LEMMA MarginStep ==
  ASSUME DatabaseConstants, DbInv,
         UNCHANGED <<dotenv, copies, copied, time, torn, labels, unsaved, base>>, D!Proceed,
         \/ /\ D!Migrating(1) /\ "margin" \notin dbfile.cols
            /\ dbfile' = [D!Added("margin", dbfile) EXCEPT !.cols = @ \cup {"margin"}]
         \/ D!Migrating(2) /\ dbfile' = D!Filled("margin", dbfile)
  PROVE  DbInv'
<1>1. PICK n \in 1 .. 2 : /\ D!Migrating(n)
                          /\ n = 1 => "margin" \notin dbfile.cols
                          /\ n = 1 => dbfile' = [D!Added("margin", dbfile) EXCEPT !.cols = @ \cup {"margin"}]
                          /\ n = 2 => dbfile' = D!Filled("margin", dbfile)
  OBVIOUS
<1>2. job \in D!Jobs /\ job # Absent /\ dbStep = n /\ job' = job /\ dbStep' = n + 1
  BY <1>1, MigratesOn DEF DbInv, DatabaseConstants
<1>3. /\ SameMoney /\ SameRows /\ dbfile'.cols = dbfile.cols \cup {"margin"}
      /\ \A t \in dbfile'.trades : \E u \in dbfile.trades : t.at = u.at /\ t.clip = u.clip
      /\ n = 2 => \A t \in dbfile'.trades : t.margin = TRUE
  <2>1. CASE n = 1
    BY <1>1, <2>1, MarginAdded DEF DbInv
  <2>2. CASE n = 2
    <3>1. "margin" \in dbfile.cols
      BY <1>2, <2>2 DEF DbInv, Place, Reached
    <3> QED BY <1>1, <2>2, <3>1, MarginFilled DEF DbInv
  <2>3. n = 1 \/ n = 2
    OBVIOUS
  <2> QED BY Zenon, <2>1, <2>2, <2>3
<1>4. Place'
  <2>1. /\ dbStep' >= 2 => "margin" \in dbfile'.cols
        /\ dbStep' \in n + 1 .. n + 2 /\ dbStep' < 4 /\ n \in 1 .. 9
    BY <1>1, <1>2, <1>3
  <2> QED BY <1>1, <1>2, <1>3, <2>1, MigratesPlace DEF DbInv
<1>5. Money' /\ Saved'
  BY <1>1, <1>2, <1>3, MigratesMoney DEF DbInv
<1>6. (Reached(10)' => Reached(10)) /\ ~D!Migrating(8) /\ ~D!Migrating(8)' /\ ~D!Running
      /\ ~D!Migrating(4) /\ ~D!Migrating(4)' /\ (D!Migrating(2)' <=> n = 1)
  BY <1>1, <1>2 DEF D!Migrating, Reached, D!Running, D!Doing
<1>7. Indexed'
  BY <1>3, <1>6, IndexedStays, SameRowsAre DEF DbInv, SameRows
<1>8. Labelling'
  <2>1. Edge' = Edge /\ Edge \in Int /\ time \in Nat
    BY <1>1, <1>2, <1>6, EdgeStays DEF DbInv
  <2> QED BY <1>3, <1>6, <2>1, LabellingStays, SameRowsAre DEF DbInv, SameRows, SameMoney
<1>9. Marked'
  <2>1. ASSUME NEW t \in dbfile'.trades
        PROVE  /\ t.at > 0 => t.margin = TRUE /\ t.clip = "none" /\ {"margin", "clip"} \subseteq dbfile'.cols
               /\ n = 2 => t.margin = TRUE
               /\ "clip" \in dbfile.cols \ torn => (t.clip = "legacy" <=> t.at = 0)
    <3>1. PICK u \in dbfile.trades : t.at = u.at /\ t.clip = u.clip
      BY <1>3
    <3>2. u.at > 0 => u.clip = "none" /\ {"margin", "clip"} \subseteq dbfile.cols
      BY DEF DbInv, Marked
    <3>3. "clip" \in dbfile.cols \ torn => (u.clip = "legacy" <=> u.at = 0)
      BY <1>6 DEF DbInv, Marked
    <3> QED BY <1>1, <1>3, <3>1, <3>2, <3>3
  <2>2. /\ "clip" \in dbfile'.cols \ torn' => "clip" \in dbfile.cols \ torn
        /\ ~D!Migrating(2)' => n = 2
    BY <1>1, <1>3, <1>6
  <2> QED BY Zenon, <1>6, <2>1, <2>2 DEF Marked
<1> QED BY <1>3, <1>4, <1>5, <1>7, <1>8, <1>9 DEF DbInv, SameMoney

LEMMA ClipStep ==
  ASSUME DatabaseConstants, DbInv,
         UNCHANGED <<dotenv, copies, copied, time, torn, labels, unsaved, base>>, D!Proceed,
         \/ /\ D!Migrating(3) /\ "clip" \notin dbfile.cols
            /\ dbfile' = [D!Added("clip", dbfile) EXCEPT !.cols = @ \cup {"clip"}]
         \/ D!Migrating(4) /\ dbfile' = D!Filled("clip", dbfile)
  PROVE  DbInv'
<1>1. PICK n \in 3 .. 4 :
         /\ D!Migrating(n)
         /\ n = 3 => "clip" \notin dbfile.cols
         /\ n = 3 => dbfile' = [D!Added("clip", dbfile) EXCEPT !.cols = @ \cup {"clip"}]
         /\ n = 4 => dbfile' = D!Filled("clip", dbfile)
  OBVIOUS
<1>2. job \in D!Jobs /\ job # Absent /\ dbStep = n /\ job' = job /\ dbStep' = n + 1
  BY <1>1, MigratesOn DEF DbInv, DatabaseConstants
<1>3. \A t \in dbfile.trades : t.at = 0 /\ (n = 4 => t.clip = "none")
  <2>1. CASE n = 3
    <3>1. \A t \in dbfile.trades : t.at \in Nat /\ ~ t.at > 0
      BY <1>1, <2>1, DealsOfFile DEF DbInv, Marked, IsDeal
    <3> QED BY <2>1, <3>1
  <2>2. CASE n = 4
    BY <1>1, <2>2 DEF DbInv, Marked
  <2>3. n = 3 \/ n = 4
    OBVIOUS
  <2> QED BY <2>1, <2>2, <2>3
<1>4. /\ SameMoney /\ SameRows /\ dbfile'.cols = dbfile.cols \cup {"clip"}
      /\ \A t \in dbfile'.trades :
            /\ t.clip = IF n = 3 THEN "none" ELSE "legacy"
            /\ \E u \in dbfile.trades : t.at = u.at /\ t.margin = u.margin
  <2>1. CASE n = 3
    BY <1>1, <2>1, ClipAdded DEF DbInv
  <2>2. CASE n = 4
    <3>1. "clip" \in dbfile.cols
      BY <1>2, <2>2 DEF DbInv, Place, Reached
    <3>2. SameMoney /\ SameRows /\ dbfile'.cols = dbfile.cols
      BY <1>1, <2>2, ClipFilled DEF DbInv
    <3>3. \A t \in dbfile'.trades : \E u \in dbfile.trades :
             t.at = u.at /\ t.margin = u.margin /\ t.clip = "legacy"
      BY <1>1, <1>3, <2>2, ClipFilled DEF DbInv
    <3> QED BY <2>2, <3>1, <3>2, <3>3
  <2>3. n = 3 \/ n = 4
    OBVIOUS
  <2> QED BY Zenon, <2>1, <2>2, <2>3
<1>5. Place'
  <2>1. "margin" \in dbfile'.cols
    BY <1>1, <1>2, <1>4 DEF DbInv, Place, Reached
  <2>2. /\ "clip" \in dbfile'.cols /\ dbStep' \in n + 1 .. n + 2 /\ dbStep' < 6 /\ n \in 1 .. 9
    BY <1>1, <1>2, <1>4
  <2> QED BY <1>1, <1>2, <1>4, <2>1, <2>2, MigratesPlace DEF DbInv
<1>6. Money' /\ Saved'
  BY <1>1, <1>2, <1>4, MigratesMoney DEF DbInv
<1>7. (Reached(10)' => Reached(10)) /\ ~D!Migrating(8) /\ ~D!Migrating(8)' /\ ~D!Running
      /\ ~D!Migrating(2) /\ ~D!Migrating(2)' /\ (D!Migrating(4)' <=> n = 3)
  BY <1>1, <1>2 DEF D!Migrating, Reached, D!Running, D!Doing
<1>8. Indexed'
  BY <1>4, <1>7, IndexedStays, SameRowsAre DEF DbInv, SameRows
<1>9. Labelling'
  <2>1. Edge' = Edge /\ Edge \in Int /\ time \in Nat
    BY <1>1, <1>2, <1>7, EdgeStays DEF DbInv
  <2> QED BY <1>4, <1>7, <2>1, LabellingStays, SameRowsAre DEF DbInv, SameRows, SameMoney
<1>10. Marked'
  <2>1. ASSUME NEW t \in dbfile'.trades
        PROVE  /\ t.at = 0 /\ t.clip = (IF n = 3 THEN "none" ELSE "legacy")
               /\ "margin" \in dbfile.cols \ torn => t.margin = TRUE
    <3>1. PICK u \in dbfile.trades : t.at = u.at /\ t.margin = u.margin
      BY <1>4
    <3>2. "margin" \in dbfile.cols \ torn => u.margin = TRUE
      BY <1>7 DEF DbInv, Marked
    <3> QED BY <1>3, <1>4, <3>1, <3>2
  <2>2. /\ "margin" \in dbfile'.cols \ torn' => "margin" \in dbfile.cols \ torn
        /\ D!Migrating(4)' => n = 3
        /\ ~D!Migrating(4)' => n # 3
    BY <1>1, <1>4, <1>7
  <2>3. \A t \in dbfile'.trades : ~ t.at > 0
    <3>1. \A t \in dbfile'.trades : t.at = 0
      BY <2>1
    <3> QED BY <3>1
  <2> QED BY Zenon, <2>1, <2>2, <2>3 DEF Marked
<1> QED BY <1>4, <1>5, <1>6, <1>8, <1>9, <1>10 DEF DbInv, SameMoney

LEMMA BarStep ==
  ASSUME DatabaseConstants, DbInv,
         UNCHANGED <<dotenv, copies, copied, time, torn, labels, unsaved, base>>, D!Proceed,
         \/ /\ D!Migrating(5) /\ "bar" \notin dbfile.cols
            /\ dbfile' = [D!Added("bar", dbfile) EXCEPT !.cols = @ \cup {"bar"}]
         \/ D!Migrating(6) /\ dbfile' = D!Filled("bar", dbfile)
  PROVE  DbInv'
<1>1. PICK n \in 5 .. 6 :
         /\ D!Migrating(n)
         /\ n = 5 => "bar" \notin dbfile.cols
         /\ n = 5 => dbfile' = [D!Added("bar", dbfile) EXCEPT !.cols = @ \cup {"bar"}]
         /\ n = 6 => dbfile' = dbfile
  BY DEF D!Filled
<1>2. job \in D!Jobs /\ job # Absent /\ dbStep = n /\ job' = job /\ dbStep' = n + 1
  BY <1>1, MigratesOn DEF DbInv, DatabaseConstants
<1>3. /\ SameMoney /\ SameTrades /\ dbfile'.cols = dbfile.cols \cup {"bar"}
      /\ dbfile'.index = dbfile.index /\ SameLabels
  <2>1. CASE n = 5
    BY <1>1, <2>1, BarAdded DEF DbInv, SameLabels
  <2>2. CASE n = 6
    <3>1. "bar" \in dbfile.cols
      BY <1>2, <2>2 DEF DbInv, Place, Reached
    <3>2. dbfile' = dbfile
      BY <1>1, <2>2
    <3> QED BY <3>1, <3>2 DEF DbInv, SameMoney, SameTrades, SameLabels
  <2>3. n = 5 \/ n = 6
    OBVIOUS
  <2> QED BY Zenon, <2>1, <2>2, <2>3
<1>4. Place'
  <2>1. "margin" \in dbfile'.cols /\ "clip" \in dbfile'.cols
    BY <1>1, <1>2, <1>3 DEF DbInv, Place, Reached
  <2>2. /\ "bar" \in dbfile'.cols /\ dbStep' \in n + 1 .. n + 2 /\ dbStep' < 8 /\ n \in 1 .. 9
    BY <1>1, <1>2, <1>3
  <2> QED BY <1>1, <1>2, <1>3, <2>1, <2>2, MigratesPlace DEF DbInv
<1>5. Money' /\ Saved'
  BY <1>1, <1>2, <1>3, MigratesMoney DEF DbInv
<1>6. ~Reached(10)' /\ ~D!Migrating(8) /\ ~D!Migrating(8)' /\ ~D!Running
      /\ ~D!Migrating(2) /\ ~D!Migrating(2)' /\ ~D!Migrating(4) /\ ~D!Migrating(4)'
  BY <1>1, <1>2 DEF D!Migrating, Reached, D!Running, D!Doing
<1>7. Marked'
  BY <1>3, <1>6, MarkedStays DEF DbInv
<1>8. Labelling'
  <2>1. Edge' = Edge /\ Edge \in Int /\ time \in Nat
    BY <1>1, <1>2, <1>6, EdgeStays DEF DbInv
  <2> QED BY <1>3, <1>6, <2>1, LabellingStays DEF DbInv, SameMoney
<1>9. Indexed'
  <2>1. CASE n = 5
    <3>1. \A i \in DOMAIN dbfile'.shadows : dbfile'.shadows[i].at <= 1
      BY <1>1, <1>3, <2>1 DEF DbInv, Indexed, SameLabels
    <3>2. {k \in DOMAIN dbfile'.shadows : dbfile'.shadows[k].at <= 1} = DOMAIN dbfile'.shadows
      BY <3>1
    <3> QED BY <1>6, <3>1, <3>2 DEF Indexed, D!Unique
  <2>2. CASE n = 6
    <3>1. dbfile' = dbfile
      BY <1>1, <2>2
    <3> QED BY <1>6, <3>1, IndexedStays, SameRowsAre DEF DbInv
  <2>3. n = 5 \/ n = 6
    OBVIOUS
  <2> QED BY Zenon, <2>1, <2>2, <2>3
<1> QED BY <1>3, <1>4, <1>5, <1>7, <1>8, <1>9 DEF DbInv, SameMoney

LEMMA EpochStep ==
  ASSUME DatabaseConstants, DbInv,
         UNCHANGED <<dotenv, copies, copied, time, torn, labels, unsaved, base>>, D!Proceed,
         \/ /\ D!Migrating(7) /\ "epoch" \notin dbfile.cols
            /\ dbfile' = [D!Added("epoch", dbfile) EXCEPT !.cols = @ \cup {"epoch"}]
         \/ D!Migrating(8) /\ dbfile' = D!Filled("epoch", dbfile)
  PROVE  DbInv'
<1>1. PICK n \in 7 .. 8 :
         /\ D!Migrating(n)
         /\ n = 7 => "epoch" \notin dbfile.cols
         /\ n = 7 => dbfile' = [D!Added("epoch", dbfile) EXCEPT !.cols = @ \cup {"epoch"}]
         /\ n = 8 => dbfile' = D!Filled("epoch", dbfile)
  OBVIOUS
<1>2. job \in D!Jobs /\ job # Absent /\ dbStep = n /\ job' = job /\ dbStep' = n + 1
  BY <1>1, MigratesOn DEF DbInv, DatabaseConstants
<1>3. /\ SameMoney /\ SameTrades /\ dbfile'.cols = dbfile.cols \cup {"epoch"}
      /\ dbfile'.index = dbfile.index /\ SameBars
      /\ n = 7 => \A i \in DOMAIN dbfile.shadows : dbfile'.shadows[i].label = 0
      /\ n = 8 => \A i \in DOMAIN dbfile.shadows :
                    dbfile'.shadows[i].label =
                      IF dbfile.stamp # Absent /\ dbfile.shadows[i].at >= dbfile.stamp.since
                      THEN dbfile.stamp.label ELSE dbfile.shadows[i].label
  <2>1. CASE n = 7
    BY <1>1, <2>1, EpochAdded DEF DbInv, SameBars
  <2>2. CASE n = 8
    <3>1. "epoch" \in dbfile.cols
      BY <1>2, <2>2 DEF DbInv, Place, Reached
    <3>2. CASE dbfile.stamp = Absent
      <4>1. dbfile' = dbfile
        BY <1>1, <2>2, <3>2 DEF D!Filled
      <4> QED BY <2>2, <3>1, <3>2, <4>1 DEF DbInv, SameMoney, SameTrades, SameBars
    <3>3. CASE dbfile.stamp # Absent
      BY <1>1, <2>2, <3>1, <3>3, EpochFilled DEF DbInv, SameBars
    <3> QED BY Zenon, <3>2, <3>3
  <2>3. n = 7 \/ n = 8
    OBVIOUS
  <2> QED BY Zenon, <2>1, <2>2, <2>3
<1>4. Place'
  <2>1. "margin" \in dbfile'.cols /\ "clip" \in dbfile'.cols /\ "bar" \in dbfile'.cols
    BY <1>1, <1>2, <1>3 DEF DbInv, Place, Reached
  <2>2. /\ "epoch" \in dbfile'.cols /\ dbStep' \in n + 1 .. n + 2 /\ dbStep' <= 10 /\ n \in 1 .. 9
    BY <1>1, <1>2, <1>3
  <2> QED BY <1>1, <1>2, <1>3, <2>1, <2>2, MigratesPlace DEF DbInv
<1>5. Money' /\ Saved'
  BY <1>1, <1>2, <1>3, MigratesMoney DEF DbInv
<1>6. ~Reached(10)' /\ (D!Migrating(8)' <=> n = 7) /\ (D!Migrating(8) <=> n = 8) /\ ~D!Running
      /\ ~D!Migrating(2) /\ ~D!Migrating(2)' /\ ~D!Migrating(4) /\ ~D!Migrating(4)'
  BY <1>1, <1>2 DEF D!Migrating, Reached, D!Running, D!Doing
<1>7. Marked'
  BY <1>3, <1>6, MarkedStays DEF DbInv
<1>8. Indexed'
  BY <1>3, <1>6, IndexedStays DEF DbInv
<1>9. Labelling'
  <2>1. Edge' = Edge /\ Edge \in Int /\ time \in Nat
    BY <1>1, <1>2, <1>6, EdgeStays DEF DbInv
  <2>2. /\ \A i \in DOMAIN dbfile'.shadows : dbfile'.shadows[i].at < Edge'
        /\ dbfile'.stamp # Absent => dbfile'.stamp.since <= time'
    BY <1>3, <2>1 DEF DbInv, Labelling, SameBars, SameMoney
  <2>3. dbfile'.stamp = dbfile.stamp /\ (dbfile.stamp # Absent => dbfile.stamp.label # 0)
    BY <1>3 DEF SameMoney, DatabaseConstants, DbInv, IsDbFile, Stamps
  <2>4. ASSUME NEW i \in DOMAIN dbfile'.shadows
        PROVE  LET q == dbfile'.shadows  stamp == dbfile.stamp
               IN  /\ q[i].label \in labels \cup {0} \/ (stamp # Absent /\ q[i].label = stamp.label)
                   /\ stamp # Absent /\ stamp.label \notin labels /\ q[i].label = stamp.label
                        => q[i].at >= stamp.since
                   /\ stamp # Absent /\ n = 8 /\ q[i].at >= stamp.since => q[i].label = stamp.label
    <3>1. i \in DOMAIN dbfile.shadows /\ dbfile'.shadows[i].at = dbfile.shadows[i].at
      BY <1>3 DEF SameBars
    <3>2. CASE n = 7
      BY <1>3, <2>3, <3>1, <3>2
    <3>3. CASE n = 8
      <4>1. "epoch" \in dbfile.cols
        BY <1>2, <3>3 DEF DbInv, Place, Reached
      <4> QED BY <1>3, <3>1, <3>3, <4>1 DEF DbInv, Labelling
    <3>4. n = 7 \/ n = 8
      OBVIOUS
    <3> QED BY Zenon, <3>2, <3>3, <3>4
  <2>5. ~D!Migrating(8)' => n = 8
    BY <1>6
  <2> QED BY <2>2, <2>3, <2>4, <2>5 DEF Labelling
<1> QED BY <1>3, <1>4, <1>5, <1>7, <1>8, <1>9 DEF DbInv, SameMoney

LEMMA IndexStep == ASSUME DatabaseConstants, DbInv, D!MakeIndex PROVE DbInv'
<1>1. job \in D!Jobs /\ job # Absent /\ dbStep = 9 /\ job' = job /\ dbStep' = 10 /\ D!Migrating(9)
  BY MigratesOn DEF DbInv, DatabaseConstants, D!MakeIndex
<1>2. /\ AreDeals(dbfile.trades) /\ dbfile.shadows \in Seq(Shades) /\ dbfile.index \in BOOLEAN
      /\ dbfile.balance \in Int \cup {Absent} /\ dbfile.stamp \in Stamps \cup {Absent}
  BY DEF DbInv, IsDbFile
<1>3. PICK x \in BOOLEAN : x = (dbfile.index \/ D!Unique(dbfile.shadows))
  OBVIOUS
<1>4. dbfile' = [cols |-> dbfile.cols, trades |-> dbfile.trades, shadows |-> dbfile.shadows,
                 index |-> x, balance |-> dbfile.balance, stamp |-> dbfile.stamp]
  BY Zenon, <1>3 DEF D!MakeIndex, DbInv, IsDbFile
<1>5. /\ IsDbFile(dbfile') /\ dbfile'.cols = dbfile.cols /\ dbfile'.trades = dbfile.trades
      /\ dbfile'.shadows = dbfile.shadows /\ dbfile'.index = x
      /\ dbfile'.balance = dbfile.balance /\ dbfile'.stamp = dbfile.stamp
  BY <1>2, <1>4, FileIs
<1>6. SameMoney /\ SameTrades
  BY <1>5 DEF DbInv, SameMoney, SameTrades
<1>7. UNCHANGED <<dotenv, copies, copied, time, torn, labels, unsaved, base>>
  BY DEF D!MakeIndex
<1>8. Place'
  <2>1. {"margin", "clip", "bar", "epoch"} \subseteq dbfile'.cols
    BY <1>1, <1>5 DEF DbInv, Place, Reached
  <2> QED BY <1>1, <1>5, <1>6, <1>7, <2>1, MigratesPlace DEF DbInv
<1>9. Money' /\ Saved'
  BY <1>1, <1>6, <1>7, MigratesMoney DEF DbInv
<1>10. ~D!Migrating(8) /\ ~D!Migrating(8)' /\ ~D!Running
       /\ ~D!Migrating(2) /\ ~D!Migrating(2)' /\ ~D!Migrating(4) /\ ~D!Migrating(4)'
  BY <1>1 DEF D!Migrating, D!Running, D!Doing
<1>11. Marked'
  BY <1>5, <1>6, <1>7, <1>10, MarkedStays DEF DbInv
<1>12. Labelling'
  <2>1. Edge' = Edge /\ Edge \in Int /\ time \in Nat
    BY <1>1, <1>7, <1>10, EdgeStays DEF DbInv
  <2> QED BY <1>5, <1>7, <1>10, <2>1, LabellingStays, SameRowsAre DEF DbInv
<1>13. Indexed'
  <2>1. D!Unique(dbfile'.shadows) => dbfile'.index
    BY Zenon, <1>3, <1>5
  <2> QED BY <1>5, <2>1 DEF DbInv, Indexed
<1> QED BY <1>5, <1>8, <1>9, <1>11, <1>12, <1>13 DEF DbInv

LEMMA MigrateStep ==
  ASSUME DatabaseConstants, DbInv, NEW c \in D!Columns, D!AddColumn(c) \/ D!FillColumn(c)
  PROVE  DbInv'
<1>1. /\ c = "margin" \/ c = "clip" \/ c = "bar" \/ c = "epoch"
      /\ D!AddOf("margin") = 1 /\ D!AddOf("clip") = 3 /\ D!AddOf("bar") = 5 /\ D!AddOf("epoch") = 7
  BY ColumnSteps DEF D!Columns
<1>2. UNCHANGED <<dotenv, copies, copied, time, torn, labels, unsaved, base>>
  BY DEF D!AddColumn, D!FillColumn
<1>3. CASE D!AddColumn(c) /\ c \in dbfile.cols
  BY <1>2, <1>3, ColumnKnown DEF D!AddColumn, D!Known
<1>4. CASE D!AddColumn(c) /\ c \notin dbfile.cols
  <2>1. /\ D!Migrating(D!AddOf(c)) /\ D!Proceed
        /\ dbfile' = [D!Added(c, dbfile) EXCEPT !.cols = @ \cup {c}]
    BY Zenon, <1>4 DEF D!AddColumn, D!Known
  <2>2. CASE c = "margin"
    BY <1>1, <1>2, <1>4, <2>1, <2>2, MarginStep
  <2>3. CASE c = "clip"
    BY <1>1, <1>2, <1>4, <2>1, <2>3, ClipStep
  <2>4. CASE c = "bar"
    BY <1>1, <1>2, <1>4, <2>1, <2>4, BarStep
  <2>5. CASE c = "epoch"
    BY <1>1, <1>2, <1>4, <2>1, <2>5, EpochStep
  <2> QED BY Zenon, <1>1, <2>2, <2>3, <2>4, <2>5
<1>5. CASE D!FillColumn(c)
  <2>1. /\ D!Migrating(D!AddOf(c) + 1) /\ D!Proceed /\ dbfile' = D!Filled(c, dbfile)
    BY <1>5 DEF D!FillColumn
  <2>2. CASE c = "margin"
    <3>1. D!Migrating(2)
      BY <1>1, <2>1, <2>2
    <3> QED BY <1>2, <2>1, <2>2, <3>1, MarginStep
  <2>3. CASE c = "clip"
    <3>1. D!Migrating(4)
      BY <1>1, <2>1, <2>3
    <3> QED BY <1>2, <2>1, <2>3, <3>1, ClipStep
  <2>4. CASE c = "bar"
    <3>1. D!Migrating(6)
      BY <1>1, <2>1, <2>4
    <3> QED BY <1>2, <2>1, <2>4, <3>1, BarStep
  <2>5. CASE c = "epoch"
    <3>1. D!Migrating(8)
      BY <1>1, <2>1, <2>5
    <3> QED BY <1>2, <2>1, <2>5, <3>1, EpochStep
  <2> QED BY Zenon, <1>1, <2>2, <2>3, <2>4, <2>5
<1> QED BY Zenon, <1>3, <1>4, <1>5

--------------------------------------------------------------------------------
(* The engine.                                                             *)

LEMMA ProceedsFrom ==
  ASSUME DatabaseConstants, NEW j \in D!Jobs, NEW n \in 0 .. 12, D!Doing(j, n), D!Proceed
  PROVE  /\ job = j /\ dbStep = n
         /\ n + 1 <= D!Final(j) => job' = j /\ dbStep' = n + 1
         /\ n + 1 > D!Final(j) => job' = Absent /\ dbStep' = Absent
<1>1. D!Final(j) \in Int
  BY DEF D!Final
<1> QED BY <1>1 DEF D!Doing, D!Proceed, D!Goto

LEMMA FileParts ==
  IsDbFile(dbfile) =>
    /\ AreDeals(dbfile.trades) /\ dbfile.shadows \in Seq(Shades) /\ dbfile.index \in BOOLEAN
    /\ dbfile.balance \in Int \cup {Absent} /\ dbfile.stamp \in Stamps \cup {Absent}
BY DEF IsDbFile

LEMMA EnsureBalanceKeeps == ASSUME DatabaseConstants, DbInv, D!EnsureBalance PROVE DbInv'
<1>1. "engine" \in D!Jobs /\ D!Final("engine") = 12 /\ "engine" # Absent
  BY DEF D!Jobs, D!Final, DatabaseConstants
<1>2. job = "engine" /\ dbStep = 10 /\ job' = "engine" /\ dbStep' = 11
  BY <1>1, ProceedsFrom DEF D!EnsureBalance
<1>3. UNCHANGED <<dotenv, copies, copied, time, torn, labels, unsaved, base>>
  BY DEF D!EnsureBalance
<1>4. PICK b \in Int : b = IF dbfile.balance = Absent THEN StartMoney ELSE dbfile.balance
  BY FileParts DEF DbInv, DatabaseConstants
<1>5. dbfile' = [cols |-> dbfile.cols, trades |-> dbfile.trades, shadows |-> dbfile.shadows,
                 index |-> dbfile.index, balance |-> b, stamp |-> dbfile.stamp]
  BY <1>4 DEF D!EnsureBalance, DbInv, IsDbFile
<1>6. /\ IsDbFile(dbfile') /\ dbfile'.cols = dbfile.cols /\ dbfile'.trades = dbfile.trades
      /\ dbfile'.shadows = dbfile.shadows /\ dbfile'.index = dbfile.index
      /\ dbfile'.balance = b /\ dbfile'.stamp = dbfile.stamp
  BY <1>5, FileParts, FileIs DEF DbInv
<1>7. b # Absent
  BY <1>4 DEF DatabaseConstants
<1>8. Place'
  BY <1>1, <1>2, <1>3, <1>6, <1>7 DEF DbInv, Place, Reached, D!First
<1>9. Money'
  <2>1. D!Pnl(dbfile.trades) \in Int
    BY FileParts, PnlIsInt DEF DbInv
  <2> QED BY <1>3, <1>4, <1>6, <1>7, <2>1 DEF DbInv, Money, DatabaseConstants
<1>10. Saved'
  BY <1>2, <1>3, <1>6 DEF DbInv, Saved
<1>11. ~D!Migrating(8) /\ ~D!Migrating(8)' /\ ~D!Running /\ Reached(10) /\ SameTrades
       /\ ~D!Migrating(2) /\ ~D!Migrating(2)' /\ ~D!Migrating(4) /\ ~D!Migrating(4)'
  BY <1>1, <1>2, <1>6 DEF D!Migrating, D!Running, D!Doing, Reached, SameTrades
<1>12. Marked' /\ Indexed'
  BY <1>3, <1>6, <1>11, MarkedStays, IndexedStays, SameRowsAre DEF DbInv
<1>13. Labelling'
  <2>1. Edge' = Edge /\ Edge \in Int /\ time \in Nat
    BY <1>2, <1>3, <1>11, EdgeStays DEF DbInv
  <2> QED BY <1>3, <1>6, <1>11, <2>1, LabellingStays, SameRowsAre DEF DbInv
<1> QED BY <1>6, <1>8, <1>9, <1>10, <1>12, <1>13 DEF DbInv

\* A stamp where there was none: every row is from before it.
LEMMA FreshStamp ==
  ASSUME DatabaseConstants, DbInv, dbfile.stamp = Absent,
         dbfile'.stamp = [label |-> dotenv, since |-> time], dbfile'.shadows = dbfile.shadows,
         dbfile'.cols = dbfile.cols, labels' = labels, time' = time, job # Absent, ~D!Running
  PROVE  Labelling'
<1>1. time \in Nat /\ dotenv \in EpochLabels /\ dotenv # 0 /\ Edge = time /\ Edge' \in Int /\ time <= Edge'
  BY DEF DbInv, Place, Edge, DatabaseConstants
<1>2. \A i \in DOMAIN dbfile.shadows : dbfile.shadows[i].at \in Nat /\ dbfile.shadows[i].at < time
  BY <1>1, RowsOfFile DEF DbInv, Labelling
<1>3. dbfile'.stamp.label = dotenv /\ dbfile'.stamp.since = time
  OBVIOUS
<1>4. \A i \in DOMAIN dbfile'.shadows : dbfile'.shadows[i].at < Edge'
  BY <1>1, <1>2
<1>5. "epoch" \in dbfile.cols => \A i \in DOMAIN dbfile.shadows : dbfile.shadows[i].label \in labels \cup {0}
  BY DEF DbInv, Labelling
<1>6. \A i \in DOMAIN dbfile'.shadows : ~ dbfile'.shadows[i].at >= dbfile'.stamp.since
  BY <1>1, <1>2, <1>3
<1>7. "epoch" \in dbfile'.cols => \A i \in DOMAIN dbfile'.shadows :
         /\ dbfile'.shadows[i].label \in labels' \cup {0}
         /\ dotenv \notin labels' => dbfile'.shadows[i].label # dotenv
  BY <1>1, <1>5
<1>8. dbfile'.stamp.since <= time'
  BY <1>1, <1>3
<1> QED BY <1>3, <1>4, <1>6, <1>7, <1>8 DEF Labelling

LEMMA EnsureEpochKeeps == ASSUME DatabaseConstants, DbInv, D!EnsureEpoch PROVE DbInv'
<1>1. "engine" \in D!Jobs /\ D!Final("engine") = 12 /\ "engine" # Absent
  BY DEF D!Jobs, D!Final, DatabaseConstants
<1>2. job = "engine" /\ dbStep = 11 /\ job' = "engine" /\ dbStep' = 12
  BY <1>1, ProceedsFrom DEF D!EnsureEpoch
<1>3. UNCHANGED <<dotenv, copies, copied, time, labels, unsaved, base>>
  BY DEF D!EnsureEpoch
<1>4. time \in Nat /\ dotenv \in EpochLabels
  BY DEF DbInv, Place
<1>5. D!Stamp = [label |-> dotenv, since |-> time] /\ D!Stamp \in Stamps
  BY <1>4 DEF D!Stamp, Stamps
<1>6. PICK e \in Stamps : e = IF dbfile.stamp = Absent THEN D!Stamp ELSE dbfile.stamp
  BY <1>5, FileParts DEF DbInv
<1>7. dbfile' = [cols |-> dbfile.cols, trades |-> dbfile.trades, shadows |-> dbfile.shadows,
                 index |-> dbfile.index, balance |-> dbfile.balance, stamp |-> e]
  BY <1>6 DEF D!EnsureEpoch, DbInv, IsDbFile
<1>8. /\ IsDbFile(dbfile') /\ dbfile'.cols = dbfile.cols /\ dbfile'.trades = dbfile.trades
      /\ dbfile'.shadows = dbfile.shadows /\ dbfile'.index = dbfile.index
      /\ dbfile'.balance = dbfile.balance /\ dbfile'.stamp = e
  BY <1>7, FileParts, FileIs DEF DbInv
<1>9. e # Absent
  BY <1>6 DEF DatabaseConstants
<1>10. Place'
  BY <1>1, <1>2, <1>3, <1>8, <1>9 DEF DbInv, Place, Reached, D!First
<1>11. Money' /\ Saved'
  BY <1>2, <1>3, <1>8 DEF DbInv, Money, Saved
<1>12. ~D!Migrating(8) /\ ~D!Migrating(8)' /\ ~D!Running /\ D!Running' /\ Reached(10) /\ SameTrades
       /\ ~D!Migrating(2) /\ ~D!Migrating(2)' /\ ~D!Migrating(4) /\ ~D!Migrating(4)'
  BY <1>1, <1>2, <1>8 DEF D!Migrating, D!Running, D!Doing, Reached, SameTrades
<1>13. torn' = (IF dbfile.stamp = Absent THEN torn \ {"epoch"} ELSE torn)
  BY DEF D!EnsureEpoch
<1>14. Marked'
  BY <1>8, <1>12, <1>13, MarkedStays DEF DbInv
<1>15. Indexed'
  BY <1>8, <1>12, IndexedStays, SameRowsAre DEF DbInv
<1>16. Labelling'
  <2>1. CASE dbfile.stamp = Absent
    BY <1>1, <1>2, <1>3, <1>5, <1>6, <1>8, <1>12, <2>1, FreshStamp
  <2>2. CASE dbfile.stamp # Absent
    <3>1. Edge = time /\ Edge' = time + 1
      BY <1>1, <1>2, <1>3, <1>4, <1>12 DEF Edge
    <3>2. dbfile'.stamp = dbfile.stamp /\ torn' = torn
      BY <1>6, <1>8, <1>13, <2>2
    <3> QED BY <1>3, <1>4, <1>8, <1>12, <3>1, <3>2, LabellingStays, SameRowsAre DEF DbInv
  <2> QED BY Zenon, <2>1, <2>2
<1> QED BY <1>8, <1>10, <1>11, <1>14, <1>15, <1>16 DEF DbInv

LEMMA BookKeeps == ASSUME DatabaseConstants, DbInv, D!Book PROVE DbInv'
<1>1. job = "engine" /\ dbStep = 12 /\ "engine" # Absent
  BY DEF D!Book, D!Running, D!Doing, D!Jobs, DatabaseConstants
<1>2. UNCHANGED <<dotenv, job, dbStep, copies, copied, time, torn, labels, unsaved, base>>
  BY DEF D!Book
<1>3. PICK p \in DealPnls :
        LET trade == [at |-> time, pnl |-> p, margin |-> TRUE, clip |-> "none"]
        IN  /\ trade \notin dbfile.trades
            /\ dbfile' = [dbfile EXCEPT !.balance = @ + p, !.trades = @ \cup {trade}]
  BY ZenonT(30) DEF D!Book
<1>4. PICK t : t = [at |-> time, pnl |-> p, margin |-> TRUE, clip |-> "none"]
  OBVIOUS
<1>5. time \in Nat /\ time > 0 /\ p \in Int /\ dbfile.balance # Absent /\ dbfile.balance \in Int
  BY <1>1, FileParts DEF DbInv, Place, DatabaseConstants
<1>6. t.at = time /\ t.pnl = p /\ t.margin = TRUE /\ t.clip = "none"
  BY <1>4
<1>7. IsDeal(t)
  <2>1. t = [at |-> t.at, pnl |-> t.pnl, margin |-> t.margin, clip |-> t.clip]
    BY Zenon, <1>4, <1>6
  <2>2. t.at \in Nat /\ t.pnl \in Int
    BY <1>5, <1>6
  <2> QED BY Zenon, <2>1, <2>2 DEF IsDeal
<1>8. t \notin dbfile.trades
  BY <1>3, <1>4
<1>9. \A u \in dbfile.trades : ~(t.at = u.at /\ t.pnl = u.pnl)
  <2> SUFFICES ASSUME NEW u \in dbfile.trades, t.at = u.at, t.pnl = u.pnl PROVE FALSE
    OBVIOUS
  <2>1. u = [at |-> u.at, pnl |-> u.pnl, margin |-> u.margin, clip |-> u.clip]
    BY DealsOfFile DEF DbInv, IsDeal
  <2>2. u.at > 0
    BY <1>5, <1>6
  <2>3. u.margin = TRUE /\ u.clip = "none"
    BY <2>2 DEF DbInv, Marked
  <2>4. u = t
    BY Zenon, <1>4, <1>6, <2>1, <2>3
  <2> QED BY <1>8, <2>4
<1>10. AreDeals(dbfile.trades \cup {t}) /\ D!Pnl(dbfile.trades \cup {t}) = D!Pnl(dbfile.trades) + p
  BY <1>6, <1>7, <1>9, FileParts, PnlOfMore DEF DbInv
<1>11. dbfile' = [cols |-> dbfile.cols, trades |-> dbfile.trades \cup {t},
                  shadows |-> dbfile.shadows, index |-> dbfile.index,
                  balance |-> dbfile.balance + p, stamp |-> dbfile.stamp]
  BY <1>3, <1>4 DEF DbInv, IsDbFile
<1>12. /\ IsDbFile(dbfile') /\ dbfile'.cols = dbfile.cols /\ dbfile'.trades = dbfile.trades \cup {t}
       /\ dbfile'.shadows = dbfile.shadows /\ dbfile'.index = dbfile.index
       /\ dbfile'.balance = dbfile.balance + p /\ dbfile'.stamp = dbfile.stamp
  <2>1. dbfile.balance + p \in Int \cup {Absent}
    BY <1>5
  <2>2. /\ dbfile.shadows \in Seq(Shades) /\ dbfile.index \in BOOLEAN
        /\ dbfile.stamp \in Stamps \cup {Absent}
    BY FileParts DEF DbInv
  <2>3. PICK T : T = dbfile.trades \cup {t}
    OBVIOUS
  <2>4. PICK b : b = dbfile.balance + p
    OBVIOUS
  <2>5. AreDeals(T) /\ b \in Int \cup {Absent}
    BY <1>10, <2>1, <2>3, <2>4
  <2>6. dbfile' = [cols |-> dbfile.cols, trades |-> T, shadows |-> dbfile.shadows,
                   index |-> dbfile.index, balance |-> b, stamp |-> dbfile.stamp]
    BY <1>11, <2>3, <2>4
  <2>7. /\ IsDbFile(dbfile') /\ dbfile'.cols = dbfile.cols /\ dbfile'.trades = T
        /\ dbfile'.shadows = dbfile.shadows /\ dbfile'.index = dbfile.index
        /\ dbfile'.balance = b /\ dbfile'.stamp = dbfile.stamp
    BY <2>2, <2>5, <2>6, FileIs
  <2> QED BY <2>3, <2>4, <2>7
<1>13. dbfile'.balance \in Int /\ dbfile'.balance # Absent
  BY <1>5, <1>12 DEF DatabaseConstants
<1>14. Place'
  BY <1>1, <1>2, <1>12, <1>13 DEF DbInv, Place, Reached, D!First
<1>15. Money'
  <2>1. D!Pnl(dbfile.trades) \in Int
    BY FileParts, PnlIsInt DEF DbInv
  <2>2. D!Pnl(dbfile'.trades) = D!Pnl(dbfile.trades) + p
    BY <1>10, <1>12
  <2> QED BY <1>2, <1>5, <1>12, <1>13, <2>1, <2>2 DEF DbInv, Money, DatabaseConstants
<1>16. Saved'
  BY <1>1, <1>2 DEF DbInv, Saved
<1>17. ~D!Migrating(8) /\ ~D!Migrating(8)' /\ ~D!Migrating(2)' /\ ~D!Migrating(4)'
       /\ ~D!Migrating(2) /\ ~D!Migrating(4) /\ (Reached(10)' => Reached(10)) /\ D!Running /\ D!Running'
  BY <1>1, <1>2 DEF D!Migrating, D!Running, D!Doing, Reached
<1>18. Marked'
  <2>1. {"margin", "clip"} \subseteq dbfile.cols
    BY <1>1 DEF DbInv, Place, Reached
  <2>2. ASSUME NEW u \in dbfile'.trades
        PROVE  /\ u.at > 0 => u.margin = TRUE /\ u.clip = "none"
               /\ "margin" \notin torn => u.margin = TRUE
               /\ "clip" \notin torn => (u.clip = "legacy" <=> u.at = 0)
    <3>1. CASE u = t
      BY <1>5, <1>6, <3>1
    <3>2. CASE u \in dbfile.trades
      BY <1>17, <2>1, <3>2 DEF DbInv, Marked
    <3> QED BY <1>12, <3>1, <3>2
  <2>3. {"margin", "clip"} \subseteq dbfile'.cols /\ torn' = torn
    BY <1>2, <1>12, <2>1
  <2> QED BY Zenon, <1>17, <2>2, <2>3 DEF Marked
<1>19. Indexed'
  BY <1>12, <1>17, IndexedStays, SameRowsAre DEF DbInv
<1>20. Labelling'
  <2>1. Edge' = Edge /\ Edge \in Int
    BY <1>2, <1>5, <1>17 DEF Edge
  <2> QED BY <1>2, <1>5, <1>12, <1>17, <2>1, LabellingStays, SameRowsAre DEF DbInv
<1> QED BY <1>12, <1>14, <1>15, <1>16, <1>18, <1>19, <1>20 DEF DbInv

LEMMA TrackKeeps == ASSUME DatabaseConstants, DbInv, D!Track PROVE DbInv'
<1>1. job = "engine" /\ dbStep = 12 /\ "engine" # Absent
  BY DEF D!Track, D!Running, D!Doing, D!Jobs, DatabaseConstants
<1>2. UNCHANGED <<dotenv, job, dbStep, copies, copied, time, torn, labels, unsaved, base>>
  BY DEF D!Track
<1>3. /\ dbfile.stamp # Absent /\ dbfile.stamp \in Stamps /\ time \in Nat /\ time > 1
      /\ "epoch" \in dbfile.cols /\ "bar" \in dbfile.cols /\ dbfile.stamp.label \in EpochLabels
  BY <1>1, FileParts DEF DbInv, Place, Reached, Stamps
<1>4. ~D!Migrating(8) /\ ~D!Migrating(8)' /\ ~D!Migrating(2)' /\ ~D!Migrating(4)' /\ Reached(10)
      /\ ~D!Migrating(2) /\ ~D!Migrating(4) /\ (Reached(10)' => Reached(10)) /\ D!Running /\ D!Running'
  BY <1>1, <1>2 DEF D!Migrating, D!Running, D!Doing, Reached
<1>5. Edge = time + 1 /\ Edge' = time + 1
  BY <1>2, <1>4 DEF Edge
<1> DEFINE p == dbfile.shadows
<1>6. CASE dbfile.index /\ \E i \in DOMAIN p : p[i].bar = time
  <2>1. dbfile' = dbfile
    BY <1>6 DEF D!Track
  <2>2. Place' /\ Money' /\ Saved'
    BY <1>1, <1>2, <2>1 DEF DbInv, Place, Money, Saved, Reached
  <2>3. Marked' /\ Indexed'
    BY <1>2, <1>4, <2>1, MarkedStays, IndexedStays, SameRowsAre DEF DbInv, SameTrades
  <2>4. Labelling'
    BY <1>2, <1>3, <1>4, <1>5, <2>1, LabellingStays, SameRowsAre DEF DbInv
  <2> QED BY <2>1, <2>2, <2>3, <2>4 DEF DbInv
<1>7. CASE ~(dbfile.index /\ \E i \in DOMAIN p : p[i].bar = time)
  <2>1. PICK r : r = [at |-> time, bar |-> time, label |-> dbfile.stamp.label]
    OBVIOUS
  <2>2. r \in Shades /\ r.at = time /\ r.bar = time /\ r.label = dbfile.stamp.label
    BY <1>3, <2>1 DEF Shades
  <2>3. p \in Seq(Shades)
    BY FileParts DEF DbInv
  <2>4. PICK q : q = Append(p, r)
    OBVIOUS
  <2>5. /\ q \in Seq(Shades) /\ Len(p) \in Nat /\ DOMAIN p = 1 .. Len(p)
        /\ DOMAIN q = 1 .. Len(p) + 1 /\ q[Len(p) + 1] = r
        /\ \A i \in DOMAIN p : q[i] = p[i]
    BY <2>2, <2>3, <2>4, AppendProperties
  <2>6. dbfile' = [cols |-> dbfile.cols, trades |-> dbfile.trades, shadows |-> q,
                   index |-> dbfile.index, balance |-> dbfile.balance, stamp |-> dbfile.stamp]
    BY <1>7, <2>1, <2>4 DEF D!Track, DbInv, IsDbFile
  <2>7. /\ SameMoney /\ SameTrades /\ dbfile'.cols = dbfile.cols /\ dbfile'.shadows = q
        /\ dbfile'.index = dbfile.index
    BY <2>5, <2>6, RowsRemade DEF DbInv
  <2>8. Place' /\ Money' /\ Saved'
    BY <1>1, <1>2, <2>7 DEF DbInv, Place, Money, Saved, Reached, SameMoney
  <2>9. Marked'
    BY <1>2, <1>4, <2>7, MarkedStays DEF DbInv
  <2>10. Indexed'
    <3> DEFINE Old(s) == {k \in DOMAIN s : s[k].at <= 1}
    <3>1. ASSUME D!DistinctIn(q, Old(q)) PROVE D!Unique(q)
      <4>1. Old(p) \subseteq Old(q) /\ \A i \in Old(p) : q[i] = p[i]
        BY <2>5
      <4>2. D!DistinctIn(p, Old(p))
        BY <3>1, <4>1 DEF D!DistinctIn
      <4>3. D!Unique(p) /\ dbfile.index
        BY <1>4, <4>2 DEF DbInv, Indexed
      <4>4. \A i \in DOMAIN p : q[i].bar # time /\ \A j \in DOMAIN p : q[i].bar = q[j].bar => i = j
        BY <1>7, <2>5, <4>3 DEF D!Unique, D!DistinctIn
      <4>5. ASSUME NEW i \in DOMAIN q, NEW j \in DOMAIN q, q[i].bar = q[j].bar PROVE i = j
        <5>1. i \in DOMAIN p \/ i = Len(p) + 1
          BY <2>5
        <5>2. j \in DOMAIN p \/ j = Len(p) + 1
          BY <2>5
        <5>3. q[Len(p) + 1].bar = time
          BY <2>2, <2>5
        <5> QED BY <4>4, <4>5, <5>1, <5>2, <5>3
      <4> QED BY <4>5 DEF D!Unique, D!DistinctIn
    <3>2. ASSUME D!Unique(q) PROVE dbfile.index
      <4>1. D!Unique(p)
        BY <2>5, <3>2 DEF D!Unique, D!DistinctIn
      <4> QED BY <1>4, <4>1 DEF DbInv, Indexed
    <3> QED BY <1>3, <2>7, <3>1, <3>2 DEF Indexed
  <2>11. Labelling'
    <3>1. ASSUME NEW i \in DOMAIN q
          PROVE  /\ q[i].at < Edge'
                 /\ q[i].label \in labels \cup {0} \/ q[i].label = dbfile.stamp.label
                 /\ dbfile.stamp.label \notin labels /\ q[i].label = dbfile.stamp.label
                      => q[i].at >= dbfile.stamp.since
                 /\ "epoch" \notin torn /\ q[i].at >= dbfile.stamp.since
                      => q[i].label = dbfile.stamp.label
      <4>1. CASE i \in DOMAIN p
        BY <1>3, <1>4, <1>5, <2>5, <4>1 DEF DbInv, Labelling
      <4>2. CASE i = Len(p) + 1
        <5>1. dbfile.stamp.since <= time
          BY <1>3 DEF DbInv, Labelling
        <5>2. q[i].at = time /\ q[i].label = dbfile.stamp.label
          BY <2>2, <2>5, <4>2
        <5> QED BY <1>3, <1>5, <5>1, <5>2 DEF Stamps
      <4>3. i \in DOMAIN p \/ i = Len(p) + 1
        BY <2>5
      <4> QED BY Zenon, <4>1, <4>2, <4>3
    <3>2. dbfile.stamp.since <= time
      BY <1>3 DEF DbInv, Labelling
    <3>3. dbfile'.stamp = dbfile.stamp /\ dbfile'.shadows = q
      BY <2>7 DEF SameMoney
    <3> QED BY <1>2, <1>3, <3>1, <3>2, <3>3 DEF Labelling
  <2> QED BY <2>7, <2>8, <2>9, <2>10, <2>11 DEF DbInv, SameMoney
<1> QED BY Zenon, <1>6, <1>7

\* Time passes for a running engine.
LEMMA TickKeeps == ASSUME DatabaseConstants, DbInv, D!Tick PROVE DbInv'
<1>1. job = "engine" /\ dbStep = 12 /\ "engine" # Absent /\ time \in Nat /\ time' = time + 1
  BY DEF D!Tick, D!Running, D!Doing, D!Jobs, DatabaseConstants, DbInv, Place
<1>2. UNCHANGED <<dbfile, dotenv, job, dbStep, copies, copied, torn, labels, unsaved, base>>
  BY DEF D!Tick
<1>3. ~D!Migrating(8) /\ ~D!Migrating(8)' /\ ~D!Migrating(2)' /\ ~D!Migrating(4)'
      /\ ~D!Migrating(2) /\ ~D!Migrating(4) /\ (Reached(10)' => Reached(10)) /\ D!Running /\ D!Running'
  BY <1>1, <1>2 DEF D!Migrating, D!Running, D!Doing, Reached
<1>4. Edge = time + 1 /\ Edge' = time + 2
  BY <1>1, <1>3 DEF Edge
<1>5. IsDbFile(dbfile)' /\ Place' /\ Money' /\ Saved'
  BY <1>1, <1>2 DEF DbInv, Place, Money, Saved, Reached
<1>6. Marked' /\ Indexed'
  BY <1>2, <1>3, MarkedStays, IndexedStays, SameRowsAre DEF DbInv, SameTrades
<1>7. Labelling'
  BY <1>1, <1>2, <1>3, <1>4, LabellingStays, SameRowsAre DEF DbInv
<1> QED BY <1>5, <1>6, <1>7 DEF DbInv

--------------------------------------------------------------------------------
(* The resets.                                                             *)

LEMMA ArtifactKeeps == ASSUME DatabaseConstants, DbInv, D!WriteArtifact PROVE DbInv'
<1>1. "reset" \in D!Jobs /\ D!Final("reset") = 12 /\ D!First("reset") = 0 /\ "reset" # Absent
  BY DEF D!Jobs, D!Final, D!First, DatabaseConstants
<1>2. job = "reset" /\ dbStep = 0 /\ job' = "reset" /\ dbStep' = 1
  BY <1>1, ProceedsFrom DEF D!WriteArtifact
<1>3. UNCHANGED <<dbfile, dotenv, time, torn, labels, unsaved, base>>
  BY DEF D!WriteArtifact
<1>4. Place' /\ Money' /\ IsDbFile(dbfile)'
  BY <1>1, <1>2, <1>3 DEF DbInv, Place, Reached, Money
<1>5. Saved'
  <2>1. PICK parts \in SUBSET D!Parts : copied' = parts /\ copies' = copies \cup D!Opened(parts)
    BY DEF D!WriteArtifact
  <2>2. copied' = D!Parts => D!Outcomes(dbfile.trades) \subseteq copies'
    BY <2>1 DEF D!Opened
  <2> QED BY <1>3, <2>2 DEF DbInv, Saved
<1>6. ~D!Migrating(8) /\ ~D!Migrating(8)' /\ ~D!Running /\ (Reached(10)' => Reached(10))
      /\ ~D!Migrating(2) /\ ~D!Migrating(2)' /\ ~D!Migrating(4) /\ ~D!Migrating(4)'
  BY <1>1, <1>2 DEF D!Migrating, D!Running, D!Doing, Reached
<1>7. Marked' /\ Indexed'
  BY <1>3, <1>6, MarkedStays, IndexedStays, SameRowsAre DEF DbInv, SameTrades
<1>8. Labelling'
  <2>1. Edge' = Edge /\ Edge \in Int /\ time \in Nat
    BY <1>2, <1>3, <1>6, EdgeStays DEF DbInv
  <2> QED BY <1>3, <1>6, <2>1, LabellingStays, SameRowsAre DEF DbInv
<1> QED BY <1>4, <1>5, <1>7, <1>8 DEF DbInv

\* Nothing that is cleared is lost: the artifact has it, if nothing failed in it.
LEMMA ClearKeeps == ASSUME DatabaseConstants, DbInv, D!Clear PROVE DbInv'
<1>1. "reset" \in D!Jobs /\ D!Final("reset") = 12 /\ D!First("reset") = 0 /\ "reset" # Absent
      /\ "reset" # "engine"
  BY DEF D!Jobs, D!Final, D!First, DatabaseConstants
<1>2. job = "reset" /\ dbStep = 10 /\ job' = "reset" /\ dbStep' = 11
  BY <1>1, ProceedsFrom DEF D!Clear
<1>3. /\ UNCHANGED <<dotenv, copies, copied, time>> /\ torn' = torn \ {"margin", "clip"} /\ base' = 0
      /\ labels' = labels \cup (IF dbfile.stamp = Absent THEN {} ELSE {dbfile.stamp.label})
      /\ unsaved' = unsaved \cup (IF copied = D!Parts THEN D!Outcomes(dbfile.trades) \ copies ELSE {})
  BY DEF D!Clear
<1>4. dbfile' = [cols |-> dbfile.cols, trades |-> {}, shadows |-> dbfile.shadows,
                 index |-> dbfile.index, balance |-> Absent, stamp |-> Absent]
  BY DEF D!Clear, D!Cleared, DbInv, IsDbFile
<1>5. /\ IsDbFile(dbfile') /\ dbfile'.cols = dbfile.cols /\ dbfile'.trades = {}
      /\ dbfile'.shadows = dbfile.shadows /\ dbfile'.index = dbfile.index
      /\ dbfile'.balance = Absent /\ dbfile'.stamp = Absent
  BY <1>4, PnlOfNone, FileParts, FileIs DEF DbInv
<1>6. Place'
  BY <1>1, <1>2, <1>3, <1>5 DEF DbInv, Place, Reached
<1>7. Money'
  BY <1>3, <1>5, PnlOfNone DEF Money
<1>8. Saved'
  <2>1. copied = D!Parts => D!Outcomes(dbfile.trades) \subseteq copies
    BY <1>2 DEF DbInv, Saved
  <2>2. unsaved' = {}
    BY <1>3, <2>1 DEF DbInv, Saved
  <2> QED BY <1>2, <2>2 DEF Saved
<1>9. ~D!Migrating(8)' /\ ~D!Migrating(8) /\ ~D!Migrating(4)' /\ ~D!Running /\ (Reached(10)' => Reached(10))
  BY <1>1, <1>2 DEF D!Migrating, D!Running, D!Doing, Reached
<1>10. Marked'
  BY <1>5, <1>9 DEF Marked
<1>11. Indexed'
  BY <1>5, <1>9, IndexedStays, SameRowsAre DEF DbInv
<1>12. Labelling'
  <2>1. Edge' = Edge
    BY <1>2, <1>3, <1>9, EdgeStays DEF DbInv
  <2>2. \A i \in DOMAIN dbfile.shadows : dbfile.shadows[i].at < Edge'
    BY <2>1 DEF DbInv, Labelling
  <2>3. "epoch" \in dbfile.cols =>
          \A i \in DOMAIN dbfile.shadows : dbfile.shadows[i].label \in labels' \cup {0}
    BY <1>3 DEF DbInv, Labelling
  <2> QED BY <1>5, <2>2, <2>3 DEF Labelling
<1> QED BY <1>5, <1>6, <1>7, <1>8, <1>10, <1>11, <1>12 DEF DbInv

LEMMA NewBalanceKeeps == ASSUME DatabaseConstants, DbInv, D!NewBalance PROVE DbInv'
<1>1. "reset" \in D!Jobs /\ D!Final("reset") = 12 /\ D!First("reset") = 0 /\ "reset" # Absent
      /\ "reset" # "engine"
  BY DEF D!Jobs, D!Final, D!First, DatabaseConstants
<1>2. job = "reset" /\ dbStep = 11 /\ job' = "reset" /\ dbStep' = 12
  BY <1>1, ProceedsFrom DEF D!NewBalance
<1>3. UNCHANGED <<dotenv, copies, copied, time, torn, labels, unsaved, base>>
  BY DEF D!NewBalance
<1>4. dbfile' = [cols |-> dbfile.cols, trades |-> dbfile.trades, shadows |-> dbfile.shadows,
                 index |-> dbfile.index, balance |-> StartMoney, stamp |-> dbfile.stamp]
  BY DEF D!NewBalance, DbInv, IsDbFile
<1>5. /\ IsDbFile(dbfile') /\ dbfile'.cols = dbfile.cols /\ dbfile'.trades = dbfile.trades
      /\ dbfile'.shadows = dbfile.shadows /\ dbfile'.index = dbfile.index
      /\ dbfile'.balance = StartMoney /\ dbfile'.stamp = dbfile.stamp
  BY <1>4, FileParts, FileIs DEF DbInv, DatabaseConstants
<1>6. Place'
  BY <1>1, <1>2, <1>3, <1>5 DEF DbInv, Place, Reached
<1>7. Money'
  <2>1. base = D!Pnl(dbfile.trades) /\ base \in Int
    BY <1>2 DEF DbInv, Place, Money
  <2> QED BY <1>3, <1>5, <2>1 DEF Money, DatabaseConstants
<1>8. Saved'
  BY <1>2, <1>3 DEF DbInv, Saved
<1>9. ~D!Migrating(8) /\ ~D!Migrating(8)' /\ ~D!Running /\ (Reached(10)' => Reached(10)) /\ SameTrades
      /\ ~D!Migrating(2) /\ ~D!Migrating(2)' /\ ~D!Migrating(4) /\ ~D!Migrating(4)' /\ ~D!Running'
  BY <1>1, <1>2, <1>5 DEF D!Migrating, D!Running, D!Doing, Reached, SameTrades
<1>10. Marked' /\ Indexed'
  BY <1>3, <1>5, <1>9, MarkedStays, IndexedStays, SameRowsAre DEF DbInv
<1>11. Labelling'
  <2>1. Edge' = Edge /\ Edge \in Int /\ time \in Nat
    BY <1>1, <1>2, <1>3, <1>9 DEF DbInv, Place, Edge
  <2> QED BY <1>3, <1>5, <1>9, <2>1, LabellingStays, SameRowsAre DEF DbInv
<1> QED BY <1>5, <1>6, <1>7, <1>8, <1>10, <1>11 DEF DbInv

LEMMA NewStampKeeps == ASSUME DatabaseConstants, DbInv, D!NewStamp PROVE DbInv'
<1>1. "reset" \in D!Jobs /\ D!Final("reset") = 12 /\ "reset" # Absent /\ "engine" # Absent
      /\ "reset" # "engine"
  BY DEF D!Jobs, D!Final, DatabaseConstants
<1>2. job = "reset" /\ dbStep = 12 /\ job' = Absent /\ dbStep' = Absent
  BY <1>1, ProceedsFrom DEF D!NewStamp
<1>3. UNCHANGED <<dotenv, copies, copied, time, labels, unsaved, base>> /\ torn' = torn \ {"epoch"}
  BY DEF D!NewStamp
<1>4. time \in Nat /\ time >= 1 /\ dotenv \in EpochLabels
  BY DEF DbInv, Place
<1>5. D!Stamp = [label |-> dotenv, since |-> time] /\ D!Stamp \in Stamps
  BY <1>4 DEF D!Stamp, Stamps
<1>6. dbfile' = [cols |-> dbfile.cols, trades |-> dbfile.trades, shadows |-> dbfile.shadows,
                 index |-> dbfile.index, balance |-> dbfile.balance, stamp |-> D!Stamp]
  BY DEF D!NewStamp, DbInv, IsDbFile
<1>7. /\ IsDbFile(dbfile') /\ dbfile'.cols = dbfile.cols /\ dbfile'.trades = dbfile.trades
      /\ dbfile'.shadows = dbfile.shadows /\ dbfile'.index = dbfile.index
      /\ dbfile'.balance = dbfile.balance /\ dbfile'.stamp = D!Stamp
  BY <1>5, <1>6, FileParts, FileIs DEF DbInv
<1>8. Place'
  BY <1>1, <1>2, <1>3, <1>4 DEF Place, Reached
<1>9. Money' /\ Saved'
  BY <1>1, <1>2, <1>3, <1>7 DEF DbInv, Money, Saved
<1>10. ~D!Running /\ (Reached(10)' => Reached(10)) /\ SameTrades
       /\ ~D!Migrating(2) /\ ~D!Migrating(2)' /\ ~D!Migrating(4) /\ ~D!Migrating(4)'
  BY <1>1, <1>2, <1>7 DEF D!Migrating, D!Running, D!Doing, Reached, SameTrades
<1>11. Marked' /\ Indexed'
  BY <1>3, <1>7, <1>10, MarkedStays, IndexedStays, SameRowsAre DEF DbInv
<1>12. Labelling'
  <2>1. dbfile.stamp = Absent
    BY <1>2 DEF DbInv, Place
  <2> QED BY <1>1, <1>2, <1>3, <1>5, <1>7, <1>10, <2>1, FreshStamp
<1> QED BY <1>7, <1>8, <1>9, <1>11, <1>12 DEF DbInv

LEMMA ResetBalanceKeeps == ASSUME DatabaseConstants, DbInv, D!ResetBalance PROVE DbInv'
<1>1. "balance" \in D!Jobs /\ D!Final("balance") = 10 /\ "balance" # Absent /\ "reset" # Absent
      /\ "engine" # Absent /\ "balance" # "engine"
  BY DEF D!Jobs, D!Final, DatabaseConstants
<1>2. job = "balance" /\ dbStep = 10 /\ job' = Absent /\ dbStep' = Absent
  BY <1>1, ProceedsFrom DEF D!ResetBalance
<1>3. /\ UNCHANGED <<dotenv, copies, copied, time, torn, labels, unsaved>>
      /\ base' = D!Pnl(dbfile.trades)
  BY DEF D!ResetBalance
<1>4. dbfile' = [cols |-> dbfile.cols, trades |-> dbfile.trades, shadows |-> dbfile.shadows,
                 index |-> dbfile.index, balance |-> StartMoney, stamp |-> dbfile.stamp]
  BY DEF D!ResetBalance, DbInv, IsDbFile
<1>5. /\ IsDbFile(dbfile') /\ dbfile'.cols = dbfile.cols /\ dbfile'.trades = dbfile.trades
      /\ dbfile'.shadows = dbfile.shadows /\ dbfile'.index = dbfile.index
      /\ dbfile'.balance = StartMoney /\ dbfile'.stamp = dbfile.stamp
  BY <1>4, FileParts, FileIs DEF DbInv, DatabaseConstants
<1>6. time \in Nat /\ time >= 1 /\ dotenv \in EpochLabels
  BY DEF DbInv, Place
<1>7. Place'
  BY <1>1, <1>2, <1>3, <1>6 DEF Place, Reached
<1>8. Money'
  <2>1. D!Pnl(dbfile.trades) \in Int
    BY FileParts, PnlIsInt DEF DbInv
  <2> QED BY <1>3, <1>5, <2>1 DEF Money, DatabaseConstants
<1>9. Saved'
  BY <1>1, <1>2, <1>3, <1>5 DEF DbInv, Saved, DatabaseConstants, D!Jobs
<1>10. ~D!Migrating(8) /\ ~D!Migrating(8)' /\ ~D!Running /\ (Reached(10)' => Reached(10)) /\ SameTrades
       /\ ~D!Migrating(2) /\ ~D!Migrating(2)' /\ ~D!Migrating(4) /\ ~D!Migrating(4)'
  BY <1>1, <1>2, <1>5 DEF D!Migrating, D!Running, D!Doing, Reached, SameTrades
<1>11. Marked' /\ Indexed'
  BY <1>3, <1>5, <1>10, MarkedStays, IndexedStays, SameRowsAre DEF DbInv
<1>12. Labelling'
  <2>1. Edge = time /\ Edge' = time + 1
    BY <1>1, <1>2, <1>3, <1>6, <1>10 DEF Edge
  <2> QED BY <1>3, <1>5, <1>6, <1>10, <2>1, LabellingStays, SameRowsAre DEF DbInv
<1> QED BY <1>5, <1>7, <1>8, <1>9, <1>11, <1>12 DEF DbInv

--------------------------------------------------------------------------------
(* Processes come and go.                                                  *)

LEMMA ProcessStarts == ASSUME DatabaseConstants, DbInv, D!Start PROVE DbInv'
<1>1. /\ job = Absent /\ job' \in D!Jobs /\ dbStep' = D!First(job') /\ time' = time + 1
      /\ dotenv' \in EpochLabels /\ copied' = {}
      /\ UNCHANGED <<dbfile, copies, torn, labels, unsaved, base>>
  BY DEF D!Start
<1>2. time \in Nat /\ time >= 1
  BY <1>1 DEF DbInv, Place
<1>3. /\ dbStep' \in 0 .. 1 /\ job' # Absent /\ D!First(job') \in Int /\ D!Final(job') \in Int
      /\ D!First(job') <= D!Final(job')
  BY <1>1 DEF D!First, D!Final, D!Jobs, DatabaseConstants
<1>4. Place'
  BY <1>1, <1>2, <1>3 DEF DbInv, Place, Reached
<1>5. IsDbFile(dbfile)' /\ Money' /\ Saved'
  BY <1>1 DEF DbInv, Money, Saved, D!Parts
<1>6. ~D!Migrating(8) /\ ~D!Migrating(8)' /\ ~Reached(10)' /\ ~D!Running'
      /\ ~D!Migrating(2) /\ ~D!Migrating(2)' /\ ~D!Migrating(4) /\ ~D!Migrating(4)'
  BY <1>1, <1>3 DEF D!Migrating, Reached, D!Running, D!Doing
<1>7. Marked' /\ Indexed'
  BY <1>1, <1>6, MarkedStays, IndexedStays, SameRowsAre DEF DbInv, SameTrades
<1>8. Labelling'
  <2>1. Edge = time + 1 /\ Edge' = time + 1
    BY <1>1, <1>2, <1>3, <1>6 DEF Edge
  <2> QED BY <1>1, <1>2, <1>6, <2>1, LabellingStays, SameRowsAre DEF DbInv
<1> QED BY <1>4, <1>5, <1>7, <1>8 DEF DbInv

\* A death between a column and its rows leaves the column torn.
LEMMA ProcessDies == ASSUME DatabaseConstants, DbInv, D!Die PROVE DbInv'
<1>1. /\ job # Absent /\ job' = Absent /\ dbStep' = Absent
      /\ torn' = torn \cup {c \in D!Columns : D!Migrating(D!AddOf(c) + 1)}
      /\ UNCHANGED <<dbfile, dotenv, copies, copied, time, labels, unsaved, base>>
  BY DEF D!Die
<1>2. /\ \A c \in torn : c \in torn'
      /\ D!Migrating(2) => "margin" \in torn'
      /\ D!Migrating(4) => "clip" \in torn'
      /\ D!Migrating(8) => "epoch" \in torn'
  BY <1>1, ColumnSteps DEF D!Columns
<1>3. time \in Nat /\ time >= 1 /\ dotenv \in EpochLabels
  BY DEF DbInv, Place
<1>4. "engine" # Absent /\ "reset" # Absent
  BY DEF DatabaseConstants, D!Jobs
<1>5. Place'
  BY <1>1, <1>3, <1>4 DEF Place, Reached
<1>6. IsDbFile(dbfile)' /\ Money' /\ Saved'
  BY <1>1, <1>4 DEF DbInv, Money, Saved
<1>7. ~D!Migrating(8)' /\ ~D!Migrating(2)' /\ ~D!Migrating(4)' /\ (Reached(10)' => Reached(10))
  BY <1>1 DEF D!Migrating, Reached
<1>8. Marked'
  <2>1. /\ "margin" \notin torn' => "margin" \notin torn /\ ~D!Migrating(2)
        /\ "clip" \notin torn' => "clip" \notin torn /\ ~D!Migrating(4)
    BY <1>2
  <2> QED BY <1>1, <1>7, <2>1 DEF DbInv, Marked
<1>9. Indexed'
  BY <1>1, <1>7, IndexedStays, SameRowsAre DEF DbInv
<1>10. Labelling'
  <2>1. Edge \in Int /\ Edge <= time + 1 /\ Edge' = time + 1
    BY <1>1, <1>3 DEF Edge
  <2> QED BY <1>1, <1>2, <1>3, <1>7, <2>1, LabellingStays, SameRowsAre DEF DbInv
<1> QED BY <1>5, <1>6, <1>8, <1>9, <1>10 DEF DbInv

\* A checkpoint moves what is there from one part of the file to the other.
LEMMA CheckpointKeeps == ASSUME DatabaseConstants, DbInv, D!Checkpoint PROVE DbInv'
<1>1. UNCHANGED <<dbfile, dotenv, job, dbStep, copies, copied, time, torn, labels, unsaved, base>>
  BY DEF D!Checkpoint
<1> QED BY <1>1 DEF DbInv, Place, Reached, Money, Saved, Marked, Indexed, Labelling, Edge,
                    D!Migrating, D!Running, D!Doing

LEMMA DbKeeps == ASSUME DatabaseConstants, DbInv, [D!Next]_D!vars PROVE DbInv'
<1>1. ASSUME NEW c \in D!Columns, D!AddColumn(c) \/ D!FillColumn(c) PROVE DbInv'
  BY <1>1, MigrateStep
<1>2. CASE UNCHANGED D!vars
  <2>1. UNCHANGED <<dbfile, dotenv, job, dbStep, copies, copied, time, torn, labels, unsaved, base>>
    BY <1>2 DEF D!vars
  <2> QED BY <2>1 DEF DbInv, Place, Reached, Money, Saved, Marked, Indexed, Labelling, Edge,
                      D!Migrating, D!Running, D!Doing
<1> QED BY <1>1, <1>2, IndexStep, EnsureBalanceKeeps, EnsureEpochKeeps, BookKeeps, TrackKeeps,
           TickKeeps, CheckpointKeeps, ArtifactKeeps, ClearKeeps, NewBalanceKeeps, NewStampKeeps,
           ResetBalanceKeeps, ProcessStarts, ProcessDies DEF D!Next

\* A file an older version left.
LEMMA DbBegins == ASSUME DatabaseConstants, D!Init PROVE DbInv /\ DatabaseRuns
<1>1. /\ IsOldFile(dbfile) /\ dotenv \in EpochLabels /\ job = Absent /\ dbStep = Absent
      /\ copies = {} /\ copied = {} /\ time = 1 /\ torn = {} /\ labels = {} /\ unsaved = {}
      /\ base = D!Pnl(dbfile.trades) + StartMoney
                - (IF dbfile.balance = Absent THEN StartMoney ELSE dbfile.balance)
  BY DEF D!Init, DatabaseConstants
<1>2. IsDbFile(dbfile) /\ DatabaseRuns
  BY <1>1 DEF IsOldFile, DatabaseRuns, DatabaseConstants
<1>3. "engine" # Absent /\ "reset" # Absent
  BY DEF DatabaseConstants, D!Jobs
<1>4. Place
  BY <1>1, <1>3 DEF Place, Reached
<1>5. Money
  <2>1. D!Pnl(dbfile.trades) \in Int
    BY <1>2, FileParts, PnlIsInt
  <2>2. dbfile.balance \in Int \cup {Absent}
    BY <1>2, FileParts
  <2> QED BY <1>1, <2>1, <2>2 DEF Money, DatabaseConstants
<1>6. Saved
  BY <1>1, <1>3 DEF Saved
<1>7. ~Reached(10) /\ ~D!Migrating(2) /\ ~D!Migrating(4) /\ ~D!Migrating(8)
  BY <1>1 DEF Reached, D!Migrating
<1>8. Marked
  <2>1. \A t \in dbfile.trades : t.at > 0 =>
           t.margin = TRUE /\ t.clip = "none" /\ {"margin", "clip"} \subseteq dbfile.cols
    BY <1>1 DEF IsOldFile
  <2>2. /\ "margin" \in dbfile.cols => \A t \in dbfile.trades : t.margin = TRUE
        /\ "clip" \in dbfile.cols => \A t \in dbfile.trades : t.clip = "legacy" <=> t.at = 0
    BY <1>1 DEF IsOldFile
  <2> QED BY <1>7, <2>1, <2>2 DEF Marked
<1>9. Indexed
  <2>1. \A i \in DOMAIN dbfile.shadows : dbfile.shadows[i].at <= 1
    BY <1>1 DEF IsOldFile
  <2>2. {k \in DOMAIN dbfile.shadows : dbfile.shadows[k].at <= 1} = DOMAIN dbfile.shadows
    BY <2>1
  <2> QED BY <1>7, <2>1, <2>2 DEF Indexed, D!Unique
<1>10. Labelling
  <2>1. Edge = 2
    BY <1>1 DEF Edge
  <2>2. dbfile.stamp # Absent => dbfile.stamp.label # 0 /\ dbfile.stamp.since \in Nat
    BY <1>2, FileParts DEF Stamps, DatabaseConstants
  <2>3. \A i \in DOMAIN dbfile.shadows : dbfile.shadows[i].at \in Nat
    BY <1>2, RowsOfFile
  <2> QED BY <1>1, <2>1, <2>2, <2>3 DEF Labelling, IsOldFile
<1> QED BY <1>2, <1>4, <1>5, <1>6, <1>8, <1>9, <1>10 DEF DbInv

--------------------------------------------------------------------------------
\* What the file is when the engine runs.
LEMMA EpochsAreApart == ASSUME DatabaseConstants, DbInv PROVE D!EpochsApart
<1> SUFFICES ASSUME D!Running PROVE D!EpochsApart
  BY DEF D!EpochsApart
<1>1. job = "engine" /\ dbStep = 12 /\ "engine" # Absent
  BY DEF D!Running, D!Doing, DatabaseConstants, D!Jobs
<1>2. dbfile.stamp # Absent /\ "epoch" \in dbfile.cols /\ ~D!Migrating(8)
  BY <1>1 DEF DbInv, Place, Reached, D!Migrating
<1>3. ASSUME NEW i \in DOMAIN dbfile.shadows
      PROVE  /\ dbfile.stamp.label \notin labels /\ dbfile.shadows[i].label = dbfile.stamp.label
                  => dbfile.shadows[i].at >= dbfile.stamp.since
             /\ "epoch" \notin torn /\ dbfile.shadows[i].at >= dbfile.stamp.since
                  => dbfile.shadows[i].label = dbfile.stamp.label
  BY <1>2 DEF DbInv, Labelling
<1> QED BY <1>3 DEF D!EpochsApart

LEMMA FileWhole == ASSUME DatabaseConstants, DbInv PROVE D!ResetIsWhole /\ D!MigratedOnce
<1>1. D!Running => job = "engine" /\ dbStep = 12 /\ "engine" # Absent
  BY DEF D!Running, D!Doing, DatabaseConstants, D!Jobs
<1>2. D!ResetIsWhole
  BY <1>1 DEF D!ResetIsWhole, DbInv, Place, Money, Saved
<1>3. D!MigratedOnce
  <2> SUFFICES ASSUME D!Running PROVE D!MigratedOnce
    BY DEF D!MigratedOnce
  <2>1. {"margin", "clip", "bar", "epoch"} \subseteq dbfile.cols /\ ~D!Migrating(2) /\ ~D!Migrating(4)
    BY <1>1 DEF DbInv, Place, Reached, D!Migrating
  <2>2. \A t \in dbfile.trades :
           /\ "clip" \notin torn => (t.clip = "legacy" <=> t.at = 0)
           /\ t.at > 0 => t.clip = "none"
           /\ "margin" \notin torn => t.margin
    BY <2>1 DEF DbInv, Marked
  <2>3. ASSUME NEW i \in DOMAIN dbfile.shadows, NEW j \in DOMAIN dbfile.shadows, i # j,
               dbfile.shadows[i].bar = dbfile.shadows[j].bar
        PROVE  ~D!DistinctIn(dbfile.shadows, {k \in DOMAIN dbfile.shadows : dbfile.shadows[k].at <= 1})
    <3>1. ~D!Unique(dbfile.shadows)
      BY <2>3 DEF D!Unique, D!DistinctIn
    <3> QED BY <3>1 DEF DbInv, Indexed
  <2> QED BY <2>2, <2>3 DEF D!MigratedOnce
<1> QED BY <1>2, <1>3

LEMMA DatabaseStays == ASSUME DatabaseConstants PROVE OperatorSpec => [](DatabaseRuns => DbInv)
<1> DEFINE Inv == DatabaseRuns => DbInv
<1>1. OperatorInit => Inv
  BY DbBegins DEF OperatorInit, DatabaseParked, DatabaseRuns
<1>2. Inv /\ [OperatorNext]_operatorVars => Inv'
  <2> SUFFICES ASSUME Inv, [OperatorNext]_operatorVars, DatabaseRuns' PROVE DbInv'
    OBVIOUS
  <2>1. CASE DatabaseStep
    BY <2>1, DbKeeps DEF DatabaseStep
  <2>2. CASE ~DatabaseStep
    <3>1. UNCHANGED D!vars
      BY <2>2 DEF OperatorNext, AccountStep, AlertsStep, EnvStep, operatorVars, dbVars, D!vars
    <3>2. DatabaseRuns
      BY <3>1 DEF DatabaseRuns, D!vars
    <3> QED BY <3>1, <3>2, DbKeeps
  <2> QED BY <2>1, <2>2
<1> QED BY <1>1, <1>2, PTL DEF OperatorSpec

\* The learner counts the rows of this epoch and no other: a counted row was tracked
\* since the stamp, and a row tracked since is counted, whatever an older version left and
\* wherever a start or a reset died.
THEOREM EpochsStayApart == ASSUME DatabaseConstants PROVE OperatorSpec => []EpochsApart
<1>1. (DatabaseRuns => DbInv) => EpochsApart
  BY EpochsAreApart DEF EpochsApart
<1> QED BY <1>1, DatabaseStays, PTL

\* The engine that runs finds a stamp and a balance that is the last reset and the trades
\* since; no trade is cleared that the artifacts miss, if both parts of the file could be
\* copied; and the migration marks a row once.
THEOREM FileStaysWhole == ASSUME DatabaseConstants PROVE OperatorSpec => []FileIsWhole
<1>1. (DatabaseRuns => DbInv) => FileIsWhole
  BY FileWhole DEF FileIsWhole
<1> QED BY <1>1, DatabaseStays, PTL

================================================================================
