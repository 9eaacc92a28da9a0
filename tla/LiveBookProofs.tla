----------------------------- MODULE LiveBookProofs -----------------------------
(***************************************************************************)
(* Proofs about the book of live trades, for every set of symbols and any  *)
(* number of trades and restarts, with and without order-fetch failures;   *)
(* and about what the closed trades and the shadow rows decide and report  *)
(* (Evidence), for every set of rows, candidates, labels and closes.       *)
(***************************************************************************)
EXTENDS LiveBook, Evidence, SetSums, NaturalsInduction, SequenceTheorems, TLAPS

\* The trades whose row is OPEN or may yet be written back as OPEN.
Held == OpenRows \cup copies \cup (IF epc = "record" THEN {cur} ELSE {})

\* At most one of them per symbol: what a stale write-back can resurrect never
\* shares its symbol with another trade.
OneHeld == \A t, u \in Held : symOf[t] = symOf[u] => t = u

\* The engine has not closed the row of a copy it still holds, and the entry it is
\* about to record has no row yet.
Fresh ==
    /\ \A t \in copies : rows[t] # [st |-> "CLOSED", by |-> "engine"]
    /\ epc = "record" => cur \in 1 .. sent /\ rows[cur].st = "none"
    /\ epc \in {"record", "panicExchange"} => copies = {}

\* Every sent entry has a symbol.
Assigned == \A t \in 1 .. sent : symOf[t] \in Symbols

\* Ghosts are found and closed within one pass.
Closing == rpc # "ghosts" => ghosts = {}

IInv == TypeOK /\ OneHeld /\ Fresh /\ Assigned /\ Closing

--------------------------------------------------------------------------------
\* The invariant of the book holds before the first entry is sent.
THEOREM InitInv == Init => IInv
<1> SUFFICES ASSUME Init PROVE IInv
  OBVIOUS
<1> USE BookAssumption DEF Init
<1>1. OpenRows = {} /\ Held = {}
  BY DEF OpenRows, Held, NoRow
<1>2. rows \in [Trades -> [st : {"none", "OPEN", "CLOSED"}, by : {"none", "engine", "pass"}]]
  BY DEF NoRow
<1>3. stops \in [Symbols -> SUBSET (Trades \X {"entry", "pass"})]
  OBVIOUS
<1>4. \A t \in Trades : rows[t].st = "none"
  BY DEF NoRow
<1>5. /\ sent \in 0 .. MaxTrades /\ crashes \in 0 .. MaxCrashes /\ cur \in 0 .. sent
      /\ pos \in [Symbols -> 0 .. MaxTrades]
      /\ symOf \in [Trades -> Symbols \cup {"none"}]
  OBVIOUS
<1>6. TypeOK
  BY <1>2, <1>3, <1>4, <1>5 DEF TypeOK
<1> QED BY <1>1, <1>6 DEF IInv, OneHeld, Fresh, Assigned, Closing

\* What only lets go of trades keeps them apart.
LEMMA LettingGo ==
  ASSUME OneHeld, Held' \subseteq Held, symOf' = symOf
  PROVE  OneHeld'
  BY DEF OneHeld

\* The pass, as seen by the engine's trades: it closes OPEN rows and nothing else.
PassOnly ==
    /\ UNCHANGED <<sent, symOf, engineVars>>
    /\ \A t \in Trades :
          rows'[t] = rows[t] \/ (rows[t].st = "OPEN" /\ rows'[t] = [st |-> "CLOSED", by |-> "pass"])

LEMMA PassKeeps ==
  ASSUME IInv, PassOnly
  PROVE  (OneHeld /\ Fresh /\ Assigned)'
<1>1. Held' \subseteq Held
  BY DEF Held, OpenRows, PassOnly, engineVars
<1>2. OneHeld'
  BY <1>1, LettingGo DEF IInv, PassOnly
<1>3. Fresh'
  <2>1. copies \subseteq Trades /\ (epc = "record" => cur \in Trades)
    BY BookAssumption DEF IInv, TypeOK, Fresh, Trades
  <2>2. \A t \in Trades : rows'[t] = [st |-> "CLOSED", by |-> "engine"] => rows[t] = rows'[t]
    BY DEF PassOnly
  <2>3. \A t \in Trades : rows[t].st = "none" => rows'[t].st = "none"
    BY DEF PassOnly
  <2> QED BY <2>1, <2>2, <2>3 DEF IInv, Fresh, PassOnly, engineVars
<1>4. Assigned'
  BY DEF IInv, Assigned, PassOnly
<1> QED BY <1>2, <1>3, <1>4

--------------------------------------------------------------------------------
(* One lemma for each action that writes what the invariant is about.      *)

LEMMA SendKeeps ==
  ASSUME IInv, NEW s \in Symbols, SendEntry(s) \/ SimulateEntry(s)
  PROVE  IInv'
<1> USE BookAssumption
<1>e. /\ epc = "idle" /\ sent < MaxTrades /\ NotDuplicate(s)
      /\ sent' = sent + 1 /\ symOf' = [symOf EXCEPT ![sent'] = s]
      /\ UNCHANGED <<rows, copies, doomed, passVars, crashes>>
      /\ tripped' \in BOOLEAN /\ epc' \in {"idle", "record"} /\ cur' \in {cur, sent'}
      /\ epc' = "record" => cur' = sent'
  BY DEF SendEntry, SimulateEntry, IInv, TypeOK
<1>0. sent \in Nat /\ sent' \in Nat /\ sent' \in Trades /\ copies = {} /\ copies' = {}
  BY <1>e DEF IInv, TypeOK, Trades
<1>1. /\ symOf'[sent'] = s
      /\ \A t \in Trades : t # sent' => symOf'[t] = symOf[t]
  BY <1>0, <1>e DEF IInv, TypeOK
<1>2. rows' = rows /\ OpenRows' = OpenRows /\ \A t \in OpenRows : t <= sent /\ symOf[t] # s
  BY <1>e DEF OpenRows, NotDuplicate, Booked, IInv, TypeOK
<1>3. TypeOK'
  <2>1. pos' \in [Symbols -> 0 .. MaxTrades]
    <3>1. pos' = pos \/ pos' = [pos EXCEPT ![s] = sent']
      BY DEF SendEntry, SimulateEntry
    <3> QED BY <1>0, <3>1 DEF IInv, TypeOK, Trades
  <2>2. stops' \in [Symbols -> SUBSET (Trades \X {"entry", "pass"})]
    BY <1>0 DEF SendEntry, SimulateEntry, IInv, TypeOK
  <2>3. symOf' \in [Trades -> Symbols \cup {"none"}]
    BY <1>0, <1>e DEF IInv, TypeOK
  <2>4. sent' \in 0 .. MaxTrades /\ cur' \in 0 .. sent' /\ seenRows' \subseteq 1 .. sent'
    BY <1>0, <1>e DEF IInv, TypeOK, passVars
  <2>5. \A t \in Trades : rows'[t].st # "none" => t <= sent'
    BY <1>0, <1>e, <1>2 DEF IInv, TypeOK, Trades
  <2> QED BY <1>0, <1>e, <2>1, <2>2, <2>3, <2>4, <2>5 DEF IInv, TypeOK, passVars
<1>4. OneHeld'
  <2>1. Held = OpenRows
    BY <1>0, <1>e DEF Held
  <2>2. Held' \subseteq OpenRows \cup {sent'}
    BY <1>0, <1>e, <1>2 DEF Held
  <2>3. \A t \in OpenRows : t \in Trades /\ t # sent'
    BY <1>0, <1>e, <1>2 DEF OpenRows, Trades
  <2>4. \A t \in OpenRows : symOf'[t] = symOf[t] /\ symOf'[t] # symOf'[sent']
    BY <1>1, <1>2, <2>3
  <2> QED BY <2>1, <2>2, <2>4 DEF OneHeld, IInv
<1>5. Fresh'
  <2>1. rows[sent'].st = "none"
    BY <1>0, <1>e DEF IInv, TypeOK, Trades
  <2> QED BY <1>0, <1>e, <1>2, <2>1 DEF Fresh
<1>6. Assigned'
  <2>1. ASSUME NEW t \in 1 .. sent' PROVE symOf'[t] \in Symbols
    <3>1. t = sent' \/ (t \in 1 .. sent /\ t \in Trades /\ t # sent')
      BY <1>0, <1>e DEF IInv, TypeOK, Trades
    <3> QED BY <1>1, <3>1 DEF IInv, Assigned
  <2> QED BY <2>1 DEF Assigned
<1>7. Closing'
  BY <1>e DEF IInv, Closing, passVars
<1> QED BY <1>3, <1>4, <1>5, <1>6, <1>7 DEF IInv

LEMMA RecordKeeps ==
  ASSUME IInv, RecordOpen
  PROVE  IInv'
<1> USE BookAssumption
<1>1. cur \in 1 .. sent /\ cur \in Trades /\ copies = {} /\ copies' = {} /\ epc' = "idle"
  BY DEF IInv, Fresh, RecordOpen, TypeOK, Trades
<1>2. TypeOK'
  BY <1>1 DEF IInv, TypeOK, RecordOpen, passVars
<1>3. Held' \subseteq Held
  BY <1>1 DEF Held, OpenRows, RecordOpen, IInv, TypeOK
<1>4. OneHeld'
  BY <1>3, LettingGo DEF IInv, RecordOpen
<1>5. Fresh' /\ Assigned'
  BY <1>1 DEF IInv, Fresh, Assigned, RecordOpen
<1> QED BY <1>2, <1>4, <1>5 DEF IInv, Closing, RecordOpen, passVars

LEMMA ReadKeeps ==
  ASSUME IInv, ReadOpen
  PROVE  IInv'
<1> USE BookAssumption
<1>1. OpenRows \subseteq 1 .. sent
  BY DEF OpenRows, IInv, TypeOK, Trades
<1>2. TypeOK'
  BY <1>1 DEF IInv, TypeOK, ReadOpen, passVars
<1>3. Held' \subseteq Held
  BY DEF Held, OpenRows, ReadOpen
<1>4. OneHeld'
  BY <1>3, LettingGo DEF IInv, ReadOpen
<1>5. Fresh' /\ Assigned'
  BY DEF IInv, Fresh, Assigned, ReadOpen, OpenRows
<1> QED BY <1>2, <1>4, <1>5 DEF IInv, Closing, ReadOpen, passVars

\* Writing a copy back, as OPEN or CLOSED, and letting go of it.
LEMMA WriteBackKeeps ==
  ASSUME IInv, NEW t \in Trades,
         ManageOne(t) \/ FlattenBook(t) \/ PanicBook(t)
  PROVE  IInv'
<1> USE BookAssumption
<1>1. /\ t \in 1 .. sent /\ t \in copies /\ copies' = copies \ {t}
      /\ epc' \in {"idle", "manage", "flattenExchange", "panic", "panicExchange"}
      /\ epc' \in {"idle", "panicExchange"} => copies' = {}
  BY DEF IInv, TypeOK, ManageOne, FlattenBook, PanicBook, Handled
<1>2. \/ rows' = rows
      \/ rows' = [rows EXCEPT ![t] = [st |-> "OPEN", by |-> "engine"]]
      \/ rows' = [rows EXCEPT ![t] = [st |-> "CLOSED", by |-> "engine"]]
  BY DEF ManageOne, FlattenBook, PanicBook, Upsert
<1>3. \A u \in Trades : u # t => rows'[u] = rows[u]
  BY <1>2 DEF IInv, TypeOK
<1>u. UNCHANGED <<sent, symOf, pos, stops, cur, tripped, passVars, crashes>>
  BY DEF ManageOne, FlattenBook, PanicBook
<1>4. TypeOK'
  <2>1. rows' \in [Trades -> [st : {"none", "OPEN", "CLOSED"}, by : {"none", "engine", "pass"}]]
    BY <1>2 DEF IInv, TypeOK
  <2>2. \A u \in Trades : rows'[u].st # "none" => u <= sent
    BY <1>1, <1>2 DEF IInv, TypeOK
  <2>3. doomed' \subseteq Symbols
    <3>1. symOf[t] \in Symbols
      BY <1>1 DEF IInv, Assigned
    <3> QED BY <3>1 DEF IInv, TypeOK, ManageOne, FlattenBook, PanicBook
  <2> QED BY <1>1, <1>u, <2>1, <2>2, <2>3 DEF IInv, TypeOK, passVars
<1>5. Held' \subseteq Held
  BY <1>1, <1>3 DEF Held, OpenRows
<1>6. OneHeld'
  BY <1>5, <1>u, LettingGo DEF IInv
<1>7. Fresh'
  BY <1>1, <1>3 DEF IInv, Fresh, TypeOK, Trades
<1>8. Assigned' /\ Closing'
  BY <1>u DEF IInv, Assigned, Closing, passVars
<1> QED BY <1>4, <1>6, <1>7, <1>8 DEF IInv

LEMMA DoomedTyped ==
  ASSUME TypeOK, FlattenDoomed
  PROVE  /\ pos' \in [Symbols -> 0 .. MaxTrades]
         /\ stops' \in [Symbols -> SUBSET (Trades \X {"entry", "pass"})]
  BY BookAssumption DEF TypeOK, FlattenDoomed

LEMMA FlattenKeeps ==
  ASSUME IInv, FlattenExchange \/ PanicExchange
  PROVE  IInv'
<1> USE BookAssumption
<1>1. /\ copies' = copies /\ doomed' = {} /\ tripped' \in BOOLEAN
      /\ epc' \in {"idle", "flatten"} /\ (epc' = "idle" => copies = {})
      /\ UNCHANGED <<sent, symOf, rows, cur, passVars, crashes>>
  BY DEF IInv, TypeOK, Fresh, FlattenExchange, PanicExchange
<1>2. /\ pos' \in [Symbols -> 0 .. MaxTrades]
      /\ stops' \in [Symbols -> SUBSET (Trades \X {"entry", "pass"})]
  <2>1. FlattenDoomed \/ UNCHANGED <<pos, stops>>
    BY DEF FlattenExchange, PanicExchange
  <2> QED BY <2>1, DoomedTyped DEF IInv, TypeOK
<1>3. TypeOK'
  BY <1>1, <1>2 DEF IInv, TypeOK, passVars
<1>4. Held' \subseteq Held
  BY <1>1 DEF Held, OpenRows
<1>5. OneHeld'
  BY <1>1, <1>4, LettingGo DEF IInv
<1>6. Fresh' /\ Assigned' /\ Closing'
  BY <1>1 DEF IInv, Fresh, Assigned, Closing, passVars
<1> QED BY <1>3, <1>5, <1>6 DEF IInv

LEMMA CloseGhostKeeps ==
  ASSUME IInv, NEW t \in Trades, CloseGhost(t)
  PROVE  IInv'
<1> USE BookAssumption
<1>1. TypeOK'
  BY DEF IInv, TypeOK, CloseGhost, StillOpen, engineVars, Trades
<1>2. PassOnly
  BY DEF PassOnly, CloseGhost, StillOpen, IInv, TypeOK
<1>3. Closing'
  BY DEF Closing, CloseGhost
<1> QED BY <1>1, <1>2, <1>3, PassKeeps DEF IInv

LEMMA PassStepKeeps ==
  ASSUME IInv,
         FetchPositions \/ ReadTrades \/ FetchOrders \/ AlertUnknown \/ EndPass \/ PassFails
           \/ \E t \in Trades : PlaceStop(t)
  PROVE  IInv'
<1> USE BookAssumption
<1>1. PassOnly
  BY DEF FetchPositions, ReadTrades, FetchOrders, AlertUnknown, EndPass, PassFails, PlaceStop,
     PassOnly
<1>2. TypeOK'
  <2>1. CASE FetchPositions
    BY <2>1 DEF IInv, TypeOK, FetchPositions, engineVars
  <2>2. CASE ReadTrades
    <3>1. OpenRows \subseteq 1 .. sent /\ ghosts = {}
      BY <2>2 DEF OpenRows, IInv, TypeOK, Trades, Closing, ReadTrades
    <3> QED BY <2>2, <3>1 DEF IInv, TypeOK, ReadTrades, engineVars
  <2>3. CASE FetchOrders
    BY <2>3 DEF IInv, TypeOK, FetchOrders, Ghosts, engineVars
  <2>4. CASE AlertUnknown
    BY <2>4 DEF IInv, TypeOK, AlertUnknown, Unknown, engineVars
  <2>5. CASE EndPass \/ PassFails
    BY <2>5 DEF IInv, TypeOK, EndPass, PassFails, engineVars
  <2>6. CASE \E t \in Trades : PlaceStop(t)
    <3>1. PICK t \in Trades : PlaceStop(t)
      BY <2>6
    <3>2. symOf[t] \in Symbols
      BY <3>1 DEF PlaceStop, Naked, IInv, Assigned, TypeOK
    <3>3. stops' \in [Symbols -> SUBSET (Trades \X {"entry", "pass"})] /\ alerts' \subseteq Symbols
      BY <3>1, <3>2 DEF PlaceStop, IInv, TypeOK
    <3>4. ghosts' \subseteq seenRows'
      BY <3>1 DEF PlaceStop, IInv, TypeOK, Closing
    <3> QED BY <3>1, <3>3, <3>4 DEF PlaceStop, IInv, TypeOK, engineVars
  <2> QED BY <2>1, <2>2, <2>3, <2>4, <2>5, <2>6
<1>3. Closing'
  BY DEF IInv, Closing, FetchPositions, ReadTrades, FetchOrders, AlertUnknown, EndPass, PassFails,
     PlaceStop
<1> QED BY <1>1, <1>2, <1>3, PassKeeps DEF IInv

LEMMA OutsideKeeps ==
  ASSUME IInv, Crash \/ \E s \in Symbols : ClosedOnExchange(s) \/ StopVanishes(s)
  PROVE  IInv'
<1> USE BookAssumption
<1>1. CASE Crash
  <2>1. TypeOK'
    <3>1. crashes' \in 0 .. MaxCrashes
      BY <1>1 DEF IInv, TypeOK, Crash
    <3>2. cur' = 0 /\ sent' = sent /\ 0 \in 0 .. sent
      BY <1>1 DEF IInv, TypeOK, Crash
    <3> QED BY <1>1, <3>1, <3>2 DEF IInv, TypeOK, Crash
  <2>2. Held' \subseteq Held
    BY <1>1 DEF Held, OpenRows, Crash
  <2>3. OneHeld'
    BY <1>1, <2>2, LettingGo DEF IInv, Crash
  <2>4. Fresh' /\ Assigned' /\ Closing'
    BY <1>1 DEF IInv, Fresh, Assigned, Closing, Crash
  <2> QED BY <2>1, <2>3, <2>4 DEF IInv
<1>2. CASE \E s \in Symbols : ClosedOnExchange(s) \/ StopVanishes(s)
  <2>1. TypeOK'
    <3>1. /\ pos' \in [Symbols -> 0 .. MaxTrades]
          /\ stops' \in [Symbols -> SUBSET (Trades \X {"entry", "pass"})]
      BY <1>2 DEF IInv, TypeOK, ClosedOnExchange, StopVanishes
    <3>2. UNCHANGED <<sent, symOf, rows, engineVars, passVars, crashes>>
      BY <1>2 DEF ClosedOnExchange, StopVanishes
    <3> QED BY <3>1, <3>2 DEF IInv, TypeOK, engineVars, passVars
  <2>2. PassOnly
    BY <1>2 DEF PassOnly, ClosedOnExchange, StopVanishes
  <2>3. Closing'
    BY <1>2 DEF IInv, Closing, ClosedOnExchange, StopVanishes, passVars
  <2> QED BY <2>1, <2>2, <2>3, PassKeeps DEF IInv
<1> QED BY <1>1, <1>2

--------------------------------------------------------------------------------
\* Every step of the engine, the pass and the outside keeps the invariant.
THEOREM StepInv == IInv /\ [Next]_vars => IInv'
<1> SUFFICES ASSUME IInv, [Next]_vars PROVE IInv'
  OBVIOUS
<1>1. CASE Engine
  BY <1>1, SendKeeps, RecordKeeps, ReadKeeps, WriteBackKeeps, FlattenKeeps DEF Engine
<1>2. CASE Pass \/ Environment
  BY <1>2, CloseGhostKeeps, PassStepKeeps, OutsideKeeps DEF Pass, Environment
<1>3. CASE UNCHANGED vars
  BY <1>3 DEF vars, engineVars, passVars, IInv, TypeOK, OneHeld, Held, OpenRows, Fresh,
     Assigned, Closing
<1> QED BY <1>1, <1>2, <1>3 DEF Next

\* The invariant of the book holds in every reachable state.
THEOREM Invariant == Spec => []IInv
  BY InitInv, StepInv, PTL DEF Spec

\* Every reachable state of engine, pass and exchange is well typed.
THEOREM TypeCorrect == Spec => []TypeOK
<1>1. IInv => TypeOK
  BY DEF IInv
<1> QED BY <1>1, Invariant, PTL

\* No interleaving of sends, stale write-backs, passes and restarts opens a second
\* row on a symbol.
THEOREM OneOpen == Spec => []OneOpenPerSymbol
<1>1. IInv => OneOpenPerSymbol
  BY DEF IInv, OneHeld, Held, OneOpenPerSymbol
<1> QED BY <1>1, Invariant, PTL

\* The closes the engine booked survive every later step.
FinalStep ==
    \A t \in Trades : rows[t] = [st |-> "CLOSED", by |-> "engine"] => rows'[t] = rows[t]

\* Neither the pass, which may have read the row while it was open, nor the engine
\* itself overwrites a close the engine booked.
THEOREM CloseIsFinal == Spec => EngineCloseIsFinal
<1>1. ASSUME IInv, Next PROVE FinalStep
  <2> USE <1>1, BookAssumption
  <2>1. CASE RecordOpen
    BY <2>1 DEF RecordOpen, IInv, Fresh, TypeOK, FinalStep
  <2>2. CASE \E t \in Trades : ManageOne(t)
    BY <2>2 DEF ManageOne, Upsert, IInv, Fresh, TypeOK, FinalStep
  <2>3. CASE \E t \in Trades : FlattenBook(t) \/ PanicBook(t)
    BY <2>3 DEF FlattenBook, PanicBook, Upsert, IInv, Fresh, TypeOK, FinalStep
  <2>4. CASE \E t \in Trades : CloseGhost(t)
    BY <2>4 DEF CloseGhost, StillOpen, IInv, TypeOK, FinalStep
  <2>5. CASE UNCHANGED rows
    BY <2>5 DEF FinalStep
  <2> QED
    BY <2>1, <2>2, <2>3, <2>4, <2>5
       DEF Next, Engine, Pass, Environment, SendEntry, SimulateEntry, ReadOpen,
           FlattenExchange, PanicExchange, FetchPositions, ReadTrades, FetchOrders, AlertUnknown, EndPass, PlaceStop,
           PassFails, Crash, ClosedOnExchange, StopVanishes
<1>2. IInv /\ [Next]_vars => [FinalStep]_vars
  BY <1>1
<1>3. Spec => [][FinalStep]_vars
  BY <1>2, Invariant, PTL DEF Spec
<1> QED BY <1>3 DEF EngineCloseIsFinal, FinalStep

--------------------------------------------------------------------------------
(***************************************************************************)
(* Evidence: what the rows say is a matter of arithmetic. The invariant is *)
(* that rows, coins, trades and slots are counts and the configuration is  *)
(* one of numbers.                                                         *)
(***************************************************************************)
EvidenceConstants ==
    /\ NoFigure \notin Int
    /\ IsFiniteSet(RowShapes)
    /\ \A k \in RowShapes : k.score \in Int /\ k.score < 20000 /\ k.win \in BOOLEAN /\ k.r \in Int
    /\ \A s \in Hopefuls :
          /\ s.factors \in Int /\ s.base \in Int
          /\ s.lean \in Int \cup {NoFigure} /\ s.spread \in Int \cup {NoFigure}
    /\ \A v \in LabelViews :
          /\ v = [setup |-> v.setup, align |-> v.align, stop |-> v.stop, spread |-> v.spread,
                  score |-> v.score]
          /\ v.align \in Int /\ v.score \in Int /\ v.stop \in Nat \ {0}
          /\ v.spread \in Int \cup {NoFigure}
    /\ CoinResults \subseteq Int
    /\ {SoftFrom, RiskFrom, ProfileFrom, LabelFrom} \subseteq Nat \ {0}
    /\ {TightStop, WideStop, RoundTrip, FirstTarget, GradesFrom, SlotLimit} \subseteq Int
    /\ TightStop < WideStop
    /\ FirstBalance \in Int /\ DayLossPct \in Int
    /\ \A t \in CloseShapes : t.pnl \in Int \cup {NoFigure} /\ t.r \in Int

RankTyped ==
    /\ season \in {1, 2}
    /\ evidence \in [1 .. 2 -> [RowShapes -> Nat]]
    /\ coins \in [{s.symbol : s \in Hopefuls} -> [n : Nat, r : Int]]
    /\ apply \in BOOLEAN
    /\ label \in LabelViews \cup {NoFigure}
ReportTyped == history \in Seq(CloseShapes) /\ taken \in Nat /\ today \in Nat

EvidenceInv ==
    /\ RankingRuns => RankTyped
    /\ ReportsRun => RankTyped /\ ReportTyped

LEMMA EvidenceStarts == ASSUME EvidenceConstants, EvidenceInit PROVE EvidenceInv
<1>1. ASSUME P!Init PROVE RankTyped
  BY <1>1 DEF P!Init, RankTyped
<1>2. CASE RankingInit
  BY <1>1, <1>2 DEF RankingInit, ReportsParked, EvidenceInv, RankingRuns, ReportsRun
<1>3. CASE P!ReportInit
  <2>1. RankTyped
    BY <1>1, <1>3 DEF P!ReportInit
  <2>2. ReportTyped
    BY <1>3 DEF P!ReportInit, ReportTyped
  <2> QED BY <2>1, <2>2 DEF EvidenceInv
<1>4. CASE EvidenceParked
  BY <1>4 DEF EvidenceParked, RankParked, ReportsParked, EvidenceInv, RankingRuns, ReportsRun
<1> QED BY <1>2, <1>3, <1>4 DEF EvidenceInit

LEMMA RankingTyped == ASSUME EvidenceConstants, RankTyped, P!Next PROVE RankTyped'
<1>1. CASE P!Resolve
  <2>1. PICK k \in RowShapes : evidence' = [evidence EXCEPT ![season][k] = @ + 1]
    BY <1>1 DEF P!Resolve
  <2>2. evidence' \in [1 .. 2 -> [RowShapes -> Nat]]
    BY <2>1 DEF RankTyped
  <2> QED BY <1>1, <2>2 DEF P!Resolve, RankTyped
<1>2. CASE P!NewEpoch
  BY <1>2 DEF P!NewEpoch, RankTyped
<1>3. CASE P!CoinClosed
  <2>1. PICK x \in DOMAIN coins, r \in CoinResults :
          coins' = [coins EXCEPT ![x] = [n |-> @.n + 1, r |-> @.r + r]]
    BY <1>3 DEF P!CoinClosed
  <2>2. coins' \in [{s.symbol : s \in Hopefuls} -> [n : Nat, r : Int]]
    BY <2>1 DEF RankTyped, EvidenceConstants
  <2> QED BY <1>3, <2>2 DEF P!CoinClosed, RankTyped
<1>4. CASE P!Look
  BY <1>4 DEF P!Look, RankTyped
<1> QED BY <1>1, <1>2, <1>3, <1>4 DEF P!Next

LEMMA ReportsTyped ==
    ASSUME EvidenceConstants, RankTyped, ReportTyped, P!ReportNext PROVE RankTyped' /\ ReportTyped'
<1>1. CASE P!Close
  <2>1. RankTyped'
    BY <1>1 DEF P!Close, P!vars, RankTyped
  <2>2. history' \in Seq(CloseShapes) /\ taken' \in Nat /\ today' \in Nat
    BY <1>1 DEF P!Close, ReportTyped
  <2> QED BY <2>1, <2>2 DEF ReportTyped
<1>2. CASE P!Open
  BY <1>2 DEF P!Open, P!vars, RankTyped, ReportTyped
<1>3. CASE P!NewDay
  BY <1>3 DEF P!NewDay, P!vars, RankTyped, ReportTyped
<1>4. CASE P!RowResolves
  <2>1. P!Next /\ UNCHANGED <<history, taken, today>>
    BY <1>4 DEF P!RowResolves, P!Next, P!reportVars
  <2> QED BY <2>1, RankingTyped DEF ReportTyped
<1>5. CASE P!Reset
  <2>1. P!Next /\ history' = <<>> /\ taken' = 0 /\ today' = 0
    BY <1>5 DEF P!Reset, P!Next
  <2> QED BY <2>1, RankingTyped DEF ReportTyped
<1> QED BY <1>1, <1>2, <1>3, <1>4, <1>5 DEF P!ReportNext

LEMMA EvidenceKept ==
    ASSUME EvidenceConstants, EvidenceInv, [EvidenceNext]_evidenceVars PROVE EvidenceInv'
<1>1. CASE RankingStep
  <2>1. RankTyped'
    BY <1>1, RankingTyped DEF RankingStep, EvidenceInv
  <2>2. ~ReportsRun'
    BY <1>1 DEF RankingStep, RankingRuns, ReportsRun, reportVars
  <2> QED BY <2>1, <2>2 DEF EvidenceInv
<1>2. CASE ReportsStep
  BY <1>2, ReportsTyped DEF ReportsStep, EvidenceInv
<1>3. CASE UNCHANGED evidenceVars
  BY <1>3 DEF evidenceVars, rankVars, reportVars, EvidenceInv, RankTyped, ReportTyped, RankingRuns, ReportsRun
<1> QED BY <1>1, <1>2, <1>3 DEF EvidenceNext

--------------------------------------------------------------------------------
(* Arithmetic.                                                             *)

LEMMA Quotient ==
    ASSUME NEW x \in Int, NEW y \in Nat \ {0}
    PROVE  x \div y \in Int /\ y * (x \div y) <= x /\ x < y * (x \div y) + y
OBVIOUS

LEMMA TimesMonotone ==
    ASSUME NEW a \in Int, NEW b \in Int, NEW k \in Nat, a <= b
    PROVE  a * k <= b * k /\ k * a <= k * b /\ a * k \in Int /\ k * a = a * k
OBVIOUS

\* A quotient above 0 is one of a number above 0.
LEMMA QuotientPositive ==
    ASSUME NEW x \in Int, NEW y \in Nat \ {0}, x \div y > 0
    PROVE  x > 0
<1>1. x \div y \in Int /\ y * (x \div y) <= x
  BY Quotient
<1>2. y * 1 <= y * (x \div y)
  BY <1>1, TimesMonotone
<1> QED BY <1>1, <1>2

\* Unequal quotients are those of unequal fractions.
LEMMA QuotientsOrder ==
    ASSUME NEW x \in Int, NEW m \in Nat \ {0}, NEW y \in Int, NEW n \in Nat \ {0},
           x \div m > y \div n
    PROVE  x * n > y * m
<1> DEFINE p == x \div m
           q == y \div n
<1>1. p \in Int /\ m * p <= x
  BY Quotient
<1>2. q \in Int /\ y < n * q + n
  BY Quotient
<1> HIDE DEF p, q
<1>3. q + 1 <= p
  BY <1>1, <1>2 DEF p, q
<1>4. n * (q + 1) = n * q + n
  BY <1>2
<1>5. y < n * p
  <2>1. n * (q + 1) <= n * p
    BY <1>1, <1>2, <1>3, TimesMonotone
  <2> QED BY <1>1, <1>2, <1>4, <2>1
<1>6. (m * p) * n <= x * n
  BY <1>1, TimesMonotone
<1>7. y * m < (n * p) * m
  <2>1. (y + 1) * m <= (n * p) * m
    BY <1>1, <1>5, TimesMonotone
  <2>2. (y + 1) * m = y * m + m
    OBVIOUS
  <2> QED BY <1>1, <2>1, <2>2
<1>8. (n * p) * m = (m * p) * n
  BY <1>1
<1> QED BY <1>1, <1>6, <1>7, <1>8

\* Of two fractions whose quotients do not fall, the second is hardly below the first.
LEMMA QuotientsFollow ==
    ASSUME NEW x \in Int, NEW m \in Nat \ {0}, NEW y \in Int, NEW n \in Nat \ {0},
           y \div n <= x \div m
    PROVE  (x + m) * n > y * m
<1>1. x + m \in Int /\ (x + m) \div m > y \div n
  <2>1. x \div m \in Int /\ m * (x \div m) <= x /\ x < m * (x \div m) + m /\ y \div n \in Int
    BY Quotient
  <2>2. (x + m) \div m = x \div m + 1
    OBVIOUS
  <2> QED BY <2>1, <2>2
<1> QED BY <1>1, QuotientsOrder

LEMMA ClampFacts ==
    ASSUME NEW x \in Int, NEW low \in Int, NEW high \in Int, low <= high
    PROVE  /\ P!Clamp(low, x, high) \in Int
           /\ low <= P!Clamp(low, x, high) /\ P!Clamp(low, x, high) <= high
           /\ P!Clamp(low, x, high) > 0 /\ low <= 0 => x > 0
BY DEF P!Clamp

--------------------------------------------------------------------------------
(* What the rows say.                                                      *)

LEMMA EvidenceSums == \A f, T : P!SumFunctionOnSet(f, T) = Total(f, T)
BY Zenon DEF P!SumFunctionOnSet, P!FoldFunctionOnSet, P!MapThenFoldSet,
             Total, SumFunctionOnSet, FoldFunctionOnSet, MapThenFoldSet

LEMMA RowFacts ==
    ASSUME EvidenceConstants, RankTyped, NEW T \in SUBSET RowShapes
    PROVE  /\ P!RowsOf(T) \in Nat /\ P!Rows(T) = P!RowsOf(T) /\ P!Sum(T) \in Int
           /\ P!AvgR(T) = IF P!RowsOf(T) = 0 THEN NoFigure ELSE P!Sum(T) \div P!RowsOf(T)
           /\ P!AvgR(T) # NoFigure <=> P!RowsOf(T) > 0
           /\ P!RowsOf(T) > 0 => P!AvgR(T) \in Int
           /\ \A c \in Nat : P!RowsOf(T) > 0 /\ P!AvgR(T) > 0 => P!Sum(T) > 0
<1> DEFINE n == evidence[season]
           w == [k \in T |-> n[k] * k.r]
<1>1. n \in [RowShapes -> Nat] /\ IsFiniteSet(T) /\ \A k \in T : n[k] \in Nat /\ k.r \in Int
  BY FS_Subset DEF RankTyped, EvidenceConstants
<1>2. P!RowsOf(T) = Total(n, T) /\ P!Rows(T) = Total(n, T)
  BY Zenon, EvidenceSums DEF P!RowsOf, P!Rows, P!Resolved
<1>3. P!Sum(T) = Total(w, T)
  BY Zenon, EvidenceSums DEF P!Sum
<1>4. P!AvgR(T) = IF P!RowsOf(T) = 0 THEN NoFigure ELSE P!Sum(T) \div P!RowsOf(T)
  BY Zenon DEF P!AvgR, P!Sum, P!Resolved
<1>5. \A k \in T : w[k] \in Int
  BY <1>1
<1> HIDE DEF n, w
<1>6. Total(n, T) \in Nat
  BY <1>1, TotalIsNat
<1>7. Total(w, T) \in Int
  BY <1>1, <1>5, TotalIsInt
<1>8. P!RowsOf(T) > 0 => P!AvgR(T) \in Int
  BY <1>2, <1>3, <1>4, <1>6, <1>7, Quotient
<1>9. P!RowsOf(T) > 0 /\ P!AvgR(T) > 0 => P!Sum(T) > 0
  BY <1>2, <1>3, <1>4, <1>6, <1>7, QuotientPositive
<1>10. P!AvgR(T) # NoFigure <=> P!RowsOf(T) > 0
  BY <1>2, <1>4, <1>6, <1>8 DEF EvidenceConstants
<1> QED BY <1>2, <1>3, <1>4, <1>6, <1>7, <1>8, <1>9, <1>10

LEMMA Subsets ==
    ASSUME EvidenceConstants
    PROVE  /\ \A x : P!OfSetup(x) \in SUBSET RowShapes
           /\ \A b : P!OfBucket(b) \in SUBSET RowShapes
           /\ P!Tracked \in SUBSET RowShapes
BY DEF P!OfSetup, P!OfBucket, P!Tracked

\* The bucket of a score is one of four, or none; a higher score has no lower bucket.
LEMMA BucketFacts ==
    ASSUME EvidenceConstants, NEW x \in Int, NEW y \in Int, x <= y, y < 20000,
           P!BucketOf(x) # NoFigure, P!BucketOf(y) # NoFigure
    PROVE  /\ P!BucketOf(x) \in 1 .. 4 /\ P!BucketOf(y) \in 1 .. 4
           /\ P!BucketOf(x) <= P!BucketOf(y)
<1> DEFINE In(z) == P!BucketOf(z) \in 1 .. 4 /\ P!InBucket(z, P!BucketOf(z))
<1>1. ASSUME NEW z \in Int, z < 20000, P!BucketOf(z) # NoFigure PROVE In(z)
  <2>1. ~(z < 4500) /\ P!BucketOf(z) = CHOOSE b \in 1 .. 4 : P!InBucket(z, b)
    BY <1>1 DEF P!BucketOf, P!Edges, P!Buckets
  <2>2. \E b \in 1 .. 4 : P!InBucket(z, b)
    <3>1. P!InBucket(z, 1) \/ P!InBucket(z, 2) \/ P!InBucket(z, 3) \/ P!InBucket(z, 4)
      BY <1>1, <2>1 DEF P!InBucket, P!Edges
    <3> QED BY <3>1
  <2> QED BY <2>1, <2>2
<1>2. In(x) /\ In(y)
  BY <1>1
<1>3. P!BucketOf(x) <= P!BucketOf(y)
  BY <1>2 DEF P!InBucket, P!Edges
<1> QED BY <1>2, <1>3

LEMMA ScoreFacts ==
    ASSUME EvidenceConstants, RankTyped, NEW s \in Hopefuls
    PROVE  /\ P!ScoreDelta(s.setup) \in Int /\ P!CoinDelta(s.symbol) \in Int
           /\ P!Built(s) \in Nat /\ P!Score(s) \in Nat /\ P!Score(s) <= 10000
           /\ P!Score(s) > P!Built(s) =>
                 P!ScoreDelta(s.setup) > 0 \/ P!CoinDelta(s.symbol) > 0
<1> DEFINE T == P!OfSetup(s.setup)
           c == coins[s.symbol]
<1>1. T \in SUBSET RowShapes
  BY Subsets
<1>2. P!ScoreDelta(s.setup) \in Int
  <2>1. P!ScoreDelta(s.setup) = IF P!RowsOf(RowShapes) < SoftFrom \/ P!AvgR(T) = NoFigure THEN 0
                                ELSE P!Clamp(-500, P!AvgR(T) * 5, 500)
    BY DEF P!ScoreDelta
  <2>2. P!AvgR(T) # NoFigure => P!AvgR(T) * 5 \in Int
    BY <1>1, RowFacts
  <2> HIDE DEF T
  <2>3. P!AvgR(T) # NoFigure => P!Clamp(-500, P!AvgR(T) * 5, 500) \in Int
    BY <2>2, ClampFacts
  <2> QED BY <2>1, <2>3
<1>3. c.n \in Nat /\ c.r \in Int /\ ProfileFrom \in Nat \ {0}
  BY DEF RankTyped, EvidenceConstants
<1>4. P!CoinDelta(s.symbol) \in Int
  <2>1. P!CoinDelta(s.symbol) = IF c.n < ProfileFrom THEN 0
                                ELSE P!Clamp(-500, (c.r * 3) \div c.n, 500)
    BY DEF P!CoinDelta
  <2> HIDE DEF c
  <2>2. CASE c.n < ProfileFrom
    BY <2>1, <2>2
  <2>3. CASE ~(c.n < ProfileFrom)
    <3>1. c.r * 3 \in Int /\ c.n \in Nat \ {0}
      BY <1>3, <2>3
    <3>2. (c.r * 3) \div c.n \in Int
      BY <3>1, Quotient
    <3> QED BY <2>1, <2>3, <3>2, ClampFacts
  <2> QED BY <2>2, <2>3
<1>5. P!Built(s) \in Nat /\ P!Built(s) <= 10000
  <2> DEFINE factors == IF s.setup \in KnownSetups THEN s.factors ELSE 0
             lean    == IF s.lean = NoFigure THEN 0 ELSE P!Clamp(-300, s.lean * 6, 300)
             spread  == IF s.spread = NoFigure THEN 0 ELSE P!Clamp(0, (100 - s.spread) * 2, 200)
  <2>1. P!Built(s) = P!Clamp(0, 70 * factors + 30 * s.base + lean + spread, 10000)
    BY DEF P!Built
  <2>2. factors \in Int /\ s.base \in Int
    BY DEF EvidenceConstants
  <2>3. lean \in Int
    <3> DEFINE x == s.lean * 6
    <3>1. s.lean # NoFigure => x \in Int
      BY DEF EvidenceConstants
    <3> HIDE DEF x
    <3>2. s.lean # NoFigure => P!Clamp(-300, x, 300) \in Int
      BY <3>1, ClampFacts
    <3> QED BY <3>2 DEF x
  <2>4. spread \in Int
    <3> DEFINE x == (100 - s.spread) * 2
    <3>1. s.spread # NoFigure => x \in Int
      BY DEF EvidenceConstants
    <3> HIDE DEF x
    <3>2. s.spread # NoFigure => P!Clamp(0, x, 200) \in Int
      BY <3>1, ClampFacts
    <3> QED BY <3>2 DEF x
  <2> HIDE DEF factors, lean, spread
  <2> DEFINE x == 70 * factors + 30 * s.base + lean + spread
  <2>5. x \in Int
    BY <2>2, <2>3, <2>4
  <2> HIDE DEF x
  <2>6. P!Clamp(0, x, 10000) \in Nat /\ P!Clamp(0, x, 10000) <= 10000
    BY <2>5, ClampFacts
  <2> QED BY <2>1, <2>6 DEF x
<1> DEFINE x == P!Built(s) + P!ScoreDelta(s.setup) + P!CoinDelta(s.symbol)
<1>6. P!Score(s) = IF apply THEN P!Clamp(0, x, 10000) ELSE P!Built(s)
  BY DEF P!Score
<1>7. x \in Int /\ (x > P!Built(s) => P!ScoreDelta(s.setup) > 0 \/ P!CoinDelta(s.symbol) > 0)
  BY <1>2, <1>4, <1>5
<1> HIDE DEF x
<1>8. /\ P!Clamp(0, x, 10000) \in Nat /\ P!Clamp(0, x, 10000) <= 10000
      /\ P!Clamp(0, x, 10000) > P!Built(s) => x > P!Built(s)
  BY <1>5, <1>7 DEF P!Clamp
<1> QED BY <1>2, <1>4, <1>5, <1>6, <1>7, <1>8

\* What is added to a score or to a size was gained.
LEMMA RewardFacts == ASSUME EvidenceConstants, RankTyped PROVE P!NoRewardForLoss
<1> SUFFICES ASSUME NEW s \in Hopefuls
             PROVE  /\ P!Score(s) > P!Built(s) =>
                          \/ P!Sum(P!OfSetup(s.setup)) > 0 /\ P!Rows(RowShapes) >= SoftFrom
                          \/ coins[s.symbol].r > 0 /\ coins[s.symbol].n >= ProfileFrom
                    /\ P!RiskOfShadow(s) > 100 =>
                          P!Sum(P!OfSetup(s.setup)) > 0 /\ P!Rows(RowShapes) >= RiskFrom
                    /\ P!RiskOfScore(s) > 100 => P!Sum(P!OfBucket(P!BucketOf(P!Score(s)))) > 0
  BY DEF P!NoRewardForLoss
<1> DEFINE T == P!OfSetup(s.setup)
           b == P!BucketOf(P!Score(s))
           B == P!OfBucket(b)
           c == coins[s.symbol]
<1>1. T \in SUBSET RowShapes /\ B \in SUBSET RowShapes /\ RowShapes \in SUBSET RowShapes
  BY Subsets
<1>2. /\ SoftFrom \in Nat /\ RiskFrom \in Nat /\ ProfileFrom \in Nat \ {0}
      /\ c.n \in Nat /\ c.r \in Int
  BY DEF EvidenceConstants, RankTyped
<1>3. /\ P!RowsOf(RowShapes) \in Nat /\ P!Rows(RowShapes) = P!RowsOf(RowShapes)
      /\ P!AvgR(T) # NoFigure => P!AvgR(T) \in Int /\ (P!AvgR(T) > 0 => P!Sum(T) > 0)
      /\ P!AvgR(B) # NoFigure => P!AvgR(B) \in Int /\ (P!AvgR(B) > 0 => P!Sum(B) > 0)
  <2> HIDE DEF T, B
  <2>1. P!RowsOf(RowShapes) \in Nat /\ P!Rows(RowShapes) = P!RowsOf(RowShapes)
    BY <1>1, RowFacts
  <2>2. P!AvgR(T) # NoFigure => P!AvgR(T) \in Int /\ (P!AvgR(T) > 0 => P!Sum(T) > 0)
    BY <1>1, RowFacts
  <2>3. P!AvgR(B) # NoFigure => P!AvgR(B) \in Int /\ (P!AvgR(B) > 0 => P!Sum(B) > 0)
    BY <1>1, RowFacts
  <2> QED BY <2>1, <2>2, <2>3
<1>4. P!ScoreDelta(s.setup) > 0 => P!Sum(T) > 0 /\ P!Rows(RowShapes) >= SoftFrom
  <2>1. P!ScoreDelta(s.setup) = IF P!RowsOf(RowShapes) < SoftFrom \/ P!AvgR(T) = NoFigure THEN 0
                                ELSE P!Clamp(-500, P!AvgR(T) * 5, 500)
    BY DEF P!ScoreDelta
  <2> HIDE DEF T
  <2> SUFFICES ASSUME P!ScoreDelta(s.setup) > 0
               PROVE  P!Sum(T) > 0 /\ P!Rows(RowShapes) >= SoftFrom
    OBVIOUS
  <2>2. ~(P!RowsOf(RowShapes) < SoftFrom) /\ P!AvgR(T) \in Int
        /\ P!Clamp(-500, P!AvgR(T) * 5, 500) > 0
    BY <2>1, <1>3
  <2>3. P!AvgR(T) > 0
    BY <2>2 DEF P!Clamp
  <2> QED BY <1>2, <1>3, <2>1, <2>2, <2>3
<1>5. P!CoinDelta(s.symbol) > 0 => c.r > 0 /\ c.n >= ProfileFrom
  <2>1. P!CoinDelta(s.symbol) = IF c.n < ProfileFrom THEN 0
                                ELSE P!Clamp(-500, (c.r * 3) \div c.n, 500)
    BY DEF P!CoinDelta
  <2> HIDE DEF c
  <2> SUFFICES ASSUME P!CoinDelta(s.symbol) > 0 PROVE c.r > 0 /\ c.n >= ProfileFrom
    OBVIOUS
  <2>2. c.n >= ProfileFrom /\ c.n \in Nat \ {0} /\ P!Clamp(-500, (c.r * 3) \div c.n, 500) > 0
    BY <2>1, <1>2
  <2> DEFINE x == c.r * 3
  <2>3. x \in Int
    BY <1>2
  <2>4. x \div c.n \in Int /\ x \div c.n > 0
    <3> HIDE DEF x
    <3>1. x \div c.n \in Int
      BY <2>2, <2>3, Quotient
    <3> QED BY <3>1, <2>2 DEF P!Clamp, x
  <2>5. x > 0
    <3> HIDE DEF x
    <3> QED BY <2>2, <2>3, <2>4, QuotientPositive
  <2> QED BY <1>2, <2>2, <2>5
<1>6. P!RiskOfShadow(s) > 100 => P!Sum(T) > 0 /\ P!Rows(RowShapes) >= RiskFrom
  <2>1. P!RiskOfShadow(s) =
          IF P!RowsOf(RowShapes) < RiskFrom \/ P!AvgR(T) = NoFigure THEN 100
          ELSE P!Clamp(70, 100 + (P!AvgR(T) * 30) \div 100, 130)
    BY DEF P!RiskOfShadow
  <2> HIDE DEF T
  <2> SUFFICES ASSUME P!RiskOfShadow(s) > 100
               PROVE  P!Sum(T) > 0 /\ P!Rows(RowShapes) >= RiskFrom
    OBVIOUS
  <2>2. ~(P!RowsOf(RowShapes) < RiskFrom) /\ P!AvgR(T) \in Int /\ P!AvgR(T) # NoFigure
        /\ P!Clamp(70, 100 + (P!AvgR(T) * 30) \div 100, 130) > 100
    BY <2>1, <1>3
  <2>3. P!AvgR(T) > 0
    BY <2>2 DEF P!Clamp
  <2> QED BY <1>2, <1>3, <2>2, <2>3
<1>7. P!RiskOfScore(s) > 100 => P!Sum(B) > 0
  <2>1. P!RiskOfScore(s) =
          IF ~P!Sufficient \/ b = NoFigure \/ P!AvgR(B) = NoFigure THEN 100
          ELSE P!Clamp(80, 100 + (P!AvgR(B) * 20) \div 100, 120)
    BY DEF P!RiskOfScore
  <2> HIDE DEF B, b
  <2> SUFFICES ASSUME P!RiskOfScore(s) > 100 PROVE P!Sum(B) > 0
    OBVIOUS
  <2>2. P!AvgR(B) \in Int /\ P!AvgR(B) # NoFigure /\ P!Clamp(80, 100 + (P!AvgR(B) * 20) \div 100, 120) > 100
    BY <2>1, <1>3
  <2>3. P!AvgR(B) > 0
    BY <2>2 DEF P!Clamp
  <2> QED BY <1>3, <2>2, <2>3
<1>8. P!Score(s) > P!Built(s) => P!ScoreDelta(s.setup) > 0 \/ P!CoinDelta(s.symbol) > 0
  BY ScoreFacts
<1> QED BY <1>4, <1>5, <1>6, <1>7, <1>8

\* Of two candidates of a setup the nudges are the same, and the bucket of each that has
\* one is known.
LEMMA EdgeFacts == ASSUME EvidenceConstants, RankTyped PROVE P!EdgeDecides
<1> SUFFICES ASSUME NEW s \in Hopefuls, NEW t \in Hopefuls,
                    s.setup = t.setup,
                    P!BucketOf(P!Score(s)) # NoFigure, P!BucketOf(P!Score(t)) # NoFigure,
                    P!Rows(P!OfBucket(P!BucketOf(P!Score(s)))) > 0,
                    P!Rows(P!OfBucket(P!BucketOf(P!Score(t)))) > 0,
                    P!Rank("edge", s) > P!Rank("edge", t)
             PROVE  /\ P!Ahead(P!OfBucket(P!BucketOf(P!Score(s))), P!OfBucket(P!BucketOf(P!Score(t))))
                    /\ P!Rows(P!Tracked) >= RiskFrom
  BY DEF P!EdgeDecides
<1> DEFINE b == P!BucketOf(P!Score(s))
           c == P!BucketOf(P!Score(t))
           B == P!OfBucket(b)
           C == P!OfBucket(c)
           delta == IF apply THEN P!ScoreDelta(s.setup) ELSE 0
<1>1. delta \in Int /\ P!Score(s) \in Nat /\ P!Score(t) \in Nat /\ P!Score(s) <= 10000 /\ P!Score(t) <= 10000
  BY ScoreFacts
<1>2. B \in SUBSET RowShapes /\ C \in SUBSET RowShapes /\ P!Tracked \in SUBSET RowShapes
  BY Subsets
<1>3. /\ P!RowsOf(B) \in Nat \ {0} /\ P!Rows(B) = P!RowsOf(B) /\ P!Sum(B) \in Int
      /\ P!AvgR(B) = P!Sum(B) \div P!RowsOf(B) /\ P!AvgR(B) \in Int /\ P!AvgR(B) # NoFigure
  <2>1. P!Rows(B) > 0
    OBVIOUS
  <2> HIDE DEF B
  <2>2. P!RowsOf(B) \in Nat /\ P!Rows(B) = P!RowsOf(B) /\ P!Sum(B) \in Int
    BY <1>2, RowFacts
  <2>3. P!AvgR(B) = P!Sum(B) \div P!RowsOf(B) /\ P!AvgR(B) \in Int /\ P!AvgR(B) # NoFigure
    BY <1>2, <2>1, <2>2, RowFacts
  <2> QED BY <2>1, <2>2, <2>3
<1>4. /\ P!RowsOf(C) \in Nat \ {0} /\ P!Rows(C) = P!RowsOf(C) /\ P!Sum(C) \in Int
      /\ P!AvgR(C) = P!Sum(C) \div P!RowsOf(C) /\ P!AvgR(C) \in Int /\ P!AvgR(C) # NoFigure
  <2>1. P!Rows(C) > 0
    OBVIOUS
  <2> HIDE DEF C
  <2>2. P!RowsOf(C) \in Nat /\ P!Rows(C) = P!RowsOf(C) /\ P!Sum(C) \in Int
    BY <1>2, RowFacts
  <2>3. P!AvgR(C) = P!Sum(C) \div P!RowsOf(C) /\ P!AvgR(C) \in Int /\ P!AvgR(C) # NoFigure
    BY <1>2, <2>1, <2>2, RowFacts
  <2> QED BY <2>1, <2>2, <2>3
<1>5. ASSUME ~P!Sufficient PROVE FALSE
  <2>1. P!Rank("edge", s) = delta /\ P!Rank("edge", t) = delta
    BY <1>5 DEF P!Rank
  <2> QED BY <1>1, <2>1
<1>6. P!Rows(P!Tracked) >= RiskFrom
  BY <1>2, <1>5, RowFacts DEF P!Sufficient
<1>7. CASE P!Monotone
  <2>1. P!Rank("edge", s) = P!Score(s) + delta /\ P!Rank("edge", t) = P!Score(t) + delta
    BY <1>5, <1>7 DEF P!Rank
  <2>2. P!Score(t) < P!Score(s)
    BY <1>1, <2>1
  <2>3. b \in 1 .. 4 /\ c \in 1 .. 4 /\ c <= b
    <3> DEFINE x == P!Score(t)
               y == P!Score(s)
    <3>1. x \in Int /\ y \in Int /\ x <= y /\ y < 20000 /\ P!BucketOf(x) # NoFigure /\ P!BucketOf(y) # NoFigure
      BY <1>1, <2>2
    <3> HIDE DEF x, y
    <3>2. P!BucketOf(x) \in 1 .. 4 /\ P!BucketOf(y) \in 1 .. 4 /\ P!BucketOf(x) <= P!BucketOf(y)
      BY <3>1, BucketFacts
    <3> QED BY <3>2 DEF x, y
  <2> DEFINE V == {k \in B : k.win}
             W == {k \in C : k.win}
  <2>4. P!WinPct(c) <= P!WinPct(b)
    <3>1. b \in P!Filled /\ c \in P!Filled
      BY <1>3, <1>4, <2>3 DEF P!Filled, P!Buckets
    <3>2. P!WinPct(b) = (P!RowsOf(V) * 1000) \div P!RowsOf(B)
      BY DEF P!WinPct
    <3>3. P!RowsOf(V) \in Nat
      <4>1. V \in SUBSET RowShapes
        BY <1>2
      <4> HIDE DEF V
      <4> QED BY <4>1, RowFacts
    <3>4. P!WinPct(b) \in Int
      <4> HIDE DEF V, B, b
      <4>1. P!RowsOf(V) * 1000 \in Int
        BY <3>3
      <4> QED BY <1>3, <3>2, <4>1, Quotient
    <3>5. CASE c = b
      BY <3>4, <3>5
    <3>6. CASE c < b
      BY <1>7, <3>1, <3>6 DEF P!Monotone
    <3> QED BY <2>3, <3>5, <3>6
  <2>5. V \in SUBSET RowShapes /\ W \in SUBSET RowShapes
    BY <1>2
  <2>6. /\ P!Wins(B) \in Nat /\ P!Wins(C) \in Nat
        /\ P!WinPct(b) = (P!Wins(B) * 1000) \div P!RowsOf(B)
        /\ P!WinPct(c) = (P!Wins(C) * 1000) \div P!RowsOf(C)
    <3>1. P!Wins(B) = P!Rows(V) /\ P!Wins(C) = P!Rows(W)
      BY DEF P!Wins
    <3>2. P!WinPct(b) = (P!RowsOf(V) * 1000) \div P!RowsOf(B)
      BY DEF P!WinPct
    <3>3. P!WinPct(c) = (P!RowsOf(W) * 1000) \div P!RowsOf(C)
      BY DEF P!WinPct
    <3> HIDE DEF V, W, B, C, b, c
    <3>4. P!Rows(V) = P!RowsOf(V) /\ P!RowsOf(V) \in Nat
      BY <2>5, RowFacts
    <3>5. P!Rows(W) = P!RowsOf(W) /\ P!RowsOf(W) \in Nat
      BY <2>5, RowFacts
    <3> QED BY <3>1, <3>2, <3>3, <3>4, <3>5
  <2>7. (P!Wins(B) * 1000 + P!Rows(B)) * P!Rows(C) > (P!Wins(C) * 1000) * P!Rows(B)
    <3> DEFINE x == P!Wins(B) * 1000
               y == P!Wins(C) * 1000
    <3>1. x \in Int /\ y \in Int
      BY <2>6
    <3>2. y \div P!RowsOf(C) <= x \div P!RowsOf(B)
      BY <2>4, <2>6
    <3> HIDE DEF x, y, B, C
    <3>3. (x + P!RowsOf(B)) * P!RowsOf(C) > y * P!RowsOf(B)
      BY <1>3, <1>4, <3>1, <3>2, QuotientsFollow
    <3> QED BY <1>3, <1>4, <3>3 DEF x, y
  <2> QED BY <1>6, <2>7 DEF P!Ahead
<1>8. CASE ~P!Monotone
  <2>1. P!Rank("edge", s) = P!AvgR(B) * 100 + delta
    BY <1>3, <1>5, <1>8 DEF P!Rank
  <2>2. P!Rank("edge", t) = P!AvgR(C) * 100 + delta
    BY <1>4, <1>5, <1>8 DEF P!Rank
  <2>3. P!AvgR(B) > P!AvgR(C)
    <3> HIDE DEF B, C, delta
    <3> QED BY <1>1, <1>3, <1>4, <2>1, <2>2
  <2>4. P!Sum(B) * P!Rows(C) > P!Sum(C) * P!Rows(B)
    <3> HIDE DEF B, C
    <3>1. P!Sum(B) \div P!RowsOf(B) > P!Sum(C) \div P!RowsOf(C)
      BY <1>3, <1>4, <2>3
    <3> QED BY <1>3, <1>4, <3>1, QuotientsOrder
  <2> QED BY <1>6, <2>4 DEF P!Ahead
<1> QED BY <1>7, <1>8

(***************************************************************************)
(* The label: what is known of both candidates has the same weights, and   *)
(* one part is larger.                                                     *)
(***************************************************************************)
Names == {"alignment", "cost_efficiency", "rr_structure", "stop_sanity", "spread",
          "score_support", "shadow_recent"}

LEMMA NamesFinite == IsFiniteSet(Names)
<1>1. \A x : IsFiniteSet({x})
  BY FS_Singleton
<1>2. /\ IsFiniteSet({"alignment"}) /\ IsFiniteSet({"cost_efficiency"}) /\ IsFiniteSet({"rr_structure"})
      /\ IsFiniteSet({"stop_sanity"}) /\ IsFiniteSet({"spread"}) /\ IsFiniteSet({"score_support"})
      /\ IsFiniteSet({"shadow_recent"})
  BY <1>1
<1>3. IsFiniteSet({"alignment"} \cup {"cost_efficiency"} \cup {"rr_structure"} \cup {"stop_sanity"})
  BY <1>2, FS_Union
<1>4. IsFiniteSet({"spread"} \cup {"score_support"} \cup {"shadow_recent"})
  BY <1>2, FS_Union
<1>5. IsFiniteSet(({"alignment"} \cup {"cost_efficiency"} \cup {"rr_structure"} \cup {"stop_sanity"})
                  \cup ({"spread"} \cup {"score_support"} \cup {"shadow_recent"}))
  BY <1>3, <1>4, FS_Union
<1>6. Names = ({"alignment"} \cup {"cost_efficiency"} \cup {"rr_structure"} \cup {"stop_sanity"})
              \cup ({"spread"} \cup {"score_support"} \cup {"shadow_recent"})
  BY Zenon DEF Names
<1> QED BY <1>5, <1>6

LEMMA UnitFacts ==
    ASSUME NEW x \in Int, NEW y \in Int, x <= y
    PROVE  P!Unit(x) \in Int /\ P!Unit(x) <= P!Unit(y)
BY DEF P!Unit, P!Clamp

Sane(v) == ((v.stop - TightStop) * 100) \div (WideStop - TightStop)
Off(v) == IF Sane(v) > 45 THEN Sane(v) - 45 ELSE 45 - Sane(v)

LEMMA PartValues ==
    ASSUME NEW v
    PROVE  /\ P!Part(v, "alignment") = v.align
           /\ P!Part(v, "cost_efficiency") = P!Unit(100 - (P!DragOf(v) * 100) \div 60)
           /\ P!Part(v, "rr_structure") = P!Unit(((FirstTarget - P!DragOf(v)) * 100) \div 150)
           /\ P!Part(v, "stop_sanity") = P!Unit(100 - (Off(v) * 100) \div 55)
           /\ P!Part(v, "spread") = P!Unit(100 - v.spread)
           /\ P!Part(v, "score_support") = P!Unit((v.score - 4000) \div 40)
           /\ P!Part(v, "shadow_recent") = P!Unit(P!AvgR(P!OfSetup(v.setup)) + 50)
<1>1. P!Part(v, "alignment") = v.align
  BY DEF P!Part
<1>2. P!Part(v, "cost_efficiency") = P!Unit(100 - (P!DragOf(v) * 100) \div 60)
  BY DEF P!Part
<1>3. P!Part(v, "rr_structure") = P!Unit(((FirstTarget - P!DragOf(v)) * 100) \div 150)
  BY DEF P!Part
<1>4. P!Part(v, "stop_sanity") = P!Unit(100 - (Off(v) * 100) \div 55)
  BY DEF P!Part, Off, Sane
<1>5. P!Part(v, "spread") = P!Unit(100 - v.spread)
  BY DEF P!Part, P!SpreadPart
<1>6. P!Part(v, "score_support") = P!Unit((v.score - 4000) \div 40)
  BY DEF P!Part
<1>7. P!Part(v, "shadow_recent") = P!Unit(P!AvgR(P!OfSetup(v.setup)) + 50)
  BY DEF P!Part
<1> QED BY <1>1, <1>2, <1>3, <1>4, <1>5, <1>6, <1>7

LEMMA Weighed ==
    ASSUME NEW v, NEW name \in P!Known(v)
    PROVE  name \in Names /\ P!Weight[name] \in Nat
<1>1. name \in Names
  BY Zenon DEF P!Known, Names
<1> QED BY <1>1 DEF P!Weight, Names

LEMMA PartTyped ==
    ASSUME EvidenceConstants, RankTyped, NEW v \in LabelViews, NEW name \in P!Known(v)
    PROVE  P!Part(v, name) \in Int
<1>1. name \in Names
  BY Weighed
<1>3. \A x \in Int : P!Unit(x) \in Int
  BY UnitFacts
<1>4. /\ v.align \in Int /\ v.score \in Int /\ v.stop \in Nat \ {0}
      /\ TightStop \in Int /\ WideStop \in Int /\ TightStop < WideStop
      /\ RoundTrip \in Int /\ FirstTarget \in Int /\ LabelFrom \in Nat \ {0}
      /\ v.spread \in Int \cup {NoFigure}
  BY DEF EvidenceConstants
<1>5. P!DragOf(v) \in Int
  <2>1. RoundTrip * 100 \in Int
    BY <1>4
  <2> QED BY <1>4, <2>1, Quotient DEF P!DragOf
<1>6. Off(v) \in Int
  <2>1. (v.stop - TightStop) * 100 \in Int /\ WideStop - TightStop \in Nat \ {0}
    BY <1>4
  <2>2. Sane(v) \in Int
    BY <2>1, Quotient DEF Sane
  <2> QED BY <2>2 DEF Off
<1>7. CASE name = "alignment"
  BY <1>4, <1>7, PartValues
<1>8. CASE name = "cost_efficiency"
  <2> DEFINE x == 100 - (P!DragOf(v) * 100) \div 60
  <2>1. x \in Int
    BY <1>5
  <2>2. P!Part(v, "cost_efficiency") = P!Unit(x)
    BY PartValues
  <2> HIDE DEF x
  <2>3. P!Unit(x) \in Int
    BY <1>3, <2>1
  <2> QED BY <1>8, <2>2, <2>3
<1>9. CASE name = "rr_structure"
  <2> DEFINE x == ((FirstTarget - P!DragOf(v)) * 100) \div 150
  <2>1. x \in Int
    BY <1>4, <1>5
  <2>2. P!Part(v, "rr_structure") = P!Unit(x)
    BY PartValues
  <2> HIDE DEF x
  <2>3. P!Unit(x) \in Int
    BY <1>3, <2>1
  <2> QED BY <1>9, <2>2, <2>3
<1>10. CASE name = "stop_sanity"
  <2> DEFINE x == 100 - (Off(v) * 100) \div 55
  <2>1. x \in Int
    BY <1>6
  <2>2. P!Part(v, "stop_sanity") = P!Unit(x)
    BY PartValues
  <2> HIDE DEF x
  <2>3. P!Unit(x) \in Int
    BY <1>3, <2>1
  <2> QED BY <1>10, <2>2, <2>3
<1>11. CASE name = "spread"
  <2> DEFINE x == 100 - v.spread
  <2>1. v.spread # NoFigure
    BY <1>11 DEF P!Known
  <2>2. x \in Int
    BY <1>4, <2>1
  <2>3. P!Part(v, "spread") = P!Unit(x)
    BY PartValues
  <2> HIDE DEF x
  <2>4. P!Unit(x) \in Int
    BY <1>3, <2>2
  <2> QED BY <1>11, <2>3, <2>4
<1>12. CASE name = "score_support"
  <2> DEFINE x == (v.score - 4000) \div 40
  <2>1. x \in Int
    BY <1>4
  <2>2. P!Part(v, "score_support") = P!Unit(x)
    BY PartValues
  <2> HIDE DEF x
  <2>3. P!Unit(x) \in Int
    BY <1>3, <2>1
  <2> QED BY <1>12, <2>2, <2>3
<1>13. CASE name = "shadow_recent"
  <2> DEFINE T == P!OfSetup(v.setup)
             x == P!AvgR(T) + 50
  <2>1. P!RowsOf(T) >= LabelFrom
    BY <1>13 DEF P!Known
  <2>2. T \in SUBSET RowShapes
    BY Subsets
  <2>3. P!Part(v, "shadow_recent") = P!Unit(x)
    BY PartValues
  <2>4. P!AvgR(T) \in Int
    <3> HIDE DEF T
    <3>1. P!RowsOf(T) \in Nat
      BY <2>2, RowFacts
    <3>2. P!RowsOf(T) > 0
      BY <1>4, <2>1, <3>1
    <3> QED BY <2>2, <3>2, RowFacts
  <2>5. x \in Int
    BY <2>4
  <2> HIDE DEF x
  <2>6. P!Unit(x) \in Int
    BY <1>3, <2>5
  <2> QED BY <1>13, <2>3, <2>6
<1> QED BY <1>1, <1>7, <1>8, <1>9, <1>10, <1>11, <1>12, <1>13 DEF Names

\* What two candidates share: every part that does not read the field they differ in.
LEMMA SharedParts ==
    ASSUME NEW v, NEW w, v.setup = w.setup, v.stop = w.stop
    PROVE  /\ P!Part(v, "cost_efficiency") = P!Part(w, "cost_efficiency")
           /\ P!Part(v, "rr_structure") = P!Part(w, "rr_structure")
           /\ P!Part(v, "stop_sanity") = P!Part(w, "stop_sanity")
           /\ P!Part(v, "shadow_recent") = P!Part(w, "shadow_recent")
           /\ v.align = w.align => P!Part(v, "alignment") = P!Part(w, "alignment")
           /\ v.spread = w.spread => P!Part(v, "spread") = P!Part(w, "spread")
           /\ v.score = w.score => P!Part(v, "score_support") = P!Part(w, "score_support")
<1>1. P!DragOf(v) = P!DragOf(w)
  BY Zenon DEF P!DragOf
<1>2. Sane(v) = Sane(w)
  BY Zenon DEF Sane
<1>3. Off(v) = Off(w)
  BY <1>2, Zenon DEF Off
<1>4. P!Part(v, "cost_efficiency") = P!Part(w, "cost_efficiency")
  <2>1. P!Part(v, "cost_efficiency") = P!Unit(100 - (P!DragOf(v) * 100) \div 60)
    BY PartValues
  <2>2. P!Part(w, "cost_efficiency") = P!Unit(100 - (P!DragOf(w) * 100) \div 60)
    BY PartValues
  <2> QED BY <1>1, <2>1, <2>2, Zenon
<1>5. P!Part(v, "rr_structure") = P!Part(w, "rr_structure")
  <2>1. P!Part(v, "rr_structure") = P!Unit(((FirstTarget - P!DragOf(v)) * 100) \div 150)
    BY PartValues
  <2>2. P!Part(w, "rr_structure") = P!Unit(((FirstTarget - P!DragOf(w)) * 100) \div 150)
    BY PartValues
  <2> QED BY <1>1, <2>1, <2>2, Zenon
<1>6. P!Part(v, "stop_sanity") = P!Part(w, "stop_sanity")
  <2>1. P!Part(v, "stop_sanity") = P!Unit(100 - (Off(v) * 100) \div 55)
    BY PartValues
  <2>2. P!Part(w, "stop_sanity") = P!Unit(100 - (Off(w) * 100) \div 55)
    BY PartValues
  <2> QED BY <1>3, <2>1, <2>2, Zenon
<1>7. P!Part(v, "shadow_recent") = P!Part(w, "shadow_recent")
  <2>1. P!Part(v, "shadow_recent") = P!Unit(P!AvgR(P!OfSetup(v.setup)) + 50)
    BY PartValues
  <2>2. P!Part(w, "shadow_recent") = P!Unit(P!AvgR(P!OfSetup(w.setup)) + 50)
    BY PartValues
  <2>3. P!AvgR(P!OfSetup(v.setup)) = P!AvgR(P!OfSetup(w.setup))
    BY Zenon
  <2> QED BY <2>1, <2>2, <2>3, Zenon
<1>8. v.align = w.align => P!Part(v, "alignment") = P!Part(w, "alignment")
  <2>1. P!Part(v, "alignment") = v.align
    BY PartValues
  <2>2. P!Part(w, "alignment") = w.align
    BY PartValues
  <2> QED BY <2>1, <2>2, Zenon
<1>9. v.spread = w.spread => P!Part(v, "spread") = P!Part(w, "spread")
  <2>1. P!Part(v, "spread") = P!Unit(100 - v.spread)
    BY PartValues
  <2>2. P!Part(w, "spread") = P!Unit(100 - w.spread)
    BY PartValues
  <2> QED BY <2>1, <2>2, Zenon
<1>10. v.score = w.score => P!Part(v, "score_support") = P!Part(w, "score_support")
  <2>1. P!Part(v, "score_support") = P!Unit((v.score - 4000) \div 40)
    BY PartValues
  <2>2. P!Part(w, "score_support") = P!Unit((w.score - 4000) \div 40)
    BY PartValues
  <2> QED BY <2>1, <2>2
<1> QED BY <1>4, <1>5, <1>6, <1>7, <1>8, <1>9, <1>10, Zenon

\* The better candidate has the same known parts, none of them smaller.
LEMMA BetterParts ==
    ASSUME EvidenceConstants, RankTyped, NEW v \in LabelViews, NEW w \in LabelViews, P!Better(v, w)
    PROVE  /\ P!Known(w) = P!Known(v)
           /\ \A name \in P!Known(v) : P!Part(v, name) <= P!Part(w, name)
<1>0. /\ v.align \in Int /\ w.align \in Int /\ v.score \in Int /\ w.score \in Int
      /\ v.spread \in Int \cup {NoFigure} /\ w.spread \in Int \cup {NoFigure}
  BY DEF EvidenceConstants
<1>1. ASSUME w = [v EXCEPT !.align = w.align], w.align > v.align
      PROVE  /\ P!Known(w) = P!Known(v)
             /\ \A name \in P!Known(v) : P!Part(v, name) <= P!Part(w, name)
  <2>1. w.setup = v.setup /\ w.stop = v.stop /\ w.spread = v.spread /\ w.score = v.score
    BY <1>1 DEF EvidenceConstants
  <2>2. P!Known(w) = P!Known(v)
    BY <2>1, Zenon DEF P!Known
  <2>4. /\ P!Part(v, "cost_efficiency") = P!Part(w, "cost_efficiency")
        /\ P!Part(v, "rr_structure") = P!Part(w, "rr_structure")
        /\ P!Part(v, "stop_sanity") = P!Part(w, "stop_sanity")
        /\ P!Part(v, "spread") = P!Part(w, "spread")
        /\ P!Part(v, "score_support") = P!Part(w, "score_support")
        /\ P!Part(v, "shadow_recent") = P!Part(w, "shadow_recent")
    BY <2>1, SharedParts
  <2>3. ASSUME NEW name \in P!Known(v) PROVE P!Part(v, name) <= P!Part(w, name)
    <3>0. name \in Names /\ P!Part(v, name) \in Int
      BY Weighed, PartTyped
    <3>1. CASE name = "alignment"
      <4>1. P!Part(v, "alignment") = v.align /\ P!Part(w, "alignment") = w.align
        BY PartValues
      <4> QED BY <1>0, <1>1, <3>1, <4>1
    <3>2. CASE name # "alignment"
      <4>1. P!Part(v, name) = P!Part(w, name)
        BY <2>4, <3>0, <3>2 DEF Names
      <4> QED BY <3>0, <4>1
    <3> QED BY <3>1, <3>2
  <2> QED BY <2>2, <2>3
<1>2. ASSUME w = [v EXCEPT !.spread = w.spread], NoFigure \notin {v.spread, w.spread},
             w.spread < v.spread
      PROVE  /\ P!Known(w) = P!Known(v)
             /\ \A name \in P!Known(v) : P!Part(v, name) <= P!Part(w, name)
  <2>1. w.setup = v.setup /\ w.stop = v.stop /\ w.align = v.align /\ w.score = v.score
    BY <1>2 DEF EvidenceConstants
  <2>2. P!Known(w) = P!Known(v)
    BY <1>2, <2>1 DEF P!Known
  <2>4. /\ P!Part(v, "alignment") = P!Part(w, "alignment")
        /\ P!Part(v, "cost_efficiency") = P!Part(w, "cost_efficiency")
        /\ P!Part(v, "rr_structure") = P!Part(w, "rr_structure")
        /\ P!Part(v, "stop_sanity") = P!Part(w, "stop_sanity")
        /\ P!Part(v, "score_support") = P!Part(w, "score_support")
        /\ P!Part(v, "shadow_recent") = P!Part(w, "shadow_recent")
    BY <2>1, SharedParts
  <2>3. ASSUME NEW name \in P!Known(v) PROVE P!Part(v, name) <= P!Part(w, name)
    <3>0. name \in Names /\ P!Part(v, name) \in Int
      BY Weighed, PartTyped
    <3>1. CASE name = "spread"
      <4> DEFINE x == 100 - v.spread
                 y == 100 - w.spread
      <4>1. x \in Int /\ y \in Int /\ x <= y
        BY <1>0, <1>2
      <4>2. P!Part(v, "spread") = P!Unit(x) /\ P!Part(w, "spread") = P!Unit(y)
        BY PartValues
      <4> HIDE DEF x, y
      <4>3. P!Unit(x) <= P!Unit(y)
        BY <4>1, UnitFacts
      <4> QED BY <3>1, <4>2, <4>3
    <3>2. CASE name # "spread"
      <4>1. P!Part(v, name) = P!Part(w, name)
        BY <2>4, <3>0, <3>2 DEF Names
      <4> QED BY <3>0, <4>1
    <3> QED BY <3>1, <3>2
  <2> QED BY <2>2, <2>3
<1>3. ASSUME w = [v EXCEPT !.score = w.score], v.score > 0, w.score > v.score
      PROVE  /\ P!Known(w) = P!Known(v)
             /\ \A name \in P!Known(v) : P!Part(v, name) <= P!Part(w, name)
  <2>1. w.setup = v.setup /\ w.stop = v.stop /\ w.align = v.align /\ w.spread = v.spread
    BY <1>3 DEF EvidenceConstants
  <2>2. P!Known(w) = P!Known(v)
    <3>1. w.score # 0 /\ v.score # 0
      BY <1>0, <1>3
    <3> QED BY <2>1, <3>1 DEF P!Known
  <2>4. /\ P!Part(v, "alignment") = P!Part(w, "alignment")
        /\ P!Part(v, "cost_efficiency") = P!Part(w, "cost_efficiency")
        /\ P!Part(v, "rr_structure") = P!Part(w, "rr_structure")
        /\ P!Part(v, "stop_sanity") = P!Part(w, "stop_sanity")
        /\ P!Part(v, "spread") = P!Part(w, "spread")
        /\ P!Part(v, "shadow_recent") = P!Part(w, "shadow_recent")
    BY <2>1, SharedParts
  <2>3. ASSUME NEW name \in P!Known(v) PROVE P!Part(v, name) <= P!Part(w, name)
    <3>0. name \in Names /\ P!Part(v, name) \in Int
      BY Weighed, PartTyped
    <3>1. CASE name = "score_support"
      <4> DEFINE x == (v.score - 4000) \div 40
                 y == (w.score - 4000) \div 40
      <4>1. x \in Int /\ y \in Int /\ x <= y
        BY <1>0, <1>3
      <4>2. P!Part(v, "score_support") = P!Unit(x) /\ P!Part(w, "score_support") = P!Unit(y)
        BY PartValues
      <4> HIDE DEF x, y
      <4>3. P!Unit(x) <= P!Unit(y)
        BY <4>1, UnitFacts
      <4> QED BY <3>1, <4>2, <4>3
    <3>2. CASE name # "score_support"
      <4>1. P!Part(v, name) = P!Part(w, name)
        BY <2>4, <3>0, <3>2 DEF Names
      <4> QED BY <3>0, <4>1
    <3> QED BY <3>1, <3>2
  <2> QED BY <2>2, <2>3
<1> QED BY <1>1, <1>2, <1>3 DEF P!Better

LEMMA BetterGrade ==
    ASSUME EvidenceConstants, RankTyped, NEW v \in LabelViews, NEW w \in LabelViews, P!Better(v, w)
    PROVE  P!Grade(w) <= P!Grade(v)
<1> DEFINE T == P!Known(v)
           f == [n \in T |-> P!Part(v, n) * P!Weight[n]]
           g == [n \in T |-> P!Part(w, n) * P!Weight[n]]
           weights == Total(P!Weight, T)
<1>1. P!Known(w) = T /\ \A n \in T : P!Part(v, n) <= P!Part(w, n)
  BY BetterParts
<1>2. \A n \in T : n \in Names /\ P!Part(v, n) \in Int /\ P!Part(w, n) \in Int /\ P!Weight[n] \in Nat
  BY <1>1, PartTyped, Weighed
<1>3. IsFiniteSet(T)
  <2>1. T \in SUBSET Names
    BY <1>2
  <2> QED BY <2>1, NamesFinite, FS_Subset
<1>4. \A n \in T : f[n] \in Int /\ g[n] \in Int /\ f[n] <= g[n]
  <2> SUFFICES ASSUME NEW n \in T
               PROVE  f[n] \in Int /\ g[n] \in Int /\ f[n] <= g[n]
    OBVIOUS
  <2>1. f[n] = P!Part(v, n) * P!Weight[n] /\ g[n] = P!Part(w, n) * P!Weight[n]
    OBVIOUS
  <2> HIDE DEF f, g, T
  <2> QED BY <1>1, <1>2, <2>1, TimesMonotone
<1> DEFINE grade(sum) == CASE sum >= 72 * weights -> 1
                          [] sum < 72 * weights /\ sum >= 58 * weights -> 2
                          [] sum < 58 * weights /\ sum >= 42 * weights -> 3
                          [] OTHER -> 4
<1>5. P!Grade(v) = grade(Total(f, T))
  BY Zenon, EvidenceSums DEF P!Grade
<1>6. P!Grade(w) = grade(Total(g, T))
  <2>1. P!Grade(w) = grade(Total([n \in P!Known(w) |-> P!Part(w, n) * P!Weight[n]], T))
    BY <1>1, Zenon, EvidenceSums DEF P!Grade
  <2> QED BY <1>1, <2>1
<1> HIDE DEF f, g, T
<1>7. Total(f, T) <= Total(g, T) /\ Total(f, T) \in Int /\ Total(g, T) \in Int
  BY <1>3, <1>4, TotalMonotone, TotalIsInt
<1>8. weights \in Int
  BY <1>2, <1>3, TotalIsInt
<1> HIDE DEF weights
<1> QED BY <1>5, <1>6, <1>7, <1>8
--------------------------------------------------------------------------------
(* Reports: what the owner is told is what ranking and sizing do.           *)

LEMMA TellingFacts == ASSUME EvidenceConstants, RankTyped PROVE P!ToldAsDone
<1>1. P!Eligible <=> P!Verdict = "predictive"
  BY DEF P!Eligible, P!Verdict
<1>2. P!Eligible <=> P!Basis = "monotone"
  BY DEF P!Eligible, P!Basis
<1>3. P!Verdict = "insufficient" <=> ~P!Sufficient
  BY DEF P!Verdict
<1>4. P!Pinned => \A s \in Hopefuls : P!RiskOfScore(s) = 100
  BY <1>3 DEF P!Pinned, P!RiskOfScore
<1>5. ASSUME NEW s \in Hopefuls, NEW t \in Hopefuls, s.setup = t.setup
      PROVE  CASE P!Verdict = "insufficient" -> P!Rank("edge", s) = P!Rank("edge", t)
               [] P!Eligible -> P!Rank("edge", s) > P!Rank("edge", t) <=> P!Score(s) > P!Score(t)
               [] OTHER -> LET a == P!BucketOf(P!Score(s))
                               b == P!BucketOf(P!Score(t))
                           IN NoFigure \notin {a, b}
                              /\ NoFigure \notin {P!AvgR(P!OfBucket(x)) : x \in {a, b}}
                              /\ P!Rank("edge", s) > P!Rank("edge", t)
                              => P!AvgR(P!OfBucket(a)) > P!AvgR(P!OfBucket(b))
  <2> DEFINE a == P!BucketOf(P!Score(s))
             b == P!BucketOf(P!Score(t))
             A == P!AvgR(P!OfBucket(a))
             B == P!AvgR(P!OfBucket(b))
             delta == IF apply THEN P!ScoreDelta(s.setup) ELSE 0
  <2>1. delta \in Int /\ P!Score(s) \in Int /\ P!Score(t) \in Int
    BY ScoreFacts
  <2>2. ~P!Sufficient => P!Rank("edge", s) = delta /\ P!Rank("edge", t) = delta
    BY <1>5 DEF P!Rank
  <2>3. P!Eligible => /\ P!Rank("edge", s) = P!Score(s) + delta
                      /\ P!Rank("edge", t) = P!Score(t) + delta
    BY <1>5 DEF P!Rank, P!Eligible
  <2>4. ASSUME P!Sufficient, ~P!Monotone, a # NoFigure, b # NoFigure, A # NoFigure, B # NoFigure,
               P!Rank("edge", s) > P!Rank("edge", t)
        PROVE  A > B
    <3>1. P!Rank("edge", s) = A * 100 + delta /\ P!Rank("edge", t) = B * 100 + delta
      BY <1>5, <2>4 DEF P!Rank
    <3>2. A \in Int /\ B \in Int
      <4> DEFINE S == P!OfBucket(a)
                 T == P!OfBucket(b)
      <4>1. S \in SUBSET RowShapes /\ T \in SUBSET RowShapes
        BY Subsets
      <4>2. P!AvgR(S) # NoFigure /\ P!AvgR(T) # NoFigure
        BY <2>4
      <4> HIDE DEF S, T
      <4>3. P!AvgR(S) \in Int
        BY <4>1, <4>2, RowFacts
      <4>4. P!AvgR(T) \in Int
        BY <4>1, <4>2, RowFacts
      <4> QED BY <4>3, <4>4 DEF S, T
    <3> HIDE DEF A, B, delta
    <3> QED BY <2>1, <2>4, <3>1, <3>2
  <2>5. CASE ~P!Sufficient
    <3>1. P!Verdict = "insufficient" /\ ~P!Eligible
      BY <1>3, <2>5 DEF P!Eligible
    <3>2. P!Rank("edge", s) = P!Rank("edge", t)
      BY <2>2, <2>5
    <3> QED BY <3>1, <3>2
  <2>6. CASE P!Eligible
    <3>1. P!Verdict # "insufficient"
      BY <1>3, <2>6 DEF P!Eligible
    <3>2. P!Rank("edge", s) > P!Rank("edge", t) <=> P!Score(s) > P!Score(t)
      <4> HIDE DEF delta
      <4> QED BY <2>1, <2>3, <2>6
    <3> QED BY <2>6, <3>1, <3>2
  <2>7. CASE P!Sufficient /\ ~P!Monotone
    <3>1. P!Verdict # "insufficient" /\ ~P!Eligible
      BY <1>3, <2>7 DEF P!Eligible
    <3>2. NoFigure \notin {a, b} /\ NoFigure \notin {P!AvgR(P!OfBucket(x)) : x \in {a, b}}
          /\ P!Rank("edge", s) > P!Rank("edge", t) => A > B
      <4> HIDE DEF a, b
      <4> QED BY <2>4, <2>7
    <3> QED BY <3>1, <3>2
  <2> QED BY <2>5, <2>6, <2>7 DEF P!Eligible
<1> QED BY <1>1, <1>2, <1>4, <1>5 DEF P!ToldAsDone

\* A set of some of the twelve findings has a first one.
LEMMA FirstOne ==
    ASSUME NEW S \in SUBSET (1 .. 12), S # {}
    PROVE  \E m \in S : \A k \in S : m <= k
<1> DEFINE T == {13 - i : i \in S}
<1>0. \A i \in S : i \in Nat /\ 1 <= i /\ i <= 12
  OBVIOUS
<1>1. \A k \in T : k \in Nat /\ k <= 12
  BY <1>0
<1>2. IsFiniteSet(T) /\ T # {}
  <2>1. T # {}
    OBVIOUS
  <2>2. T \in SUBSET Nat
    BY <1>1
  <2> HIDE DEF T
  <2> QED BY <1>1, <2>1, <2>2, FS_BoundedSetOfNaturals
<1>3. PICK m \in T : \A k \in T : m >= k
  <2>1. \A k \in T : k \in Int
    BY <1>1
  <2> HIDE DEF T
  <2> QED BY <1>1, <1>2, <2>1, GreatestElement
<1>4. PICK i \in S : m = 13 - i
  BY <1>3
<1>5. \A k \in S : 13 - k <= 13 - i
  BY <1>3, <1>4
<1> QED BY <1>0, <1>4, <1>5

\* The findings one by one.
Code == <<"no_trades", "pf_far_below", "pf_below", "negative_expectancy", "winners_too_small",
          "back_to_break_even", "dangerous_setup", "score_anti_predictive",
          "grade_not_validated", "grade_does_not_separate", "daily_loss_high", "slots_full">>
Severity == <<0, 2, 1, 1, 1, 1, 1, 1, 0, 1, 1, 1>>
FindingsWith(m, rs, verdict, separation, used, slots) ==
    <<P!Finding("no_trades", 0, m.n = 0),
      P!Finding("pf_far_below", 2, m.n > 0 /\ m.pf # NoFigure /\ m.pf < 70),
      P!Finding("pf_below", 1, m.n > 0 /\ m.pf # NoFigure /\ m.pf >= 70 /\ m.pf < 100),
      P!Finding("negative_expectancy", 1, m.n > 0 /\ m.exp < 0),
      P!Finding("winners_too_small", 1, m.n > 0 /\ m.loss # 0 /\ m.win < -m.loss /\ P!Unproven(m)),
      P!Finding("back_to_break_even", 1, m.n > 0 /\ m.be * 100 >= 40 * m.n),
      P!Finding("dangerous_setup", 1, \E r \in rs : r < -30),
      P!Finding("score_anti_predictive", 1, verdict = "anti_predictive"),
      P!Finding("grade_not_validated", 0, separation = "insufficient"),
      P!Finding("grade_does_not_separate", 1, separation = "no_separation"),
      P!Finding("daily_loss_high", 1, used >= 70),
      P!Finding("slots_full", 1, SlotLimit > 0 /\ slots >= SlotLimit /\ P!Unproven(m))>>
LEMMA TwelveFindings ==
    ASSUME NEW m, NEW rs, NEW verdict, NEW separation, NEW used, NEW slots
    PROVE  LET f == FindingsWith(m, rs, verdict, separation, used, slots)
           IN /\ DOMAIN f = 1 .. 12
              /\ \A i \in 1 .. 12 : f[i].code = Code[i] /\ f[i].severity = Severity[i]
              /\ f[1].when <=> m.n = 0
              /\ f[2].when <=> m.n > 0 /\ m.pf # NoFigure /\ m.pf < 70
              /\ f[3].when <=> m.n > 0 /\ m.pf # NoFigure /\ m.pf >= 70 /\ m.pf < 100
              /\ f[4].when <=> m.n > 0 /\ m.exp < 0
              /\ f[5].when <=> m.n > 0 /\ m.loss # 0 /\ m.win < -m.loss /\ P!Unproven(m)
              /\ f[6].when <=> m.n > 0 /\ m.be * 100 >= 40 * m.n
              /\ f[7].when <=> \E r \in rs : r < -30
              /\ f[8].when <=> verdict = "anti_predictive"
              /\ f[9].when <=> separation = "insufficient"
              /\ f[10].when <=> separation = "no_separation"
              /\ f[11].when <=> used >= 70
              /\ f[12].when <=> SlotLimit > 0 /\ slots >= SlotLimit /\ P!Unproven(m)
<1> DEFINE f == FindingsWith(m, rs, verdict, separation, used, slots)
<1>1. DOMAIN f = 1 .. 12
  BY DEF FindingsWith
<1>2. f[1].code = Code[1] /\ f[1].severity = Severity[1] /\ (f[1].when <=> m.n = 0)
  BY DEF FindingsWith, P!Finding, Code, Severity
<1>3. f[2].code = Code[2] /\ f[2].severity = Severity[2] /\ (f[2].when <=> m.n > 0 /\ m.pf # NoFigure /\ m.pf < 70)
  BY DEF FindingsWith, P!Finding, Code, Severity
<1>4. f[3].code = Code[3] /\ f[3].severity = Severity[3] /\ (f[3].when <=> m.n > 0 /\ m.pf # NoFigure /\ m.pf >= 70 /\ m.pf < 100)
  BY DEF FindingsWith, P!Finding, Code, Severity
<1>5. f[4].code = Code[4] /\ f[4].severity = Severity[4] /\ (f[4].when <=> m.n > 0 /\ m.exp < 0)
  BY DEF FindingsWith, P!Finding, Code, Severity
<1>6. f[5].code = Code[5] /\ f[5].severity = Severity[5] /\ (f[5].when <=> m.n > 0 /\ m.loss # 0 /\ m.win < -m.loss /\ P!Unproven(m))
  BY DEF FindingsWith, P!Finding, Code, Severity
<1>7. f[6].code = Code[6] /\ f[6].severity = Severity[6] /\ (f[6].when <=> m.n > 0 /\ m.be * 100 >= 40 * m.n)
  BY DEF FindingsWith, P!Finding, Code, Severity
<1>8. f[7].code = Code[7] /\ f[7].severity = Severity[7] /\ (f[7].when <=> \E r \in rs : r < -30)
  BY DEF FindingsWith, P!Finding, Code, Severity
<1>9. f[8].code = Code[8] /\ f[8].severity = Severity[8] /\ (f[8].when <=> verdict = "anti_predictive")
  BY DEF FindingsWith, P!Finding, Code, Severity
<1>10. f[9].code = Code[9] /\ f[9].severity = Severity[9] /\ (f[9].when <=> separation = "insufficient")
  BY DEF FindingsWith, P!Finding, Code, Severity
<1>11. f[10].code = Code[10] /\ f[10].severity = Severity[10] /\ (f[10].when <=> separation = "no_separation")
  BY DEF FindingsWith, P!Finding, Code, Severity
<1>12. f[11].code = Code[11] /\ f[11].severity = Severity[11] /\ (f[11].when <=> used >= 70)
  BY DEF FindingsWith, P!Finding, Code, Severity
<1>13. f[12].code = Code[12] /\ f[12].severity = Severity[12] /\ (f[12].when <=> SlotLimit > 0 /\ slots >= SlotLimit /\ P!Unproven(m))
  BY DEF FindingsWith, P!Finding, Code, Severity
<1> HIDE DEF f
<1>14. \A i \in 1 .. 12 : f[i].code = Code[i] /\ f[i].severity = Severity[i]
  <2>1. \A i \in 1 .. 12 : i \in {1, 2, 3, 4, 5, 6, 7, 8, 9, 10, 11, 12}
    OBVIOUS
  <2> QED BY <2>1, <1>2, <1>3, <1>4, <1>5, <1>6, <1>7, <1>8, <1>9, <1>10, <1>11, <1>12, <1>13, Zenon
<1> QED BY <1>1, <1>14, <1>2, <1>3, <1>4, <1>5, <1>6, <1>7, <1>8, <1>9, <1>10, <1>11, <1>12, <1>13 DEF f

LEMMA FindingsAre ==
    ASSUME NEW m
    PROVE  P!FindingsOf(m) =
             FindingsWith(m, P!SetupRs, P!Verdict, P!Separation, P!UsedPct, taken)
BY Zenon DEF P!FindingsOf, P!SlotsFull, FindingsWith

LEMMA MadeFindings ==
    ASSUME NEW m
    PROVE  LET f == P!FindingsOf(m)
           IN /\ DOMAIN f = 1 .. 12
              /\ \A i \in 1 .. 12 : f[i].code = Code[i] /\ f[i].severity = Severity[i]
              /\ f[1].when <=> m.n = 0
              /\ f[2].when <=> m.n > 0 /\ m.pf # NoFigure /\ m.pf < 70
              /\ f[3].when <=> m.n > 0 /\ m.pf # NoFigure /\ m.pf >= 70 /\ m.pf < 100
              /\ f[4].when <=> m.n > 0 /\ m.exp < 0
              /\ f[5].when <=> m.n > 0 /\ m.loss # 0 /\ m.win < -m.loss /\ P!Unproven(m)
              /\ f[9].when <=> P!Separation = "insufficient"
              /\ f[10].when <=> P!Separation = "no_separation"
              /\ f[12].when <=> P!SlotsFull /\ P!Unproven(m)
<1> DEFINE g == FindingsWith(m, P!SetupRs, P!Verdict, P!Separation, P!UsedPct, taken)
<1>1. /\ DOMAIN g = 1 .. 12
      /\ \A i \in 1 .. 12 : g[i].code = Code[i] /\ g[i].severity = Severity[i]
      /\ g[1].when <=> m.n = 0
      /\ g[2].when <=> m.n > 0 /\ m.pf # NoFigure /\ m.pf < 70
      /\ g[3].when <=> m.n > 0 /\ m.pf # NoFigure /\ m.pf >= 70 /\ m.pf < 100
      /\ g[4].when <=> m.n > 0 /\ m.exp < 0
      /\ g[5].when <=> m.n > 0 /\ m.loss # 0 /\ m.win < -m.loss /\ P!Unproven(m)
      /\ g[9].when <=> P!Separation = "insufficient"
      /\ g[10].when <=> P!Separation = "no_separation"
      /\ g[12].when <=> SlotLimit > 0 /\ taken >= SlotLimit /\ P!Unproven(m)
  BY TwelveFindings
<1>2. P!FindingsOf(m) = g
  BY FindingsAre, Zenon
<1> HIDE DEF g
<1> QED BY <1>1, <1>2 DEF P!SlotsFull

Place(c) ==
    CASE c = "no_trades" -> 1 [] c = "pf_far_below" -> 2 [] c = "pf_below" -> 3
      [] c = "negative_expectancy" -> 4 [] c = "winners_too_small" -> 5
      [] c = "back_to_break_even" -> 6 [] c = "dangerous_setup" -> 7
      [] c = "score_anti_predictive" -> 8 [] c = "grade_not_validated" -> 9
      [] c = "grade_does_not_separate" -> 10 [] c = "daily_loss_high" -> 11
      [] c = "slots_full" -> 12

LEMMA CodesPlaced == \A i \in 1 .. 12 : Place(Code[i]) = i
<1>1. /\ Place(Code[1]) = 1 /\ Place(Code[2]) = 2 /\ Place(Code[3]) = 3 /\ Place(Code[4]) = 4
      /\ Place(Code[5]) = 5 /\ Place(Code[6]) = 6 /\ Place(Code[7]) = 7 /\ Place(Code[8]) = 8
      /\ Place(Code[9]) = 9 /\ Place(Code[10]) = 10 /\ Place(Code[11]) = 11
      /\ Place(Code[12]) = 12
  BY DEF Code, Place
<1> QED BY <1>1

\* The codes differ, so a code is told exactly when its finding is made.
LEMMA CodeTold ==
    ASSUME NEW m, NEW k \in 1 .. 12
    PROVE  Code[k] \in P!Codes(P!FindingsOf(m)) <=> P!FindingsOf(m)[k].when
<1> DEFINE f == P!FindingsOf(m)
<1>1. DOMAIN f = 1 .. 12 /\ \A i \in 1 .. 12 : f[i].code = Code[i]
  BY MadeFindings
<1>2. \A i, j \in 1 .. 12 : Code[i] = Code[j] => i = j
  BY CodesPlaced, Zenon
<1>3. P!Codes(f) = {f[i].code : i \in {j \in 1 .. 12 : f[j].when}}
  BY <1>1, Zenon DEF P!Codes, P!Made
<1> HIDE DEF f
<1>4. Code[k] \in P!Codes(f) <=> f[k].when
  BY <1>1, <1>2, <1>3
<1> QED BY <1>4 DEF f

LEMMA CardSame == \A S : P!Cardinality(S) = Cardinality(S)
BY Zenon DEF P!Cardinality, Cardinality

LEMMA RatioTyped == \A a \in Int, b \in Nat \ {0} : P!Ratio(a, b) \in Int
<1> SUFFICES ASSUME NEW a \in Int, NEW b \in Nat \ {0} PROVE P!Ratio(a, b) \in Int
  OBVIOUS
<1>1. ((-a) * 100) \div b \in Int
  <2>1. (-a) * 100 \in Int
    OBVIOUS
  <2> QED BY <2>1, Quotient
<1>2. (a * 100) \div b \in Int
  <2>1. a * 100 \in Int
    OBVIOUS
  <2> QED BY <2>1, Quotient
<1>3. -(((-a) * 100) \div b) \in Int
  BY <1>1
<1>4. P!Ratio(a, b) \in {-(((-a) * 100) \div b), (a * 100) \div b}
  BY Zenon DEF P!Ratio
<1> QED BY <1>2, <1>3, <1>4

LEMMA PricedFacts ==
    ASSUME EvidenceConstants, ReportTyped
    PROVE  /\ IsFiniteSet(DOMAIN history) /\ P!Priced \in SUBSET (DOMAIN history)
           /\ \A i \in DOMAIN history : P!Pnl[i] \in Int /\ P!RMultiple[i] \in Int
<1>1. DOMAIN history = 1 .. Len(history) /\ Len(history) \in Nat
  BY DEF ReportTyped
<1>2. IsFiniteSet(DOMAIN history)
  BY <1>1, FS_Interval
<1>3. \A i \in DOMAIN history : history[i] \in CloseShapes
  BY DEF ReportTyped
<1>4. \A i \in DOMAIN history : P!Pnl[i] \in Int /\ P!RMultiple[i] \in Int
  BY <1>3 DEF P!Pnl, P!RMultiple, EvidenceConstants
<1> QED BY <1>2, <1>4 DEF P!Priced

LEMMA MetricFacts ==
    ASSUME EvidenceConstants, ReportTyped
    PROVE  /\ P!Metrics.n \in Nat /\ P!Metrics.exp \in Int
           /\ P!Metrics.pf \in Int \cup {NoFigure}
           /\ P!Metrics.n = 0 => P!Metrics.pf = NoFigure
<1> DEFINE S == P!Priced
<1>1. P!Metrics.n = P!Cardinality(S) /\ P!Metrics.exp = P!Mean(S, P!RMultiple)
      /\ P!Metrics.pf = P!Factor(S)
  BY DEF P!Metrics
<1>2. IsFiniteSet(S) /\ \A i \in S : P!Pnl[i] \in Int /\ P!RMultiple[i] \in Int
  BY PricedFacts, FS_Subset
<1>3. Cardinality(S) \in Nat /\ (Cardinality(S) = 0 <=> S = {})
  BY <1>2, FS_CardinalityType, FS_EmptySet
<1>4. P!Mean(S, P!RMultiple) \in Int
  <2>1. P!Mean(S, P!RMultiple) = IF S = {} THEN 0
                                ELSE P!Ratio(Total(P!RMultiple, S), Cardinality(S) * 100)
    BY EvidenceSums, CardSame, Zenon DEF P!Mean
  <2>2. Total(P!RMultiple, S) \in Int
    BY <1>2, TotalIsInt
  <2> HIDE DEF S
  <2>3. S # {} => Cardinality(S) * 100 \in Nat \ {0}
    BY <1>3
  <2> QED BY <2>1, <2>2, <2>3, RatioTyped
<1>5. P!Factor(S) \in Int \cup {NoFigure} /\ (S = {} => P!Factor(S) = NoFigure)
  <2> DEFINE won == Total(P!Pnl, P!Won(S))
             lost == -Total(P!Pnl, P!Lost(S))
  <2>1. P!Factor(S) = IF lost > 0 THEN P!Ratio(won, lost)
                      ELSE IF won > 0 \/ S = {} THEN NoFigure ELSE 0
    BY EvidenceSums, Zenon DEF P!Factor
  <2>2. P!Won(S) \in SUBSET S /\ P!Lost(S) \in SUBSET S
    BY DEF P!Won, P!Lost
  <2> HIDE DEF S
  <2>3. IsFiniteSet(P!Won(S)) /\ IsFiniteSet(P!Lost(S))
    BY <1>2, <2>2, FS_Subset
  <2>4. won \in Int
    BY <1>2, <2>2, <2>3, TotalIsInt
  <2>5. Total(P!Pnl, P!Lost(S)) \in Int
    BY <1>2, <2>2, <2>3, TotalIsInt
  <2>6. lost \in Int /\ (S = {} => lost = 0)
    <3>1. S = {} => P!Lost(S) = {}
      BY <2>2
    <3> QED BY <2>5, <3>1, TotalEmpty
  <2> HIDE DEF won, lost
  <2>7. lost > 0 => P!Ratio(won, lost) \in Int
    BY <2>4, <2>6, RatioTyped
  <2> QED BY <2>1, <2>6, <2>7
<1> QED BY <1>1, <1>3, <1>4, <1>5, CardSame

LEMMA SeparationFacts ==
    ASSUME EvidenceConstants, ReportTyped
    PROVE  P!Separation \in {"insufficient", "separates", "no_separation"}
<1>1. \A g : Cardinality(P!Graded(g)) \in Nat
  <2> SUFFICES ASSUME NEW g PROVE Cardinality(P!Graded(g)) \in Nat
    OBVIOUS
  <2>1. P!Graded(g) \in SUBSET (DOMAIN history)
    BY DEF P!Graded
  <2> QED BY <2>1, PricedFacts, FS_Subset, FS_CardinalityType
<1>2. \A g : P!Cardinality(P!Graded(g)) \in Nat
  BY <1>1, CardSame
<1>3. GradesFrom \in Int
  BY DEF EvidenceConstants
<1> DEFINE few == P!GradesSeen = {}
                  \/ \E g \in P!GradesSeen : P!Cardinality(P!Graded(g)) < GradesFrom
           all == P!GradesSeen # {}
                  /\ \A g \in P!GradesSeen : P!Cardinality(P!Graded(g)) >= GradesFrom
           ordered == \A g, h \in P!GradesSeen : g < h => P!GradeR(g) >= P!GradeR(h)
<1>4. few \/ all
  BY <1>2, <1>3
<1>5. P!Separation = CASE few -> "insufficient"
                       [] all -> IF ordered THEN "separates" ELSE "no_separation"
  BY DEF P!Separation
<1>6. few <=> ~all
  BY <1>2, <1>3
<1> HIDE DEF few, all, ordered
<1> QED BY <1>4, <1>5, <1>6

\* The first of the most severe findings is one that was made, and no other is more severe.
LEMMA HeadlineFacts ==
    ASSUME NEW m, P!Made(P!FindingsOf(m)) # {}
    PROVE  \E i \in P!Made(P!FindingsOf(m)) :
              /\ P!Headline(P!FindingsOf(m)) = P!FindingsOf(m)[i]
              /\ \A j \in P!Made(P!FindingsOf(m)) : Severity[j] <= Severity[i]
<1> DEFINE f == P!FindingsOf(m)
           made == P!Made(f)
           worst == {i \in made : \A j \in made : Severity[j] <= Severity[i]}
<1>1. made \in SUBSET (1 .. 12) /\ made # {} /\ \A i \in 1 .. 12 : f[i].severity = Severity[i]
  BY MadeFindings DEF P!Made
<1>2. P!Headline(f) = f[CHOOSE i \in worst : \A j \in worst : i <= j]
  <2>1. worst = {i \in made : \A j \in made : f[j].severity <= f[i].severity}
    <3> HIDE DEF f, made
    <3> QED BY <1>1
  <2> HIDE DEF worst, f
  <2> QED BY <1>1, <2>1, Zenon DEF P!Headline
<1> HIDE DEF f, made
<1>3. worst # {}
  <2>1. \A i \in 1 .. 12 : Severity[i] \in {0, 1, 2}
    BY DEF Severity
  <2>2. CASE \E i \in made : Severity[i] = 2
    BY <1>1, <2>1, <2>2
  <2>3. CASE (\A i \in made : Severity[i] # 2) /\ \E i \in made : Severity[i] = 1
    BY <1>1, <2>1, <2>3
  <2>4. CASE \A i \in made : Severity[i] # 2 /\ Severity[i] # 1
    BY <1>1, <2>1, <2>4
  <2> QED BY <2>2, <2>3, <2>4
<1>4. worst \in SUBSET (1 .. 12) /\ \A i \in worst : i \in made /\ \A j \in made : Severity[j] <= Severity[i]
  BY <1>1
<1> HIDE DEF worst
<1>5. \E i \in worst : \A j \in worst : i <= j
  BY <1>3, <1>4, FirstOne
<1>6. \E i \in made : P!Headline(f) = f[i] /\ \A j \in made : Severity[j] <= Severity[i]
  BY <1>2, <1>4, <1>5
<1> QED BY <1>6 DEF f, made

\* The panel and the diagnosis of any metrics agree.
LEMMA PanelOfMetrics ==
    ASSUME EvidenceConstants, RankTyped, ReportTyped,
           NEW m, m.n \in Nat, m.exp \in Int, m.pf \in Int \cup {NoFigure},
           m.n = 0 => m.pf = NoFigure
    PROVE  LET f == P!FindingsOf(m)
           IN /\ P!State(m) = "edge_forming" =>
                    /\ P!RiskAction(m) = "within_tolerance"
                    /\ {"pf_far_below", "pf_below", "negative_expectancy", "winners_too_small"}
                          \cap P!Codes(f) = {}
              /\ P!RiskAction(m) = "do_not_increase" =>
                    m.n > 0 /\ P!Headline(f).code = "pf_far_below"
              /\ P!SlotAction(m) = "do_not_add" <=> "slots_full" \in P!Codes(f)
              /\ P!QualityAction = "candidate_for_promotion" <=>
                    {"grade_not_validated", "grade_does_not_separate"} \cap P!Codes(f) = {}
              /\ P!Immediate(f) # {} => P!NextStep(f) \in P!Immediate(f)
<1> DEFINE f == P!FindingsOf(m)
<1>1. /\ m.n \in Nat /\ m.exp \in Int /\ m.pf \in Int \cup {NoFigure}
      /\ m.n = 0 => m.pf = NoFigure
  OBVIOUS
<1>2. /\ f[2].when <=> m.n > 0 /\ m.pf # NoFigure /\ m.pf < 70
      /\ f[3].when <=> m.n > 0 /\ m.pf # NoFigure /\ m.pf >= 70 /\ m.pf < 100
      /\ f[4].when <=> m.n > 0 /\ m.exp < 0
      /\ f[5].when <=> m.n > 0 /\ m.loss # 0 /\ m.win < -m.loss /\ P!Unproven(m)
      /\ f[9].when <=> P!Separation = "insufficient"
      /\ f[10].when <=> P!Separation = "no_separation"
      /\ f[12].when <=> P!SlotsFull /\ P!Unproven(m)
  BY MadeFindings
<1>3. /\ "pf_far_below" \in P!Codes(f) <=> f[2].when
      /\ "pf_below" \in P!Codes(f) <=> f[3].when
      /\ "negative_expectancy" \in P!Codes(f) <=> f[4].when
      /\ "winners_too_small" \in P!Codes(f) <=> f[5].when
      /\ "grade_not_validated" \in P!Codes(f) <=> f[9].when
      /\ "grade_does_not_separate" \in P!Codes(f) <=> f[10].when
      /\ "slots_full" \in P!Codes(f) <=> f[12].when
  <2>1. \A k \in 1 .. 12 : Code[k] \in P!Codes(f) <=> f[k].when
    BY CodeTold
  <2>2. /\ Code[2] = "pf_far_below" /\ Code[3] = "pf_below" /\ Code[4] = "negative_expectancy"
        /\ Code[5] = "winners_too_small" /\ Code[9] = "grade_not_validated"
        /\ Code[10] = "grade_does_not_separate" /\ Code[12] = "slots_full"
    BY DEF Code
  <2>3. 2 \in 1 .. 12 /\ 3 \in 1 .. 12 /\ 4 \in 1 .. 12 /\ 5 \in 1 .. 12 /\ 9 \in 1 .. 12
        /\ 10 \in 1 .. 12 /\ 12 \in 1 .. 12
    OBVIOUS
  <2> HIDE DEF f
  <2> QED BY <2>1, <2>2, <2>3, Zenon
<1>4. /\ DOMAIN f = 1 .. 12
      /\ \A i \in 1 .. 12 : f[i].code = Code[i] /\ f[i].severity = Severity[i]
  BY MadeFindings
<1>5. P!Made(f) # {} =>
         \E i \in P!Made(f) : /\ P!Headline(f) = f[i]
                              /\ \A j \in P!Made(f) : Severity[j] <= Severity[i]
  <2> QED BY HeadlineFacts
<1>6. P!Made(f) = {i \in 1 .. 12 : f[i].when}
  BY <1>4, Zenon DEF P!Made
<1> HIDE DEF f
<1>7. P!Unproven(m) <=> m.pf = NoFigure \/ m.pf < 100
  BY DEF P!Unproven
<1>17. m.n \in Nat /\ m.exp \in Int /\ (m.pf # NoFigure => m.pf \in Int)
  BY <1>1
<1>8. P!State(m) = "edge_forming" => m.n > 0 /\ ~P!Unproven(m) /\ m.exp > 0
  <2>1. CASE m.n = 0
    BY <2>1 DEF P!State
  <2>2. CASE m.n > 0 /\ (P!Unproven(m) \/ m.exp <= 0)
    BY <1>17, <2>2 DEF P!State
  <2>3. CASE m.n > 0 /\ ~P!Unproven(m) /\ m.exp > 0
    BY <2>3
  <2> QED BY <1>17, <2>1, <2>2, <2>3
<1>9. /\ P!RiskAction(m) = "do_not_increase" => m.pf # NoFigure /\ m.pf < 70
      /\ ~P!Unproven(m) => P!RiskAction(m) = "within_tolerance"
  <2>1. CASE m.pf = NoFigure
    BY <1>7, <2>1 DEF P!RiskAction
  <2>2. CASE m.pf # NoFigure /\ m.pf < 70
    BY <1>7, <1>17, <2>2 DEF P!RiskAction
  <2>3. CASE m.pf # NoFigure /\ ~(m.pf < 70)
    BY <1>7, <1>17, <2>3 DEF P!RiskAction
  <2> QED BY <2>1, <2>2, <2>3
<1>10. P!SlotAction(m) = "do_not_add" <=> P!SlotsFull /\ P!Unproven(m)
  BY DEF P!SlotAction
<1>11. P!QualityAction = "candidate_for_promotion" <=> P!Separation = "separates"
  BY DEF P!QualityAction
<1>12. P!State(m) = "edge_forming" =>
         /\ P!RiskAction(m) = "within_tolerance"
         /\ {"pf_far_below", "pf_below", "negative_expectancy", "winners_too_small"}
               \cap P!Codes(f) = {}
  <2> SUFFICES ASSUME P!State(m) = "edge_forming"
               PROVE  /\ P!RiskAction(m) = "within_tolerance"
                      /\ ~f[2].when /\ ~f[3].when /\ ~f[4].when /\ ~f[5].when
    BY <1>3
  <2>1. m.pf \in Int /\ m.pf >= 100 /\ m.exp > 0 /\ ~P!Unproven(m)
    BY <1>7, <1>8, <1>17
  <2>2. ~f[2].when /\ ~f[3].when
    BY <1>2, <2>1
  <2>3. ~f[4].when /\ ~f[5].when
    BY <1>2, <1>17, <2>1
  <2> QED BY <1>9, <2>1, <2>2, <2>3
<1>13. P!RiskAction(m) = "do_not_increase" => m.n > 0 /\ P!Headline(f).code = "pf_far_below"
  <2> SUFFICES ASSUME P!RiskAction(m) = "do_not_increase"
               PROVE  m.n > 0 /\ P!Headline(f).code = "pf_far_below"
    OBVIOUS
  <2>1. m.n > 0 /\ f[2].when
    <3>1. m.pf # NoFigure /\ m.pf < 70
      BY <1>9
    <3>2. m.n > 0
      BY <1>1, <1>17, <3>1
    <3> QED BY <1>2, <3>1, <3>2
  <2>2. 2 \in P!Made(f)
    <3>1. 2 \in 1 .. 12
      OBVIOUS
    <3> QED BY <1>6, <2>1, <3>1, Zenon
  <2>3. PICK i \in P!Made(f) : P!Headline(f) = f[i] /\ \A j \in P!Made(f) : Severity[j] <= Severity[i]
    BY <1>5, <2>2
  <2>4. i \in 1 .. 12 /\ Severity[2] <= Severity[i]
    BY <1>6, <2>2, <2>3
  <2>5. i = 2
    <3>1. \A j \in 1 .. 12 : j # 2 => Severity[j] < 2
      BY DEF Severity
    <3>2. Severity[2] = 2
      BY DEF Severity
    <3>3. Severity[i] \in Int
      BY <2>4 DEF Severity
    <3> QED BY <2>4, <3>1, <3>2, <3>3
  <2>6. P!Headline(f).code = Code[2]
    BY <1>4, <2>3, <2>4, <2>5
  <2> QED BY <2>1, <2>6 DEF Code
<1>14. P!SlotAction(m) = "do_not_add" <=> "slots_full" \in P!Codes(f)
  BY <1>2, <1>3, <1>10
<1>15. P!QualityAction = "candidate_for_promotion" <=>
          {"grade_not_validated", "grade_does_not_separate"} \cap P!Codes(f) = {}
  BY <1>2, <1>3, <1>11, SeparationFacts
<1>16. P!Immediate(f) # {} => P!NextStep(f) \in P!Immediate(f)
  <2>1. P!Immediate(f) = {f[i].code : i \in {j \in P!Made(f) : Severity[j] > 0}}
    <3>1. \A j \in P!Made(f) : f[j].severity = Severity[j]
      BY <1>4, <1>6
    <3> QED BY <3>1 DEF P!Immediate
  <2> SUFFICES ASSUME NEW k \in P!Made(f), Severity[k] > 0
               PROVE  P!NextStep(f) \in P!Immediate(f)
    BY <2>1
  <2>2. PICK i \in P!Made(f) : P!Headline(f) = f[i] /\ \A j \in P!Made(f) : Severity[j] <= Severity[i]
    BY <1>5
  <2>3. i \in 1 .. 12 /\ k \in 1 .. 12 /\ Severity[k] <= Severity[i]
    BY <1>6, <2>2
  <2>4. Severity[i] > 0
    <3>1. Severity[i] \in Int /\ Severity[k] \in Int
      BY <2>3 DEF Severity
    <3> QED BY <2>3, <3>1
  <2>5. i # 1
    BY <2>4 DEF Severity
  <2>6. f[i].code # "no_trades"
    <3>1. f[i].code = Code[i]
      BY <1>4, <2>3
    <3>2. Place(Code[i]) = i
      BY <2>3, CodesPlaced
    <3>3. Place("no_trades") = 1
      BY DEF Place
    <3> QED BY <2>5, <3>1, <3>2, <3>3, Zenon
  <2>7. P!NextStep(f) = f[i].code
    BY <2>2, <2>6, Zenon DEF P!NextStep
  <2> QED BY <2>1, <2>2, <2>4, <2>7
<1> QED BY <1>12, <1>13, <1>14, <1>15, <1>16 DEF f

LEMMA PanelFacts == ASSUME EvidenceConstants, RankTyped, ReportTyped PROVE P!PanelAgrees
<1>1. PICK m : m = P!Metrics
  OBVIOUS
<1>2. /\ m.n \in Nat /\ m.exp \in Int /\ m.pf \in Int \cup {NoFigure}
      /\ m.n = 0 => m.pf = NoFigure
  BY <1>1, MetricFacts
<1> QED BY <1>1, <1>2, PanelOfMetrics DEF P!PanelAgrees

(***************************************************************************)
(* A close that nobody priced. The metrics as a function of what the       *)
(* trades made, and what they made at the trades that count.               *)
(***************************************************************************)
Gains(p, S) == {i \in S : p[i] > 0}
Losses(p, S) == {i \in S : p[i] <= 0}
FactorOf(p, S) ==
    LET won  == Total(p, Gains(p, S))
        lost == -Total(p, Losses(p, S))
    IN IF lost > 0 THEN P!Ratio(won, lost) ELSE IF won > 0 \/ S = {} THEN NoFigure ELSE 0
MeanOf(S, v) == IF S = {} THEN 0 ELSE P!Ratio(Total(v, S), Cardinality(S) * 100)
EquityOf(p, S, upTo) == Total(p, {i \in S : i <= upTo})
FallsOf(p, S) == {EquityOf(p, S, x[1]) - EquityOf(p, S, x[2]) :
                    x \in {y \in (S \cup {0}) \X (S \cup {0}) : y[1] <= y[2]}}
Deepest(falls) == CHOOSE d \in falls : \A e \in falls : e <= d
MetricsOf(p, r, S, h) ==
    [n |-> Cardinality(S), pf |-> FactorOf(p, S), exp |-> MeanOf(S, r),
     win |-> MeanOf(Gains(p, S), [i \in DOMAIN h |-> p[i] * 100]),
     loss |-> MeanOf(Losses(p, S), [i \in DOMAIN h |-> p[i] * 100]),
     be |-> Cardinality({i \in S : h[i].reason = "BE"}),
     sl |-> Cardinality({i \in S : h[i].reason = "SL"}),
     drawdown |-> Deepest(FallsOf(p, S))]
UsedOf(p, S, day) ==
    LET budget == ((FirstBalance + Total(p, S)) * DayLossPct) \div 100
        made   == Total(p, {i \in S : i > day})
    IN IF budget <= 0 \/ made >= 0 THEN 0 ELSE P!Ratio(-made, budget)

MetricsHold == P!Metrics = MetricsOf(P!Pnl, P!RMultiple, P!Priced, history)
UsedHolds == P!UsedPct = UsedOf(P!Pnl, P!Priced, today)

LEMMA MetricsAre == MetricsHold
<1> DEFINE p == P!Pnl
           S == P!Priced
<1>1. \A T : P!Won(T) = Gains(p, T) /\ P!Lost(T) = Losses(p, T)
  BY Zenon DEF P!Won, P!Lost, Gains, Losses
<1>2. \A T : P!Factor(T) = FactorOf(p, T)
  BY <1>1, EvidenceSums, Zenon DEF P!Factor, FactorOf
<1>3. \A T, v : P!Mean(T, v) = MeanOf(T, v)
  BY EvidenceSums, CardSame, Zenon DEF P!Mean, MeanOf
<1>4. \A T, u : P!Equity(T, u) = EquityOf(p, T, u)
  BY EvidenceSums, Zenon DEF P!Equity, EquityOf
<1>5. P!Drawdown(S) = Deepest(FallsOf(p, S))
  <2>1. P!Drawdown(S) = Deepest({P!Equity(S, x[1]) - P!Equity(S, x[2]) :
                                   x \in {y \in (S \cup {0}) \X (S \cup {0}) : y[1] <= y[2]}})
    BY Zenon DEF P!Drawdown, Deepest
  <2>2. {P!Equity(S, x[1]) - P!Equity(S, x[2]) :
           x \in {y \in (S \cup {0}) \X (S \cup {0}) : y[1] <= y[2]}} = FallsOf(p, S)
    <3> HIDE DEF S, p
    <3> QED BY <1>4, Zenon DEF FallsOf
  <2> QED BY <2>1, <2>2, Zenon
<1> QED BY <1>1, <1>2, <1>3, <1>5, CardSame, Zenon DEF P!Metrics, MetricsOf, MetricsHold

LEMMA UsedIs == UsedHolds
BY EvidenceSums, Zenon DEF P!UsedPct, UsedOf, UsedHolds

Alike(S, p, q, r, s, h, g) ==
    /\ IsFiniteSet(S) /\ S \subseteq DOMAIN h /\ S \subseteq DOMAIN g
    /\ \A i \in S : p[i] \in Int /\ p[i] = q[i] /\ r[i] \in Int /\ r[i] = s[i] /\ h[i] = g[i]

\* What is measured reads only the trades that count.
LEMMA MetricsSame ==
    ASSUME NEW S, NEW p, NEW q, NEW r, NEW s, NEW h, NEW g, Alike(S, p, q, r, s, h, g)
    PROVE  /\ MetricsOf(p, r, S, h) = MetricsOf(q, s, S, g)
           /\ \A day : UsedOf(p, S, day) = UsedOf(q, S, day)
<1> USE DEF Alike
<1>1. Gains(p, S) = Gains(q, S) /\ Losses(p, S) = Losses(q, S)
  BY DEF Gains, Losses
<1>2. Gains(p, S) \in SUBSET S /\ Losses(p, S) \in SUBSET S
  BY DEF Gains, Losses
<1>3. ASSUME NEW T \in SUBSET S PROVE Total(p, T) = Total(q, T)
  <2>1. IsFiniteSet(T) /\ \A i \in T : p[i] \in Int /\ p[i] = q[i]
    BY FS_Subset
  <2> QED BY <2>1, TotalSame
<1>4. ASSUME NEW T \in SUBSET S
      PROVE  MeanOf(T, [i \in DOMAIN h |-> p[i] * 100]) = MeanOf(T, [i \in DOMAIN g |-> q[i] * 100])
  <2> DEFINE v == [i \in DOMAIN h |-> p[i] * 100]
             w == [i \in DOMAIN g |-> q[i] * 100]
  <2>1. \A i \in T : v[i] \in Int /\ v[i] = w[i]
    OBVIOUS
  <2>2. IsFiniteSet(T)
    BY FS_Subset
  <2> HIDE DEF v, w
  <2>3. Total(v, T) = Total(w, T)
    BY <2>1, <2>2, TotalSame
  <2>4. MeanOf(T, v) = MeanOf(T, w)
    BY <2>3, Zenon DEF MeanOf
  <2> QED BY <2>4 DEF v, w
<1>5. FactorOf(p, S) = FactorOf(q, S)
  <2>1. Total(p, Gains(p, S)) = Total(q, Gains(q, S)) /\ Total(p, Losses(p, S)) = Total(q, Losses(q, S))
    BY <1>1, <1>2, <1>3
  <2> QED BY <2>1, Zenon DEF FactorOf
<1>6. MeanOf(S, r) = MeanOf(S, s)
  <2>1. Total(r, S) = Total(s, S)
    BY TotalSame
  <2> QED BY <2>1, Zenon DEF MeanOf
<1>7. {i \in S : h[i].reason = "BE"} = {i \in S : g[i].reason = "BE"}
      /\ {i \in S : h[i].reason = "SL"} = {i \in S : g[i].reason = "SL"}
  BY Zenon
<1>8. FallsOf(p, S) = FallsOf(q, S)
  <2>1. \A u : EquityOf(p, S, u) = EquityOf(q, S, u)
    <3>1. \A u : {i \in S : i <= u} \in SUBSET S
      OBVIOUS
    <3> QED BY <1>3, <3>1 DEF EquityOf
  <2> QED BY <2>1, Zenon DEF FallsOf
<1>9. MetricsOf(p, r, S, h) = MetricsOf(q, s, S, g)
  <2>1. MeanOf(Gains(p, S), [i \in DOMAIN h |-> p[i] * 100])
          = MeanOf(Gains(q, S), [i \in DOMAIN g |-> q[i] * 100])
    BY <1>1, <1>2, <1>4, Zenon
  <2>2. MeanOf(Losses(p, S), [i \in DOMAIN h |-> p[i] * 100])
          = MeanOf(Losses(q, S), [i \in DOMAIN g |-> q[i] * 100])
    BY <1>1, <1>2, <1>4, Zenon
  <2> QED BY <1>5, <1>6, <1>7, <1>8, <2>1, <2>2, Zenon DEF MetricsOf
<1>10. ASSUME NEW day PROVE UsedOf(p, S, day) = UsedOf(q, S, day)
  <2>1. {i \in S : i > day} \in SUBSET S /\ S \in SUBSET S
    OBVIOUS
  <2>2. Total(p, S) = Total(q, S)
    BY <1>3, <2>1
  <2>3. Total(p, {i \in S : i > day}) = Total(q, {i \in S : i > day})
    BY <1>3, <2>1
  <2> QED BY <2>2, <2>3, Zenon DEF UsedOf
<1> QED BY <1>9, <1>10

\* What is said of the grades and of the slots aside, the findings are the same.
LEMMA ToldTheSame ==
    ASSUME NEW m, NEW rs, NEW verdict, NEW used, NEW sep1, NEW sep2, NEW n1, NEW n2
    PROVE  LET about == {"grade_not_validated", "grade_does_not_separate", "slots_full"}
           IN P!Codes(FindingsWith(m, rs, verdict, sep1, used, n1)) \ about
                = P!Codes(FindingsWith(m, rs, verdict, sep2, used, n2)) \ about
<1> DEFINE f == FindingsWith(m, rs, verdict, sep1, used, n1)
           g == FindingsWith(m, rs, verdict, sep2, used, n2)
           about == {"grade_not_validated", "grade_does_not_separate", "slots_full"}
<1>1. /\ DOMAIN f = 1 .. 12 /\ DOMAIN g = 1 .. 12
      /\ \A i \in 1 .. 12 : f[i].code = Code[i] /\ g[i].code = Code[i]
  BY TwelveFindings
<1>2. /\ f[1].when <=> g[1].when
      /\ f[2].when <=> g[2].when
      /\ f[3].when <=> g[3].when
      /\ f[4].when <=> g[4].when
      /\ f[5].when <=> g[5].when
      /\ f[6].when <=> g[6].when
      /\ f[7].when <=> g[7].when
      /\ f[8].when <=> g[8].when
      /\ f[11].when <=> g[11].when
  BY TwelveFindings
<1>3. Code[9] \in about /\ Code[10] \in about /\ Code[12] \in about
  BY DEF Code
<1> HIDE DEF f, g, about
<1>4. \A i \in 1 .. 12 : (f[i].when <=> g[i].when) \/ Code[i] \in about
  BY <1>2, <1>3
<1>5. P!Codes(f) = {Code[i] : i \in {j \in 1 .. 12 : f[j].when}}
      /\ P!Codes(g) = {Code[i] : i \in {j \in 1 .. 12 : g[j].when}}
  BY <1>1 DEF P!Codes, P!Made
<1>6. P!Codes(f) \ about = P!Codes(g) \ about
  BY <1>4, <1>5
<1> QED BY <1>6 DEF f, g, about

\* A close without a figure changes nothing that is measured.
LEMMA UnpricedFacts ==
    ASSUME EvidenceConstants, ReportTyped, NEW t \in CloseShapes, t.pnl = NoFigure,
           history' = Append(history, t), today' = today, UNCHANGED P!vars
    PROVE  /\ P!Metrics' = P!Metrics /\ P!UsedPct' = P!UsedPct
           /\ LET about == {"grade_not_validated", "grade_does_not_separate", "slots_full"}
              IN P!Codes(P!Findings') \ about = P!Codes(P!Findings) \ about
<1> DEFINE S == P!Priced
<1>1. /\ DOMAIN history = 1 .. Len(history) /\ Len(history) \in Nat
      /\ DOMAIN history' = 1 .. Len(history) + 1
      /\ history'[Len(history) + 1] = t
      /\ \A i \in DOMAIN history : i \in DOMAIN history' /\ history'[i] = history[i]
  BY DEF ReportTyped
<1>2. P!Priced' = S
  BY <1>1 DEF P!Priced
<1>3. /\ IsFiniteSet(S) /\ S \subseteq DOMAIN history /\ S \subseteq DOMAIN history'
      /\ \A i \in S : P!Pnl[i] \in Int /\ P!RMultiple[i] \in Int
  <2>1. S \in SUBSET (DOMAIN history) /\ IsFiniteSet(DOMAIN history)
        /\ \A i \in DOMAIN history : P!Pnl[i] \in Int /\ P!RMultiple[i] \in Int
    BY PricedFacts
  <2> HIDE DEF S
  <2> QED BY <1>1, <2>1, FS_Subset
<1>4. \A i \in S : P!Pnl'[i] = P!Pnl[i] /\ P!RMultiple'[i] = P!RMultiple[i] /\ history'[i] = history[i]
  BY <1>1 DEF P!Pnl, P!RMultiple, P!Priced
<1>5. MetricsOf(P!Pnl', P!RMultiple', S, history') = MetricsOf(P!Pnl, P!RMultiple, S, history)
      /\ UsedOf(P!Pnl', S, today) = UsedOf(P!Pnl, S, today)
  <2> DEFINE p == P!Pnl
             q == P!Pnl'
             r == P!RMultiple
             s == P!RMultiple'
             h == history
             g == history'
  <2>1. Alike(S, p, q, r, s, h, g)
    BY <1>3, <1>4 DEF Alike
  <2> HIDE DEF S, p, q, r, s, h, g
  <2>2. MetricsOf(p, r, S, h) = MetricsOf(q, s, S, g) /\ \A day : UsedOf(p, S, day) = UsedOf(q, S, day)
    BY <2>1, MetricsSame, Zenon
  <2> QED BY <2>2, Zenon DEF p, q, r, s, h, g
<1>6. P!Metrics' = MetricsOf(P!Pnl', P!RMultiple', P!Priced', history')
  <2>1. MetricsHold'
    BY MetricsAre, PTL
  <2> QED BY <2>1, Zenon DEF MetricsHold
<1>7. P!UsedPct' = UsedOf(P!Pnl', P!Priced', today')
  <2>1. UsedHolds'
    BY UsedIs, PTL
  <2> QED BY <2>1, Zenon DEF UsedHolds
<1>8. P!Metrics' = P!Metrics /\ P!UsedPct' = P!UsedPct
  BY <1>2, <1>5, <1>6, <1>7, MetricsAre, UsedIs, Zenon DEF MetricsHold, UsedHolds
<1>9. P!SetupRs' = P!SetupRs /\ P!Verdict' = P!Verdict
  BY DEF P!vars, P!SetupRs, P!Verdict, P!Sufficient, P!Monotone, P!Filled, P!WinPct, P!AvgR,
         P!RowsOf, P!Resolved, P!Tracked, P!OfBucket, P!OfSetup
<1> DEFINE With(separation, slots) ==
             FindingsWith(P!Metrics, P!SetupRs, P!Verdict, separation, P!UsedPct, slots)
<1>10. P!Findings = With(P!Separation, taken)
  BY FindingsAre, Zenon DEF P!Findings
<1>11. P!Findings' = With(P!Separation', taken')
  <2>1. P!Findings' = FindingsWith(P!Metrics', P!SetupRs', P!Verdict', P!Separation', P!UsedPct', taken')
    BY Zenon DEF P!Findings, P!FindingsOf, FindingsWith, P!SlotsFull
  <2> QED BY <1>8, <1>9, <2>1, Zenon
<1> DEFINE about == {"grade_not_validated", "grade_does_not_separate", "slots_full"}
<1>12. \A x, y, n, k : P!Codes(With(x, n)) \ about = P!Codes(With(y, k)) \ about
  BY ToldTheSame
<1> HIDE DEF With, about
<1>13. P!Codes(P!Findings') \ about = P!Codes(P!Findings) \ about
  BY <1>10, <1>11, <1>12, Zenon
<1> QED BY <1>8, <1>13, Zenon DEF about

--------------------------------------------------------------------------------
LEMMA StepsAreTyped ==
    ASSUME EvidenceConstants, EvidenceInv, EvidenceNext
    PROVE  RankTyped /\ RankTyped' /\ (ReportsStep => ReportTyped)
<1>1. CASE RankingStep
  <2>1. ~ReportsStep
    BY <1>1 DEF RankingStep, ReportsStep, RankingRuns, ReportsRun
  <2> QED BY <1>1, <2>1, RankingTyped DEF RankingStep, EvidenceInv
<1>2. CASE ReportsStep
  BY <1>2, ReportsTyped DEF ReportsStep, EvidenceInv
<1> QED BY <1>1, <1>2 DEF EvidenceNext

\* RankedByEvidence: of two candidates of a setup the one ranked first has the better
\* record of this epoch, and nothing is raised for what has not gained.
THEOREM RankingFollowsEvidence ==
    ASSUME EvidenceConstants PROVE EvidenceSpec => []RankedByEvidence
<1>1. EvidenceInit => EvidenceInv
  BY EvidenceStarts
<1>2. EvidenceInv /\ [EvidenceNext]_evidenceVars => EvidenceInv'
  BY EvidenceKept
<1>3. EvidenceInv => RankedByEvidence
  BY EdgeFacts, RewardFacts DEF EvidenceInv, RankedByEvidence
<1> QED BY <1>1, <1>2, <1>3, PTL DEF EvidenceSpec

\* ReportsAgree: what the owner is told about the score is what ranking and sizing do, and
\* the panel does not contradict the diagnosis.
THEOREM ReportsAlwaysAgree ==
    ASSUME EvidenceConstants PROVE EvidenceSpec => []ReportsAgree
<1>1. EvidenceInit => EvidenceInv
  BY EvidenceStarts
<1>2. EvidenceInv /\ [EvidenceNext]_evidenceVars => EvidenceInv'
  BY EvidenceKept
<1>3. EvidenceInv => ReportsAgree
  BY TellingFacts, PanelFacts DEF EvidenceInv, ReportsAgree
<1> QED BY <1>1, <1>2, <1>3, PTL DEF EvidenceSpec

\* BetterIsNotWorse: a candidate better in one thing that is known of both, and the same in
\* the others, is not labelled worse.
THEOREM BetterNeverWorse ==
    ASSUME EvidenceConstants PROVE EvidenceSpec => BetterIsNotWorse
<1> DEFINE NotWorse == NoFigure \notin {label, label'} /\ P!Better(label, label')
                       => P!Grade(label') <= P!Grade(label)
<1>1. EvidenceInit => EvidenceInv
  BY EvidenceStarts
<1>2. EvidenceInv /\ [EvidenceNext]_evidenceVars => EvidenceInv'
  BY EvidenceKept
<1>3. EvidenceInv /\ [EvidenceNext]_evidenceVars => [NotWorse]_label
  <2> SUFFICES ASSUME EvidenceInv, [EvidenceNext]_evidenceVars, label' # label,
                      NoFigure \notin {label, label'}, P!Better(label, label')
               PROVE  P!Grade(label') <= P!Grade(label)
    OBVIOUS
  <2>1. EvidenceNext
    BY DEF evidenceVars, rankVars
  <2>2. RankTyped /\ RankTyped'
    BY <2>1, StepsAreTyped
  <2>3. label \in LabelViews /\ label' \in LabelViews
    BY <2>2 DEF RankTyped
  <2>4. \A v, w \in LabelViews : P!Better(v, w) => P!Grade(w) <= P!Grade(v)
    BY <2>2, BetterGrade
  <2> QED BY <2>3, <2>4
<1>4. EvidenceSpec => [][NotWorse]_label
  BY <1>1, <1>2, <1>3, PTL DEF EvidenceSpec
<1> QED BY <1>4 DEF BetterIsNotWorse, P!BetterIsNotWorse

\* UnpricedSkewNothing: a close without a figure changes no metric, and of the findings only
\* those on the grades and the slots.
THEOREM UnpricedNeverSkews ==
    ASSUME EvidenceConstants PROVE EvidenceSpec => UnpricedSkewNothing
<1> DEFINE Unskewed ==
        Len(history') > Len(history) /\ history'[Len(history')].pnl = NoFigure
          => /\ P!Metrics' = P!Metrics /\ P!UsedPct' = P!UsedPct
             /\ LET about == {"grade_not_validated", "grade_does_not_separate", "slots_full"}
                IN P!Codes(P!Findings') \ about = P!Codes(P!Findings) \ about
<1>1. EvidenceInit => EvidenceInv
  BY EvidenceStarts
<1>2. EvidenceInv /\ [EvidenceNext]_evidenceVars => EvidenceInv'
  BY EvidenceKept
<1>3. EvidenceInv /\ [EvidenceNext]_evidenceVars => [Unskewed]_history
  <2> SUFFICES ASSUME EvidenceInv, [EvidenceNext]_evidenceVars, history' # history,
                      Len(history') > Len(history), history'[Len(history')].pnl = NoFigure
               PROVE  /\ P!Metrics' = P!Metrics /\ P!UsedPct' = P!UsedPct
                      /\ LET about == {"grade_not_validated", "grade_does_not_separate", "slots_full"}
                         IN P!Codes(P!Findings') \ about = P!Codes(P!Findings) \ about
    BY Zenon
  <2>1. EvidenceNext /\ ~RankingStep
    BY DEF evidenceVars, reportVars, RankingStep
  <2>2. ReportsStep /\ ReportTyped
    BY <2>1, StepsAreTyped DEF EvidenceNext
  <2>3. P!Close
    <3>1. history' # <<>>
      <4>1. Len(history) \in Nat /\ Len(<<>>) = 0
        BY <2>2 DEF ReportTyped
      <4> QED BY <4>1
    <3> QED BY <2>2, <3>1 DEF ReportsStep, P!ReportNext, P!Open, P!NewDay, P!RowResolves, P!Reset,
                              P!reportVars
  <2>4. PICK t \in CloseShapes : history' = Append(history, t)
    BY <2>3 DEF P!Close
  <2>5. today' = today /\ UNCHANGED P!vars
    BY <2>3 DEF P!Close
  <2>6. t.pnl = NoFigure
    BY <2>2, <2>4 DEF ReportTyped
  <2> QED BY <2>2, <2>4, <2>5, <2>6, UnpricedFacts
<1>4. EvidenceSpec => [][Unskewed]_history
  BY <1>1, <1>2, <1>3, PTL DEF EvidenceSpec
<1> QED BY <1>4 DEF UnpricedSkewNothing, P!UnpricedSkewNothing
================================================================================
