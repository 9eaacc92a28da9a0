---------------------------- MODULE LiveEntryProofs ----------------------------
(***************************************************************************)
(* Proofs about one send_entry call, for every quantity, retry limit,      *)
(* timeout, set of targets and set of API faults; then about what becomes  *)
(* of the signals of a cycle before one is sent (Screening), for every     *)
(* universe, order book, mode, cap and time.                               *)
(***************************************************************************)
EXTENDS LiveEntry, Screening, SetSums, SequenceTheorems, TLAPS

--------------------------------------------------------------------------------
(* The inductive invariant, by concern.                                    *)

\* Only the current generation can be live, and no later one exists yet.
Current ==
    /\ \A g \in Gens : Open(g) => g = attempt
    /\ pc \in {"idle", "create"} => orders[attempt].st = "none"
    /\ \A g \in Gens : g > attempt => orders[g].st = "none"

\* What the loop knows of the order it drives.
Driven ==
    /\ pc \in {"fetch", "cancel"} =>
          /\ orders[attempt].st \in {"open", "closed"}
          /\ orders[attempt].qty = genQty
    /\ pc = "cancel" => seen <= orders[attempt].filled /\ seen < genQty
    /\ \A g \in Gens : Open(g) => orders[g].filled < orders[g].qty
    /\ pc = "idle" => attempt = 0 /\ genQty = Qty

\* No order executes past its quantity.
Filled == \A g \in Gens : orders[g].filled <= orders[g].qty

\* The loop's counts against the request and against the exchange.
Counts ==
    /\ pc \in {"idle", "create", "fetch", "cancel"} => prevFilled + genQty = Qty
    /\ pc \in {"idle", "create"} => prevFilled <= executed
    /\ pc \in {"fetch", "cancel"} => prevFilled + orders[attempt].filled <= executed
    /\ report.filled <= executed
    /\ report.filled <= Qty

\* What may still be bought in this generation.
Pending ==
    IF pc \in {"idle", "create"} THEN genQty
    ELSE IF Open(attempt) THEN orders[attempt].qty - orders[attempt].filled ELSE 0

Exposure == executed + Pending <= Qty + attempt * (Qty - 1)

Covered ==
    /\ pc \in {"idle", "create", "fetch", "cancel"} => next = 0
    /\ pc = "protect" => report.status = "LIVE_SENT" /\ report.filled > 0
    /\ pc = "protect" /\ next > 0 => sl # "none"
    /\ SentIsCovered

Trips ==
    /\ tripped => pc = "idle" \/ (Done /\ report.status \in {"TRIPPED", "DISARMED"})
    /\ Done /\ report.status = "TRIPPED" => tripped

IInv ==
    /\ TypeOK
    /\ Current
    /\ Driven
    /\ Filled
    /\ Counts
    /\ Exposure
    /\ Covered
    /\ Trips

--------------------------------------------------------------------------------
(* Arithmetic the steps rest on.                                           *)

\* The hard cap of the timeout policy is a number of polls.
LEMMA HardCapNat == HardCap \in Nat
  BY EntryAssumption DEF HardCap

\* A target sized to a fill is a number of units.
LEMMA TpQtyNat ==
  ASSUME TypeOK, NEW i \in DOMAIN TPs
  PROVE  TpQty(i) \in Nat
  <1>1. TPs[i] \in Nat
    BY EntryAssumption
  <1>2. report.filled * TPs[i] \in Nat
    BY <1>1 DEF TypeOK
  <1>3. Qty \in Nat /\ Qty > 0
    BY EntryAssumption
  <1>4. \A x \in Nat : x \div Qty \in Nat
    BY <1>3, SMTT(30)
  <1> QED
    BY <1>2, <1>4, Zenon DEF TpQty

\* One more generation adds at most all but one unit to the bound.
LEMMA OneMoreGeneration ==
  ASSUME NEW a \in Nat
  PROVE  (a + 1) * (Qty - 1) = a * (Qty - 1) + (Qty - 1)
  BY EntryAssumption

LEMMA GenerationsBound ==
  ASSUME NEW a \in Gens
  PROVE  a * (Qty - 1) <= MaxRetries * (Qty - 1)
  <1> DEFINE q == Qty - 1
  <1>1. q \in Nat /\ a \in Nat /\ MaxRetries - a \in Nat
    BY EntryAssumption DEF Gens
  <1>2. MaxRetries * q = a * q + (MaxRetries - a) * q
    BY <1>1, EntryAssumption
  <1>3. (MaxRetries - a) * q \in Nat /\ a * q \in Int /\ MaxRetries * q \in Int
    BY <1>1, EntryAssumption
  <1> QED
    BY <1>2, <1>3

--------------------------------------------------------------------------------
(* The invariant holds initially and every step keeps it.                  *)

\* The invariant holds when send_entry is called.
THEOREM InitInv == Init => IInv
  BY EntryAssumption, HardCapNat
     DEF Init, IInv, TypeOK, Current, Driven, Filled, Counts, Exposure, Covered, Trips,
         Pending, SentIsCovered, Done, Open, Gens, NoOrder, NoReport, Statuses

\* The loop is left, to place the protections or to return: what the report
\* must say of the fill and of the trip.
LEMMA LoopEnds ==
  ASSUME IInv, TypeOK', UNCHANGED <<attempt, orders, executed, next>>,
         pc \in {"idle", "create", "fetch", "cancel"}, pc' \in {"protect", "done"},
         report'.filled <= executed, report'.filled <= Qty,
         pc' = "protect" => report'.status = "LIVE_SENT" /\ report'.filled > 0,
         pc' = "done" => report'.status # "LIVE_SENT",
         tripped' => pc' = "done" /\ report'.status \in {"TRIPPED", "DISARMED"},
         report'.status = "TRIPPED" => tripped'
  PROVE  IInv'
  <1>1. Current' /\ Driven' /\ Filled'
    BY DEF IInv, Current, Driven, Filled, Open
  <1>2. Counts'
    BY DEF IInv, Counts
  <1>3. Exposure'
    <2>1. Pending' <= Pending /\ Pending \in Int /\ Pending' \in Int
      BY EntryAssumption DEF IInv, TypeOK, Current, Driven, Pending, Open
    <2>2. attempt * (Qty - 1) \in Int /\ executed \in Nat
      BY EntryAssumption DEF IInv, TypeOK, Gens
    <2> QED
      BY <2>1, <2>2, EntryAssumption DEF IInv, Exposure
  <1>4. Covered' /\ Trips'
    BY DEF IInv, Covered, Trips, SentIsCovered, Done
  <1> QED
    BY <1>1, <1>2, <1>3, <1>4 DEF IInv

LEMMA DeclineInv == IInv /\ Decline => IInv'
  <1> SUFFICES ASSUME IInv, Decline PROVE IInv'
    OBVIOUS
  <1>1. TypeOK'
    BY DEF Decline, Return, exchangeVars, IInv, TypeOK, Statuses
  <1> QED
    BY <1>1, LoopEnds, EntryAssumption
       DEF Decline, Return, Engaged, exchangeVars, IInv, TypeOK, Counts, Trips

LEMMA PreOrderInv == IInv /\ PreOrder => IInv'
  <1> SUFFICES ASSUME IInv, PreOrder PROVE IInv'
    OBVIOUS
  <1>1. TypeOK'
    BY DEF PreOrder, Return, exchangeVars, IInv, TypeOK, Statuses
  <1>2. CASE pc' = "create"
    BY <1>1, <1>2
       DEF PreOrder, Return, Engaged, exchangeVars, IInv, Current, Driven, Filled,
           Counts, Exposure, Covered, Trips, Pending, SentIsCovered, Done, Open
  <1>3. CASE pc' = "done"
    BY <1>1, <1>3, LoopEnds, EntryAssumption
       DEF PreOrder, Return, Engaged, exchangeVars, IInv, TypeOK, Counts, Trips
  <1> QED
    BY <1>2, <1>3 DEF PreOrder, Return

\* A create that reached the exchange gives this generation a live order.
LEMMA OrderCreated ==
  ASSUME IInv, pc = "create", orders' = [orders EXCEPT ![attempt] = NewOrder],
         attempt' = attempt
  PROVE  /\ orders' \in [Gens -> [st : {"none", "open", "closed", "canceled"},
                                  qty : 0 .. Qty, filled : 0 .. Qty]]
         /\ orders'[attempt] = [st |-> "open", qty |-> genQty, filled |-> 0]
         /\ \A g \in Gens : g # attempt => orders'[g] = orders[g]
         /\ \A g \in Gens : Open(g)' <=> g = attempt
         /\ \A g \in Gens : g > attempt => orders'[g].st = "none"
  <1>1. attempt \in Gens /\ genQty \in 1 .. Qty
    BY DEF IInv, TypeOK
  <1>2. orders'[attempt] = NewOrder /\ \A g \in Gens \ {attempt} : orders'[g] = orders[g]
    BY <1>1 DEF IInv, TypeOK
  <1>3. NewOrder \in [st : {"none", "open", "closed", "canceled"},
                      qty : 0 .. Qty, filled : 0 .. Qty]
    BY <1>1, EntryAssumption DEF NewOrder
  <1>4. \A g \in Gens : Open(g)' <=> g = attempt
    BY <1>1, <1>2 DEF IInv, Current, Open, NewOrder
  <1>5. \A g \in Gens : g > attempt => orders'[g].st = "none"
    BY <1>1, <1>2 DEF IInv, Current, Gens
  <1> QED
    BY <1>1, <1>2, <1>3, <1>4, <1>5 DEF NewOrder, IInv, TypeOK

LEMMA CreateAcceptedInv == IInv /\ CreateAccepted => IInv'
  <1> SUFFICES ASSUME IInv, CreateAccepted PROVE IInv'
    OBVIOUS
  <1>1. attempt' = attempt /\ genQty' = genQty /\ pc = "create" /\ pc' = "fetch"
    BY DEF CreateAccepted
  <1>2. /\ orders'[attempt] = [st |-> "open", qty |-> genQty, filled |-> 0]
        /\ \A g \in Gens : Open(g)' <=> g = attempt
        /\ \A g \in Gens : g > attempt => orders'[g].st = "none"
    BY <1>1, OrderCreated DEF CreateAccepted
  <1>3. TypeOK'
    BY <1>1, OrderCreated, EntryAssumption, HardCapNat DEF CreateAccepted, IInv, TypeOK
  <1>4. Current'
    BY <1>1, <1>2 DEF Current
  <1>5. Driven' /\ Filled'
    BY <1>1, <1>2, OrderCreated, EntryAssumption
       DEF CreateAccepted, Driven, Filled, IInv, TypeOK
  <1>6. Counts' /\ Exposure'
    BY <1>1, <1>2, EntryAssumption
       DEF CreateAccepted, IInv, TypeOK, Counts, Exposure, Pending, Open, Gens
  <1>7. Covered' /\ Trips'
    BY <1>1 DEF CreateAccepted, IInv, Covered, Trips, SentIsCovered, Done
  <1> QED
    BY <1>3, <1>4, <1>5, <1>6, <1>7 DEF IInv

LEMMA CreateRaisesInv == IInv /\ CreateRaises => IInv'
  <1> SUFFICES ASSUME IInv, CreateRaises PROVE IInv'
    OBVIOUS
  <1>1. CASE UNCHANGED orders
    <2>1. TypeOK'
      BY <1>1 DEF CreateRaises, GiveUp, Partial, Return, IInv, TypeOK, Statuses
    <2> QED
      BY <1>1, <2>1, LoopEnds, EntryAssumption
         DEF CreateRaises, GiveUp, Partial, Return, IInv, TypeOK, Counts, Trips, Done
  <1>2. CASE orders' = [orders EXCEPT ![attempt] = NewOrder]
    <2>1. /\ attempt' = attempt /\ genQty' = genQty /\ pc = "create"
          /\ pc' \in {"protect", "done"}
      BY DEF CreateRaises, GiveUp, Partial, Return
    <2>2. /\ orders'[attempt] = [st |-> "open", qty |-> genQty, filled |-> 0]
          /\ \A g \in Gens : Open(g)' <=> g = attempt
          /\ \A g \in Gens : g > attempt => orders'[g].st = "none"
      BY <1>2, <2>1, OrderCreated DEF CreateRaises
    <2>3. TypeOK'
      BY <1>2, <2>1, OrderCreated
         DEF CreateRaises, GiveUp, Partial, Return, IInv, TypeOK, Statuses
    <2>4. Current' /\ Driven' /\ Filled'
      BY <1>2, <2>1, <2>2, OrderCreated, EntryAssumption
         DEF Current, Driven, Filled, IInv, TypeOK
    <2>5. Counts' /\ Exposure'
      BY <2>1, <2>2, EntryAssumption
         DEF CreateRaises, GiveUp, Partial, Return, IInv, TypeOK, Counts, Exposure,
             Pending, Open, Gens
    <2>6. Covered' /\ Trips'
      BY <2>1 DEF CreateRaises, GiveUp, Partial, Return, IInv, TypeOK, Covered, Trips,
                  SentIsCovered, Done
    <2> QED
      BY <2>3, <2>4, <2>5, <2>6 DEF IInv
  <1> QED
    BY <1>1, <1>2 DEF CreateRaises

LEMMA BackstopInv == IInv /\ Backstop => IInv'
  <1> SUFFICES ASSUME IInv, Backstop PROVE IInv'
    OBVIOUS
  <1>1. CASE UNCHANGED orders
    <2>1. TypeOK'
      BY <1>1 DEF Backstop, ReturnTripped, Return, IInv, TypeOK, Statuses
    <2> QED
      BY <1>1, <2>1, LoopEnds, EntryAssumption
         DEF Backstop, ReturnTripped, Return, IInv, TypeOK, Counts
  <1>2. CASE pc = "create" /\ orders' = [orders EXCEPT ![attempt] = NewOrder]
    <2>1. attempt' = attempt /\ genQty' = genQty /\ pc' = "done"
      BY DEF Backstop, ReturnTripped, Return
    <2>2. /\ orders'[attempt] = [st |-> "open", qty |-> genQty, filled |-> 0]
          /\ \A g \in Gens : Open(g)' <=> g = attempt
          /\ \A g \in Gens : g > attempt => orders'[g].st = "none"
      BY <1>2, <2>1, OrderCreated
    <2>3. TypeOK'
      BY <1>2, <2>1, OrderCreated
         DEF Backstop, ReturnTripped, Return, IInv, TypeOK, Statuses
    <2>4. Current' /\ Driven' /\ Filled'
      BY <1>2, <2>1, <2>2, OrderCreated, EntryAssumption
         DEF Current, Driven, Filled, IInv, TypeOK
    <2>5. Counts' /\ Exposure'
      BY <1>2, <2>1, <2>2, EntryAssumption
         DEF Backstop, ReturnTripped, Return, IInv, TypeOK, Counts, Exposure,
             Pending, Open, Gens
    <2>6. Covered' /\ Trips'
      BY <2>1 DEF Backstop, ReturnTripped, Return, IInv, TypeOK, Covered, Trips,
                  SentIsCovered, Done
    <2> QED
      BY <2>3, <2>4, <2>5, <2>6 DEF IInv
  <1> QED
    BY <1>1, <1>2 DEF Backstop

LEMMA FetchAnswersInv == IInv /\ FetchAnswers => IInv'
  <1> SUFFICES ASSUME IInv, FetchAnswers PROVE IInv'
    OBVIOUS
  <1>1. /\ pc = "fetch" /\ attempt \in Gens /\ seen' = orders[attempt].filled
        /\ orders[attempt].filled \in 0 .. Qty
        /\ prevFilled + orders[attempt].filled <= executed
        /\ prevFilled + genQty = Qty
        /\ orders[attempt].qty = genQty
    BY DEF FetchAnswers, IInv, TypeOK, Driven, Counts
  <1>2. TypeOK'
    <2>1. pc' \in {"fetch", "cancel", "protect", "done"} /\ tripped' \in BOOLEAN
      BY DEF FetchAnswers, ReturnTripped, Partial, Return, IInv, TypeOK
    <2>2. prevFilled + seen' \in Nat
      BY <1>1 DEF IInv, TypeOK
    <2>3. report' \in [status : Statuses, filled : Nat]
      BY <2>2 DEF FetchAnswers, ReturnTripped, Partial, Return, IInv, TypeOK, Statuses
    <2> QED
      BY <1>1, <2>1, <2>3 DEF FetchAnswers, exchangeVars, IInv, TypeOK
  <1>3. orders[attempt].filled <= genQty
    BY <1>1 DEF FetchAnswers, IInv, Driven, Filled
  <1>4. CASE pc' \in {"fetch", "cancel"}
    BY <1>1, <1>2, <1>4
       DEF FetchAnswers, ReturnTripped, Partial, Return, exchangeVars, IInv, TypeOK,
           Current, Driven, Counts, Exposure, Covered, Trips, Pending, SentIsCovered,
           Done, Open, Filled
  <1>5. CASE pc' \in {"protect", "done"}
    BY <1>1, <1>2, <1>3, <1>5, LoopEnds
       DEF FetchAnswers, ReturnTripped, Partial, Return, exchangeVars, IInv, TypeOK, Trips,
           Done
  <1> QED
    BY <1>1, <1>4, <1>5 DEF FetchAnswers, ReturnTripped, Partial, Return

LEMMA FetchRaisesInv == IInv /\ FetchRaises => IInv'
  <1> SUFFICES ASSUME IInv, FetchRaises PROVE IInv'
    OBVIOUS
  <1>1. TypeOK'
    BY DEF FetchRaises, GiveUp, Partial, Return, exchangeVars, IInv, TypeOK, Statuses
  <1>2. orders[attempt].filled \in Nat
    BY DEF IInv, TypeOK
  <1> QED
    BY <1>1, <1>2, LoopEnds, EntryAssumption
       DEF FetchRaises, GiveUp, Partial, Return, exchangeVars, IInv, TypeOK, Counts, Trips,
           Done

\* The replacement orders what the last fetch left over; what filled since is
\* the one generation's worth the bound grows by.
LEMMA CancelAcceptedInv == IInv /\ CancelAccepted => IInv'
  <1> SUFFICES ASSUME IInv, CancelAccepted PROVE IInv'
    OBVIOUS
  <1>0. /\ attempt \in Gens /\ pc = "cancel" /\ genQty \in 1 .. Qty
        /\ seen <= orders[attempt].filled /\ seen < genQty /\ Open(attempt)
        /\ orders[attempt].qty = genQty /\ orders[attempt].filled < orders[attempt].qty
        /\ prevFilled' = prevFilled + seen
    BY DEF CancelAccepted, Counted, IInv, TypeOK, Driven
  <1>00. attempt' \in Gens /\ genQty' \in 1 .. Qty
    <2>1. seen \in 0 .. Qty
      BY DEF IInv, TypeOK
    <2> QED BY <1>0, <2>1, EntryAssumption DEF CancelAccepted, MoreRetries, Remaining, Gens
  <1>1. /\ attempt \in Gens /\ attempt' \in Gens /\ pc = "cancel"
        /\ genQty \in 1 .. Qty /\ genQty' \in 1 .. Qty
        /\ seen <= orders[attempt].filled /\ seen < genQty /\ Open(attempt)
        /\ orders[attempt].filled < genQty
        /\ prevFilled' = prevFilled + seen
    BY <1>0, <1>00
  <1>2. /\ orders' \in [Gens -> [st : {"none", "open", "closed", "canceled"},
                                 qty : 0 .. Qty, filled : 0 .. Qty]]
        /\ \A g \in Gens : ~Open(g)'
        /\ \A g \in Gens : g > attempt => orders'[g].st = "none"
    BY <1>1 DEF CancelAccepted, Canceled, IInv, TypeOK, Current, Open, Gens
  <1>3. TypeOK'
    BY <1>1, <1>2 DEF CancelAccepted, GiveUp, Partial, Return, IInv, TypeOK, Statuses
  <1>4. Current' /\ Driven' /\ Filled'
    <2>1. Filled'
      BY <1>1 DEF CancelAccepted, Canceled, Filled, IInv, TypeOK
    <2>2. pc' \in {"create", "protect", "done"}
      BY DEF CancelAccepted, GiveUp, Partial, Return
    <2>3. pc' = "create" => attempt' = attempt + 1
      BY DEF CancelAccepted, GiveUp, Partial, Return
    <2>4. attempt' \in {attempt, attempt + 1}
      BY DEF CancelAccepted
    <2> QED
      BY <1>1, <1>2, <2>1, <2>2, <2>3, <2>4 DEF Current, Driven, Gens
  <1>5. Counts'
    <2>1. prevFilled + seen \in Nat /\ prevFilled + seen <= executed
      BY <1>1 DEF IInv, TypeOK, Counts
    <2>2. prevFilled + genQty = Qty /\ Qty \in Nat
      BY <1>1, EntryAssumption DEF IInv, Counts
    <2>3. report'.filled <= executed /\ report'.filled <= Qty
      BY <1>1, <2>1, <2>2
         DEF CancelAccepted, GiveUp, Partial, Return, IInv, TypeOK, Counts
    <2>4. pc' \in {"create", "protect", "done"} /\ executed' = executed
      BY DEF CancelAccepted, GiveUp, Partial, Return
    <2>5. pc' = "create" => prevFilled' + genQty' = Qty
      <3>1. pc' = "create" => genQty' = genQty - seen
        BY DEF CancelAccepted, GiveUp, Partial, Return, Remaining
      <3>2. prevFilled \in Nat /\ seen \in Nat /\ genQty \in Nat
        BY DEF IInv, TypeOK
      <3> QED
        BY <1>1, <2>2, <3>1, <3>2
    <2>6. prevFilled' <= executed'
      BY <1>1, <2>1, <2>4
    <2> QED
      BY <2>3, <2>4, <2>5, <2>6 DEF Counts
  <1>6. Exposure'
    <2>1. executed + (genQty - orders[attempt].filled) <= Qty + attempt * (Qty - 1)
      BY <1>1 DEF IInv, Exposure, Pending, Driven
    <2>2. CASE attempt < MaxRetries
      <3>1. Pending' = genQty - seen /\ attempt' = attempt + 1 /\ executed' = executed
        BY <2>2 DEF CancelAccepted, MoreRetries, Remaining, Pending
      <3>2. attempt' * (Qty - 1) = attempt * (Qty - 1) + (Qty - 1)
        BY <1>1, <3>1, OneMoreGeneration DEF Gens
      <3>3. attempt * (Qty - 1) \in Int /\ executed \in Nat /\ seen \in Nat
            /\ orders[attempt].filled \in Nat
        BY <1>1, EntryAssumption DEF Gens, IInv, TypeOK
      <3> QED
        BY <1>1, <2>1, <3>1, <3>2, <3>3, EntryAssumption DEF Exposure
    <2>3. CASE ~(attempt < MaxRetries)
      <3>1. Pending' = 0 /\ attempt' = attempt /\ executed' = executed
        BY <1>1, <1>2, <2>3
           DEF CancelAccepted, MoreRetries, GiveUp, Partial, Return, Pending
      <3>2. attempt * (Qty - 1) \in Int /\ executed \in Nat
            /\ orders[attempt].filled \in Nat
        BY <1>1, EntryAssumption DEF Gens, IInv, TypeOK
      <3> QED
        BY <1>1, <2>1, <3>1, <3>2, EntryAssumption DEF Exposure
    <2> QED
      BY <2>2, <2>3
  <1>7. Covered' /\ Trips'
    BY <1>1 DEF CancelAccepted, GiveUp, Partial, Return, IInv, TypeOK, Covered, Trips,
                SentIsCovered, Done
  <1> QED
    BY <1>3, <1>4, <1>5, <1>6, <1>7 DEF IInv

LEMMA CancelRaisesInv == IInv /\ CancelRaises => IInv'
  <1> SUFFICES ASSUME IInv, CancelRaises PROVE IInv'
    OBVIOUS
  <1>1. TypeOK'
    BY DEF CancelRaises, ReturnTripped, Return, exchangeVars, IInv, TypeOK, Statuses
  <1>2. prevFilled + seen <= executed /\ prevFilled + seen <= Qty
    BY DEF CancelRaises, IInv, TypeOK, Driven, Counts
  <1> QED
    BY <1>1, <1>2, LoopEnds DEF CancelRaises, ReturnTripped, Return, exchangeVars

LEMMA SkipTargetInv == IInv /\ SkipTarget => IInv'
  <1> SUFFICES ASSUME IInv, SkipTarget PROVE IInv'
    OBVIOUS
  <1>1. next \in 1 .. Len(TPs) /\ next' = next + 1
    BY EntryAssumption DEF SkipTarget
  <1>2. TypeOK' /\ Covered' /\ Trips'
    BY <1>1, EntryAssumption
       DEF SkipTarget, exchangeVars, IInv, TypeOK, Covered, Trips, SentIsCovered, Done
  <1>3. Current' /\ Driven' /\ Filled' /\ Counts' /\ Exposure'
    BY DEF SkipTarget, exchangeVars, IInv, Current, Driven, Filled, Counts, Exposure,
           Pending, Open
  <1> QED
    BY <1>2, <1>3 DEF IInv

LEMMA PlaceProtectionInv == IInv /\ PlaceProtection => IInv'
  <1> SUFFICES ASSUME IInv, PlaceProtection PROVE IInv'
    OBVIOUS
  <1>1. next \in 0 .. Len(TPs) /\ next' = next + 1
    BY EntryAssumption DEF PlaceProtection
  <1>2. TypeOK' /\ Trips'
    BY <1>1, EntryAssumption DEF PlaceProtection, IInv, TypeOK, Trips, Done
  <1>3. Covered'
    BY <1>1, EntryAssumption DEF PlaceProtection, IInv, Covered, SentIsCovered, Done
  <1>4. Current' /\ Driven' /\ Filled' /\ Counts' /\ Exposure'
    BY DEF PlaceProtection, IInv, Current, Driven, Filled, Counts, Exposure, Pending, Open
  <1> QED
    BY <1>2, <1>3, <1>4 DEF IInv

LEMMA ProtectionRaisesInv == IInv /\ ProtectionRaises => IInv'
  BY DEF ProtectionRaises, exchangeVars, IInv, TypeOK, Current, Driven, Filled, Counts,
         Exposure, Covered, Trips, Pending, SentIsCovered, Done, Open

LEMMA ProtectedInv == IInv /\ Protected => IInv'
  BY DEF Protected, Return, exchangeVars, IInv, TypeOK, Current, Driven, Filled, Counts,
         Exposure, Covered, Trips, Pending, SentIsCovered, Done, Open, Statuses

LEMMA CancelAllInv == IInv /\ CancelAll => IInv'
  <1> SUFFICES ASSUME IInv, CancelAll PROVE IInv'
    OBVIOUS
  <1>1. pc = "flatCancel" /\ pc' = "flatRead" /\ attempt \in Gens
    BY DEF CancelAll, IInv, TypeOK
  <1>2. \A g \in Gens :
           /\ orders'[g].qty = orders[g].qty /\ orders'[g].filled = orders[g].filled
           /\ orders'[g].st \in {orders[g].st, "canceled"}
           /\ orders[g].st # "open" => orders'[g].st = orders[g].st
    BY DEF CancelAll, IInv, TypeOK, Open
  <1>3. TypeOK'
    <2>1. orders' \in [Gens -> [st : {"none", "open", "closed", "canceled"},
                               qty : 0 .. Qty, filled : 0 .. Qty]]
      <3>1. CASE UNCHANGED orders
        BY <3>1 DEF IInv, TypeOK
      <3>2. CASE orders' = [g \in Gens |->
                  IF Open(g) THEN [orders[g] EXCEPT !.st = "canceled"] ELSE orders[g]]
        BY <3>2 DEF IInv, TypeOK
      <3> QED
        BY <3>1, <3>2 DEF CancelAll
    <2> QED
      BY <2>1 DEF CancelAll, IInv, TypeOK
  <1>4. Current' /\ Driven' /\ Filled'
    BY <1>1, <1>2 DEF CancelAll, IInv, TypeOK, Current, Driven, Filled, Open
  <1>5. Counts'
    BY <1>1 DEF CancelAll, IInv, Counts
  <1>6. Exposure'
    <2>1. attempt * (Qty - 1) \in Int /\ executed \in Nat
      BY EntryAssumption DEF IInv, TypeOK, Gens
    <2>2. Pending' <= Pending /\ Pending \in Int /\ Pending' \in Int
      <3>1. orders[attempt].qty \in Nat /\ orders[attempt].filled \in Nat
            /\ orders[attempt].filled <= orders[attempt].qty
        BY <1>1 DEF IInv, TypeOK, Filled
      <3> QED
        BY <1>1, <1>2, <3>1 DEF CancelAll, Pending, Open
    <2> QED
      BY <2>1, <2>2, EntryAssumption DEF CancelAll, IInv, Exposure
  <1>7. Covered' /\ Trips'
    BY <1>1 DEF CancelAll, IInv, Covered, Trips, SentIsCovered, Done
  <1> QED
    BY <1>3, <1>4, <1>5, <1>6, <1>7 DEF IInv

LEMMA ReadPositionInv == IInv /\ ReadPosition => IInv'
  <1> SUFFICES ASSUME IInv, ReadPosition PROVE IInv'
    OBVIOUS
  <1>1. TypeOK'
    <2>1. /\ pc' \in {"flatClose", "done"} /\ tripped' \in BOOLEAN
          /\ flatAmt' \in {flatAmt, pos}
          /\ report' \in {report, [status |-> "TRIPPED", filled |-> report.filled]}
      BY DEF ReadPosition, ReturnTripped, Return, IInv, TypeOK
    <2>2. report' \in [status : Statuses, filled : Nat]
      BY <2>1 DEF IInv, TypeOK, Statuses
    <2> QED
      BY <2>1, <2>2 DEF ReadPosition, exchangeVars, IInv, TypeOK
  <1>2. Covered' /\ Trips'
    BY DEF ReadPosition, ReturnTripped, Return, exchangeVars, IInv, TypeOK, Covered, Trips,
           SentIsCovered, Done
  <1>3. pc = "flatRead" /\ pc' \in {"flatClose", "done"} /\ report'.filled = report.filled
    BY DEF ReadPosition, ReturnTripped, Return
  <1>4. Current' /\ Driven' /\ Filled' /\ Counts' /\ Exposure'
    BY <1>3 DEF ReadPosition, exchangeVars, IInv, Current, Driven, Filled, Counts, Exposure,
                Pending, Open
  <1> QED
    BY <1>1, <1>2, <1>4 DEF IInv

LEMMA MarketCloseInv == IInv /\ MarketClose => IInv'
  BY DEF MarketClose, ReturnTripped, Return, Smaller, IInv, TypeOK, Current, Driven,
         Filled, Counts, Exposure, Covered, Trips, Pending, SentIsCovered, Done, Open,
         Statuses

\* A fill moves a unit from Pending to executed: the bound stays where it is.
LEMMA FillInv == ASSUME IInv, NEW g \in Gens, Fill(g) PROVE IInv'
  <1>1. /\ g = attempt /\ orders[g].filled < orders[g].qty
        /\ orders[g] \in [st : {"none", "open", "closed", "canceled"},
                          qty : 0 .. Qty, filled : 0 .. Qty]
        /\ pc \notin {"idle", "create"}
    BY DEF Fill, Open, IInv, TypeOK, Current, Driven
  <1>2. /\ orders'[g].filled = orders[g].filled + 1
        /\ orders'[g].qty = orders[g].qty
        /\ orders'[g].st = IF orders[g].filled + 1 = orders[g].qty THEN "closed" ELSE "open"
        /\ \A h \in Gens \ {g} : orders'[h] = orders[h]
    BY DEF Fill, IInv, TypeOK
  <1>3. TypeOK'
    <2>1. orders' \in [Gens -> [st : {"none", "open", "closed", "canceled"},
                               qty : 0 .. Qty, filled : 0 .. Qty]]
      <3>1. orders[g].filled + 1 \in 0 .. Qty
        BY <1>1, EntryAssumption
      <3> QED
        BY <1>1, <3>1 DEF Fill, IInv, TypeOK
    <2> QED
      BY <2>1 DEF Fill, adapterVars, IInv, TypeOK
  <1>4. Current' /\ Driven' /\ Filled'
    <2>1. Current'
      BY <1>1, <1>2 DEF Fill, adapterVars, IInv, TypeOK, Current, Open
    <2>2. Filled' /\ \A h \in Gens : Open(h)' => orders'[h].filled < orders'[h].qty
      BY <1>1, <1>2 DEF IInv, Filled, Driven, Open
    <2>3. Driven'
      BY <1>1, <1>2, <2>2 DEF Fill, adapterVars, IInv, TypeOK, Driven
    <2> QED
      BY <2>1, <2>2, <2>3
  <1>5. Counts'
    BY <1>1, <1>2 DEF Fill, adapterVars, IInv, TypeOK, Counts
  <1>6. Exposure'
    <2>1. attempt * (Qty - 1) \in Int /\ executed \in Nat
      BY EntryAssumption DEF IInv, TypeOK, Gens
    <2>2. Pending' = Pending - 1 /\ Pending \in Int
      BY <1>1, <1>2 DEF Fill, adapterVars, Pending, Open
    <2> QED
      BY <2>1, <2>2, EntryAssumption DEF Fill, adapterVars, IInv, Exposure
  <1>7. Covered' /\ Trips'
    BY DEF Fill, adapterVars, IInv, Covered, Trips, SentIsCovered, Done
  <1> QED
    BY <1>3, <1>4, <1>5, <1>6, <1>7 DEF IInv

LEMMA StopTriggersInv == IInv /\ StopTriggers => IInv'
  <1> SUFFICES ASSUME IInv, StopTriggers PROVE IInv'
    OBVIOUS
  <1>1. TypeOK'
    BY DEF StopTriggers, adapterVars, IInv, TypeOK
  <1>2. Covered' /\ Trips'
    BY DEF StopTriggers, adapterVars, IInv, Covered, Trips, SentIsCovered, Done
  <1>3. Current' /\ Driven' /\ Filled' /\ Counts' /\ Exposure'
    BY DEF StopTriggers, adapterVars, IInv, Current, Driven, Filled, Counts, Exposure,
           Pending, Open
  <1> QED
    BY <1>1, <1>2, <1>3 DEF IInv

LEMMA TargetHitInv == ASSUME IInv, NEW i \in DOMAIN TPs, TargetHit(i) PROVE IInv'
  BY TpQtyNat
     DEF TargetHit, Smaller, adapterVars, IInv, TypeOK, Current, Driven, Filled, Counts,
         Exposure, Covered, Trips, Pending, SentIsCovered, Done, Open

LEMMA TickInv == IInv /\ Tick => IInv'
  <1> SUFFICES ASSUME IInv, Tick PROVE IInv'
    OBVIOUS
  <1>1. TypeOK'
    BY HardCapNat DEF Tick, exchangeVars, IInv, TypeOK
  <1>2. Current' /\ Driven' /\ Filled' /\ Counts' /\ Exposure'
    BY DEF Tick, exchangeVars, IInv, Current, Driven, Filled, Counts, Exposure, Pending, Open
  <1>3. Covered' /\ Trips'
    BY DEF Tick, exchangeVars, IInv, Covered, Trips, SentIsCovered, Done
  <1> QED
    BY <1>1, <1>2, <1>3 DEF IInv


--------------------------------------------------------------------------------
(* The theorems.                                                           *)

\* The invariant is inductive: every step of send_entry and of the exchange
\* keeps it.
THEOREM StepInv == IInv /\ [Next]_vars => IInv'
  <1> SUFFICES ASSUME IInv, [Next]_vars PROVE IInv'
    OBVIOUS
  <1>1. CASE UNCHANGED vars
    BY <1>1 DEF vars, adapterVars, exchangeVars, IInv, TypeOK, Current, Driven, Filled,
                Counts, Exposure, Covered, Trips, Pending, SentIsCovered, Done, Open
  <1>2. CASE Adapter
    BY <1>2, DeclineInv, PreOrderInv, CreateAcceptedInv, CreateRaisesInv, BackstopInv,
       FetchAnswersInv, FetchRaisesInv, CancelAcceptedInv, CancelRaisesInv, SkipTargetInv,
       PlaceProtectionInv, ProtectionRaisesInv, ProtectedInv, CancelAllInv,
       ReadPositionInv, MarketCloseInv
       DEF Adapter, Answers, Raises
  <1>3. CASE Exchange
    BY <1>3, FillInv, StopTriggersInv, TargetHitInv DEF Exchange
  <1>4. CASE Tick
    BY <1>4, TickInv
  <1> QED
    BY <1>1, <1>2, <1>3, <1>4 DEF Next

\* Every reachable state satisfies the invariant.
THEOREM Invariant == Spec => []IInv
  <1>1. Init => IInv
    BY InitInv
  <1>2. IInv /\ [Next]_vars => IInv'
    BY StepInv
  <1> QED
    BY <1>1, <1>2, PTL DEF Spec

\* send_entry's locals and the exchange only hold values they can hold.
THEOREM TypeCorrect == Spec => []TypeOK
  BY Invariant, PTL DEF IInv

\* The report claims no fill the exchange did not execute, nor more than was asked.
THEOREM ReportIsBacked == Spec => []ReportBacked
  <1>1. IInv => ReportBacked
    BY DEF IInv, Counts, ReportBacked
  <1> QED
    BY Invariant, <1>1, PTL

\* A LIVE_SENT position was covered by a stop on the exchange.
THEOREM SentCovered == Spec => []SentIsCovered
  <1>1. IInv => SentIsCovered
    BY DEF IInv, Covered
  <1> QED
    BY Invariant, <1>1, PTL

\* Cancel-replace keeps at most one entry order live.
THEOREM OneLive == Spec => []OneLiveEntry
  <1>1. IInv => OneLiveEntry
    BY DEF IInv, Current, OneLiveEntry
  <1> QED
    BY Invariant, <1>1, PTL

\* However fills race the cancels, one call buys a bounded quantity.
THEOREM BoundedExposure == Spec => []ExposureBound
  <1>1. ASSUME IInv PROVE ExposureBound
    <2>1. executed + Pending <= Qty + attempt * (Qty - 1)
      BY <1>1 DEF IInv, Exposure
    <2>2. Pending \in Nat /\ executed \in Nat /\ attempt \in Gens
      BY <1>1 DEF IInv, TypeOK, Filled, Pending
    <2>3. attempt * (Qty - 1) <= MaxRetries * (Qty - 1)
      BY <2>2, GenerationsBound
    <2>4. attempt * (Qty - 1) \in Int /\ MaxRetries * (Qty - 1) \in Int
      BY <2>2, EntryAssumption DEF Gens
    <2> QED
      BY <2>1, <2>2, <2>3, <2>4, EntryAssumption DEF ExposureBound
  <1> QED
    BY Invariant, <1>1, PTL

\* A trip during the call is told to the caller, and only a trip is.
THEOREM TripsAreReported == Spec => []TripReported
  <1>1. IInv => TripReported
    BY DEF IInv, Trips, TripReported, Done
  <1> QED
    BY Invariant, <1>1, PTL

--------------------------------------------------------------------------------
(* send_entry implements EntryContract.                                    *)

LEMMA AdapterStepImplements ==
  ASSUME IInv, IInv', Adapter
  PROVE  Contract!Next \/ UNCHANGED Contract!vars
  <1> USE DEF Contract!Next, Contract!vars, Phase, Done
  <1>0. /\ report.filled \in Nat /\ executed \in Nat /\ report.filled <= executed
        /\ report'.filled \in Nat /\ executed' \in Nat /\ report'.filled <= executed'
    BY DEF IInv, TypeOK, Counts
  <1>1. CASE Decline
    BY <1>1 DEF Decline, Return, Engaged, exchangeVars, Contract!Decline, Contract!Answer
  <1>2. CASE PreOrder
    BY <1>2 DEF PreOrder, Return, Engaged, exchangeVars, Contract!Start, Contract!Failed,
                Contract!Answer
  <1>3. CASE CreateAccepted
    BY <1>3 DEF CreateAccepted
  <1>4. CASE CreateRaises
    BY <1>4 DEF CreateRaises, GiveUp, Partial, Return, Contract!Failed, Contract!Answer,
                IInv, Trips
  <1>5. CASE Backstop
    <2>1. /\ pc \in {"idle", "create", "fetch"} /\ ~tripped
          /\ pc' = "done" /\ tripped' = TRUE
          /\ report' = [status |-> "TRIPPED", filled |-> 0]
          /\ UNCHANGED <<executed, sl>>
      BY <1>5 DEF Backstop, ReturnTripped, Return, Engaged, IInv, Trips
    <2>2. 0 \in 0 .. executed
      BY <1>0
    <2> QED
      BY <2>1, <2>2 DEF Contract!Tripped, Contract!Answer
  <1>6. CASE FetchAnswers
    BY <1>0, <1>6 DEF FetchAnswers, Partial, ReturnTripped, Return, exchangeVars,
                Contract!Tripped, Contract!Answer, IInv, Trips
  <1>7. CASE FetchRaises
    BY <1>7 DEF FetchRaises, GiveUp, Partial, Return, exchangeVars, Contract!Failed,
                Contract!Answer, IInv, Trips
  <1>8. CASE CancelAccepted
    BY <1>8 DEF CancelAccepted, GiveUp, Partial, Return, Contract!Failed, Contract!Answer,
                IInv, Trips
  <1>9. CASE CancelRaises
    BY <1>0, <1>9 DEF CancelRaises, ReturnTripped, Return, exchangeVars, Contract!Tripped,
                Contract!Answer, IInv, Trips
  <1>10. CASE SkipTarget
    BY <1>10 DEF SkipTarget, exchangeVars
  <1>11. CASE PlaceProtection
    BY <1>11 DEF PlaceProtection, Contract!Cover
  <1>12. CASE ProtectionRaises
    BY <1>12 DEF ProtectionRaises, exchangeVars
  <1>13. CASE Protected
    <2>1. sl # "none" /\ report.filled \in 1 .. executed
      BY <1>0, <1>13, EntryAssumption DEF Protected, IInv, TypeOK, Covered
    <2>2. ~tripped
      BY <1>13 DEF Protected, IInv, Trips
    <2> QED
      BY <1>13, <2>1, <2>2 DEF Protected, Return, exchangeVars, Contract!Sent, Contract!Answer
  <1>14. CASE CancelAll
    BY <1>14 DEF CancelAll, Contract!Cover
  <1>15. CASE ReadPosition
    BY <1>0, <1>15 DEF ReadPosition, ReturnTripped, Return, exchangeVars, Contract!Tripped,
                 Contract!Answer, IInv, Trips
  <1>16. CASE MarketClose
    BY <1>0, <1>16 DEF MarketClose, ReturnTripped, Return, Contract!Tripped,
                 Contract!Answer, IInv, Trips
  <1> QED
    BY <1>1, <1>2, <1>3, <1>4, <1>5, <1>6, <1>7, <1>8, <1>9, <1>10, <1>11, <1>12, <1>13,
       <1>14, <1>15, <1>16
       DEF Adapter, Answers, Raises

LEMMA ExchangeStepImplements ==
  ASSUME IInv, Exchange
  PROVE  Contract!Next \/ UNCHANGED Contract!vars
  <1> USE DEF Contract!Next, Contract!vars, Phase, Done, adapterVars
  <1>1. ASSUME NEW g \in Gens, Fill(g) PROVE Contract!Next \/ UNCHANGED Contract!vars
    BY <1>1 DEF Fill, Open, IInv, Current, Contract!Execute
  <1>2. CASE StopTriggers
    BY <1>2 DEF StopTriggers
  <1>3. ASSUME NEW i \in DOMAIN TPs, TargetHit(i)
        PROVE Contract!Next \/ UNCHANGED Contract!vars
    BY <1>3 DEF TargetHit
  <1> QED
    BY <1>1, <1>2, <1>3 DEF Exchange

\* What the caller of send_entry is told is always what EntryContract allows.
THEOREM Implements == Spec => ContractSpec
  <1>1. Init => Contract!Init
    BY DEF Init, Contract!Init, Phase, Done, NoReport
  <1>2. IInv /\ IInv' /\ [Next]_vars => [Contract!Next]_(Contract!vars)
    <2> SUFFICES ASSUME IInv, IInv', [Next]_vars
                 PROVE  Contract!Next \/ UNCHANGED Contract!vars
      OBVIOUS
    <2>1. CASE UNCHANGED vars
      BY <2>1 DEF vars, adapterVars, exchangeVars, Contract!vars, Phase, Done
    <2>2. CASE Tick
      BY <2>2 DEF Tick, exchangeVars, Contract!vars, Phase, Done
    <2> QED
      BY <2>1, <2>2, AdapterStepImplements, ExchangeStepImplements DEF Next
  <1> QED
    BY <1>1, <1>2, Invariant, PTL DEF Spec, ContractSpec, Contract!Spec

--------------------------------------------------------------------------------
(* What becomes of the signals of a cycle before one is sent (Screening).   *)
(* The sums of Gates are those of SetSums.                                 *)

LEMMA ScreeningSums == \A f, T : F!SumFunctionOnSet(f, T) = Total(f, T)
BY Zenon DEF F!SumFunctionOnSet, F!FoldFunctionOnSet, F!MapThenFoldSet,
             Total, SumFunctionOnSet, FoldFunctionOnSet, MapThenFoldSet

\* A book of positive prices and quantities, and a size to fill.
IsBook(book) == book \in Seq([price : Nat \ {0}, qty : Nat \ {0}]) /\ book # <<>>

LEMMA TakeFacts ==
    ASSUME NEW book, IsBook(book), ReferenceSize \in Nat \ {0}
    PROVE  /\ \A i \in DOMAIN book : F!Take(book, i) \in Nat
           /\ \A i, n \in DOMAIN book : i < n /\ F!Take(book, n) > 0
                 => F!Take(book, i) = F!Worth(book, i)
           /\ F!Take(book, 1) > 0
<1> DEFINE worth == [j \in DOMAIN book |-> F!Worth(book, j)]
           N == Len(book)
<1>0. N \in Nat \ {0} /\ DOMAIN book = 1 .. N
  BY DEF IsBook
<1>1. \A j \in 1 .. N : worth[j] = F!Worth(book, j) /\ F!Worth(book, j) \in Nat \ {0}
  <2>1. \A j \in 1 .. N : book[j].price \in Nat \ {0} /\ book[j].qty \in Nat \ {0}
    <3> DEFINE Levels == [price : Nat \ {0}, qty : Nat \ {0}]
    <3>1. book \in Seq(Levels)
      BY DEF IsBook
    <3>2. \A j \in 1 .. N : book[j] \in Levels
      <4> HIDE DEF Levels
      <4> QED BY <1>0, <3>1, ElementOfSeq
    <3> QED BY <3>2
  <2> QED BY <1>0, <2>1 DEF F!Worth
<1>2. \A i \in 1 .. N : F!Before(book, i) = Total(worth, 1 .. i - 1)
  BY ScreeningSums DEF F!Before
<1> HIDE DEF worth
<1>3. \A i \in 1 .. N : Total(worth, 1 .. i - 1) \in Nat
  <2> SUFFICES ASSUME NEW i \in 1 .. N PROVE Total(worth, 1 .. i - 1) \in Nat
    OBVIOUS
  <2>1. IsFiniteSet(1 .. i - 1)
    BY <1>0, FS_Interval
  <2>2. \A x \in 1 .. i - 1 : worth[x] \in Nat
    BY <1>0, <1>1
  <2> QED BY <2>1, <2>2, TotalIsNat
<1>4. ASSUME NEW i \in 1 .. N, NEW n \in 1 .. N, i < n
      PROVE  F!Before(book, i) + F!Worth(book, i) <= F!Before(book, n)
  <2>1. IsFiniteSet(1 .. n - 1) /\ IsFiniteSet(1 .. i - 1)
    <3>1. n - 1 \in Int /\ i - 1 \in Int
      BY <1>0
    <3> QED BY <3>1, FS_Interval
  <2>2. \A x \in 1 .. n - 1 : worth[x] \in Nat
    BY <1>0, <1>1
  <2>3. (1 .. i - 1) \cup {i} \in SUBSET (1 .. n - 1) /\ i \notin 1 .. i - 1
    BY <1>4
  <2>4. Total(worth, (1 .. i - 1) \cup {i}) <= Total(worth, 1 .. n - 1)
    BY <2>1, <2>2, <2>3, TotalSubset
  <2>5. \A x \in (1 .. i - 1) \cup {i} : worth[x] \in Int
    BY <2>2, <2>3
  <2>6. Total(worth, (1 .. i - 1) \cup {i}) = Total(worth, 1 .. i - 1) + worth[i]
    BY <2>1, <2>3, <2>5, TotalAdd
  <2> QED BY <1>1, <1>2, <2>4, <2>6
<1>5. \A i \in 1 .. N : F!Before(book, i) \in Nat
  BY <1>2, <1>3
<1>6. \A i \in 1 .. N : F!Take(book, i) \in Nat
  BY <1>1, <1>5 DEF F!Take, F!Low2
<1>7. ASSUME NEW i \in 1 .. N, NEW n \in 1 .. N, i < n, F!Take(book, n) > 0
      PROVE  F!Take(book, i) = F!Worth(book, i)
  <2>1. F!Before(book, n) < ReferenceSize
    BY <1>5, <1>7 DEF F!Take
  <2>2. F!Before(book, i) + F!Worth(book, i) <= F!Before(book, n)
    BY <1>4, <1>7
  <2> QED BY <1>1, <1>5, <2>1, <2>2 DEF F!Take, F!Low2
<1>8. F!Take(book, 1) > 0
  <2>1. 1 \in 1 .. N /\ 1 .. 1 - 1 = {}
    BY <1>0
  <2>2. F!Before(book, 1) = 0
    BY <1>2, <2>1, TotalEmpty
  <2> QED BY <1>1, <2>1, <2>2 DEF F!Take, F!Low2
<1> QED BY <1>0, <1>6, <1>7, <1>8

LEMMA LastFacts ==
    ASSUME NEW book, IsBook(book), ReferenceSize \in Nat \ {0}
    PROVE  /\ F!Last(book) \in DOMAIN book /\ F!Take(book, F!Last(book)) > 0
           /\ \A i \in DOMAIN book : i > F!Last(book) => F!Take(book, i) = 0
<1> DEFINE S == {i \in DOMAIN book : F!Take(book, i) > 0}
<1>1. DOMAIN book = 1 .. Len(book) /\ Len(book) \in Nat \ {0}
  BY DEF IsBook
<1>2. IsFiniteSet(1 .. Len(book)) /\ S \subseteq 1 .. Len(book) /\ \A x \in S : x \in Int
  BY <1>1, FS_Interval
<1>3. 1 \in S
  BY <1>1, TakeFacts
<1>4. IsFiniteSet(S)
  BY <1>2, FS_Subset
<1>5. \E m \in S : \A k \in S : m >= k
  <2> HIDE DEF S
  <2> QED BY <1>2, <1>3, <1>4, GreatestElement
<1>6. F!Last(book) = CHOOSE x \in S : \A y \in S : x >= y
  BY DEF F!Last, F!Max
<1>7. F!Last(book) \in S /\ \A y \in S : F!Last(book) >= y
  <2> HIDE DEF S
  <2> QED BY <1>5, <1>6
<1>8. \A i \in DOMAIN book : F!Take(book, i) \in Nat
  BY TakeFacts
<1>9. \A i \in DOMAIN book : i > F!Last(book) => F!Take(book, i) = 0
  BY <1>1, <1>2, <1>7, <1>8
<1> QED BY <1>7, <1>9

\* A level pays no less for its coins than the line that touches one over the price at M
\* hundredths: (M - 100 p)^2 is not negative.
LEMMA Tangent ==
    ASSUME NEW M \in Nat \ {0}, NEW p \in Nat \ {0}, NEW t \in Nat, NEW c \in Nat,
           NEW u \in Nat \ {0}, t * u = p * c
    PROVE  ((200 * M) * u) * t + (-10000 * u) * (t * p) <= (M * M) * c
<1> DEFINE d == M - 100 * p
<1>1. d \in Int /\ d * d >= 0
  OBVIOUS
<1>2. d * d = M * M - (200 * M) * p + 10000 * (p * p)
  OBVIOUS
<1>3. (200 * M) * p - 10000 * (p * p) <= M * M
  BY <1>1, <1>2
<1>4. ((200 * M) * p - 10000 * (p * p)) * c <= (M * M) * c
  <2>1. (200 * M) * p - 10000 * (p * p) \in Int /\ M * M \in Int
    OBVIOUS
  <2>2. \A a, b \in Int : a <= b => a * c <= b * c
    OBVIOUS
  <2> HIDE DEF d
  <2> QED BY <1>3, <2>1, <2>2
<1>5. ((200 * M) * p - 10000 * (p * p)) * c = (200 * M) * (p * c) - (10000 * p) * (p * c)
  OBVIOUS
<1>6. (200 * M) * (p * c) - (10000 * p) * (p * c) = (200 * M) * (t * u) - (10000 * p) * (t * u)
  OBVIOUS
<1>7. (200 * M) * (t * u) - (10000 * p) * (t * u) = ((200 * M) * u) * t + (-10000 * u) * (t * p)
  OBVIOUS
<1> HIDE DEF d
<1> QED BY <1>4, <1>5, <1>6, <1>7

LEMMA FairFill ==
    ASSUME NEW book, IsBook(book), ReferenceSize \in Nat \ {0}, SlipCap \in Nat, ~F!Slips(book)
    PROVE  F!Filled(book) * 100 * book[F!Last(book)].price
              <= book[1].price * (100 + SlipCap) * F!Coins(book)
<1> DEFINE D == DOMAIN book
           take == [i \in D |-> F!Take(book, i)]
           paid == [i \in D |-> F!Take(book, i) * book[i].price]
           off == [i \in D |-> F!Take(book, i) * (book[i].price - book[1].price)]
           n == F!Last(book)
           u == book[n].price
           p1 == book[1].price
           coins == [i \in D |-> IF i < n THEN book[i].qty * u ELSE F!Take(book, i)]
           M == p1 * (100 + SlipCap)
           line == [i \in D |-> ((200 * M) * u) * take[i] + (-10000 * u) * paid[i]]
           bound == [i \in D |-> (M * M) * coins[i]]
<1>1. D = 1 .. Len(book) /\ Len(book) \in Nat \ {0} /\ IsFiniteSet(D) /\ 1 \in D
  <2>1. D = 1 .. Len(book) /\ Len(book) \in Nat \ {0}
    BY DEF IsBook
  <2> QED BY <2>1, FS_Interval
<1>2. \A i \in D : book[i].price \in Nat \ {0} /\ book[i].qty \in Nat \ {0}
  <2> DEFINE Levels == [price : Nat \ {0}, qty : Nat \ {0}]
  <2>1. book \in Seq(Levels)
    BY DEF IsBook
  <2>2. \A j \in D : book[j] \in Levels
    <3> HIDE DEF Levels
    <3> QED BY <1>1, <2>1, ElementOfSeq
  <2> QED BY <2>2
<1>3. /\ \A i \in D : F!Take(book, i) \in Nat
      /\ \A i \in D : i < n => F!Take(book, i) = book[i].price * book[i].qty
      /\ n \in D
      /\ \A i \in D : i > n => F!Take(book, i) = 0
  <2>1. n \in D /\ F!Take(book, n) > 0 /\ \A i \in D : i > n => F!Take(book, i) = 0
    BY LastFacts
  <2>2. \A i \in D : i < n => F!Take(book, i) = F!Worth(book, i)
    BY <2>1, TakeFacts
  <2> QED BY <2>1, <2>2, TakeFacts DEF F!Worth
<1>4. u \in Nat \ {0} /\ p1 \in Nat \ {0} /\ M \in Nat \ {0}
  <2>1. u \in Nat \ {0} /\ p1 \in Nat \ {0}
    BY <1>1, <1>2, <1>3
  <2>2. p1 * (100 + SlipCap) \in Nat \ {0}
    BY <2>1
  <2> QED BY <2>1, <2>2
<1> DEFINE T(i) == F!Take(book, i)
<1>5. \A i \in D : /\ take[i] = T(i) /\ paid[i] = T(i) * book[i].price
                   /\ off[i] = T(i) * (book[i].price - p1)
                   /\ coins[i] = IF i < n THEN book[i].qty * u ELSE T(i)
                   /\ line[i] = ((200 * M) * u) * take[i] + (-10000 * u) * paid[i]
                   /\ bound[i] = (M * M) * coins[i]
  OBVIOUS
<1>6. /\ F!Filled(book) = Total(take, D)
      /\ F!Coins(book) = Total(coins, D)
      /\ F!Gap(book) = IF Total(off, D) < 0 THEN -Total(off, D) ELSE Total(off, D)
  BY ScreeningSums, Zenon DEF F!Filled, F!Coins, F!Gap
<1> HIDE DEF D, take, paid, off, n, u, p1, coins, M, line, bound
<1>7. \A i \in D : /\ take[i] \in Nat /\ paid[i] \in Nat /\ off[i] \in Int /\ coins[i] \in Nat
                   /\ take[i] * u = book[i].price * coins[i]
  <2> SUFFICES ASSUME NEW i \in D
               PROVE  /\ take[i] \in Nat /\ paid[i] \in Nat /\ off[i] \in Int /\ coins[i] \in Nat
                      /\ take[i] * u = book[i].price * coins[i]
    OBVIOUS
  <2>1. T(i) \in Nat /\ book[i].price \in Nat \ {0} /\ book[i].qty \in Nat \ {0}
    BY <1>2, <1>3
  <2>2. take[i] \in Nat /\ paid[i] \in Nat /\ off[i] \in Int
    BY <1>4, <1>5, <2>1
  <2>3. CASE i < n
    <3>1. coins[i] = book[i].qty * u /\ take[i] = book[i].price * book[i].qty
      BY <1>3, <1>5, <2>3
    <3>2. (book[i].price * book[i].qty) * u = book[i].price * (book[i].qty * u)
      BY <1>4, <2>1
    <3> QED BY <1>4, <2>1, <2>2, <3>1, <3>2
  <2>4. CASE i = n
    <3>1. u = book[i].price
      BY <2>4 DEF u, n
    <3>2. coins[i] = take[i] /\ take[i] * u = u * take[i]
      BY <1>1, <1>4, <1>5, <2>2, <2>4
    <3> QED BY <2>2, <3>1, <3>2
  <2>5. CASE i > n
    <3>1. take[i] = 0 /\ coins[i] = 0
      BY <1>1, <1>3, <1>5, <2>5
    <3> QED BY <1>4, <2>1, <2>2, <3>1
  <2> QED BY <1>1, <1>3, <2>3, <2>4, <2>5
<1>8. Total(take, D) \in Nat /\ Total(paid, D) \in Nat /\ Total(off, D) \in Int /\ Total(coins, D) \in Nat
  BY <1>1, <1>7, TotalIsNat, TotalIsInt
\* what is paid above the best price
<1>9. Total(off, D) = Total(paid, D) - p1 * Total(take, D)
  <2>1. \A i \in D : off[i] = 1 * paid[i] + (-p1) * take[i]
    <3> SUFFICES ASSUME NEW i \in D PROVE off[i] = 1 * paid[i] + (-p1) * take[i]
      OBVIOUS
    <3>1. T(i) \in Nat /\ book[i].price \in Nat
      BY <1>2, <1>3
    <3>2. T(i) * (book[i].price - p1) = T(i) * book[i].price + (-p1) * T(i)
      BY <1>4, <3>1
    <3> QED BY <1>5, <1>7, <3>2
  <2>2. \A i \in D : paid[i] \in Int /\ take[i] \in Int
    BY <1>7
  <2>3. 1 \in Int /\ -p1 \in Int
    BY <1>4
  <2>4. Total(off, D) = 1 * Total(paid, D) + (-p1) * Total(take, D)
    BY <1>1, <2>1, <2>2, <2>3, TotalLinear
  <2> QED BY <1>4, <1>8, <2>4
\* the estimate is within the cap
<1>10. 100 * Total(paid, D) <= M * Total(take, D)
  <2>1. Total(off, D) * 100 <= SlipCap * p1 * Total(take, D)
    <3>1. ~(F!Gap(book) * 100 > SlipCap * p1 * Total(take, D))
      BY <1>6 DEF F!Slips, p1
    <3>2. SlipCap * p1 * Total(take, D) \in Int
      BY <1>4, <1>8
    <3> QED BY <1>6, <1>8, <3>1, <3>2
  <2>2. M * Total(take, D) = 100 * (p1 * Total(take, D)) + SlipCap * p1 * Total(take, D)
    BY <1>4, <1>8 DEF M
  <2>3. p1 * Total(take, D) \in Int /\ SlipCap * p1 * Total(take, D) \in Int
    BY <1>4, <1>8
  <2> QED BY <1>8, <1>9, <2>1, <2>2, <2>3
\* the tangent, level by level
<1>11. Total(line, D) <= Total(bound, D)
  <2>1. \A i \in D : line[i] \in Int /\ bound[i] \in Int /\ line[i] <= bound[i]
    <3> SUFFICES ASSUME NEW i \in D PROVE line[i] \in Int /\ bound[i] \in Int /\ line[i] <= bound[i]
      OBVIOUS
    <3>1. /\ take[i] \in Nat /\ coins[i] \in Nat /\ paid[i] \in Nat
          /\ take[i] * u = book[i].price * coins[i] /\ book[i].price \in Nat \ {0}
          /\ paid[i] = take[i] * book[i].price
      BY <1>2, <1>5, <1>7
    <3>2. ((200 * M) * u) * take[i] + (-10000 * u) * (take[i] * book[i].price) <= (M * M) * coins[i]
      <4>1. PICK p \in Nat \ {0}, t \in Nat, c \in Nat :
                p = book[i].price /\ t = take[i] /\ c = coins[i]
        BY <3>1
      <4>2. t * u = p * c
        BY <3>1, <4>1
      <4>3. ((200 * M) * u) * t + (-10000 * u) * (t * p) <= (M * M) * c
        BY <1>4, <4>2, Tangent
      <4> QED BY <4>1, <4>3
    <3>3. line[i] = ((200 * M) * u) * take[i] + (-10000 * u) * paid[i] /\ bound[i] = (M * M) * coins[i]
      BY <1>5
    <3>4. ((200 * M) * u) * take[i] + (-10000 * u) * paid[i] \in Int /\ (M * M) * coins[i] \in Int
      BY <1>4, <3>1
    <3> QED BY <3>1, <3>2, <3>3, <3>4
  <2> QED BY <1>1, <2>1, TotalMonotone
<1>12. Total(line, D) = ((200 * M) * u) * Total(take, D) + (-10000 * u) * Total(paid, D)
  <2>1. (200 * M) * u \in Int /\ -10000 * u \in Int
    BY <1>4
  <2>2. \A i \in D : take[i] \in Int /\ paid[i] \in Int
                     /\ line[i] = ((200 * M) * u) * take[i] + (-10000 * u) * paid[i]
    BY <1>5, <1>7
  <2> QED BY <1>1, <2>1, <2>2, TotalLinear
<1>13. Total(bound, D) = (M * M) * Total(coins, D)
  <2>1. M * M \in Int /\ 0 \in Int
    BY <1>4
  <2>2. \A i \in D : coins[i] \in Int /\ bound[i] = (M * M) * coins[i] + 0 * coins[i]
    BY <1>4, <1>5, <1>7
  <2>3. Total(bound, D) = (M * M) * Total(coins, D) + 0 * Total(coins, D)
    BY <1>1, <2>1, <2>2, TotalLinear
  <2> QED BY <1>4, <1>8, <2>3
<1>14. (100 * (u * Total(take, D))) * M <= (M * Total(coins, D)) * M
  <2> DEFINE A == Total(take, D)
             B == Total(paid, D)
             C == Total(coins, D)
  <2>1. A \in Nat /\ B \in Nat /\ C \in Nat
    BY <1>8
  <2> HIDE DEF A, B, C
  <2>2. 100 * B <= M * A
    BY <1>10 DEF A, B
  <2>3. ((200 * M) * u) * A + (-10000 * u) * B <= (M * M) * C
    BY <1>11, <1>12, <1>13 DEF A, B, C
  <2>4. (100 * B) * (100 * u) <= (M * A) * (100 * u)
    <3>1. 100 * u \in Nat /\ 100 * B \in Int /\ M * A \in Int
      BY <1>4, <2>1
    <3>2. \A x, y \in Int, k \in Nat : x <= y => x * k <= y * k
      OBVIOUS
    <3> QED BY <2>2, <3>1, <3>2
  <2>5. (100 * B) * (100 * u) = -((-10000 * u) * B)
    BY <1>4, <2>1
  <2>6. (M * A) * (100 * u) = (100 * (u * A)) * M /\ ((200 * M) * u) * A = 2 * ((100 * (u * A)) * M)
    BY <1>4, <2>1
  <2>7. (M * M) * C = (M * C) * M
    BY <1>4, <2>1
  <2>8. /\ (100 * (u * A)) * M \in Int /\ (-10000 * u) * B \in Int /\ (M * M) * C \in Int
    BY <1>4, <2>1
  <2>9. (100 * (u * A)) * M <= (M * C) * M
    BY <2>3, <2>4, <2>5, <2>6, <2>7, <2>8
  <2> QED BY <2>9 DEF A, C
<1>15. 100 * (u * Total(take, D)) <= M * Total(coins, D)
  <2>1. 100 * (u * Total(take, D)) \in Int /\ M * Total(coins, D) \in Int
    BY <1>4, <1>8
  <2>2. \A x, y \in Int : x * M <= y * M => x <= y
    BY <1>4
  <2> QED BY <1>14, <2>1, <2>2
<1>16. Total(take, D) * 100 * u = 100 * (u * Total(take, D))
  BY <1>4, <1>8
<1> QED BY <1>6, <1>15, <1>16 DEF M, u, n, p1
--------------------------------------------------------------------------------
(* The inductive invariant of Screening, by concern.                        *)

\* The names of the rules a signal may be turned away by.
Stages == {"daily_loss_kill_switch", "daily_profit_lock", "max_open_trades", "duplicate", "cooldown",
           "trade_hours", "liquidity", "spread", "slippage", "shadow_only", "watch",
           "score_threshold", "min_score_floor", "risk"}

\* The texts with a cited bucket that only a filter, or the choice among a symbol's
\* signals, gives as a reason.
FilterTexts == {"not_selected", "no_spread", "spread_above_max", "slippage_above_max"}

ScreeningConstants ==
    /\ NoGate \notin Int \cup Stages
    /\ PerScan \in Nat /\ RestTime \in Nat /\ LastMinute \in Nat
    /\ ReferenceSize \in Nat \ {0} /\ SlipCap \in Nat
    /\ \A m \in ScanMarkets : m.book \in Seq([price : Nat \ {0}, qty : Nat \ {0}])
    /\ \A st \in GateStyles : st.ranked \in BOOLEAN
    /\ (RiskRefusals \cup OtherCaps) \cap FilterTexts = {}

Fields == {"detected", "scored", "risked", "allow", "executed", "watch", "rejected", "quality",
           "capacity", "ranked", "refused", "stale"}
Screened == {[symbol |-> x, score |-> f.score, other |-> f.other] :
                x \in Range(F!Scanned), f \in ScanFinds}

\* What is still to be decided makes up for what is not counted yet.
Tallied ==
    /\ phase \in {"idle", "deciding", "counted"}
    /\ phase = "counted" => queue = <<>>
    /\ phase # "idle" =>
          /\ funnel \in [Fields -> Nat] /\ queue \in Seq(Screened)
          /\ funnel.rejected + funnel.watch + funnel.executed + Len(queue)
                = funnel.detected + funnel.stale
          /\ funnel.rejected = funnel.quality + funnel.capacity + funnel.stale
          /\ funnel.allow = funnel.executed + funnel.ranked + funnel.refused

\* Without a ranking no cap is below the one the filter looks at.
Roomy == /\ style \in GateStyles
         /\ phase = "deciding" =>
               /\ room = [cap |-> room.cap, symbols |-> room.symbols, count |-> room.count]
               /\ style.ranked \/ room.cap = SlotBound

\* A row has the reason of the rule that turned it away, if any is cited for it.
Explained == /\ DOMAIN turned = DOMAIN table
             /\ \A k \in DOMAIN table : table[k] # NoGate /\ F!Bucket(table[k]) \in F!Cited
                                        => turned[k] = F!Bucket(table[k])

\* Coins rest between their trades, none of which was opened later than now.
Rested == /\ minute \in Nat
          /\ IsFiniteSet(deals)
          /\ \A t \in deals : /\ t = [symbol |-> t.symbol, at |-> t.at, open |-> t.open]
                              /\ t.at \in 0 .. minute
          /\ F!RestsBetween

ScreeningInv == GatesRun => Tallied /\ Roomy /\ Explained /\ Rested

--------------------------------------------------------------------------------
(* The rules, their texts and the buckets of these.                         *)

\* A set of numbers up to n that is not empty has a least one.
LEMMA LeastElement ==
    ASSUME NEW n \in Nat, NEW S \in SUBSET (1 .. n), S # {}
    PROVE  F!Min(S) \in S /\ \A y \in S : F!Min(S) <= y
<1> DEFINE neg == [x \in S |-> -x]
           N == {neg[x] : x \in S}
<1>1. IsFiniteSet(S) /\ \A x \in S : x \in Int
  <2>1. IsFiniteSet(1 .. n)
    <3>1. 1 \in Int /\ n \in Int
      OBVIOUS
    <3> QED BY <3>1, FS_Interval
  <2>2. IsFiniteSet(S)
    BY <2>1, FS_Subset
  <2> QED BY <2>2
<1>2. \A x \in S : neg[x] = -x /\ neg[x] \in Int
  BY <1>1
<1>3. IsFiniteSet(N)
  <2> HIDE DEF neg
  <2> QED BY <1>1, ImageFinite
<1>4. N # {} /\ \A y \in N : y \in Int
  <2> HIDE DEF neg
  <2> QED BY <1>2
<1>5. PICK g \in N : \A y \in N : g >= y
  <2> HIDE DEF N
  <2> QED BY <1>3, <1>4, GreatestElement
<1>6. PICK x \in S : g = -x
  BY <1>2
<1>7. \A y \in S : x <= y
  <2> SUFFICES ASSUME NEW y \in S PROVE x <= y
    OBVIOUS
  <2>1. -y \in N /\ x \in Int /\ y \in Int
    BY <1>1, <1>2
  <2>2. g >= -y
    BY <1>5, <2>1
  <2> QED BY <1>6, <2>1, <2>2
<1> HIDE DEF neg, N
<1> QED BY <1>7 DEF F!Min

LEMMA BucketFacts ==
    /\ \A i \in 1 .. 12 : F!Bucket({F!Tests[i].word}) = F!Tests[i].bucket
    /\ F!Bucket({}) = "other"
    /\ F!Bucket({"below_min", "score_"}) = "min_notional"
<1> DEFINE Hits(words) == {i \in DOMAIN F!Tests : F!Tests[i].word \in words}
<1>1. /\ DOMAIN F!Tests = 1 .. 12
      /\ \A i, j \in 1 .. 12 : F!Tests[i].word = F!Tests[j].word => i = j
      /\ F!Tests[5].word = "below_min" /\ F!Tests[9].word = "score_"
      /\ F!Tests[5].bucket = "min_notional"
  BY DEF F!Tests, F!Test
<1>2. \A words : F!Bucket(words) = IF Hits(words) = {} THEN "other"
                                   ELSE F!Tests[F!Min(Hits(words))].bucket
  BY DEF F!Bucket
<1>3. ASSUME NEW i \in 1 .. 12 PROVE F!Bucket({F!Tests[i].word}) = F!Tests[i].bucket
  <2>1. Hits({F!Tests[i].word}) = {i}
    BY <1>1
  <2>2. F!Min({i}) = i
    BY LeastElement
  <2> HIDE DEF Hits
  <2> QED BY <1>2, <2>1, <2>2
<1>4. F!Bucket({}) = "other"
  BY <1>2
<1>5. F!Bucket({"below_min", "score_"}) = "min_notional"
  <2>1. Hits({"below_min", "score_"}) = {5, 9}
    BY <1>1
  <2>2. F!Min({5, 9}) = 5
    <3>1. {5, 9} \in SUBSET (1 .. 12)
      OBVIOUS
    <3>2. F!Min({5, 9}) \in {5, 9} /\ F!Min({5, 9}) <= 5
      BY <3>1, LeastElement
    <3> QED BY <3>2
  <2> HIDE DEF Hits
  <2> QED BY <1>1, <1>2, <2>1, <2>2
<1> QED BY <1>3, <1>4, <1>5

\* A rule is cited under the bucket of its text, or under none that is cited.
Told(stage, text) ==
    F!Bucket(F!Words(text)) \in F!Cited => F!RuleOf(stage, text) = F!Bucket(F!Words(text))

LEMMA BucketOfText ==
    /\ F!Bucket(F!Words("slots")) = "max_open_trades"
    /\ F!Bucket(F!Words("cluster")) = "cluster_cap"
    /\ F!Bucket(F!Words("side")) = "same_side_cap"
    /\ F!Bucket(F!Words("exposure_cap")) = "exposure_cap"
    /\ F!Bucket(F!Words("no_free_margin")) = "no_free_margin"
    /\ F!Bucket(F!Words("collapses")) = "margin_collapse"
    /\ F!Bucket(F!Words("not_selected")) = "not_selected"
    /\ \A t \in {"no_spread", "spread_above_max"} : F!Bucket(F!Words(t)) = "spread"
    /\ F!Bucket(F!Words("slippage_above_max")) = "slippage"
    /\ \A t : t \notin {"slots", "cluster", "side", "exposure_cap", "no_free_margin", "collapses",
                        "not_selected", "no_spread", "spread_above_max", "slippage_above_max"}
              => F!Bucket(F!Words(t)) \in {"min_notional", "score_threshold", "stop_distance", "other"}
<1>1. /\ F!Bucket({"max_open_trades"}) = "max_open_trades"
      /\ F!Bucket({"cluster_cap"}) = "cluster_cap"
      /\ F!Bucket({"same_side_cap"}) = "same_side_cap"
      /\ F!Bucket({"exposure_cap"}) = "exposure_cap"
      /\ F!Bucket({"below_min"}) = "min_notional"
      /\ F!Bucket({"no_free_margin"}) = "no_free_margin"
      /\ F!Bucket({"collapses_under_margin"}) = "margin_collapse"
      /\ F!Bucket({"lower_score"}) = "not_selected"
      /\ F!Bucket({"score_"}) = "score_threshold"
      /\ F!Bucket({"spread"}) = "spread"
      /\ F!Bucket({"slippage"}) = "slippage"
      /\ F!Bucket({"stop_dist"}) = "stop_distance"
  <2>1. \A i \in 1 .. 12 : F!Bucket({F!Tests[i].word}) = F!Tests[i].bucket
    BY BucketFacts
  <2> DEFINE W == F!Tests
  <2>2. /\ W[1].word = "max_open_trades" /\ W[1].bucket = "max_open_trades"
        /\ W[2].word = "cluster_cap" /\ W[2].bucket = "cluster_cap"
        /\ W[3].word = "same_side_cap" /\ W[3].bucket = "same_side_cap"
        /\ W[4].word = "exposure_cap" /\ W[4].bucket = "exposure_cap"
        /\ W[5].word = "below_min" /\ W[5].bucket = "min_notional"
        /\ W[6].word = "no_free_margin" /\ W[6].bucket = "no_free_margin"
        /\ W[7].word = "collapses_under_margin" /\ W[7].bucket = "margin_collapse"
        /\ W[8].word = "lower_score" /\ W[8].bucket = "not_selected"
        /\ W[9].word = "score_" /\ W[9].bucket = "score_threshold"
        /\ W[10].word = "spread" /\ W[10].bucket = "spread"
        /\ W[11].word = "slippage" /\ W[11].bucket = "slippage"
        /\ W[12].word = "stop_dist" /\ W[12].bucket = "stop_distance"
    BY DEF F!Tests, F!Test
  <2> HIDE DEF W
  <2>3. \A i \in 1 .. 12 : F!Bucket({W[i].word}) = W[i].bucket
    BY <2>1 DEF W
  <2>4. /\ F!Bucket({W[1].word}) = W[1].bucket /\ F!Bucket({W[2].word}) = W[2].bucket
        /\ F!Bucket({W[3].word}) = W[3].bucket /\ F!Bucket({W[4].word}) = W[4].bucket
        /\ F!Bucket({W[5].word}) = W[5].bucket /\ F!Bucket({W[6].word}) = W[6].bucket
        /\ F!Bucket({W[7].word}) = W[7].bucket /\ F!Bucket({W[8].word}) = W[8].bucket
        /\ F!Bucket({W[9].word}) = W[9].bucket /\ F!Bucket({W[10].word}) = W[10].bucket
        /\ F!Bucket({W[11].word}) = W[11].bucket /\ F!Bucket({W[12].word}) = W[12].bucket
    BY <2>3
  <2> QED BY <2>2, <2>4
<1>2. F!Bucket({}) = "other" /\ F!Bucket({"below_min", "score_"}) = "min_notional"
  BY BucketFacts
<1> QED BY <1>1, <1>2 DEF F!Words

StageOf == <<"daily_loss_kill_switch", "daily_profit_lock", "max_open_trades", "duplicate", "cooldown",
             "trade_hours", "liquidity", "spread", "spread", "slippage", "slippage">>
TextOf == <<"kill_switch", "profit_lock", "open_at_max", "already_open", "cooldown", "hour",
            "volume_below_min", "no_spread", "spread_above_max", "empty_book", "slippage_above_max">>

LEMMA TextsTold == \A i \in 1 .. 11 : StageOf[i] \in Stages /\ Told(StageOf[i], TextOf[i])
<1>1. \A i \in 1 .. 11 : StageOf[i] \in Stages
  BY DEF StageOf, Stages
<1>2. \A i \in {8, 9} : Told(StageOf[i], TextOf[i])
  <2>1. /\ StageOf[8] = "spread" /\ StageOf[9] = "spread"
        /\ TextOf[8] = "no_spread" /\ TextOf[9] = "spread_above_max"
    BY DEF StageOf, TextOf
  <2> QED BY <2>1, BucketOfText DEF Told, F!RuleOf
<1>3. Told(StageOf[11], TextOf[11])
  <2>1. StageOf[11] = "slippage" /\ TextOf[11] = "slippage_above_max"
    BY DEF StageOf, TextOf
  <2> QED BY <2>1, BucketOfText DEF Told, F!RuleOf
<1>4. \A i \in 1 .. 11 : i \notin {8, 9, 11} => Told(StageOf[i], TextOf[i])
  <2> SUFFICES ASSUME NEW i \in 1 .. 11, i \notin {8, 9, 11} PROVE Told(StageOf[i], TextOf[i])
    OBVIOUS
  <2>1. TextOf[i] \in {"kill_switch", "profit_lock", "open_at_max", "already_open", "cooldown",
                       "hour", "volume_below_min", "empty_book"}
    BY DEF TextOf
  <2>2. F!Bucket(F!Words(TextOf[i])) \in {"min_notional", "score_threshold", "stop_distance", "other"}
    BY <2>1, BucketOfText
  <2> QED BY <2>2 DEF Told, F!Cited
<1> QED BY <1>1, <1>2, <1>3, <1>4

LEMMA FilterTable ==
    ASSUME NEW symbol, NEW m
    PROVE  LET f == F!FiltersOf(symbol, m)
           IN /\ DOMAIN f = 1 .. 11
              /\ \A i \in 1 .. 11 : f[i].stage = StageOf[i] /\ f[i].text = TextOf[i]
              /\ f[3].fails <=> room.count >= SlotBound
              /\ f[5].fails <=> F!Rests(symbol)
              /\ f[10].fails <=> m.book = <<>>
              /\ f[11].fails <=> m.book # <<>> /\ F!Slips(m.book)
<1> DEFINE f == F!FiltersOf(symbol, m)
<1>1. DOMAIN f = 1 .. 11
  BY DEF F!FiltersOf
<1>2. f[1].stage = StageOf[1] /\ f[1].text = TextOf[1]
  BY DEF F!FiltersOf, F!Gate, StageOf, TextOf
<1>3. f[2].stage = StageOf[2] /\ f[2].text = TextOf[2]
  BY DEF F!FiltersOf, F!Gate, StageOf, TextOf
<1>4. f[3].stage = StageOf[3] /\ f[3].text = TextOf[3]
  BY DEF F!FiltersOf, F!Gate, StageOf, TextOf
<1>5. f[4].stage = StageOf[4] /\ f[4].text = TextOf[4]
  BY DEF F!FiltersOf, F!Gate, StageOf, TextOf
<1>6. f[5].stage = StageOf[5] /\ f[5].text = TextOf[5]
  BY DEF F!FiltersOf, F!Gate, StageOf, TextOf
<1>7. f[6].stage = StageOf[6] /\ f[6].text = TextOf[6]
  BY DEF F!FiltersOf, F!Gate, StageOf, TextOf
<1>8. f[7].stage = StageOf[7] /\ f[7].text = TextOf[7]
  BY DEF F!FiltersOf, F!Gate, StageOf, TextOf
<1>9. f[8].stage = StageOf[8] /\ f[8].text = TextOf[8]
  BY DEF F!FiltersOf, F!Gate, StageOf, TextOf
<1>10. f[9].stage = StageOf[9] /\ f[9].text = TextOf[9]
  BY DEF F!FiltersOf, F!Gate, StageOf, TextOf
<1>11. f[10].stage = StageOf[10] /\ f[10].text = TextOf[10]
  BY DEF F!FiltersOf, F!Gate, StageOf, TextOf
<1>12. f[11].stage = StageOf[11] /\ f[11].text = TextOf[11]
  BY DEF F!FiltersOf, F!Gate, StageOf, TextOf
<1>13. f[3].fails <=> room.count >= SlotBound
  BY DEF F!FiltersOf, F!Gate
<1>14. f[5].fails <=> F!Rests(symbol)
  BY DEF F!FiltersOf, F!Gate
<1>15. f[10].fails <=> m.book = <<>>
  BY DEF F!FiltersOf, F!Gate
<1>16. f[11].fails <=> m.book # <<>> /\ F!Slips(m.book)
  BY DEF F!FiltersOf, F!Gate
<1> HIDE DEF f
<1>17. \A i \in 1 .. 11 : f[i].stage = StageOf[i] /\ f[i].text = TextOf[i]
  BY <1>2, <1>3, <1>4, <1>5, <1>6, <1>7, <1>8, <1>9, <1>10, <1>11, <1>12
<1> QED BY <1>1, <1>13, <1>14, <1>15, <1>16, <1>17 DEF f

\* What risk or a cap says is told by its text alone.
LEMMA OtherTexts ==
    ASSUME NEW stage \in {"risk", "cap"}, NEW text, text \notin FilterTexts
    PROVE  Told(stage, text)
<1>1. CASE text \in {"slots", "cluster", "side", "exposure_cap", "no_free_margin", "collapses"}
  BY <1>1, BucketOfText DEF Told, F!RuleOf
<1>2. CASE text \notin {"slots", "cluster", "side", "exposure_cap", "no_free_margin", "collapses"}
  <2>1. F!Bucket(F!Words(text)) \in {"min_notional", "score_threshold", "stop_distance", "other"}
    BY <1>2, BucketOfText DEF FilterTexts
  <2> QED BY <2>1 DEF Told, F!Cited
<1> QED BY <1>1, <1>2

LEMMA LaterTable ==
    ASSUME ScreeningConstants, NEW c, NEW observed, NEW risk \in RiskRefusals \cup {NoGate},
           NEW i \in DOMAIN F!Later(c, observed, risk), F!Later(c, observed, risk)[i].fails
    PROVE  /\ i \in 1 .. 5
           /\ F!Later(c, observed, risk)[i].stage \in Stages
           /\ Told(F!Later(c, observed, risk)[i].stage, F!Later(c, observed, risk)[i].text)
<1> DEFINE f == F!Later(c, observed, risk)
<1>1. DOMAIN f = 1 .. 5
  BY DEF F!Later
<1>2. f[1].stage = "shadow_only" /\ f[1].text = "shadow_only"
  BY DEF F!Later, F!Gate
<1>3. f[2].stage = "watch" /\ f[2].text = "score_below_trade"
  BY DEF F!Later, F!Gate
<1>4. f[3].stage = "score_threshold" /\ f[3].text = "score_below_watch"
  BY DEF F!Later, F!Gate
<1>5. f[4].stage = "min_score_floor" /\ f[4].text = "score_below_floor"
  BY DEF F!Later, F!Gate
<1>6. f[5].stage = "risk" /\ f[5].text = risk
  BY DEF F!Later, F!Gate
<1>7. f[5].fails => risk # NoGate
  BY DEF F!Later, F!Gate
<1>8. i \in 1 .. 5 /\ f[i].fails
  BY <1>1
<1> HIDE DEF f
<1>9. f[i].stage \in Stages
  BY <1>2, <1>3, <1>4, <1>5, <1>6, <1>8 DEF Stages
<1>10. CASE i # 5
  <2>1. f[i].text \in {"shadow_only", "score_below_trade", "score_below_watch", "score_below_floor"}
    BY <1>2, <1>3, <1>4, <1>5, <1>8, <1>10
  <2>2. F!Bucket(F!Words(f[i].text)) \in {"min_notional", "score_threshold", "stop_distance", "other"}
    BY <2>1, BucketOfText
  <2> QED BY <1>8, <1>9, <2>2 DEF Told, F!Cited, f
<1>11. CASE i = 5
  <2>1. f[i].stage = "risk" /\ f[i].text = risk /\ risk \in RiskRefusals
    BY <1>6, <1>7, <1>8, <1>11
  <2>2. Told("risk", risk)
    BY <2>1, OtherTexts DEF ScreeningConstants
  <2> QED BY <1>8, <1>9, <2>1, <2>2 DEF f
<1> QED BY <1>10, <1>11

\* The rule that is given for a signal that is turned away.
LEMMA TurnsTold ==
    ASSUME ScreeningConstants, NEW m, NEW g \in F!Turns(m)
    PROVE  g.stage \in Stages /\ Told(g.stage, g.text)
<1> DEFINE f == F!FiltersOf(F!Now.symbol, m)
<1>1. CASE F!Failing(f) # {}
  <2>1. g = f[F!Min(F!Failing(f))]
    BY <1>1 DEF F!Turns, F!First
  <2>2. F!Failing(f) \in SUBSET (1 .. 11) /\ 11 \in Nat
    BY FilterTable DEF F!Failing
  <2>3. F!Min(F!Failing(f)) \in 1 .. 11
    <3> HIDE DEF f
    <3>1. F!Min(F!Failing(f)) \in F!Failing(f)
      BY <1>1, <2>2, LeastElement
    <3> QED BY <2>2, <3>1
  <2>4. g.stage = StageOf[F!Min(F!Failing(f))] /\ g.text = TextOf[F!Min(F!Failing(f))]
    BY <2>1, <2>3, FilterTable
  <2> QED BY <2>3, <2>4, TextsTold
<1>2. CASE F!Failing(f) = {}
  <2>1. PICK observed \in BOOLEAN, risk \in RiskRefusals \cup {NoGate} :
            /\ F!Failing(F!Later(F!Now, observed, risk)) # {}
            /\ g = F!First(F!Later(F!Now, observed, risk))
    BY <1>2 DEF F!Turns
  <2> DEFINE h == F!Later(F!Now, observed, risk)
  <2>2. F!Failing(h) \in SUBSET (1 .. 5) /\ 5 \in Nat
    BY DEF F!Failing, F!Later
  <2>3. F!Min(F!Failing(h)) \in F!Failing(h)
    <3> HIDE DEF h
    <3>1. F!Failing(h) # {}
      BY <2>1 DEF h
    <3> QED BY <2>2, <3>1, LeastElement
  <2>4. F!Min(F!Failing(h)) \in DOMAIN h /\ h[F!Min(F!Failing(h))].fails
    BY <2>3 DEF F!Failing
  <2>5. g = h[F!Min(F!Failing(h))]
    BY <2>1 DEF F!First
  <2>6. h[F!Min(F!Failing(h))].stage \in Stages
        /\ Told(h[F!Min(F!Failing(h))].stage, h[F!Min(F!Failing(h))].text)
    BY <2>1, <2>4, LaterTable
  <2> QED BY <2>5, <2>6
<1> QED BY <1>1, <1>2

\* A signal that passes finds the filter's room, a rested coin and a book that fills fairly.
LEMMA PassesFacts ==
    ASSUME NEW m, F!Passes(m)
    PROVE  /\ ~(room.count >= SlotBound)
           /\ ~F!Rests(F!Now.symbol)
           /\ m.book # <<>> /\ ~F!Slips(m.book)
<1> DEFINE f == F!FiltersOf(F!Now.symbol, m)
<1>1. F!Failing(f) = {}
  BY DEF F!Passes
<1>2. \A i \in DOMAIN f : ~f[i].fails
  <2> HIDE DEF f
  <2> QED BY <1>1 DEF F!Failing
<1>3. /\ DOMAIN f = 1 .. 11
      /\ f[3].fails <=> room.count >= SlotBound
      /\ f[5].fails <=> F!Rests(F!Now.symbol)
      /\ f[10].fails <=> m.book = <<>>
      /\ f[11].fails <=> m.book # <<>> /\ F!Slips(m.book)
  BY FilterTable
<1> HIDE DEF f
<1>4. ~f[3].fails /\ ~f[5].fails /\ ~f[10].fails /\ ~f[11].fails
  BY <1>2, <1>3
<1> QED BY <1>3, <1>4

--------------------------------------------------------------------------------
(* The counts.                                                              *)

\* `left` signals are still to be counted.
Balanced(f, left) ==
    /\ f \in [Fields -> Nat]
    /\ f.rejected + f.watch + f.executed + left = f.detected + f.stale
    /\ f.rejected = f.quality + f.capacity + f.stale
    /\ f.allow = f.executed + f.ranked + f.refused

One(k, names) == IF k \in names THEN 1 ELSE 0

LEMMA PlusFields ==
    ASSUME NEW f \in [Fields -> Nat], NEW names
    PROVE  LET g == F!Plus(f, names)
           IN /\ g \in [Fields -> Nat]
              /\ g.detected = f.detected + One("detected", names)
              /\ g.allow = f.allow + One("allow", names)
              /\ g.executed = f.executed + One("executed", names)
              /\ g.watch = f.watch + One("watch", names)
              /\ g.rejected = f.rejected + One("rejected", names)
              /\ g.quality = f.quality + One("quality", names)
              /\ g.capacity = f.capacity + One("capacity", names)
              /\ g.ranked = f.ranked + One("ranked", names)
              /\ g.refused = f.refused + One("refused", names)
              /\ g.stale = f.stale + One("stale", names)
<1> DEFINE g == F!Plus(f, names)
<1>1. g \in [Fields -> Nat] /\ \A k \in Fields : g[k] = f[k] + One(k, names)
  BY DEF F!Plus, One
<1> HIDE DEF g
<1>2. /\ "detected" \in Fields
      /\ "allow" \in Fields
      /\ "executed" \in Fields
      /\ "watch" \in Fields
      /\ "rejected" \in Fields
      /\ "quality" \in Fields
      /\ "capacity" \in Fields
      /\ "ranked" \in Fields
      /\ "refused" \in Fields
      /\ "stale" \in Fields
  BY DEF Fields
<1> QED BY <1>1, <1>2 DEF g

\* What adds one to the fields `names` of f.
LEMMA PlusBalanced ==
    ASSUME NEW left \in Nat, NEW f, Balanced(f, left + 1), NEW names,
           One("detected", names) = 0, One("stale", names) = 0,
           One("rejected", names) + One("watch", names) + One("executed", names) = 1,
           One("rejected", names) = One("quality", names) + One("capacity", names),
           One("allow", names) = One("executed", names) + One("ranked", names) + One("refused", names)
    PROVE  Balanced(F!Plus(f, names), left)
<1> DEFINE g == F!Plus(f, names)
<1>1. f \in [Fields -> Nat]
  BY DEF Balanced
<1>2. /\ f.detected \in Nat /\ One("detected", names) \in Nat
      /\ f.allow \in Nat /\ One("allow", names) \in Nat
      /\ f.executed \in Nat /\ One("executed", names) \in Nat
      /\ f.watch \in Nat /\ One("watch", names) \in Nat
      /\ f.rejected \in Nat /\ One("rejected", names) \in Nat
      /\ f.quality \in Nat /\ One("quality", names) \in Nat
      /\ f.capacity \in Nat /\ One("capacity", names) \in Nat
      /\ f.ranked \in Nat /\ One("ranked", names) \in Nat
      /\ f.refused \in Nat /\ One("refused", names) \in Nat
      /\ f.stale \in Nat /\ One("stale", names) \in Nat
  BY <1>1 DEF Fields, One
<1>3. /\ g \in [Fields -> Nat]
      /\ g.detected = f.detected + One("detected", names)
      /\ g.allow = f.allow + One("allow", names)
      /\ g.executed = f.executed + One("executed", names)
      /\ g.watch = f.watch + One("watch", names)
      /\ g.rejected = f.rejected + One("rejected", names)
      /\ g.quality = f.quality + One("quality", names)
      /\ g.capacity = f.capacity + One("capacity", names)
      /\ g.ranked = f.ranked + One("ranked", names)
      /\ g.refused = f.refused + One("refused", names)
      /\ g.stale = f.stale + One("stale", names)
  BY <1>1, PlusFields
<1>4. /\ f.rejected + f.watch + f.executed + (left + 1) = f.detected + f.stale
      /\ f.rejected = f.quality + f.capacity + f.stale
      /\ f.allow = f.executed + f.ranked + f.refused
  BY DEF Balanced
<1> HIDE DEF g
<1>5. g.rejected + g.watch + g.executed + left = g.detected + g.stale
  <2>1. /\ g.rejected = f.rejected + One("rejected", names) /\ g.watch = f.watch + One("watch", names)
        /\ g.executed = f.executed + One("executed", names)
    BY <1>3
  <2>2. g.detected = f.detected /\ g.stale = f.stale
    BY <1>2, <1>3
  <2>3. f.rejected + f.watch + f.executed + (left + 1) = f.detected + f.stale
    BY <1>4
  <2> QED BY <1>2, <2>1, <2>2, <2>3
<1>6. g.rejected = g.quality + g.capacity + g.stale
  <2>1. /\ g.rejected = f.rejected + One("rejected", names)
        /\ g.quality = f.quality + One("quality", names)
        /\ g.capacity = f.capacity + One("capacity", names)
    BY <1>3
  <2>2. g.stale = f.stale
    BY <1>2, <1>3
  <2>3. f.rejected = f.quality + f.capacity + f.stale
    BY <1>4
  <2>4. /\ f.rejected \in Nat /\ f.quality \in Nat /\ f.capacity \in Nat /\ f.stale \in Nat
        /\ One("rejected", names) = One("quality", names) + One("capacity", names)
        /\ One("quality", names) \in Nat /\ One("capacity", names) \in Nat
    BY <1>2
  <2> QED BY <2>1, <2>2, <2>3, <2>4
<1>7. g.allow = g.executed + g.ranked + g.refused
  <2>1. /\ g.allow = f.allow + One("allow", names)
        /\ g.executed = f.executed + One("executed", names)
        /\ g.ranked = f.ranked + One("ranked", names)
        /\ g.refused = f.refused + One("refused", names)
    BY <1>3
  <2> QED BY <1>2, <1>4, <2>1
<1> QED BY <1>3, <1>5, <1>6, <1>7 DEF Balanced, g

LEMMA RejectedCounts ==
    ASSUME NEW left \in Nat, NEW f, Balanced(f, left + 1), ScreeningConstants, NEW stage \in Stages
    PROVE  Balanced(F!Recorded(f, stage), left)
<1>1. stage # NoGate
  BY DEF ScreeningConstants
<1>2. CASE stage = "watch"
  <2>1. F!Recorded(f, stage) = F!Plus(f, {"watch"})
    BY <1>1, <1>2 DEF F!Recorded, F!Capacity
  <2>2. Balanced(F!Plus(f, {"watch"}), left)
    BY PlusBalanced DEF One
  <2> QED BY <2>1, <2>2
<1>3. CASE stage = "risk"
  <2>1. F!Recorded(f, stage) = F!Plus(f, {"scored", "rejected", "quality"})
    BY <1>1, <1>3 DEF F!Recorded, F!Capacity
  <2>2. Balanced(F!Plus(f, {"scored", "rejected", "quality"}), left)
    BY PlusBalanced DEF One
  <2> QED BY <2>1, <2>2
<1>4. CASE stage \in F!Capacity
  <2>1. F!Recorded(f, stage) = F!Plus(f, {"rejected", "capacity"})
    BY <1>1, <1>4 DEF F!Recorded, F!Capacity
  <2>2. Balanced(F!Plus(f, {"rejected", "capacity"}), left)
    BY PlusBalanced DEF One
  <2> QED BY <2>1, <2>2
<1>5. CASE stage \notin F!Capacity \cup {"watch", "risk"}
  <2>1. F!Recorded(f, stage) = F!Plus(f, {"rejected", "quality"})
    BY <1>1, <1>5 DEF F!Recorded
  <2>2. Balanced(F!Plus(f, {"rejected", "quality"}), left)
    BY PlusBalanced DEF One
  <2> QED BY <2>1, <2>2
<1> QED BY <1>2, <1>3, <1>4, <1>5

\* An allowed signal is opened, ranked out or refused.
LEMMA AllowedCounts ==
    ASSUME NEW left \in Nat, NEW f, Balanced(f, left + 1), ScreeningConstants
    PROVE  /\ Balanced(F!RankedOut(F!Recorded(f, NoGate)), left)
           /\ Balanced(F!Refused(F!Recorded(f, NoGate)), left)
           /\ Balanced(F!Plus(F!Recorded(f, NoGate), {"executed"}), left)
<1> DEFINE first == {"scored", "risked", "allow"}
<1>1. F!Recorded(f, NoGate) = F!Plus(f, first)
  BY DEF F!Recorded, F!Capacity, ScreeningConstants, Stages
<1>2. ASSUME NEW names, One("detected", names) = 0, One("stale", names) = 0,
             One("allow", names) = 0,
             One("rejected", names) + One("watch", names) + One("executed", names) = 1,
             One("rejected", names) = One("quality", names) + One("capacity", names),
             1 = One("executed", names) + One("ranked", names) + One("refused", names)
      PROVE  Balanced(F!Plus(F!Plus(f, first), names), left)
  <2> DEFINE g == F!Plus(f, first)
             h == F!Plus(g, names)
  <2>1. f \in [Fields -> Nat]
    BY DEF Balanced
  <2>2. /\ f.detected \in Nat /\ One("detected", names) \in Nat
        /\ f.allow \in Nat /\ One("allow", names) \in Nat
        /\ f.executed \in Nat /\ One("executed", names) \in Nat
        /\ f.watch \in Nat /\ One("watch", names) \in Nat
        /\ f.rejected \in Nat /\ One("rejected", names) \in Nat
        /\ f.quality \in Nat /\ One("quality", names) \in Nat
        /\ f.capacity \in Nat /\ One("capacity", names) \in Nat
        /\ f.ranked \in Nat /\ One("ranked", names) \in Nat
        /\ f.refused \in Nat /\ One("refused", names) \in Nat
        /\ f.stale \in Nat /\ One("stale", names) \in Nat
    BY <2>1 DEF Fields, One
  <2>3. /\ g \in [Fields -> Nat]
        /\ g.allow = f.allow + 1
        /\ g.detected = f.detected
        /\ g.executed = f.executed
        /\ g.watch = f.watch
        /\ g.rejected = f.rejected
        /\ g.quality = f.quality
        /\ g.capacity = f.capacity
        /\ g.ranked = f.ranked
        /\ g.refused = f.refused
        /\ g.stale = f.stale
    <3>1. /\ g \in [Fields -> Nat]
          /\ g.detected = f.detected + One("detected", first)
          /\ g.allow = f.allow + One("allow", first)
          /\ g.executed = f.executed + One("executed", first)
          /\ g.watch = f.watch + One("watch", first)
          /\ g.rejected = f.rejected + One("rejected", first)
          /\ g.quality = f.quality + One("quality", first)
          /\ g.capacity = f.capacity + One("capacity", first)
          /\ g.ranked = f.ranked + One("ranked", first)
          /\ g.refused = f.refused + One("refused", first)
          /\ g.stale = f.stale + One("stale", first)
      BY <2>1, PlusFields
    <3>2. /\ One("allow", first) = 1
          /\ One("detected", first) = 0
          /\ One("executed", first) = 0
          /\ One("watch", first) = 0
          /\ One("rejected", first) = 0
          /\ One("quality", first) = 0
          /\ One("capacity", first) = 0
          /\ One("ranked", first) = 0
          /\ One("refused", first) = 0
          /\ One("stale", first) = 0
      BY DEF One
    <3> HIDE DEF g
    <3> QED BY <2>2, <3>1, <3>2
  <2> HIDE DEF g
  <2>4. /\ h \in [Fields -> Nat]
        /\ h.detected = g.detected + One("detected", names)
        /\ h.allow = g.allow + One("allow", names)
        /\ h.executed = g.executed + One("executed", names)
        /\ h.watch = g.watch + One("watch", names)
        /\ h.rejected = g.rejected + One("rejected", names)
        /\ h.quality = g.quality + One("quality", names)
        /\ h.capacity = g.capacity + One("capacity", names)
        /\ h.ranked = g.ranked + One("ranked", names)
        /\ h.refused = g.refused + One("refused", names)
        /\ h.stale = g.stale + One("stale", names)
    BY <2>3, PlusFields
  <2>5. /\ f.rejected + f.watch + f.executed + (left + 1) = f.detected + f.stale
        /\ f.rejected = f.quality + f.capacity + f.stale
        /\ f.allow = f.executed + f.ranked + f.refused
    BY DEF Balanced
  <2> HIDE DEF h
  <2>6. Balanced(h, left)
    <3>1. h.rejected + h.watch + h.executed + left = h.detected + h.stale
      <4>1. /\ h.rejected = f.rejected + One("rejected", names) /\ h.watch = f.watch + One("watch", names)
            /\ h.executed = f.executed + One("executed", names)
        BY <2>3, <2>4
      <4>2. h.detected = f.detected /\ h.stale = f.stale
        BY <1>2, <2>2, <2>3, <2>4
      <4>3. One("rejected", names) + One("watch", names) + One("executed", names) = 1
        BY <1>2
      <4>4. f.rejected + f.watch + f.executed + (left + 1) = f.detected + f.stale
        BY <2>5
      <4> QED BY <2>2, <4>1, <4>2, <4>3, <4>4
    <3>2. h.rejected = h.quality + h.capacity + h.stale
      <4>1. /\ h.rejected = f.rejected + One("rejected", names)
            /\ h.quality = f.quality + One("quality", names)
            /\ h.capacity = f.capacity + One("capacity", names)
        BY <2>3, <2>4
      <4>2. h.stale = f.stale
        BY <1>2, <2>2, <2>3, <2>4
      <4>3. One("rejected", names) = One("quality", names) + One("capacity", names)
        BY <1>2
      <4>4. f.rejected = f.quality + f.capacity + f.stale
        BY <2>5
      <4> QED BY <2>2, <4>1, <4>2, <4>3, <4>4
    <3>3. h.allow = h.executed + h.ranked + h.refused
      <4>1. /\ h.executed = f.executed + One("executed", names)
            /\ h.ranked = f.ranked + One("ranked", names)
            /\ h.refused = f.refused + One("refused", names)
        BY <2>3, <2>4
      <4>2. h.allow = f.allow + 1
        BY <1>2, <2>2, <2>3, <2>4
      <4>3. 1 = One("executed", names) + One("ranked", names) + One("refused", names)
        BY <1>2
      <4>4. f.allow = f.executed + f.ranked + f.refused
        BY <2>5
      <4> QED BY <2>2, <4>1, <4>2, <4>3, <4>4
    <3> QED BY <2>4, <3>1, <3>2, <3>3 DEF Balanced
  <2> QED BY <2>6 DEF g, h
<1> HIDE DEF first
<1>3. Balanced(F!Plus(F!Plus(f, first), {"ranked", "rejected", "capacity"}), left)
  BY <1>2 DEF One
<1>4. Balanced(F!Plus(F!Plus(f, first), {"refused", "rejected", "capacity"}), left)
  BY <1>2 DEF One
<1>5. Balanced(F!Plus(F!Plus(f, first), {"executed"}), left)
  BY <1>2 DEF One
<1> QED BY <1>1, <1>3, <1>4, <1>5 DEF F!RankedOut, F!Refused

--------------------------------------------------------------------------------
(* The rows.                                                                *)

\* `rows` has the rows of the table, and new ones: of the signal that is decided, with
\* `value`, and of another one of its symbol.
Extends(rows, value) ==
    /\ DOMAIN table \subseteq DOMAIN rows
    /\ \A k \in DOMAIN table : rows[k] = table[k]
    /\ \A k \in DOMAIN rows \ DOMAIN table :
          IF k = F!MainKey THEN rows[k] = value
          ELSE rows[k] = NoGate \/ rows[k] = F!Words("not_selected")

LEMMA InsertedFacts ==
    ASSUME NEW rows, NEW key, NEW source, NEW score, NEW text
    PROVE  LET new == F!Inserted(rows, key, source, score, text)
           IN /\ DOMAIN rows \subseteq DOMAIN new /\ DOMAIN new \subseteq DOMAIN rows \cup {key}
              /\ \A k \in DOMAIN rows : new[k] = rows[k]
              /\ key \in DOMAIN new \ DOMAIN rows
                    => new[key] = IF text = NoGate THEN NoGate ELSE F!Words(text)
BY DEF F!Inserted

LEMMA TrackedExtends ==
    ASSUME NEW source, NEW text
    PROVE  Extends(F!Tracked(source, text), IF text = NoGate THEN NoGate ELSE F!Words(text))
<1> DEFINE rows == F!Inserted(table, F!MainKey, source, F!Now.score, text)
           second == F!Key(F!Now.symbol, "other")
           new == F!WithOther(rows, F!Now)
           value == IF text = NoGate THEN NoGate ELSE F!Words(text)
<1>1. /\ DOMAIN table \subseteq DOMAIN rows /\ DOMAIN rows \subseteq DOMAIN table \cup {F!MainKey}
      /\ \A k \in DOMAIN table : rows[k] = table[k]
      /\ F!MainKey \in DOMAIN rows \ DOMAIN table => rows[F!MainKey] = value
  BY InsertedFacts
<1>2. second # F!MainKey
  BY DEF F!Key, F!MainKey
<1>3. /\ DOMAIN rows \subseteq DOMAIN new /\ DOMAIN new \subseteq DOMAIN rows \cup {second}
      /\ \A k \in DOMAIN rows : new[k] = rows[k]
      /\ second \in DOMAIN new \ DOMAIN rows
            => new[second] = NoGate \/ new[second] = F!Words("not_selected")
  <2> HIDE DEF rows
  <2>1. CASE F!Now.other = 0
    BY <2>1 DEF F!WithOther
  <2>2. CASE F!Now.other # 0
    <3>1. new = F!Inserted(rows, second, "rejected", F!Now.other, "not_selected")
      BY <2>2 DEF F!WithOther
    <3> HIDE DEF new, second
    <3> QED BY <3>1, InsertedFacts
  <2> QED BY <2>1, <2>2
<1>4. F!Tracked(source, text) = new
  BY DEF F!Tracked
<1> HIDE DEF rows, new, second, value
<1>5. DOMAIN table \subseteq DOMAIN new /\ \A k \in DOMAIN table : new[k] = table[k]
  BY <1>1, <1>3
<1>6. \A k \in DOMAIN new \ DOMAIN table :
          IF k = F!MainKey THEN new[k] = value
          ELSE new[k] = NoGate \/ new[k] = F!Words("not_selected")
  BY <1>1, <1>2, <1>3
<1>7. Extends(new, value)
  BY <1>5, <1>6 DEF Extends
<1> QED BY <1>4, <1>7 DEF value

\* The reason of an allowed signal that finds no room is written to its new row.
LEMMA StampExtends ==
    ASSUME NEW rows, NEW value, Extends(rows, value), NEW text
    PROVE  Extends(F!Stamp(table, rows, F!MainKey, text), F!Words(text))
<1>1. CASE F!MainKey \in DOMAIN table
  BY <1>1 DEF F!Stamp, Extends
<1>2. CASE F!MainKey \notin DOMAIN table
  <2> DEFINE new == [rows EXCEPT ![F!MainKey] = F!Words(text)]
             key == F!MainKey
  <2>1. /\ DOMAIN new = DOMAIN rows
        /\ \A k \in DOMAIN rows : new[k] = IF k = key THEN F!Words(text) ELSE rows[k]
    OBVIOUS
  <2>2. F!Stamp(table, rows, F!MainKey, text) = new
    BY <1>2 DEF F!Stamp
  <2> HIDE DEF new, key
  <2>3. key \notin DOMAIN table
    BY <1>2 DEF key
  <2>4. /\ DOMAIN table \subseteq DOMAIN rows
        /\ \A k \in DOMAIN table : rows[k] = table[k]
        /\ \A k \in DOMAIN rows \ DOMAIN table :
              k # key => rows[k] = NoGate \/ rows[k] = F!Words("not_selected")
    BY DEF Extends, key
  <2>5. /\ DOMAIN table \subseteq DOMAIN new
        /\ \A k \in DOMAIN table : new[k] = table[k]
        /\ \A k \in DOMAIN new \ DOMAIN table :
              IF k = key THEN new[k] = F!Words(text)
              ELSE new[k] = NoGate \/ new[k] = F!Words("not_selected")
    BY <2>1, <2>3, <2>4
  <2> QED BY <2>2, <2>5 DEF Extends, key
<1> QED BY <1>1, <1>2

\* The rows stay explained when the rule of the new one is the one its words tell.
LEMMA LeavesExplained ==
    ASSUME Explained, NEW rows, NEW value, Extends(rows, value), NEW rule, F!Leaves(rows, rule),
           value # NoGate /\ F!Bucket(value) \in F!Cited => rule = F!Bucket(value)
    PROVE  Explained'
<1> DEFINE key == F!MainKey
<1>1. /\ table' = rows
      /\ DOMAIN turned' = DOMAIN rows
      /\ \A k \in DOMAIN rows : turned'[k] = IF k \in DOMAIN turned THEN turned[k]
                                          ELSE IF k = key THEN rule ELSE "not_selected"
  BY DEF F!Leaves
<1>2. F!Bucket(F!Words("not_selected")) = "not_selected"
  BY BucketOfText
<1>3. /\ DOMAIN turned = DOMAIN table
      /\ \A k \in DOMAIN table : table[k] # NoGate /\ F!Bucket(table[k]) \in F!Cited
                                        => turned[k] = F!Bucket(table[k])
  BY DEF Explained
<1>4. /\ \A k \in DOMAIN table : rows[k] = table[k]
      /\ \A k \in DOMAIN rows \ DOMAIN table :
            IF k = key THEN rows[k] = value
            ELSE rows[k] = NoGate \/ rows[k] = F!Words("not_selected")
  BY DEF Extends
<1> HIDE DEF key
<1>5. ASSUME NEW k \in DOMAIN rows, rows[k] # NoGate, F!Bucket(rows[k]) \in F!Cited
      PROVE  turned'[k] = F!Bucket(rows[k])
  <2>1. CASE k \in DOMAIN table
    BY <1>1, <1>3, <1>4, <1>5, <2>1
  <2>2. CASE k \notin DOMAIN table /\ k = key
    BY <1>1, <1>3, <1>4, <1>5, <2>2
  <2>3. CASE k \notin DOMAIN table /\ k # key
    BY <1>1, <1>2, <1>3, <1>4, <1>5, <2>3
  <2> QED BY <2>1, <2>2, <2>3
<1>6. /\ DOMAIN turned' = DOMAIN table'
      /\ \A k \in DOMAIN table' : table'[k] # NoGate /\ F!Bucket(table'[k]) \in F!Cited
                                        => turned'[k] = F!Bucket(table'[k])
  BY <1>1, <1>5
<1> QED BY <1>6 DEF Explained

--------------------------------------------------------------------------------
(* The steps.                                                               *)

\* A candidate is decided: it leaves the queue and is counted once.
LEMMA TalliedDecides ==
    ASSUME Tallied, F!Deciding, NEW rows, NEW rule, F!Leaves(rows, rule),
           \A left \in Nat : Balanced(funnel, left + 1) => Balanced(funnel', left)
    PROVE  Tallied'
<1>1. phase = "deciding" /\ queue # <<>> /\ phase' = phase /\ queue' = Tail(queue)
  BY DEF F!Deciding, F!Leaves
<1>2. queue \in Seq(Screened) /\ Balanced(funnel, Len(queue))
  BY <1>1 DEF Tallied, Balanced
<1>3. Tail(queue) \in Seq(Screened) /\ Len(Tail(queue)) = Len(queue) - 1
  BY <1>1, <1>2, HeadTailProperties
<1>4. Len(queue) \in Nat /\ Len(queue) # 0
  BY <1>1, <1>2, EmptySeq, LenProperties
<1>5. Len(queue) - 1 \in Nat /\ (Len(queue) - 1) + 1 = Len(queue)
  BY <1>4
<1>6. Balanced(funnel', Len(queue) - 1)
  BY <1>2, <1>5
<1>7. phase' = "deciding" /\ queue' \in Seq(Screened) /\ Len(queue') = Len(queue) - 1
  BY <1>1, <1>3
<1> QED BY <1>6, <1>7 DEF Tallied, Balanced

LEMMA RejectKeeps ==
    ASSUME ScreeningConstants, Tallied, Roomy, Explained, Rested, NEW m, F!Reject(m)
    PROVE  Tallied' /\ Roomy' /\ Explained' /\ Rested'
<1>1. PICK g \in F!Turns(m) : /\ F!Counts(F!Recorded(funnel, g.stage))
                              /\ F!Leaves(F!Tracked("rejected", g.text), F!RuleOf(g.stage, g.text))
  BY DEF F!Reject
<1>2. F!Deciding /\ deals' = deals /\ room' = room
  BY DEF F!Reject
<1>3. g.stage \in Stages /\ Told(g.stage, g.text)
  BY TurnsTold
<1>4. Tallied'
  <2>1. \A left \in Nat : Balanced(funnel, left + 1) => Balanced(funnel', left)
    BY <1>1, <1>3, RejectedCounts DEF F!Counts
  <2> QED BY <1>1, <1>2, <2>1, TalliedDecides
<1>5. Explained'
  <2> DEFINE value == IF g.text = NoGate THEN NoGate ELSE F!Words(g.text)
  <2>1. Extends(F!Tracked("rejected", g.text), value)
    BY TrackedExtends
  <2>2. value # NoGate /\ F!Bucket(value) \in F!Cited => F!RuleOf(g.stage, g.text) = F!Bucket(value)
    BY <1>3 DEF Told
  <2> HIDE DEF value
  <2> QED BY <1>1, <2>1, <2>2, LeavesExplained
<1>6. style' = style /\ minute' = minute /\ phase' = phase
  BY <1>1 DEF F!Leaves
<1>7. Roomy'
  BY <1>2, <1>6 DEF Roomy
<1>8. Rested'
  BY <1>2, <1>6 DEF Rested, F!RestsBetween
<1> QED BY <1>4, <1>5, <1>7, <1>8

\* Only the ranked cycle loses a slot: in the other the filter looked at the same cap.
LEMMA LosesSlotKeeps ==
    ASSUME ScreeningConstants, Tallied, Roomy, Explained, Rested, NEW m, F!LosesSlot(m)
    PROVE  Tallied' /\ Roomy' /\ Explained' /\ Rested'
<1> DEFINE rows == F!Tracked("paper", NoGate)
<1>1. PICK text \in F!Bound \ {NoGate} :
          /\ F!Counts(IF style.ranked THEN F!RankedOut(F!Recorded(funnel, NoGate))
                      ELSE F!Recorded(funnel, NoGate))
          /\ F!Leaves(F!Stamp(table, rows, F!MainKey, text), F!RuleOf("cap", text))
  BY DEF F!LosesSlot
<1>2. F!Deciding /\ F!Passes(m) /\ deals' = deals /\ room' = room
  BY DEF F!LosesSlot
<1>3. style.ranked /\ text \in OtherCaps \cup {"slots"}
  <2>1. CASE room.count >= room.cap
    <3>1. room.cap # SlotBound
      BY <1>2, <2>1, PassesFacts
    <3>2. style.ranked
      BY <1>2, <3>1 DEF Roomy, F!Deciding
    <3> QED BY <1>1, <2>1, <3>2 DEF F!Bound
  <2>2. CASE ~(room.count >= room.cap)
    BY <1>1, <2>2 DEF F!Bound
  <2> QED BY <2>1, <2>2
<1>4. Tallied'
  <2>1. \A left \in Nat : Balanced(funnel, left + 1) => Balanced(funnel', left)
    BY <1>1, <1>3, AllowedCounts DEF F!Counts
  <2> QED BY <1>1, <1>2, <2>1, TalliedDecides
<1>5. Explained'
  <2>1. Extends(rows, NoGate)
    BY TrackedExtends
  <2> HIDE DEF rows
  <2>2. Extends(F!Stamp(table, rows, F!MainKey, text), F!Words(text))
    BY <2>1, StampExtends
  <2>3. Told("cap", text)
    BY <1>3, OtherTexts DEF ScreeningConstants, FilterTexts
  <2>4. F!Bucket(F!Words(text)) \in F!Cited => F!RuleOf("cap", text) = F!Bucket(F!Words(text))
    BY <2>3 DEF Told
  <2> QED BY <1>1, <2>2, <2>4, LeavesExplained
<1>6. style' = style /\ minute' = minute /\ phase' = phase
  BY <1>1 DEF F!Leaves
<1>7. Roomy'
  BY <1>2, <1>6 DEF Roomy
<1>8. Rested'
  BY <1>2, <1>6 DEF Rested, F!RestsBetween
<1> QED BY <1>4, <1>5, <1>7, <1>8

LEMMA SendRefusedKeeps ==
    ASSUME ScreeningConstants, Tallied, Roomy, Explained, Rested, NEW m, F!SendRefused(m)
    PROVE  Tallied' /\ Roomy' /\ Explained' /\ Rested'
<1>1. /\ F!Counts(F!Refused(F!Recorded(funnel, NoGate)))
      /\ F!Leaves(F!Tracked("paper", NoGate), NoGate)
  BY DEF F!SendRefused
<1>2. F!Deciding /\ deals' = deals /\ room' = room
  BY DEF F!SendRefused
<1>3. Tallied'
  <2>1. \A left \in Nat : Balanced(funnel, left + 1) => Balanced(funnel', left)
    BY <1>1, AllowedCounts DEF F!Counts
  <2> QED BY <1>1, <1>2, <2>1, TalliedDecides
<1>4. Explained'
  <2>1. Extends(F!Tracked("paper", NoGate), NoGate)
    BY TrackedExtends
  <2> QED BY <1>1, <2>1, LeavesExplained
<1>5. style' = style /\ minute' = minute /\ phase' = phase
  BY <1>1 DEF F!Leaves
<1>6. Roomy'
  BY <1>2, <1>5 DEF Roomy
<1>7. Rested'
  BY <1>2, <1>5 DEF Rested, F!RestsBetween
<1> QED BY <1>3, <1>4, <1>6, <1>7

\* A coin that does not rest was last entered a cooldown ago.
LEMMA RestedCoin ==
    ASSUME ScreeningConstants, Rested, NEW x, ~F!Rests(x), NEW t \in deals, t.symbol = x
    PROVE  minute - t.at >= RestTime
<1> DEFINE S == F!Times(x)
<1>1. IsFiniteSet(S)
  <2>1. IsFiniteSet(deals)
    BY DEF Rested
  <2> DEFINE D == {u \in deals : u.symbol = x}
             f == [u \in D |-> u.at]
  <2>2. IsFiniteSet(D)
    BY <2>1, FS_Subset
  <2>3. S = {f[u] : u \in D}
    BY DEF F!Times
  <2> HIDE DEF S, D, f
  <2> QED BY <2>2, <2>3, ImageFinite
<1>2. t.at \in S /\ \A y \in S : y \in Int
  BY DEF F!Times, Rested
<1> HIDE DEF S
<1>3. \E h \in S : \A y \in S : h >= y
  BY <1>1, <1>2, GreatestElement
<1>4. F!Max(S) \in S /\ F!Max(S) >= t.at
  BY <1>2, <1>3 DEF F!Max
<1>5. ~(minute - F!Max(S) < RestTime)
  BY <1>2 DEF F!Rests, S
<1>6. RestTime \in Int /\ minute \in Int /\ F!Max(S) \in Int /\ t.at \in Int
  BY <1>2, <1>4 DEF ScreeningConstants, Rested
<1> QED BY <1>4, <1>5, <1>6

LEMMA OpensKeeps ==
    ASSUME ScreeningConstants, Tallied, Roomy, Explained, Rested, NEW m, F!Opens(m)
    PROVE  Tallied' /\ Roomy' /\ Explained' /\ Rested'
<1> DEFINE deal == [symbol |-> F!Now.symbol, at |-> minute, open |-> TRUE]
<1>1. /\ F!Counts(F!Plus(F!Recorded(funnel, NoGate), {"executed"}))
      /\ F!Leaves(F!Tracked("paper", NoGate), NoGate)
  BY DEF F!Opens
<1>2. /\ F!Deciding /\ F!Passes(m) /\ deals' = deals \cup {deal}
      /\ room' = [room EXCEPT !.symbols = @ \cup {F!Now.symbol}, !.count = @ + 1]
  BY DEF F!Opens
<1>3. Tallied'
  <2>1. \A left \in Nat : Balanced(funnel, left + 1) => Balanced(funnel', left)
    BY <1>1, AllowedCounts DEF F!Counts
  <2> QED BY <1>1, <1>2, <2>1, TalliedDecides
<1>4. Explained'
  <2>1. Extends(F!Tracked("paper", NoGate), NoGate)
    BY TrackedExtends
  <2> QED BY <1>1, <2>1, LeavesExplained
<1>5. style' = style /\ minute' = minute /\ phase' = phase
  BY <1>1 DEF F!Leaves
<1>6. Roomy'
  <2>1. room = [cap |-> room.cap, symbols |-> room.symbols, count |-> room.count]
        /\ (style.ranked \/ room.cap = SlotBound)
    BY <1>2 DEF Roomy, F!Deciding
  <2>2. room' = [cap |-> room.cap, symbols |-> room.symbols \cup {F!Now.symbol},
                 count |-> room.count + 1]
    BY <1>2, <2>1
  <2>3. room' = [cap |-> room'.cap, symbols |-> room'.symbols, count |-> room'.count]
        /\ room'.cap = room.cap
    BY <2>2
  <2> QED BY <1>5, <2>1, <2>3 DEF Roomy
<1>7. Rested'
  <2>1. /\ minute \in Nat /\ IsFiniteSet(deals)
        /\ \A t \in deals : /\ t = [symbol |-> t.symbol, at |-> t.at, open |-> t.open]
                            /\ t.at \in 0 .. minute
        /\ \A t, u \in deals : t # u /\ t.symbol = u.symbol /\ t.at <= u.at
                                => u.at - t.at >= RestTime
    BY DEF Rested, F!RestsBetween
  <2>2. IsFiniteSet(deals')
    BY <1>2, <2>1, FS_AddElement
  <2>3. /\ deal.symbol = F!Now.symbol /\ deal.at = minute
        /\ deal = [symbol |-> deal.symbol, at |-> deal.at, open |-> deal.open]
    OBVIOUS
  <2>4. \A t \in deals : t.symbol = F!Now.symbol => minute - t.at >= RestTime
    BY <1>2, PassesFacts, RestedCoin
  <2> HIDE DEF deal
  <2>5. \A t \in deals' : /\ t = [symbol |-> t.symbol, at |-> t.at, open |-> t.open]
                          /\ t.at \in 0 .. minute
    BY <1>2, <2>1, <2>3
  <2>6. ASSUME NEW t \in deals', NEW u \in deals', t # u, t.symbol = u.symbol, t.at <= u.at
        PROVE  u.at - t.at >= RestTime
    <3>1. CASE t \in deals /\ u \in deals
      BY <2>1, <2>6, <3>1
    <3>2. CASE t \in deals /\ u = deal
      BY <2>3, <2>4, <2>6, <3>2
    <3>3. CASE t = deal /\ u \in deals
      <4>1. minute - u.at >= RestTime /\ u.at \in 0 .. minute /\ minute <= u.at
        BY <2>1, <2>3, <2>4, <2>6, <3>3
      <4>2. u.at - t.at = minute - u.at
        BY <2>1, <2>3, <3>3, <4>1
      <4> QED BY <4>1, <4>2
    <3> QED BY <1>2, <2>6, <3>1, <3>2, <3>3
  <2> QED BY <1>5, <2>1, <2>2, <2>5, <2>6 DEF Rested, F!RestsBetween
<1> QED BY <1>3, <1>4, <1>6, <1>7

LEMMA ExitKeeps ==
    ASSUME ScreeningConstants, Tallied, Roomy, Explained, Rested, NEW d \in deals, F!Exit(d)
    PROVE  Tallied' /\ Roomy' /\ Explained' /\ Rested'
<1> DEFINE e == [d EXCEPT !.open = FALSE]
<1>1. d.open /\ deals' = (deals \ {d}) \cup {e}
  BY DEF F!Exit
<1>2. /\ style' = style /\ minute' = minute /\ phase' = phase /\ queue' = queue /\ room' = room
      /\ funnel' = funnel /\ table' = table /\ turned' = turned
  BY DEF F!Exit
<1>3. Tallied' /\ Roomy' /\ Explained'
  BY <1>2 DEF Tallied, Roomy, Explained
<1>4. /\ minute \in Nat /\ IsFiniteSet(deals)
      /\ \A t \in deals : /\ t = [symbol |-> t.symbol, at |-> t.at, open |-> t.open]
                          /\ t.at \in 0 .. minute
      /\ \A t, u \in deals : t # u /\ t.symbol = u.symbol /\ t.at <= u.at
                              => u.at - t.at >= RestTime
  BY DEF Rested, F!RestsBetween
<1>5. e = [symbol |-> d.symbol, at |-> d.at, open |-> FALSE]
  <2>1. d = [symbol |-> d.symbol, at |-> d.at, open |-> d.open]
    BY <1>4
  <2>2. PICK x, a, o : d = [symbol |-> x, at |-> a, open |-> o]
    BY <2>1
  <2>3. d.symbol = x /\ d.at = a
    BY <2>2
  <2>4. \A v : [[symbol |-> x, at |-> a, open |-> o] EXCEPT !.open = v]
                 = [symbol |-> x, at |-> a, open |-> v]
    OBVIOUS
  <2> QED BY <2>2, <2>3, <2>4, Zenon
<1>6. e.symbol = d.symbol /\ e.at = d.at /\ e = [symbol |-> e.symbol, at |-> e.at, open |-> e.open]
  BY <1>5
<1> HIDE DEF e
<1>7. IsFiniteSet(deals')
  <2>1. IsFiniteSet(deals \ {d})
    BY <1>4, FS_Subset
  <2> QED BY <1>1, <2>1, FS_AddElement
<1>8. \A t \in deals' : /\ t = [symbol |-> t.symbol, at |-> t.at, open |-> t.open]
                        /\ t.at \in 0 .. minute
  BY <1>1, <1>4, <1>6
<1>9. ASSUME NEW t \in deals', NEW u \in deals', t # u, t.symbol = u.symbol, t.at <= u.at
      PROVE  u.at - t.at >= RestTime
  <2>1. CASE t # e /\ u # e
    BY <1>1, <1>4, <1>9, <2>1
  <2>2. CASE t = e
    <3>1. u \in deals /\ u # d
      BY <1>1, <1>9, <2>2
    <3> QED BY <1>4, <1>6, <1>9, <2>2, <3>1
  <2>3. CASE u = e
    <3>1. t \in deals /\ t # d
      BY <1>1, <1>9, <2>3
    <3> QED BY <1>4, <1>6, <1>9, <2>3, <3>1
  <2> QED BY <2>1, <2>2, <2>3
<1>10. Rested'
  BY <1>2, <1>4, <1>7, <1>8, <1>9 DEF Rested, F!RestsBetween
<1> QED BY <1>3, <1>10

LEMMA EndCycleKeeps ==
    ASSUME Tallied, Roomy, Explained, Rested, F!EndCycle
    PROVE  Tallied' /\ Roomy' /\ Explained' /\ Rested'
<1>1. /\ phase = "deciding" /\ queue = <<>> /\ phase' = "counted"
      /\ style' = style /\ minute' = minute /\ deals' = deals /\ queue' = queue
      /\ funnel' = funnel /\ table' = table /\ turned' = turned
  BY DEF F!EndCycle
<1>2. Tallied'
  BY <1>1 DEF Tallied
<1>3. Roomy'
  BY <1>1 DEF Roomy
<1>4. Explained'
  BY <1>1 DEF Explained
<1>5. Rested'
  BY <1>1 DEF Rested, F!RestsBetween
<1> QED BY <1>2, <1>3, <1>4, <1>5

\* The clock goes on, and nothing is being decided.
LEMMA ClockKeeps ==
    ASSUME Tallied, Roomy, Explained, Rested, phase' = "idle", minute' \in Nat, minute' >= minute,
           style' = style, deals' = deals, table' = table, turned' = turned
    PROVE  Tallied' /\ Roomy' /\ Explained' /\ Rested'
<1>1. Tallied'
  BY DEF Tallied
<1>2. Roomy'
  BY DEF Roomy
<1>3. Explained'
  BY DEF Explained
<1>4. Rested'
  <2>1. \A t \in deals : t.at \in 0 .. minute'
    BY DEF Rested
  <2> QED BY <2>1 DEF Rested, F!RestsBetween
<1> QED BY <1>1, <1>2, <1>3, <1>4

LEMMA SleepKeeps ==
    ASSUME Tallied, Roomy, Explained, Rested, F!Sleep
    PROVE  Tallied' /\ Roomy' /\ Explained' /\ Rested'
<1>1. /\ phase' = "idle" /\ minute' = minute + 1 /\ style' = style /\ deals' = deals
      /\ table' = table /\ turned' = turned
  BY DEF F!Sleep
<1>2. minute' \in Nat /\ minute' >= minute
  BY <1>1 DEF Rested
<1> QED BY <1>1, <1>2, ClockKeeps

LEMMA RestartKeeps ==
    ASSUME ScreeningConstants, Tallied, Roomy, Explained, Rested, F!Restart
    PROVE  Tallied' /\ Roomy' /\ Explained' /\ Rested'
<1>1. /\ phase' = "idle" /\ minute' \in minute .. F!Low2(minute + 1, LastMinute) /\ style' = style
      /\ deals' = deals /\ table' = table /\ turned' = turned
  BY DEF F!Restart
<1>2. minute' \in Nat /\ minute' >= minute
  BY <1>1 DEF Rested, ScreeningConstants, F!Low2
<1> QED BY <1>1, <1>2, ClockKeeps

\* What is found is put into the queue, each signal once.
LEMMA OrderFacts ==
    ASSUME NEW places, IsFiniteSet(places), NEW o \in F!Orders(places)
    PROVE  /\ Cardinality(places) \in Nat /\ F!Cardinality(places) = Cardinality(places)
           /\ o \in [1 .. Cardinality(places) -> places]
<1>1. \A S : F!Cardinality(S) = Cardinality(S)
  BY Zenon DEF F!Cardinality, Cardinality
<1>2. Cardinality(places) \in Nat
  BY FS_CardinalityType
<1>3. o \in F!Bijection(1 .. F!Cardinality(places), places)
  BY DEF F!Orders
<1>4. o \in [1 .. F!Cardinality(places) -> places]
  BY <1>3 DEF F!Bijection, F!Injection
<1> QED BY <1>1, <1>2, <1>4

LEMMA BeginKeeps ==
    ASSUME ScreeningConstants, Tallied, Roomy, Explained, Rested, F!Begin
    PROVE  Tallied' /\ Roomy' /\ Explained' /\ Rested'
<1> DEFINE D == DOMAIN F!Scanned
           Signals(found) == F!Having(found, "signal")
           Stale(found) == F!Having(found, "stale")
<1>1. PICK found \in [D -> ScanFinds], cap \in PlanCaps :
          /\ \E o \in F!Orders(Signals(found)) :
                queue' = [j \in DOMAIN o |-> [symbol |-> F!Scanned[o[j]], score |-> found[o[j]].score,
                                             other |-> found[o[j]].other]]
          /\ room' = [cap |-> IF style.ranked THEN cap ELSE SlotBound,
                      symbols |-> {t.symbol : t \in {u \in deals : u.open}},
                      count |-> F!Cardinality({t \in deals : t.open})]
          /\ funnel' = [F!NoCounts EXCEPT
                !.detected = F!Cardinality(Signals(found)),
                !.stale = F!Cardinality(Stale(found)),
                !.rejected = F!Cardinality(Stale(found))]
  BY DEF F!Begin
<1>2. /\ phase' = "deciding" /\ style' = style /\ minute' = minute /\ deals' = deals
      /\ table' = table /\ turned' = turned
  BY DEF F!Begin
<1>3. D \subseteq 1 .. PerScan /\ IsFiniteSet(D)
  <2>1. D \subseteq 1 .. PerScan
    BY DEF F!Scanned
  <2>2. 1 \in Int /\ PerScan \in Int
    BY DEF ScreeningConstants
  <2>3. IsFiniteSet(1 .. PerScan)
    BY <2>2, FS_Interval
  <2> QED BY <2>1, <2>3, FS_Subset
<1>4. Signals(found) \subseteq D /\ Stale(found) \subseteq D
  BY DEF F!Having
<1>5. IsFiniteSet(Signals(found)) /\ IsFiniteSet(Stale(found))
  BY <1>3, <1>4, FS_Subset
<1>6. PICK o \in F!Orders(Signals(found)) :
        queue' = [j \in DOMAIN o |-> [symbol |-> F!Scanned[o[j]], score |-> found[o[j]].score,
                                     other |-> found[o[j]].other]]
  BY <1>1
<1> DEFINE n == Cardinality(Signals(found))
           stale == Cardinality(Stale(found))
<1>7. n \in Nat /\ F!Cardinality(Signals(found)) = n /\ o \in [1 .. n -> Signals(found)]
  <2> HIDE DEF Signals
  <2> QED BY <1>5, <1>6, OrderFacts
<1>8. stale \in Nat /\ F!Cardinality(Stale(found)) = stale
  <2>1. \A S : F!Cardinality(S) = Cardinality(S)
    BY Zenon DEF F!Cardinality, Cardinality
  <2> QED BY <1>5, <2>1, FS_CardinalityType
<1>9. queue' \in Seq(Screened) /\ Len(queue') = n
  <2>1. ASSUME NEW j \in 1 .. n
        PROVE  [symbol |-> F!Scanned[o[j]], score |-> found[o[j]].score, other |-> found[o[j]].other]
                 \in Screened
    <3>1. o[j] \in D
      BY <1>4, <1>7
    <3>2. F!Scanned[o[j]] \in Range(F!Scanned) /\ found[o[j]] \in ScanFinds
      BY <3>1 DEF Range
    <3> QED BY <3>2 DEF Screened
  <2> HIDE DEF n, D, Signals
  <2>2. DOMAIN o = 1 .. n
    BY <1>7
  <2>3. queue' = [j \in 1 .. n |-> [symbol |-> F!Scanned[o[j]], score |-> found[o[j]].score,
                                   other |-> found[o[j]].other]]
    BY <1>6, <2>2
  <2>4. queue' \in [1 .. n -> Screened]
    BY <2>1, <2>3
  <2> QED BY <1>7, <2>4, SeqDef, LenProperties
<1>10. Balanced(funnel', n)
  <2> HIDE DEF n, stale, D, Signals, Stale
  <2>1. funnel' = [F!NoCounts EXCEPT !.detected = n, !.stale = stale, !.rejected = stale]
    BY <1>1, <1>7, <1>8
  <2>2. funnel' = [detected |-> n, scored |-> 0, risked |-> 0, allow |-> 0, executed |-> 0,
                   watch |-> 0, rejected |-> stale, quality |-> 0, capacity |-> 0, ranked |-> 0,
                   refused |-> 0, stale |-> stale]
    BY <2>1 DEF F!NoCounts
  <2>3. funnel' \in [Fields -> Nat]
    BY <1>7, <1>8, <2>2 DEF Fields
  <2>4. /\ funnel'.detected = n /\ funnel'.allow = 0 /\ funnel'.executed = 0 /\ funnel'.watch = 0
        /\ funnel'.rejected = stale /\ funnel'.quality = 0 /\ funnel'.capacity = 0
        /\ funnel'.ranked = 0 /\ funnel'.refused = 0 /\ funnel'.stale = stale
    BY <2>2
  <2> QED BY <1>7, <1>8, <2>3, <2>4 DEF Balanced
<1>11. Tallied'
  <2> HIDE DEF n
  <2> QED BY <1>2, <1>9, <1>10 DEF Tallied, Balanced
<1>12. Roomy'
  <2> DEFINE a == IF style.ranked THEN cap ELSE SlotBound
             b == {t.symbol : t \in {u \in deals : u.open}}
             c == F!Cardinality({t \in deals : t.open})
  <2>1. room' = [cap |-> a, symbols |-> b, count |-> c]
    BY <1>1
  <2>2. style.ranked \/ a = SlotBound
    OBVIOUS
  <2> HIDE DEF a, b, c
  <2>3. room' = [cap |-> room'.cap, symbols |-> room'.symbols, count |-> room'.count]
        /\ room'.cap = a
    BY <2>1
  <2> QED BY <1>2, <2>2, <2>3 DEF Roomy
<1>13. Explained' /\ Rested'
  BY <1>2 DEF Explained, Rested, F!RestsBetween
<1> QED BY <1>11, <1>12, <1>13

LEMMA ScreeningStart ==
    ASSUME ScreeningConstants, ScreeningInit
    PROVE  ScreeningInv
<1>1. CASE GatesParked
  BY <1>1 DEF GatesParked, ScreeningInv, GatesRun
<1>2. CASE F!Init
  <2>1. /\ style \in GateStyles /\ minute = 0 /\ deals = {} /\ phase = "idle"
        /\ table = <<>> /\ turned = <<>>
    BY <1>2 DEF F!Init
  <2>2. Tallied /\ Roomy /\ Explained
    BY <2>1 DEF Tallied, Roomy, Explained
  <2>3. Rested
    BY <2>1, FS_EmptySet DEF Rested, F!RestsBetween
  <2> QED BY <2>2, <2>3 DEF ScreeningInv
<1> QED BY <1>1, <1>2 DEF ScreeningInit

LEMMA ScreeningStep ==
    ASSUME ScreeningConstants, ScreeningInv, [ScreeningNext]_gateVars
    PROVE  ScreeningInv'
<1>1. CASE UNCHANGED gateVars
  <2>1. /\ style' = style /\ minute' = minute /\ deals' = deals /\ phase' = phase /\ queue' = queue
        /\ room' = room /\ funnel' = funnel /\ table' = table /\ turned' = turned
    BY <1>1 DEF gateVars
  <2> QED BY <2>1 DEF ScreeningInv, GatesRun, Tallied, Roomy, Explained, Rested, F!RestsBetween
<1>2. CASE GatesRun /\ F!Next
  <2>1. Tallied /\ Roomy /\ Explained /\ Rested
    BY <1>2 DEF ScreeningInv
  <2>2. CASE F!Begin
    BY <2>1, <2>2, BeginKeeps DEF ScreeningInv
  <2>3. CASE F!EndCycle
    BY <2>1, <2>3, EndCycleKeeps DEF ScreeningInv
  <2>4. CASE F!Sleep
    BY <2>1, <2>4, SleepKeeps DEF ScreeningInv
  <2>5. CASE F!Restart
    BY <2>1, <2>5, RestartKeeps DEF ScreeningInv
  <2>6. ASSUME NEW m \in ScanMarkets, F!Reject(m) PROVE ScreeningInv'
    BY <2>1, <2>6, RejectKeeps DEF ScreeningInv
  <2>7. ASSUME NEW m \in ScanMarkets, F!LosesSlot(m) PROVE ScreeningInv'
    BY <2>1, <2>7, LosesSlotKeeps DEF ScreeningInv
  <2>8. ASSUME NEW m \in ScanMarkets, F!Opens(m) PROVE ScreeningInv'
    BY <2>1, <2>8, OpensKeeps DEF ScreeningInv
  <2>9. ASSUME NEW m \in ScanMarkets, F!SendRefused(m) PROVE ScreeningInv'
    BY <2>1, <2>9, SendRefusedKeeps DEF ScreeningInv
  <2>10. ASSUME NEW d \in deals, F!Exit(d) PROVE ScreeningInv'
    BY <2>1, <2>10, ExitKeeps DEF ScreeningInv
  <2> QED BY <1>2, <2>2, <2>3, <2>4, <2>5, <2>6, <2>7, <2>8, <2>9, <2>10 DEF F!Next
<1> QED BY <1>1, <1>2 DEF ScreeningNext

LEMMA ScreeningExplains ==
    ASSUME ScreeningConstants, ScreeningInv
    PROVE  MissesExplained
<1> SUFFICES ASSUME GatesRun
             PROVE  F!FunnelExplains /\ F!EvidenceIsSound /\ F!RestsBetween /\ F!AffordableFill
  BY DEF MissesExplained
<1>1. Tallied /\ Explained /\ F!RestsBetween
  BY DEF ScreeningInv, Rested
<1>2. F!FunnelExplains
  <2> SUFFICES ASSUME phase = "counted"
               PROVE  /\ funnel.rejected + funnel.watch + funnel.executed
                            = funnel.detected + funnel.stale
                      /\ funnel.rejected = funnel.quality + funnel.capacity + funnel.stale
                      /\ funnel.allow = funnel.executed + funnel.ranked + funnel.refused
    BY DEF F!FunnelExplains
  <2>1. /\ funnel \in [Fields -> Nat] /\ queue = <<>>
        /\ funnel.rejected + funnel.watch + funnel.executed + Len(queue)
              = funnel.detected + funnel.stale
        /\ funnel.rejected = funnel.quality + funnel.capacity + funnel.stale
        /\ funnel.allow = funnel.executed + funnel.ranked + funnel.refused
    BY <1>1 DEF Tallied
  <2>2. funnel.rejected \in Nat /\ funnel.watch \in Nat /\ funnel.executed \in Nat
    BY <2>1 DEF Fields
  <2>3. Len(queue) = 0
    BY <2>1
  <2>4. funnel.rejected + funnel.watch + funnel.executed + 0
          = funnel.rejected + funnel.watch + funnel.executed
    BY <2>2
  <2> QED BY <2>1, <2>3, <2>4
<1>3. F!EvidenceIsSound
  BY <1>1 DEF F!EvidenceIsSound, F!Missed, Explained
<1>4. F!AffordableFill
  <2> SUFFICES ASSUME NEW m \in ScanMarkets, F!Passes(m)
               PROVE  F!Filled(m.book) * 100 * m.book[F!Last(m.book)].price
                        <= m.book[1].price * (100 + SlipCap) * F!Coins(m.book)
    BY DEF F!AffordableFill
  <2>1. IsBook(m.book) /\ ~F!Slips(m.book)
    BY PassesFacts DEF IsBook, ScreeningConstants
  <2>2. ReferenceSize \in Nat \ {0} /\ SlipCap \in Nat
    BY DEF ScreeningConstants
  <2> QED BY <2>1, <2>2, FairFill
<1> QED BY <1>1, <1>2, <1>3, <1>4

THEOREM MissesAlwaysExplained ==
    ASSUME ScreeningConstants
    PROVE  ScreeningSpec => []MissesExplained
<1>1. ScreeningInit => ScreeningInv
  BY ScreeningStart
<1>2. ScreeningInv /\ [ScreeningNext]_gateVars => ScreeningInv'
  BY ScreeningStep
<1>3. ScreeningInv => MissesExplained
  BY ScreeningExplains
<1> QED BY <1>1, <1>2, <1>3, PTL DEF ScreeningSpec

================================================================================
