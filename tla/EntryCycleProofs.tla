---------------------------- MODULE EntryCycleProofs ----------------------------
(***************************************************************************)
(* Proofs about EntryCycle: the structural caps, the exposure cap and the  *)
(* bound on the day's loss, for every number of symbols, slots and         *)
(* candidates, with the reconcile thread closing rows at any moment of the *)
(* cycle; then about the profit guard that ends the cycle, and about what  *)
(* a signal the cycle acts on becomes (Opening): its stop, its liquidation *)
(* and what its orders can lose.                                           *)
(***************************************************************************)
EXTENDS EntryCycle, DailyGuard, Opening, SetSums, SequenceTheorems, TLAPS

\* The part of TypeOK these proofs need.
Typed ==
    /\ book \in [Symbols -> Trades \cup {NoTrade}]
    /\ balance \in 1 .. MaxBalance
    /\ dayPnl \in Int /\ dayPnl <= MaxGain
    /\ view.open \in SUBSET Symbols /\ view.balance \in 1 .. MaxBalance
    /\ view.pnl \in Int
    /\ sides \in [Sides -> Nat]
    /\ left \subseteq Symbols /\ ranking \in BOOLEAN

\* The rows are among those the cycle counts: the thread only takes away.
ViewCovers ==
    /\ pc # "idle" => Held(book) \subseteq view.open
    /\ Cardinality(view.open) <= MaxOpen

\* What the open trades can still lose keeps the day within its bound ...
Reserve(n) == Risk * n
Worst == dayPnl - Reserve(Cardinality(Held(book)))
LossReserved == (Worst + Reserve(MaxOpen)) * 100 > -(LossPct * MaxBalance)

\* ... because it is no worse than what the cycle decided on, or a new day began.
ViewReserved ==
    pc # "idle" =>
        \/ Worst + Reserve(Cardinality(view.open)) >= view.pnl
        \/ Worst + Reserve(Cardinality(view.open)) >= 0

\* The side counts of the allocator cover the rows.
SidesCovered ==
    pc = "alloc" /\ ranking =>
        \A x \in Sides : Cardinality(OnSide(book, x)) <= sides[x]

IInv == /\ Typed /\ ViewCovers /\ SlotsNeverExceeded
        /\ LossReserved /\ ViewReserved /\ SidesCovered /\ SameSideCap

--------------------------------------------------------------------------------
(* Constants, sets and products.                                           *)

LEMMA Constants ==
    /\ IsFiniteSet(Symbols)
    /\ MaxOpen \in Nat /\ MaxOpen > 0 /\ Risk \in Nat /\ MaxSameSide \in Nat
    /\ MaxPerCluster \in Nat
    /\ LossPct \in Nat /\ LossPct > 0 /\ MaxBalance \in Nat /\ MaxBalance > 0
    /\ MaxGain \in Nat /\ 1 \in Marks /\ Sizes \subseteq Nat /\ Marks \subseteq Nat
    /\ NoTrade \notin Trades
BY CycleAssumption

LEMMA Counted ==
    ASSUME NEW Some, Some \subseteq Symbols
    PROVE IsFiniteSet(Some) /\ Cardinality(Some) \in Nat
BY Constants, FS_Subset, FS_CardinalityType

LEMMA CountedWithin ==
    ASSUME NEW Some, NEW T, Some \subseteq T, T \subseteq Symbols
    PROVE Cardinality(Some) <= Cardinality(T)
BY Counted, FS_Subset

LEMMA CountedAdd ==
    ASSUME NEW Some, Some \subseteq Symbols, NEW s \in Symbols, s \notin Some
    PROVE Cardinality(Some \cup {s}) = Cardinality(Some) + 1
BY Counted, FS_AddElement

LEMMA CountedRemove ==
    ASSUME NEW Some, Some \subseteq Symbols, NEW s \in Some
    PROVE Cardinality(Some \ {s}) = Cardinality(Some) - 1
BY Counted, FS_RemoveElement

LEMMA ProductMonotone ==
    ASSUME NEW k \in Nat, NEW a \in Nat, NEW b \in Nat, a <= b
    PROVE k * a <= k * b /\ k * a \in Nat
<1>1. PICK d \in Nat : b = a + d
  <2>1. b - a \in Nat /\ b = a + (b - a)
    OBVIOUS
  <2> QED BY <2>1
<1>2. k * (a + d) = k * a + k * d /\ k * a \in Nat /\ k * d \in Nat
  OBVIOUS
<1> QED BY <1>1, <1>2

LEMMA ReserveSteps ==
    ASSUME NEW n \in Nat
    PROVE /\ Reserve(n) \in Nat /\ Reserve(n + 1) = Reserve(n) + Risk
          /\ \A m \in Nat : n <= m => Reserve(n) <= Reserve(m)
<1>1. Risk \in Nat
  BY Constants
<1>2. Risk * n \in Nat /\ Risk * (n + 1) = Risk * n + Risk
  BY <1>1
<1>3. ASSUME NEW m \in Nat, n <= m PROVE Risk * n <= Risk * m
  BY <1>1, <1>3, ProductMonotone
<1> QED BY <1>2, <1>3 DEF Reserve

--------------------------------------------------------------------------------
(* What the actions do to the book.                                        *)

LEMMA HeldIsSymbols == \A b : Held(b) \subseteq Symbols
BY DEF Held

LEMMA OnSideWithin == \A b, x : OnSide(b, x) \subseteq Held(b)
BY DEF OnSide

\* An entry adds one row, on its side, and counts it.
LEMMA OpenEffect ==
    ASSUME IInv, NEW s \in Symbols, NEW side \in Sides, NEW size \in Sizes,
           Open(s, side, size)
    PROVE /\ s \notin Held(book) /\ s \notin view.open
          /\ pc = "alloc" /\ pc' = "alloc" /\ s \in left
          /\ Held(book') = Held(book) \cup {s}
          /\ OnSide(book', side) = OnSide(book, side) \cup {s}
          /\ \A x \in Sides \ {side} : OnSide(book', x) = OnSide(book, x)
          /\ view'.open = view.open \cup {s} /\ view'.pnl = view.pnl
          /\ Cardinality(view.open) < MaxOpen
          /\ ~Lost(view)
          /\ Typed'
<1>1. /\ book' = [book EXCEPT ![s] = [side |-> side, size |-> size, mark |-> 1]]
      /\ view'.open = view.open \cup {s} /\ view'.balance = view.balance
      /\ view'.pnl = view.pnl
      /\ sides' = IF ranking THEN [sides EXCEPT ![side] = @ + 1] ELSE sides
      /\ left' = left \ {s}
      /\ pc = "alloc" /\ s \in left /\ ~Lost(view)
      /\ Cardinality(view.open) < MaxOpen /\ s \notin view.open
      /\ UNCHANGED <<balance, dayPnl, ranking, pc>>
  BY DEF Open, Grown, Recounted, SlotFree
<1>2. Typed /\ Held(book) \subseteq view.open
  BY <1>1 DEF IInv, ViewCovers
<1> DEFINE new == [side |-> side, size |-> size, mark |-> 1]
<1>4. new \in Trades /\ new # NoTrade /\ new.side = side
  <2>1. new \in Trades
    BY Constants DEF Trades
  <2> QED BY <2>1, Constants
<1> HIDE DEF new
<1>5. book \in [Symbols -> Trades \cup {NoTrade}] /\ book' = [book EXCEPT ![s] = new]
  BY <1>1, <1>2 DEF Typed, new
<1>6. book' \in [Symbols -> Trades \cup {NoTrade}] /\ book'[s] = new
      /\ \A x \in Symbols \ {s} : book'[x] = book[x]
  BY <1>4, <1>5
<1>7. Held(book') = Held(book) \cup {s}
  BY <1>4, <1>6 DEF Held
<1>8. /\ OnSide(book', side) = OnSide(book, side) \cup {s}
      /\ \A x \in Sides \ {side} : OnSide(book', x) = OnSide(book, x)
  <2>1. s \notin Held(book)
    BY <1>1, <1>2
  <2> QED BY <1>4, <1>6, <1>7, <2>1 DEF OnSide, Held
<1>9. sides' \in [Sides -> Nat]
  <2>1. [sides EXCEPT ![side] = @ + 1] \in [Sides -> Nat] /\ sides \in [Sides -> Nat]
    BY <1>2 DEF Typed
  <2> QED BY <1>1, <2>1
<1>10. Typed'
  BY <1>1, <1>2, <1>6, <1>9 DEF Typed
<1> QED BY <1>1, <1>2, <1>7, <1>8, <1>10

\* A close takes one row away; the day loses at most Risk by it.
LEMMA CloseEffect ==
    ASSUME IInv, NEW s \in Held(book), NEW pnl \in {-Risk, 0, Risk}, ClosedRow(s, pnl)
    PROVE /\ Held(book') = Held(book) \ {s}
          /\ \A x \in Sides : OnSide(book', x) \subseteq OnSide(book, x)
          /\ book' \in [Symbols -> Trades \cup {NoTrade}]
          /\ dayPnl' \in Int /\ dayPnl' <= MaxGain /\ dayPnl' >= dayPnl - Risk
<1>1. /\ book \in [Symbols -> Trades \cup {NoTrade}] /\ s \in Symbols
      /\ book' = [book EXCEPT ![s] = NoTrade]
  BY DEF IInv, Typed, Held, ClosedRow
<1>2. /\ book' \in [Symbols -> Trades \cup {NoTrade}] /\ book'[s] = NoTrade
      /\ \A x \in Symbols \ {s} : book'[x] = book[x]
  BY <1>1
<1>3. Held(book') = Held(book) \ {s}
  BY <1>1, <1>2 DEF Held
<1>4. \A x \in Sides : OnSide(book', x) \subseteq OnSide(book, x)
  BY <1>1, <1>2, <1>3 DEF OnSide, Held
<1>5. dayPnl' \in Int /\ dayPnl' <= MaxGain /\ dayPnl' >= dayPnl - Risk
  BY Constants DEF IInv, Typed, ClosedRow
<1> QED BY <1>2, <1>3, <1>4, <1>5

\* A partial close or a new mark keeps the row and its side.
LEMMA KeepEffect ==
    ASSUME IInv, NEW s \in Held(book), ManageKeeps(s)
    PROVE /\ Held(book') = Held(book)
          /\ \A x \in Sides : OnSide(book', x) = OnSide(book, x)
          /\ Typed'
<1>1. PICK size \in 1 .. book[s].size, mark \in Marks :
         /\ book' = [book EXCEPT ![s] = [side |-> @.side, size |-> size, mark |-> mark]]
         /\ balance' \in balance .. MaxBalance
  BY Zenon DEF ManageKeeps
<1>2. /\ book \in [Symbols -> Trades \cup {NoTrade}] /\ s \in Symbols
      /\ book[s] \in Trades /\ balance \in 1 .. MaxBalance
  BY DEF IInv, Typed, Held
<1>3. book[s].size \in Sizes /\ book[s].side \in Sides
  BY <1>2 DEF Trades
<1>4. size \in Sizes
  <2>1. 1 .. book[s].size \subseteq Sizes
    BY <1>3, CycleAssumption
  <2> QED BY <1>1, <2>1
<1> DEFINE new == [side |-> book[s].side, size |-> size, mark |-> mark]
<1>5. new \in Trades /\ new # NoTrade /\ new.side = book[s].side
  <2>1. new \in Trades
    BY <1>1, <1>3, <1>4 DEF Trades
  <2> QED BY <2>1, Constants
<1>7. book' = [book EXCEPT ![s] = new]
  BY <1>1, <1>2
<1> HIDE DEF new
<1>8. /\ book' \in [Symbols -> Trades \cup {NoTrade}] /\ book'[s] = new
      /\ \A x \in Symbols \ {s} : book'[x] = book[x]
  BY <1>2, <1>5, <1>7
<1>9. Held(book') = Held(book)
  BY <1>2, <1>5, <1>8 DEF Held
<1>10. \A x \in Sides : OnSide(book', x) = OnSide(book, x)
  <2>1. \A y \in Held(book) : book'[y].side = book[y].side
    BY <1>5, <1>8 DEF Held
  <2> QED BY <1>9, <2>1 DEF OnSide
<1>11. balance' \in 1 .. MaxBalance
  BY <1>1, <1>2, Constants
<1>12. UNCHANGED <<dayPnl, ranking, pc, view, plan, sides, left>>
  BY DEF ManageKeeps
<1> QED BY <1>8, <1>9, <1>10, <1>11, <1>12 DEF IInv, Typed

--------------------------------------------------------------------------------
(* The inductive invariant.                                                *)

\* The facts about counts and sums the steps below work with.
LEMMA Numbers ==
    ASSUME IInv
    PROVE /\ Cardinality(Held(book)) \in Nat /\ Cardinality(view.open) \in Nat
          /\ view.open \subseteq Symbols /\ view.pnl \in Int /\ dayPnl \in Int
          /\ Reserve(Cardinality(Held(book))) \in Nat
          /\ Reserve(Cardinality(view.open)) \in Nat
          /\ Reserve(MaxOpen) \in Nat /\ Worst \in Int
          /\ LossPct * MaxBalance \in Nat /\ LossPct * MaxBalance > 0
          /\ Cardinality(Held(book)) <= MaxOpen /\ Cardinality(view.open) <= MaxOpen
          /\ Reserve(Cardinality(Held(book))) <= Reserve(MaxOpen)
          /\ \A x \in Sides : Cardinality(OnSide(book, x)) \in Nat
<1>1. view.open \subseteq Symbols /\ view.pnl \in Int /\ dayPnl \in Int
  BY DEF IInv, Typed
<1>2. Cardinality(Held(book)) \in Nat /\ Cardinality(view.open) \in Nat
  BY <1>1, HeldIsSymbols, Counted
<1>3. /\ Reserve(Cardinality(Held(book))) \in Nat /\ Reserve(Cardinality(view.open)) \in Nat
      /\ Reserve(MaxOpen) \in Nat
  BY <1>2, Constants, ReserveSteps
<1>4. Worst \in Int
  BY <1>1, <1>3 DEF Worst
<1>5. LossPct * MaxBalance \in Nat /\ LossPct * MaxBalance > 0
  <2>1. LossPct \in Nat /\ LossPct > 0 /\ MaxBalance \in Nat /\ 1 \in Nat /\ 1 <= MaxBalance
    BY Constants
  <2>2. LossPct * 1 <= LossPct * MaxBalance /\ LossPct * 1 = LossPct
    BY <2>1, ProductMonotone
  <2>3. LossPct * MaxBalance \in Nat
    BY <2>1
  <2> QED BY <2>1, <2>2, <2>3
<1>6. Cardinality(Held(book)) <= MaxOpen /\ Cardinality(view.open) <= MaxOpen
  BY DEF IInv, ViewCovers, SlotsNeverExceeded
<1>7. Reserve(Cardinality(Held(book))) <= Reserve(MaxOpen)
  BY <1>2, <1>6, Constants, ReserveSteps
<1>8. \A x \in Sides : Cardinality(OnSide(book, x)) \in Nat
  BY HeldIsSymbols, OnSideWithin, Counted
<1> QED BY <1>1, <1>2, <1>3, <1>4, <1>5, <1>6, <1>7, <1>8

LEMMA InitEstablishes == Init => IInv
<1> SUFFICES ASSUME Init PROVE IInv
  OBVIOUS
<1>1. Held(book) = {} /\ Cardinality({}) = 0 /\ \A x \in Sides : OnSide(book, x) = {}
  BY FS_EmptySet DEF Init, Held, OnSide
<1>2. Typed
  <2>1. /\ view.open \in SUBSET Symbols /\ view.balance \in 1 .. MaxBalance
        /\ view.pnl \in Int
    BY Constants DEF Init, NoView
  <2>2. sides \in [Sides -> Nat]
    BY DEF Init, NoSides
  <2>3. dayPnl \in Int /\ dayPnl <= MaxGain
    BY Constants DEF Init
  <2> QED BY <2>1, <2>2, <2>3 DEF Init, Typed
<1>3. ViewCovers /\ SlotsNeverExceeded /\ SidesCovered /\ SameSideCap /\ ViewReserved
  BY <1>1, Constants DEF Init, NoView, ViewCovers, SlotsNeverExceeded, SidesCovered,
     SameSideCap, ViewReserved
<1>4. LossReserved
  <2>1. Reserve(0) = 0
    BY Constants DEF Reserve
  <2>2. Reserve(MaxOpen) \in Nat
    BY Constants, ReserveSteps
  <2>3. LossPct * MaxBalance \in Nat /\ LossPct * MaxBalance > 0
    <3>1. LossPct \in Nat /\ MaxBalance \in Nat /\ 1 <= MaxBalance /\ LossPct > 0
      BY Constants
    <3>2. LossPct * 1 <= LossPct * MaxBalance /\ LossPct * MaxBalance \in Nat
      BY <3>1, ProductMonotone
    <3> QED BY <3>1, <3>2
  <2>4. Worst = 0
    BY <1>1, <2>1 DEF Init, Worst
  <2> QED BY <2>2, <2>3, <2>4 DEF LossReserved
<1> QED BY <1>2, <1>3, <1>4 DEF IInv

\* Steps that keep the rows and the day keep the reserves and the caps.
LEMMA BookKept ==
    ASSUME IInv, Held(book') = Held(book), dayPnl' = dayPnl, ranking' = ranking,
           \A x \in Sides : OnSide(book', x) = OnSide(book, x)
    PROVE SlotsNeverExceeded' /\ LossReserved' /\ SameSideCap' /\ Worst' = Worst
BY DEF IInv, SlotsNeverExceeded, LossReserved, SameSideCap, Worst, Reserve

\* Closing a row, in the thread or in the engine.
LEMMA ClosePreserves ==
    ASSUME IInv, NEW s \in Held(book), NEW pnl \in {-Risk, 0, Risk}, ClosedRow(s, pnl),
           UNCHANGED <<ranking, pc, view, plan, sides, left>>, balance' \in 1 .. MaxBalance
    PROVE IInv'
<1>1. /\ Held(book') = Held(book) \ {s}
      /\ \A x \in Sides : OnSide(book', x) \subseteq OnSide(book, x)
      /\ book' \in [Symbols -> Trades \cup {NoTrade}]
      /\ dayPnl' \in Int /\ dayPnl' <= MaxGain /\ dayPnl' >= dayPnl - Risk
  BY CloseEffect
<1>2. Typed'
  BY <1>1 DEF IInv, Typed
<1>3. Cardinality(Held(book')) = Cardinality(Held(book)) - 1
  BY <1>1, HeldIsSymbols, CountedRemove
<1>4. ViewCovers' /\ SlotsNeverExceeded'
  BY <1>1, <1>3, Numbers, Constants DEF IInv, ViewCovers, SlotsNeverExceeded
<1>5. Cardinality(Held(book')) \in Nat
  BY HeldIsSymbols, Counted
<1>6. Worst' >= Worst /\ Worst' \in Int
  <2>1. /\ Reserve(Cardinality(Held(book')) + 1) = Reserve(Cardinality(Held(book'))) + Risk
        /\ Reserve(Cardinality(Held(book'))) \in Nat
    BY <1>5, ReserveSteps
  <2>2. Cardinality(Held(book')) + 1 = Cardinality(Held(book))
    BY <1>3, <1>5, Numbers
  <2>3. Reserve(Cardinality(Held(book))) = Reserve(Cardinality(Held(book'))) + Risk
    BY <2>1, <2>2
  <2>4. Worst' = dayPnl' - Reserve(Cardinality(Held(book')))
    BY DEF Worst, Reserve
  <2> QED BY <1>1, <2>1, <2>3, <2>4, Numbers, Constants DEF Worst
<1>7. LossReserved'
  <2>1. (Worst' + Reserve(MaxOpen)) * 100 >= (Worst + Reserve(MaxOpen)) * 100
    BY <1>6, Numbers
  <2>2. (Worst + Reserve(MaxOpen)) * 100 > -(LossPct * MaxBalance)
    BY DEF IInv, LossReserved
  <2>3. (Worst' + Reserve(MaxOpen)) * 100 > -(LossPct * MaxBalance)
    BY <1>6, <2>1, <2>2, Numbers
  <2> QED BY <2>3 DEF LossReserved, Reserve
<1>8. ViewReserved'
  <2>1. CASE pc = "idle"
    BY <2>1 DEF ViewReserved
  <2>2. CASE pc # "idle"
    <3>1. \/ Worst + Reserve(Cardinality(view.open)) >= view.pnl
          \/ Worst + Reserve(Cardinality(view.open)) >= 0
      BY <2>2 DEF IInv, ViewReserved
    <3>2. \/ Worst' + Reserve(Cardinality(view.open)) >= view.pnl
          \/ Worst' + Reserve(Cardinality(view.open)) >= 0
      BY <1>6, <3>1, Numbers
    <3> QED BY <3>2 DEF ViewReserved, Reserve
  <2> QED BY <2>1, <2>2
<1>9. \A x \in Sides : /\ Cardinality(OnSide(book', x)) <= Cardinality(OnSide(book, x))
                       /\ Cardinality(OnSide(book', x)) \in Nat
  BY <1>1, HeldIsSymbols, OnSideWithin, Counted, CountedWithin
<1>10. SidesCovered' /\ SameSideCap'
  <2>1. ASSUME NEW x \in Sides
        PROVE /\ Cardinality(OnSide(book', x)) <= Cardinality(OnSide(book, x))
              /\ Cardinality(OnSide(book', x)) \in Nat
              /\ Cardinality(OnSide(book, x)) \in Nat
              /\ sides[x] \in Nat
    BY <1>9, Numbers DEF IInv, Typed
  <2> QED BY <2>1, Constants DEF IInv, SidesCovered, SameSideCap
<1> QED BY <1>2, <1>4, <1>7, <1>8, <1>10 DEF IInv

LEMMA OpenPreserves ==
    ASSUME IInv, NEW s \in Symbols, NEW side \in Sides, NEW size \in Sizes,
           Open(s, side, size)
    PROVE IInv'
<1>1. /\ s \notin Held(book) /\ s \notin view.open
      /\ pc = "alloc" /\ pc' = "alloc"
      /\ Held(book') = Held(book) \cup {s}
      /\ OnSide(book', side) = OnSide(book, side) \cup {s}
      /\ \A x \in Sides \ {side} : OnSide(book', x) = OnSide(book, x)
      /\ view'.open = view.open \cup {s} /\ view'.pnl = view.pnl
      /\ Cardinality(view.open) < MaxOpen /\ ~Lost(view)
      /\ Typed'
  BY OpenEffect
<1>2. /\ dayPnl' = dayPnl /\ ranking' = ranking
      /\ ranking => sides[side] < MaxSameSide
      /\ sides' = IF ranking THEN [sides EXCEPT ![side] = @ + 1] ELSE sides
  BY DEF Open, Recounted, WithinCaps, SideFree
<1>3. /\ Cardinality(Held(book')) = Cardinality(Held(book)) + 1
      /\ Cardinality(view'.open) = Cardinality(view.open) + 1
  BY <1>1, HeldIsSymbols, Numbers, CountedAdd
<1>4. ViewCovers'
  <2>1. Held(book') \subseteq view'.open
    BY <1>1 DEF IInv, ViewCovers
  <2>2. Cardinality(view'.open) <= MaxOpen
    BY <1>1, <1>3, Numbers, Constants
  <2> QED BY <2>1, <2>2 DEF ViewCovers
<1>5. SlotsNeverExceeded'
  <2>1. Held(book') \subseteq view'.open /\ view'.open \subseteq Symbols
        /\ Cardinality(view'.open) <= MaxOpen
    BY <1>1, <1>4, Numbers DEF ViewCovers
  <2>2. /\ Cardinality(Held(book')) <= Cardinality(view'.open)
        /\ Cardinality(Held(book')) \in Nat /\ Cardinality(view'.open) \in Nat
    BY <2>1, CountedWithin, Counted
  <2> QED BY <2>1, <2>2, Constants DEF SlotsNeverExceeded
<1> DEFINE K == Reserve(Cardinality(Held(book)))
           V == Reserve(Cardinality(view.open))
           M == Reserve(MaxOpen)
<1>6. /\ Reserve(Cardinality(Held(book'))) = K + Risk
      /\ Reserve(Cardinality(view'.open)) = V + Risk
      /\ V + Risk <= M
  <2>1. Cardinality(view.open) + 1 \in Nat /\ Cardinality(view.open) + 1 <= MaxOpen
    BY <1>1, Numbers, Constants
  <2>2. Reserve(Cardinality(view.open) + 1) <= Reserve(MaxOpen)
    BY <2>1, Constants, ReserveSteps
  <2> QED BY <1>3, <2>2, Numbers, ReserveSteps
<1>7. Worst' = Worst - Risk
  <2>1. Worst' = dayPnl' - Reserve(Cardinality(Held(book')))
    BY DEF Worst, Reserve
  <2>2. Worst = dayPnl - K /\ K \in Nat /\ dayPnl \in Int /\ Risk \in Nat
    BY Numbers, Constants DEF Worst
  <2>3. Worst' = dayPnl - (K + Risk)
    <3>1. Reserve(Cardinality(Held(book'))) = K + Risk /\ dayPnl' = dayPnl
      BY <1>2, <1>6
    <3> HIDE DEF K
    <3> QED BY <2>1, <3>1
  <2> HIDE DEF K
  <2> QED BY <2>2, <2>3
<1>8. Worst + V >= view.pnl \/ Worst + V >= 0
  BY <1>1 DEF IInv, ViewReserved
<1>9. ViewReserved'
  <2>1. Worst' + (V + Risk) = Worst + V
    BY <1>7, Numbers, Constants
  <2>2. \/ Worst' + Reserve(Cardinality(view'.open)) >= view'.pnl
        \/ Worst' + Reserve(Cardinality(view'.open)) >= 0
    BY <1>1, <1>6, <1>8, <2>1
  <2> QED BY <2>2 DEF ViewReserved, Reserve
<1>10. view.pnl * 100 > -(LossPct * MaxBalance)
  <2>1. view.balance \in Nat /\ view.balance <= MaxBalance /\ MaxBalance \in Nat
    BY Constants DEF IInv, Typed
  <2>2. LossPct * view.balance <= LossPct * MaxBalance /\ LossPct * view.balance \in Nat
    BY <2>1, Constants, ProductMonotone
  <2>3. ~(view.pnl * 100 <= -(LossPct * view.balance))
    BY <1>1 DEF Lost
  <2> QED BY <2>2, <2>3, Numbers
<1>11. LossReserved'
  <2>1. Worst - Risk + M >= Worst + V
    BY <1>6, Numbers, Constants
  <2>2. (Worst' + M) * 100 > -(LossPct * MaxBalance)
    <3>1. Worst' + M >= view.pnl \/ Worst' + M >= 0
      BY <1>7, <1>8, <2>1, Numbers, Constants
    <3>2. Worst' + M \in Int
      BY <1>7, Numbers, Constants
    <3> HIDE DEF M
    <3> QED BY <1>10, <3>1, <3>2, Numbers
  <2> QED BY <2>2 DEF LossReserved, Reserve
<1>12. SidesCovered' /\ SameSideCap'
  <2>1. CASE ~ranking
    <3>1. ~ranking'
      BY Zenon, <1>2, <2>1
    <3> QED BY Zenon, <3>1 DEF SidesCovered, SameSideCap
  <2>2. CASE ranking
    <3>1. /\ sides \in [Sides -> Nat] /\ sides[side] < MaxSameSide
          /\ sides' = [sides EXCEPT ![side] = @ + 1]
          /\ \A x \in Sides : /\ Cardinality(OnSide(book, x)) <= sides[x]
                              /\ Cardinality(OnSide(book, x)) <= MaxSameSide
      <4>1. sides \in [Sides -> Nat]
        BY DEF IInv, Typed
      <4>2. sides[side] < MaxSameSide
        BY Zenon, <1>2, <2>2
      <4>3. sides' = [sides EXCEPT ![side] = @ + 1]
        BY Zenon, <1>2, <2>2
      <4>4. \A x \in Sides : /\ Cardinality(OnSide(book, x)) <= sides[x]
                            /\ Cardinality(OnSide(book, x)) <= MaxSameSide
        BY Zenon, <1>1, <2>2 DEF IInv, SidesCovered, SameSideCap
      <4> QED BY <4>1, <4>2, <4>3, <4>4
    <3>2. Cardinality(OnSide(book', side)) = Cardinality(OnSide(book, side)) + 1
      <4>1. OnSide(book, side) \subseteq Symbols /\ s \notin OnSide(book, side)
        BY <1>1, HeldIsSymbols, OnSideWithin
      <4> QED BY <1>1, <4>1, CountedAdd
    <3>3. ASSUME NEW x \in Sides
          PROVE /\ Cardinality(OnSide(book', x)) <= sides'[x]
                /\ Cardinality(OnSide(book', x)) <= MaxSameSide
      <4>1. CASE x = side
        <5>1. sides'[x] = sides[side] + 1 /\ sides[side] \in Nat
          BY <3>1, <4>1
        <5>2. Cardinality(OnSide(book, side)) \in Nat
              /\ Cardinality(OnSide(book, side)) <= sides[side]
          BY <3>1, Numbers
        <5> QED BY <3>1, <3>2, <4>1, <5>1, <5>2, Constants
      <4>2. CASE x # side
        <5>1. sides'[x] = sides[x] /\ OnSide(book', x) = OnSide(book, x)
          BY <1>1, <3>1, <4>2
        <5> QED BY <3>1, <5>1
      <4> QED BY <4>1, <4>2
    <3> QED BY <3>3 DEF SidesCovered, SameSideCap
  <2> QED BY <2>1, <2>2
<1> QED BY <1>1, <1>4, <1>5, <1>9, <1>11, <1>12 DEF IInv

LEMMA BeginPreserves == ASSUME IInv, BeginCycle PROVE IInv'
<1>1. /\ view'.open = Held(book) /\ view'.balance = balance /\ view'.pnl = dayPnl
      /\ UNCHANGED <<book, balance, dayPnl, ranking, plan, sides>>
      /\ pc' \in {"rank", "alloc"} /\ (pc' = "alloc" => ~ranking)
  BY DEF BeginCycle, View
<1>2. left' \subseteq Symbols
  BY DEF BeginCycle
<1>3. Typed'
  BY <1>1, <1>2, HeldIsSymbols DEF IInv, Typed
<1>4. Held(book') = Held(book) /\ \A x \in Sides : OnSide(book', x) = OnSide(book, x)
  BY <1>1
<1>5. SlotsNeverExceeded' /\ LossReserved' /\ SameSideCap' /\ Worst' = Worst
  BY <1>1, <1>4, BookKept
<1>6. ViewCovers'
  BY <1>1, <1>4 DEF IInv, ViewCovers, SlotsNeverExceeded
<1>7. ViewReserved'
  <2>1. Worst + Reserve(Cardinality(Held(book))) = dayPnl
    BY Numbers DEF Worst
  <2>2. Worst' + Reserve(Cardinality(view'.open)) >= view'.pnl
    BY <1>1, <1>5, <2>1, Numbers
  <2> QED BY <2>2 DEF ViewReserved, Reserve
<1>8. SidesCovered'
  BY Zenon, <1>1 DEF SidesCovered
<1> QED BY <1>3, <1>5, <1>6, <1>7, <1>8 DEF IInv

LEMMA RankPreserves == ASSUME IInv, Rank PROVE IInv'
<1>1. /\ sides' = [x \in Sides |-> Cardinality(OnSide(book, x))]
      /\ UNCHANGED <<book, balance, dayPnl, ranking, view, left>>
      /\ pc = "rank"
  BY DEF Rank
<1>2. sides' \in [Sides -> Nat] /\ \A x \in Sides : Cardinality(OnSide(book', x)) <= sides'[x]
  BY <1>1, Numbers
<1>3. Typed'
  BY <1>1, <1>2 DEF IInv, Typed
<1>4. Held(book') = Held(book) /\ \A x \in Sides : OnSide(book', x) = OnSide(book, x)
  BY <1>1
<1>5. SlotsNeverExceeded' /\ LossReserved' /\ SameSideCap' /\ Worst' = Worst
  BY <1>1, <1>4, BookKept
<1>6. ViewCovers' /\ ViewReserved'
  BY <1>1, <1>4, <1>5 DEF IInv, ViewCovers, ViewReserved, Reserve
<1>7. SidesCovered'
  BY <1>2 DEF SidesCovered
<1> QED BY <1>3, <1>5, <1>6, <1>7 DEF IInv

\* Steps that leave the book, the day and the view alone.
LEMMA QuietPreserves ==
    ASSUME IInv, UNCHANGED <<book, dayPnl, ranking, view, sides>>,
           balance' \in 1 .. MaxBalance, left' \subseteq Symbols,
           pc' # "idle" => pc # "idle", pc' = "alloc" => pc = "alloc"
    PROVE IInv'
<1>1. Typed'
  BY DEF IInv, Typed
<1>2. Held(book') = Held(book) /\ \A x \in Sides : OnSide(book', x) = OnSide(book, x)
  OBVIOUS
<1>3. SlotsNeverExceeded' /\ LossReserved' /\ SameSideCap' /\ Worst' = Worst
  BY <1>2, BookKept
<1>4. ViewCovers' /\ ViewReserved'
  BY <1>2, <1>3 DEF IInv, ViewCovers, ViewReserved, Reserve
<1>5. SidesCovered'
  BY Zenon, <1>2 DEF IInv, SidesCovered
<1> QED BY <1>1, <1>3, <1>4, <1>5 DEF IInv

LEMMA KeepPreserves ==
    ASSUME IInv, NEW s \in Held(book), ManageKeeps(s)
    PROVE IInv'
<1>1. /\ Held(book') = Held(book) /\ \A x \in Sides : OnSide(book', x) = OnSide(book, x)
      /\ Typed'
  BY KeepEffect
<1>2. UNCHANGED <<dayPnl, ranking, pc, view, plan, sides, left>>
  BY DEF ManageKeeps
<1>3. SlotsNeverExceeded' /\ LossReserved' /\ SameSideCap' /\ Worst' = Worst
  BY <1>1, <1>2, BookKept
<1>4. ViewCovers' /\ ViewReserved'
  BY <1>1, <1>2, <1>3 DEF IInv, ViewCovers, ViewReserved, Reserve
<1>5. SidesCovered'
  BY Zenon, <1>1, <1>2 DEF IInv, SidesCovered
<1> QED BY <1>1, <1>3, <1>4, <1>5 DEF IInv

LEMMA EndPreserves == ASSUME IInv, EndCycle PROVE IInv'
<1>1. /\ pc' = "idle" /\ view' = NoView /\ sides' = NoSides /\ left' = {}
      /\ UNCHANGED <<book, balance, dayPnl, ranking>>
  BY DEF EndCycle
<1>2. view'.open = {} /\ view'.balance = 1 /\ view'.pnl = 0 /\ sides' \in [Sides -> Nat]
  BY <1>1 DEF NoView, NoSides
<1>3. Typed'
  BY <1>1, <1>2, Constants DEF IInv, Typed
<1>4. Held(book') = Held(book) /\ \A x \in Sides : OnSide(book', x) = OnSide(book, x)
  BY <1>1
<1>5. SlotsNeverExceeded' /\ LossReserved' /\ SameSideCap'
  BY <1>1, <1>4, BookKept
<1>6. ViewCovers' /\ ViewReserved' /\ SidesCovered'
  BY <1>1, <1>2, FS_EmptySet, Constants DEF ViewCovers, ViewReserved, SidesCovered
<1> QED BY <1>3, <1>5, <1>6 DEF IInv

\* At midnight the day has lost nothing, and the open trades fit in the reserve.
LEMMA NewDayPreserves == ASSUME IInv, NewDay PROVE IInv'
<1>1. dayPnl' = 0 /\ UNCHANGED <<book, balance, ranking, pc, view, plan, sides, left>>
  BY DEF NewDay
<1>2. Typed'
  BY <1>1, Constants DEF IInv, Typed
<1>3. Worst' = -Reserve(Cardinality(Held(book)))
  <2>1. Worst' = dayPnl' - Reserve(Cardinality(Held(book)))
    BY <1>1 DEF Worst, Reserve
  <2> QED BY <1>1, <2>1, Numbers
<1>4. LossReserved'
  <2>1. (Worst' + Reserve(MaxOpen)) * 100 > -(LossPct * MaxBalance)
    BY <1>3, Numbers
  <2> QED BY <2>1 DEF LossReserved, Reserve
<1>5. ViewReserved'
  <2>1. CASE pc # "idle"
    <3>1. Cardinality(Held(book)) <= Cardinality(view.open)
      BY <2>1, Numbers, CountedWithin DEF IInv, ViewCovers
    <3>2. Reserve(Cardinality(Held(book))) <= Reserve(Cardinality(view.open))
      BY <3>1, Numbers, ReserveSteps
    <3>3. Worst' + Reserve(Cardinality(view.open)) >= 0
      BY <1>3, <3>2, Numbers
    <3> QED BY <1>1, <3>3 DEF ViewReserved, Reserve
  <2>2. CASE pc = "idle"
    BY <1>1, <2>2 DEF ViewReserved
  <2> QED BY <2>1, <2>2
<1>6. ViewCovers' /\ SlotsNeverExceeded'
  BY <1>1 DEF IInv, ViewCovers, SlotsNeverExceeded
<1>7. SidesCovered' /\ SameSideCap'
  BY Zenon, <1>1 DEF IInv, SidesCovered, SameSideCap
<1> QED BY <1>2, <1>4, <1>5, <1>6, <1>7 DEF IInv

LEMMA NextPreserves == IInv /\ [Next]_vars => IInv'
<1> SUFFICES ASSUME IInv, [Next]_vars PROVE IInv'
  OBVIOUS
<1>1. CASE BeginCycle
  BY <1>1, BeginPreserves
<1>2. CASE Rank
  BY <1>2, RankPreserves
<1>3. CASE EntriesDone
  BY <1>3, QuietPreserves DEF EntriesDone, IInv, Typed
<1>4. CASE EndCycle
  BY <1>4, EndPreserves
<1>5. CASE WalletSync
  BY <1>5, QuietPreserves DEF WalletSync, IInv, Typed
<1>6. CASE NewDay
  BY <1>6, NewDayPreserves
<1>7. ASSUME NEW s \in Symbols, NEW side \in Sides, NEW size \in Sizes,
             Open(s, side, size)
      PROVE IInv'
  BY <1>7, OpenPreserves
<1>8. ASSUME NEW s \in Symbols, PassOver(s) PROVE IInv'
  BY <1>8, QuietPreserves DEF PassOver, IInv, Typed
<1>9. ASSUME NEW s \in Symbols, ManageCloses(s) PROVE IInv'
  <2>1. PICK pnl \in {-Risk, 0, Risk} : ClosedRow(s, pnl) /\ balance' \in 1 .. MaxBalance
    BY Zenon, <1>9 DEF ManageCloses
  <2> QED BY <1>9, <2>1, ClosePreserves DEF ManageCloses
<1>10. ASSUME NEW s \in Symbols, ManageKeeps(s) PROVE IInv'
  <2>1. s \in Held(book)
    BY <1>10 DEF ManageKeeps
  <2> QED BY <1>10, <2>1, KeepPreserves
<1>11. ASSUME NEW s \in Symbols, ReconcileCloses(s) PROVE IInv'
  <2>1. PICK pnl \in {-Risk, 0, Risk} : ClosedRow(s, pnl)
    BY Zenon, <1>11 DEF ReconcileCloses
  <2>2. balance' \in 1 .. MaxBalance
    BY <1>11 DEF ReconcileCloses, IInv, Typed
  <2> QED BY <1>11, <2>1, <2>2, ClosePreserves DEF ReconcileCloses
<1>12. CASE UNCHANGED vars
  BY <1>12, QuietPreserves DEF vars, IInv, Typed
<1> QED BY <1>1, <1>2, <1>3, <1>4, <1>5, <1>6, <1>7, <1>8, <1>9, <1>10, <1>11, <1>12
        DEF Next

THEOREM CycleInvariant == Spec => []IInv
<1>1. Init => IInv
  BY InitEstablishes
<1>2. IInv /\ [Next]_vars => IInv'
  BY NextPreserves
<1> QED BY <1>1, <1>2, PTL DEF Spec

--------------------------------------------------------------------------------

\* Max_open_trades and max_same_side hold in every state, whatever the reconcile
\* thread does while a cycle works from its copy of the book (CapsHold).
THEOREM CapsAlwaysHold == Spec => []CapsHold
<1>1. IInv => CapsHold
  BY DEF IInv, CapsHold
<1> QED BY <1>1, CycleInvariant, PTL

\* What the day books is never below the kill switch's limit by more than one full
\* book of losing trades (DayLossBounded).
THEOREM DayLossHolds == Spec => []DayLossBounded
<1>1. IInv => DayLossBounded
  <2> SUFFICES ASSUME IInv PROVE DayLossBounded
    OBVIOUS
  <2>1. (Worst + Reserve(MaxOpen)) * 100 > -(LossPct * MaxBalance)
    BY DEF IInv, LossReserved
  <2>2. Worst <= dayPnl
    BY Numbers DEF Worst
  <2>3. (dayPnl + Reserve(MaxOpen)) * 100 > -(LossPct * MaxBalance)
    BY <2>1, <2>2, Numbers
  <2> QED BY <2>3 DEF DayLossBounded, Reserve
<1> QED BY <1>1, CycleInvariant, PTL

\* The step form of ClusterCap.
ClusterStep ==
    ranking => \A s \in Opened :
        plan.cluster[s] # NoCluster =>
            Cardinality({x \in Held(book') : plan.cluster[x] = plan.cluster[s]})
                <= MaxPerCluster

LEMMA OnlyOpenAdds ==
    ASSUME IInv, [Next]_vars
    PROVE \/ Opened = {}
          \/ \E s \in Symbols, side \in Sides, size \in Sizes : Open(s, side, size)
<1>1. CASE \/ BeginCycle \/ Rank \/ EntriesDone \/ EndCycle \/ WalletSync \/ NewDay
           \/ UNCHANGED vars \/ \E s \in Symbols : PassOver(s)
  <2>1. book' = book
    BY <1>1 DEF BeginCycle, Rank, EntriesDone, EndCycle, WalletSync, NewDay, vars, PassOver
  <2> QED BY <2>1 DEF Opened
<1>2. ASSUME NEW s \in Symbols, ManageKeeps(s) PROVE Opened = {}
  <2>1. s \in Held(book)
    BY <1>2 DEF ManageKeeps
  <2> QED BY <1>2, <2>1, KeepEffect DEF Opened
<1>3. ASSUME NEW s \in Symbols, ManageCloses(s) \/ ReconcileCloses(s) PROVE Opened = {}
  <2>1. PICK pnl \in {-Risk, 0, Risk} : ClosedRow(s, pnl)
    BY <1>3 DEF ManageCloses, ReconcileCloses
  <2>2. s \in Held(book)
    BY <1>3 DEF ManageCloses, ReconcileCloses
  <2> QED BY <2>1, <2>2, CloseEffect DEF Opened
<1> QED BY <1>1, <1>2, <1>3 DEF Next

LEMMA ClusterKept == IInv /\ [Next]_vars => ClusterStep
<1> SUFFICES ASSUME IInv, [Next]_vars, ranking, NEW s \in Opened,
                    plan.cluster[s] # NoCluster
             PROVE Cardinality({x \in Held(book') : plan.cluster[x] = plan.cluster[s]})
                       <= MaxPerCluster
  BY DEF ClusterStep
<1>1. PICK t \in Symbols, side \in Sides, size \in Sizes : Open(t, side, size)
  BY OnlyOpenAdds
<1>2. /\ Held(book') = Held(book) \cup {t} /\ Held(book) \subseteq view.open
      /\ t \notin view.open /\ view.open \subseteq Symbols
  BY <1>1, OpenEffect, Numbers DEF IInv, ViewCovers
<1>3. s = t
  BY <1>2 DEF Opened
<1> DEFINE Before == {x \in view.open : plan.cluster[x] = plan.cluster[s]}
<1>4. Cardinality(Before) < MaxPerCluster
  <2>1. ClusterFree(view, t)
    BY Zenon, <1>1 DEF Open, WithinCaps
  <2> QED BY <1>3, <2>1 DEF ClusterFree
<1>5. Before \subseteq Symbols /\ s \notin Before /\ s \in Symbols
  BY <1>2, <1>3
<1>6. {x \in Held(book') : plan.cluster[x] = plan.cluster[s]} \subseteq Before \cup {s}
  BY <1>2, <1>3
<1> HIDE DEF Before
<1>7. /\ Cardinality(Before \cup {s}) = Cardinality(Before) + 1
      /\ Cardinality(Before) \in Nat
  BY <1>5, CountedAdd, Counted
<1>8. Before \cup {s} \subseteq Symbols
  BY <1>5
<1> DEFINE After == {x \in Held(book') : plan.cluster[x] = plan.cluster[s]}
<1>9. After \subseteq Before \cup {s}
  BY <1>6
<1> HIDE DEF After
<1>10. Cardinality(After) <= Cardinality(Before \cup {s}) /\ Cardinality(After) \in Nat
  BY <1>8, <1>9, CountedWithin, Counted
<1>11. Cardinality(After) <= MaxPerCluster
  BY <1>4, <1>7, <1>10, Constants
<1> QED BY <1>11 DEF After

\* No entry takes a cluster beyond max_per_cluster (ClusterCap).
THEOREM ClustersHold == Spec => ClusterCap
<1>1. IInv /\ [Next]_vars => [ClusterStep]_vars
  BY ClusterKept
<1> QED BY <1>1, CycleInvariant, PTL DEF Spec, ClusterCap, ClusterStep
--------------------------------------------------------------------------------
(* The exposure of the book.                                               *)

Books == [Symbols -> Trades \cup {NoTrade}]
Value(b) == [s \in Held(b) |-> b[s].size * b[s].mark]

\* The cycle's running total is not below what the rows come to: it saw every row, the
\* thread only takes rows away, and no mark moves before the entries are done.
ViewPaid ==
    /\ view.notional \in Int
    /\ pc \in {"rank", "alloc"} => Exposure(book) <= view.notional

LEMMA ExposureIsTotal ==
    ASSUME NEW b \in Books
    PROVE /\ Exposure(b) = Total(Value(b), Held(b))
          /\ IsFiniteSet(Held(b)) /\ \A s \in Held(b) : Value(b)[s] \in Nat
<1>1. \A f : SumFunction(f) = Total(f, DOMAIN f)
  BY DEF SumFunction, Total
<1>2. DOMAIN Value(b) = Held(b) /\ Exposure(b) = SumFunction(Value(b))
  BY DEF Value, Exposure
<1>3. ASSUME NEW s \in Held(b) PROVE Value(b)[s] \in Nat
  <2>1. b[s] \in Trades
    BY DEF Held, Books
  <2>2. b[s].size \in Nat /\ b[s].mark \in Nat
    BY <2>1, Constants DEF Trades
  <2> QED BY <2>2 DEF Value
<1> QED BY <1>1, <1>2, <1>3, HeldIsSymbols, Counted

\* One row more is its marked notional more.
LEMMA ExposureGrows ==
    ASSUME NEW b \in Books, NEW c \in Books, NEW s \in Symbols, s \notin Held(b),
           Held(c) = Held(b) \cup {s}, \A x \in Held(b) : c[x] = b[x]
    PROVE /\ Exposure(c) = Exposure(b) + c[s].size * c[s].mark
          /\ Exposure(b) \in Int /\ c[s].size * c[s].mark \in Nat
<1>1. /\ Exposure(b) = Total(Value(b), Held(b)) /\ Exposure(c) = Total(Value(c), Held(c))
      /\ IsFiniteSet(Held(b)) /\ IsFiniteSet(Held(c))
      /\ \A x \in Held(b) : Value(b)[x] \in Int
      /\ \A x \in Held(c) : Value(c)[x] \in Nat
  BY ExposureIsTotal
<1>2. Total(Value(c), Held(c)) = Value(c)[s] + Total(Value(c), Held(c) \ {s})
  BY <1>1, TotalRemove
<1>3. Held(c) \ {s} = Held(b)
  OBVIOUS
<1>4. Total(Value(b), Held(b)) = Total(Value(c), Held(b))
  <2>1. \A x \in Held(b) : Value(b)[x] \in Int /\ Value(b)[x] = Value(c)[x]
    BY <1>1 DEF Value
  <2> QED BY <1>1, <2>1, TotalSame
<1>5. Value(c)[s] = c[s].size * c[s].mark
  <2>1. s \in Held(c)
    OBVIOUS
  <2> QED BY <2>1 DEF Value
<1>6. Total(Value(b), Held(b)) \in Int /\ Value(c)[s] \in Nat
  BY <1>1, TotalIsInt
<1>7. Exposure(c) = Value(c)[s] + Exposure(b)
  BY <1>1, <1>2, <1>3, <1>4
<1>8. Exposure(c) = Exposure(b) + Value(c)[s]
  BY <1>1, <1>6, <1>7
<1> QED BY <1>1, <1>5, <1>6, <1>8

LEMMA InitPaid == Init => ViewPaid
BY DEF Init, NoView, ViewPaid

\* An entry keeps the total above the book, and both under the cap.
LEMMA OpenPaid ==
    ASSUME IInv, ViewPaid, NEW s \in Symbols, NEW side \in Sides, NEW size \in Sizes,
           Open(s, side, size)
    PROVE ViewPaid' /\ Exposure(book') <= Cap(view.balance)
<1> DEFINE new == [side |-> side, size |-> size, mark |-> 1]
<1>1. /\ book' = [book EXCEPT ![s] = new] /\ view'.notional = view.notional + size
      /\ pc = "alloc" /\ \E want \in Sizes : size = Sized(view, want)
  BY DEF Open, Grown
<1>2. book \in Books /\ book' \in Books /\ s \notin Held(book)
      /\ Held(book') = Held(book) \cup {s}
  BY OpenEffect DEF IInv, Typed, Books
<1>3. new.size = size /\ new.mark = 1
  OBVIOUS
<1> HIDE DEF new
<1>4. book'[s] = new /\ \A x \in Held(book) : book'[x] = book[x]
  BY <1>1, <1>2 DEF Books
<1>5. Exposure(book') = Exposure(book) + size /\ Exposure(book) \in Int /\ size \in Nat
  <2>1. /\ Exposure(book') = Exposure(book) + book'[s].size * book'[s].mark
        /\ Exposure(book) \in Int
    BY <1>2, <1>4, ExposureGrows
  <2>2. size \in Nat /\ size * 1 = size
    BY Constants
  <2> QED BY <1>3, <1>4, <2>1, <2>2
<1>6. size <= Cap(view.balance) - view.notional
  <2>1. PICK want \in Sizes : size = Sized(view, want)
    BY <1>1
  <2>2. Cap(view.balance) \in Int
    BY CycleAssumption DEF IInv, Typed, Cap
  <2> QED BY <2>1, <2>2, Constants DEF Sized, Room, ViewPaid
<1>7. Cap(view.balance) \in Int
  BY CycleAssumption DEF IInv, Typed, Cap
<1>8. Exposure(book) <= view.notional /\ view.notional \in Int
  BY <1>1 DEF ViewPaid
<1>9. Exposure(book') <= view.notional + size /\ view.notional + size <= Cap(view.balance)
      /\ view.notional + size \in Int
  BY <1>5, <1>6, <1>7, <1>8
<1> QED BY <1>1, <1>5, <1>7, <1>9 DEF ViewPaid

\* A close takes a notional away from the book.
LEMMA ClosePaid ==
    ASSUME IInv, ViewPaid, NEW s \in Held(book), NEW pnl \in {-Risk, 0, Risk},
           ClosedRow(s, pnl), UNCHANGED <<view, pc>>
    PROVE ViewPaid'
<1>1. /\ book \in Books /\ book' \in Books /\ Held(book') = Held(book) \ {s}
      /\ s \in Symbols
  BY CloseEffect, HeldIsSymbols DEF IInv, Typed, Books
<1>2. \A x \in Held(book') : book[x] = book'[x]
  BY <1>1 DEF ClosedRow, Books, Held
<1>3. /\ s \notin Held(book') /\ Held(book) = Held(book') \cup {s}
  BY <1>1
<1>4. /\ Exposure(book) = Exposure(book') + book[s].size * book[s].mark
      /\ Exposure(book') \in Int /\ book[s].size * book[s].mark \in Nat
  BY <1>1, <1>2, <1>3, ExposureGrows
<1>5. Exposure(book') <= Exposure(book) /\ Exposure(book) \in Int
  BY <1>4
<1> QED BY <1>4, <1>5 DEF ViewPaid

LEMMA StepPaid ==
    ASSUME IInv, ViewPaid, [Next]_vars
    PROVE ViewPaid' /\ (Opened # {} => Exposure(book') <= Cap(view.balance))
<1>1. CASE BeginCycle
  <2>1. book' = book /\ view'.notional = Exposure(book)
    BY <1>1 DEF BeginCycle, View
  <2>2. Exposure(book) \in Int
    <3>1. book \in Books
      BY DEF IInv, Typed, Books
    <3>2. /\ Exposure(book) = Total(Value(book), Held(book)) /\ IsFiniteSet(Held(book))
          /\ \A s \in Held(book) : Value(book)[s] \in Int
      BY <3>1, ExposureIsTotal
    <3> QED BY <3>2, TotalIsInt
  <2> QED BY <2>1, <2>2 DEF ViewPaid, Opened
<1>2. CASE Rank
  BY <1>2 DEF Rank, ViewPaid, Opened
<1>3. CASE EntriesDone \/ WalletSync \/ NewDay \/ UNCHANGED vars \/ \E s \in Symbols : PassOver(s)
  <2>1. UNCHANGED <<book, view>> /\ (pc' = pc \/ pc' = "manage")
    BY <1>3 DEF EntriesDone, WalletSync, NewDay, vars, PassOver
  <2> QED BY <2>1 DEF ViewPaid, Opened
<1>4. CASE EndCycle
  BY <1>4 DEF EndCycle, NoView, ViewPaid, Opened
<1>5. ASSUME NEW s \in Symbols, NEW side \in Sides, NEW size \in Sizes,
             Open(s, side, size)
      PROVE ViewPaid' /\ Exposure(book') <= Cap(view.balance)
  BY <1>5, OpenPaid
<1>6. ASSUME NEW s \in Symbols, ManageCloses(s) \/ ReconcileCloses(s)
      PROVE ViewPaid' /\ Opened = {}
  <2>1. PICK pnl \in {-Risk, 0, Risk} : ClosedRow(s, pnl)
    BY Zenon, <1>6 DEF ManageCloses, ReconcileCloses
  <2>2. s \in Held(book) /\ UNCHANGED <<view, pc>>
    BY <1>6 DEF ManageCloses, ReconcileCloses
  <2> QED BY <2>1, <2>2, ClosePaid, CloseEffect DEF Opened
<1>7. ASSUME NEW s \in Symbols, ManageKeeps(s) PROVE ViewPaid' /\ Opened = {}
  <2>1. s \in Held(book) /\ pc = "manage" /\ UNCHANGED <<view, pc>>
    BY <1>7 DEF ManageKeeps
  <2> QED BY <1>7, <2>1, KeepEffect DEF ViewPaid, Opened
<1> QED BY <1>1, <1>2, <1>3, <1>4, <1>5, <1>6, <1>7 DEF Next

\* No entry takes the marked notional of the book over the cap on the balance its cycle
\* read, whatever the thread closes or syncs while the candidates are considered
\* (ExposureCap): the clip and the rows are counted on one running total.
THEOREM ExposureHolds == Spec => ExposureCap
<1>1. Spec => [](IInv /\ ViewPaid)
  <2>1. Init => IInv /\ ViewPaid
    BY InitEstablishes, InitPaid
  <2>2. IInv /\ ViewPaid /\ [Next]_vars => (IInv /\ ViewPaid)'
    BY NextPreserves, StepPaid
  <2> QED BY <2>1, <2>2, PTL DEF Spec
<1>2. IInv /\ ViewPaid /\ [Next]_vars =>
          [Opened # {} => Exposure(book') <= Cap(view.balance)]_vars
  BY StepPaid
<1> QED BY <1>1, <1>2, PTL DEF Spec, ExposureCap

--------------------------------------------------------------------------------
(* The daily profit guard (DailyGuard), which runs at the end of the same  *)
(* cycle: a locked day stays flat, and a flatten banks the equity the      *)
(* guard acted on, for every set of symbols, every price, fee, target and  *)
(* giveback, and any number of days, cycles and wallet syncs.              *)

\* What the steps need of the assumption.
GuardConstants ==
    /\ IsFiniteSet(Coins) /\ Profits \subseteq Int /\ 0 \in Profits
    /\ Transfers \subseteq Int /\ Fee \in Nat /\ Initial \in Nat /\ Unset \notin Nat

LEMMA GuardConstantsHold == GuardConstants
BY GuardAssumption DEF GuardConstants

\* A lock, set or about to be set, is never on a day to come.
NoFutureLock ==
    /\ day \in Nat /\ gday \in Nat /\ gday <= day
    /\ hitDay = Unset \/ (hitDay \in Nat /\ hitDay <= day)

\* The copy of the lock the entries are gated on is not older than a lock of today.
CopyIsCurrent == phase = "entry" /\ ~locked => hitDay # day

\* While the guard closes positions, what is open is still to be closed or failed to
\* close, and the day is not locked yet.
Closing == phase = "flatten" => InMarket \subseteq unclosed \cup skipped /\ hitDay # day

Positions == pos \in [Coins -> Profits \cup {NoPosition}]

LockInv == Positions /\ NoFutureLock /\ CopyIsCurrent /\ Closing /\ FlatWhileLocked

LEMMA InitLock ==
  ASSUME GuardConstants, GuardInit
  PROVE  LockInv
<1>2. Positions
  BY DEF GuardInit, Positions
<1>1. day = 1 /\ gday = 1 /\ hitDay = Unset /\ phase = "idle" /\ Unset \notin Nat
  BY DEF GuardConstants, GuardInit
<1> QED BY <1>1, <1>2 DEF LockInv, NoFutureLock, CopyIsCurrent, Closing, FlatWhileLocked

\* A step that opens no position and leaves the lock, the day and the guard's own
\* state alone.
LEMMA QuietKeeps ==
  ASSUME LockInv, Positions', UNCHANGED <<day, gday, hitDay, unclosed, skipped>>, InMarket' \subseteq InMarket,
         phase' = "flatten" => phase = "flatten",
         phase' = "entry" => phase = "entry" /\ locked' = locked
  PROVE  LockInv'
<1> USE DEF LockInv
<1>1. NoFutureLock'
  BY DEF NoFutureLock
<1>2. CopyIsCurrent'
  BY DEF CopyIsCurrent
<1>3. Closing' /\ FlatWhileLocked'
  BY DEF Closing, FlatWhileLocked
<1> QED BY <1>1, <1>2, <1>3

LEMMA ExitShrinks ==
  ASSUME NEW s \in Coins, Positions, pos' = [pos EXCEPT ![s] = NoPosition]
  PROVE  InMarket' \subseteq InMarket \ {s}
<1> SUFFICES ASSUME NEW u \in Coins, pos'[u] # NoPosition
             PROVE  pos[u] # NoPosition /\ u # s
  BY DEF InMarket
<1> QED BY DEF Positions

LEMMA StepLock ==
  ASSUME GuardConstants, LockInv, [GuardNext]_guardVars
  PROVE  LockInv'
<1>0. Positions /\ Positions'
  <2>1. Positions
    BY DEF LockInv
  <2>2. CASE Begin
    <3>1. pos' \in [Coins -> Profits \cup {NoPosition}]
      BY Zenon, <2>2 DEF Begin
    <3> QED BY <2>1, <3>1 DEF Positions
  <2>3. ASSUME NEW s \in Coins, Enter(s) \/ Exit(s) \/ FlattenOne(s) PROVE Positions'
    <3>1. PICK p \in Profits \cup {NoPosition} : pos' = [pos EXCEPT ![s] = p]
      BY <2>3 DEF GuardConstants, Enter, Exit, FlattenOne
    <3> QED BY Zenon, <2>1, <3>1 DEF Positions
  <2>4. CASE pos' = pos
    BY <2>1, <2>4 DEF Positions
  <2> QED BY <2>1, <2>2, <2>3, <2>4 DEF GuardNext, Manage, Evaluate, Lock, FlattenRaises, ResumeDay,
          Midnight, WalletMoves, Crash, guardVars
<1>1. CASE Begin
  <2>1. InMarket' = InMarket
    BY <1>1 DEF Begin, InMarket
  <2>2. UNCHANGED <<day, hitDay, gday, unclosed, skipped>> /\ phase' = "entry" /\ locked' = (hitDay = day)
    BY <1>1 DEF Begin, meta, guard
  <2> QED BY <1>0, <2>1, <2>2 DEF LockInv, NoFutureLock, CopyIsCurrent, Closing, FlatWhileLocked
<1>2. ASSUME NEW s \in Coins, Enter(s) PROVE LockInv'
  <2>1. UNCHANGED <<day, hitDay, gday, unclosed, skipped, phase, locked>> /\ phase = "entry" /\ ~locked
    BY <1>2 DEF Enter, meta, guard
  <2>2. hitDay # day
    BY <2>1 DEF LockInv, CopyIsCurrent
  <2> QED BY <1>0, <2>1, <2>2 DEF LockInv, NoFutureLock, CopyIsCurrent, Closing, FlatWhileLocked
<1>3. CASE Manage \/ WalletMoves
  <2>1. /\ UNCHANGED <<day, gday, hitDay, unclosed, skipped, pos, locked>>
        /\ phase' = phase \/ phase' = "manage"
    BY <1>3 DEF Manage, WalletMoves, meta, guard
  <2>2. InMarket' = InMarket
    BY <2>1 DEF InMarket
  <2> QED BY <1>0, <2>1, <2>2, QuietKeeps
<1>4. ASSUME NEW s \in Coins, Exit(s) PROVE LockInv'
  <2>1. UNCHANGED <<day, gday, hitDay, unclosed, skipped, phase, locked>>
    BY <1>4 DEF Exit, meta, guard
  <2>2. InMarket' \subseteq InMarket
    BY <1>4, <1>0, ExitShrinks DEF Exit
  <2> QED BY <1>0, <2>1, <2>2, QuietKeeps
<1>5. CASE Evaluate
  <2>1. UNCHANGED <<day, hitDay, pos>> /\ gday' = day
    BY <1>5 DEF Evaluate, Done, Fire
  <2>2. InMarket' = InMarket
    BY <2>1 DEF InMarket
  <2>3. \/ phase' = "idle" /\ skipped' = skipped
        \/ phase' = "flatten" /\ unclosed' = InMarket /\ hitDay # day
    BY <1>5 DEF Evaluate, Done, Fire
  <2>4. day \in Nat /\ day <= day
    BY DEF LockInv, NoFutureLock
  <2> QED BY <1>0, <2>1, <2>2, <2>3, <2>4
       DEF LockInv, NoFutureLock, CopyIsCurrent, Closing, FlatWhileLocked
<1>6. ASSUME NEW s \in Coins, FlattenOne(s) PROVE LockInv'
  <2>1. UNCHANGED <<day, gday, hitDay, skipped, phase>> /\ phase = "flatten" /\ unclosed' = unclosed \ {s}
    BY <1>6 DEF FlattenOne, meta
  <2>2. InMarket' \subseteq InMarket \ {s}
    BY <1>6, <1>0, ExitShrinks DEF FlattenOne
  <2> QED BY <1>0, <2>1, <2>2 DEF LockInv, NoFutureLock, CopyIsCurrent, Closing, FlatWhileLocked
<1>7. ASSUME NEW s \in Coins, FlattenRaises(s) PROVE LockInv'
  <2>1. /\ UNCHANGED <<day, gday, hitDay, pos, phase>> /\ phase = "flatten"
        /\ unclosed' = unclosed \ {s} /\ skipped' = skipped \cup {s}
    BY <1>7 DEF FlattenRaises, meta
  <2>2. InMarket' = InMarket
    BY <2>1 DEF InMarket
  <2> QED BY <1>0, <2>1, <2>2 DEF LockInv, NoFutureLock, CopyIsCurrent, Closing, FlatWhileLocked
<1>8. CASE Lock
  <2>1. /\ UNCHANGED <<day, gday, pos, unclosed, skipped>> /\ phase = "flatten" /\ unclosed = {}
        /\ hitDay' = gday /\ phase' = "idle"
    BY <1>8 DEF Lock, guard
  <2>2. InMarket' = InMarket /\ InMarket \subseteq skipped
    BY <2>1 DEF InMarket, LockInv, Closing
  <2> QED BY <1>0, <2>1, <2>2 DEF LockInv, NoFutureLock, CopyIsCurrent, Closing, FlatWhileLocked
<1>9. CASE ResumeDay
  <2>1. UNCHANGED <<day, gday>> /\ hitDay' = Unset /\ phase' = "idle" /\ Unset \notin Nat
    BY <1>9 DEF GuardConstants, ResumeDay, guard
  <2> QED BY <1>0, <2>1 DEF LockInv, NoFutureLock, CopyIsCurrent, Closing, FlatWhileLocked
<1>10. CASE Midnight
  <2>1. UNCHANGED <<gday, hitDay, pos, unclosed, skipped, phase>> /\ day' = day + 1 /\ Unset \notin Nat
    BY <1>10 DEF GuardConstants, Midnight, guard, meta
  <2>2. InMarket' = InMarket /\ day' \in Nat /\ gday <= day'
    BY <2>1 DEF InMarket, LockInv, NoFutureLock
  <2>3. hitDay # day' /\ (hitDay = Unset \/ (hitDay \in Nat /\ hitDay <= day'))
    BY <2>1 DEF GuardConstants, LockInv, NoFutureLock
  <2> QED BY <1>0, <2>1, <2>2, <2>3 DEF LockInv, NoFutureLock, CopyIsCurrent, Closing, FlatWhileLocked
<1>11. CASE Crash
  <2>1. UNCHANGED <<day, gday, hitDay, pos, skipped>> /\ phase' = "idle"
    BY <1>11 DEF Crash, meta
  <2>2. InMarket' = InMarket
    BY <2>1 DEF InMarket
  <2> QED BY <1>0, <2>1, <2>2 DEF LockInv, NoFutureLock, CopyIsCurrent, Closing, FlatWhileLocked
<1>12. CASE UNCHANGED guardVars
  <2>1. UNCHANGED <<day, gday, hitDay, pos, unclosed, skipped, phase, locked>>
    BY <1>12 DEF guardVars, meta, guard
  <2>2. InMarket' = InMarket
    BY <2>1 DEF InMarket
  <2> QED BY <1>0, <2>1, <2>2, QuietKeeps
<1> QED BY <1>1, <1>2, <1>3, <1>4, <1>5, <1>6, <1>7, <1>8, <1>9, <1>10, <1>11, <1>12 DEF GuardNext

\* Nothing is open on a day the guard locked but positions whose closing raised:
\* not through the copy of the lock the entries use, a midnight or a crash inside the
\* flatten, nor a /resumeday before it.
THEOREM LockedDayStaysFlat == GuardSpec => []FlatWhileLocked
<1>1. GuardInit => LockInv
  BY InitLock, GuardConstantsHold
<1>2. LockInv /\ [GuardNext]_guardVars => LockInv'
  BY StepLock, GuardConstantsHold
<1>3. LockInv => FlatWhileLocked
  BY DEF LockInv
<1> QED BY <1>1, <1>2, <1>3, PTL DEF GuardSpec

\* While every close of the flatten has gone through, the cash is what the guard
\* measured less the worth of what is still to be closed, and a fee for each of those.
Banking ==
    phase = "flatten" =>
        /\ unclosed \subseteq InMarket
        /\ skipped = {} =>
              cash + Worth(marked \cap unclosed) = expected + Fee * Cardinality(unclosed)

BankInv == Positions /\ cash \in Int /\ expected \in Int /\ Banking

LEMMA WorthIsTotal == \A Some : Worth(Some) = Total(pos, Some)
BY DEF Worth, Total

\* What is held has a worth, and any part of it a sum.
LEMMA HeldHasWorth ==
  ASSUME GuardConstants, Positions
  PROVE  /\ \A s \in InMarket : pos[s] \in Int
         /\ \A Some \in SUBSET InMarket : IsFiniteSet(Some) /\ Cardinality(Some) \in Nat /\ Worth(Some) \in Int
<1>1. \A s \in InMarket : pos[s] \in Int
  BY DEF GuardConstants, Positions, InMarket
<1>2. ASSUME NEW Some \in SUBSET InMarket
      PROVE  IsFiniteSet(Some) /\ Cardinality(Some) \in Nat /\ Worth(Some) \in Int
  <2>1. IsFiniteSet(Some)
    BY FS_Subset DEF GuardConstants, InMarket
  <2> QED BY <1>1, <2>1, FS_CardinalityType, TotalIsInt, WorthIsTotal
<1> QED BY <1>1, <1>2

LEMMA InitBank ==
  ASSUME GuardConstants, GuardInit
  PROVE  BankInv
<1>1. Positions
  BY DEF GuardInit, Positions
<1>2. cash \in Int /\ expected \in Int /\ phase = "idle"
  BY DEF GuardConstants, GuardInit
<1> QED BY <1>1, <1>2 DEF BankInv, Banking

\* One forced close: its worth moves from what is to come into the cash, its fee too.
LEMMA FlattenBanks ==
  ASSUME GuardConstants, BankInv, Positions', NEW s \in Coins, FlattenOne(s)
  PROVE  BankInv'
<1>1. /\ phase = "flatten" /\ s \in unclosed /\ unclosed' = unclosed \ {s}
      /\ cash' = cash + ExitWorth(s) - Fee
      /\ pos' = [pos EXCEPT ![s] = NoPosition]
      /\ UNCHANGED <<marked, skipped, expected, phase>>
  BY DEF FlattenOne, history
<1>2. Positions /\ unclosed \subseteq InMarket
  BY <1>1 DEF BankInv, Banking
<1>3. \A u \in Coins \ {s} : pos'[u] = pos[u]
  BY <1>1, <1>2 DEF Positions
<1>4. unclosed' \subseteq InMarket'
  BY <1>1, <1>2, <1>3 DEF InMarket
<1> DEFINE Some == marked \cap unclosed
<1>5. /\ IsFiniteSet(Some) /\ Worth(Some) \in Int /\ \A u \in Some : pos[u] \in Int
      /\ Worth(Some \ {s}) \in Int /\ IsFiniteSet(Some \ {s}) /\ pos[s] \in Int
      /\ IsFiniteSet(unclosed) /\ Cardinality(unclosed) \in Nat
      /\ Cardinality(unclosed \ {s}) \in Nat
  BY <1>1, <1>2, HeldHasWorth
<1>6. (Worth(marked \cap unclosed))' = Worth(Some \ {s})
  <2>1. (marked \cap unclosed)' = Some \ {s} /\ Some \subseteq Coins
    BY <1>1, <1>2 DEF InMarket
  <2>2. \A u \in Some \ {s} : pos[u] \in Int /\ pos[u] = pos'[u]
    BY <1>3, <1>5, <2>1
  <2>3. Total(pos', Some \ {s}) = Total(pos, Some \ {s})
    BY <1>5, <2>2, TotalSame
  <2>4. (Worth(marked \cap unclosed))' = Total(pos', (marked \cap unclosed)')
    BY DEF Worth, Total
  <2> HIDE DEF Some
  <2> QED BY <2>1, <2>3, <2>4, WorthIsTotal
<1>7. Worth(Some) = ExitWorth(s) + Worth(Some \ {s}) /\ ExitWorth(s) \in Int
  <2>1. CASE s \in marked
    <3>1. s \in Some /\ ExitWorth(s) = pos[s]
      BY <1>1, <2>1 DEF ExitWorth
    <3> HIDE DEF Some
    <3> QED BY <1>5, <3>1, TotalRemove, WorthIsTotal
  <2>2. CASE s \notin marked
    <3>1. Some \ {s} = Some /\ ExitWorth(s) = 0
      BY <2>2 DEF ExitWorth
    <3>2. PICK w \in Int : w = Worth(Some)
      BY <1>5
    <3>3. Worth(Some \ {s}) = w
      BY <3>1, <3>2
    <3>4. w = 0 + w /\ 0 \in Int
      OBVIOUS
    <3> HIDE DEF Some
    <3> QED BY <3>1, <3>2, <3>3, <3>4, Zenon
  <2> QED BY <2>1, <2>2
<1>8. Cardinality(unclosed) = Cardinality(unclosed \ {s}) + 1
  <2>1. Cardinality(unclosed \ {s}) = Cardinality(unclosed) - 1
    BY <1>1, <1>5, FS_RemoveElement
  <2> QED BY <1>5, <2>1
<1>9. Fee \in Int /\ cash \in Int /\ expected \in Int
  BY DEF GuardConstants, BankInv
<1>10. Fee * Cardinality(unclosed) = Fee * Cardinality(unclosed \ {s}) + Fee
  <2> DEFINE n == Cardinality(unclosed \ {s})
  <2>1. n \in Nat
    BY <1>5
  <2> HIDE DEF n
  <2>2. Fee * (n + 1) = Fee * n + Fee
    BY <1>9, <2>1
  <2> QED BY <1>8, <2>2 DEF n
<1>11. Banking'
  <2>1. ASSUME skipped = {}
        PROVE  cash' + Worth(Some \ {s}) = expected + Fee * Cardinality(unclosed \ {s})
    <3> DEFINE n == Fee * Cardinality(unclosed \ {s})
    <3>1. n \in Int
      BY <1>5, <1>9
    <3>2. cash + Worth(Some) = expected + (n + Fee)
      BY <1>1, <1>10, <2>1 DEF BankInv, Banking
    <3>3. cash' = cash + ExitWorth(s) - Fee
      BY <1>1
    <3> HIDE DEF n, Some
    <3>4. cash' + Worth(Some \ {s}) = expected + n
      <4>1. /\ Worth(Some) \in Int /\ Worth(Some \ {s}) \in Int /\ ExitWorth(s) \in Int
            /\ Worth(Some) = ExitWorth(s) + Worth(Some \ {s})
        BY <1>5, <1>7
      <4> DEFINE t == Worth(Some)
                 a == Worth(Some \ {s})
                 w == ExitWorth(s)
      <4> HIDE DEF t, a, w
      <4>2. /\ t \in Int /\ a \in Int /\ w \in Int /\ t = w + a
            /\ cash + t = expected + (n + Fee) /\ cash' = cash + w - Fee
        BY <3>2, <3>3, <4>1 DEF t, a, w
      <4>3. cash' + a = expected + n
        BY <1>9, <3>1, <4>2
      <4> QED BY <4>3 DEF a
    <3> QED BY <3>4 DEF n
  <2> HIDE DEF Some
  <2> QED BY <1>1, <1>4, <1>6, <2>1 DEF Banking
<1>12. cash' \in Int
  BY <1>1, <1>7, <1>9
<1> QED BY <1>1, <1>9, <1>11, <1>12 DEF BankInv

LEMMA StepBank ==
  ASSUME GuardConstants, BankInv, LockInv, [GuardNext]_guardVars
  PROVE  BankInv'
<1>0. Positions' /\ Positions /\ cash \in Int /\ expected \in Int /\ Banking
  BY StepLock DEF LockInv, BankInv
<1>1. CASE Begin \/ Manage \/ ResumeDay
  <2>1. UNCHANGED <<cash, expected>> /\ phase' # "flatten"
    BY <1>1 DEF Begin, Manage, ResumeDay, history
  <2> QED BY <1>0, <2>1 DEF BankInv, Banking
<1>2. ASSUME NEW s \in Coins, Enter(s) PROVE BankInv'
  <2>1. UNCHANGED <<cash, expected>> /\ phase' # "flatten"
    BY <1>2 DEF Enter, history
  <2> QED BY <1>0, <2>1 DEF BankInv, Banking
<1>3. ASSUME NEW s \in Coins, Exit(s) PROVE BankInv'
  <2>1. expected' = expected /\ phase' # "flatten" /\ cash' = cash + pos[s] - Fee /\ s \in InMarket
    BY <1>3 DEF Exit, history
  <2>2. cash' \in Int
    BY <1>0, <2>1, HeldHasWorth DEF GuardConstants
  <2> QED BY <1>0, <2>1, <2>2 DEF BankInv, Banking
<1>4. CASE Evaluate
  <2>1. UNCHANGED <<cash, pos>> /\ cash' \in Int
    BY <1>0, <1>4 DEF Evaluate
  <2>2. CASE phase' = "idle" /\ expected' = 0
    BY <1>0, <2>1, <2>2 DEF BankInv, Banking
  <2>3. CASE /\ phase' = "flatten" /\ marked' = marked /\ unclosed' = InMarket
             /\ expected' = Equity - Fee * Cardinality(InMarket)
    <3>1. /\ Worth(marked \cap InMarket) \in Int /\ Cardinality(InMarket) \in Nat /\ Fee \in Int
          /\ Equity = cash + Worth(marked \cap InMarket)
      BY <1>0, HeldHasWorth DEF GuardConstants, Equity
    <3>2. Fee * Cardinality(InMarket) \in Int
      BY <3>1
    <3>3. /\ expected' \in Int
          /\ cash' + Worth(marked \cap InMarket) = expected' + Fee * Cardinality(InMarket)
      BY <1>0, <2>1, <2>3, <3>1, <3>2
    <3>4. InMarket' = InMarket
      BY <2>1 DEF InMarket
    <3>5. (Worth(marked \cap unclosed))' = Worth(marked \cap InMarket)
      BY <2>1, <2>3 DEF Worth
    <3>6. Banking'
      BY <2>1, <2>3, <3>3, <3>4, <3>5 DEF Banking
    <3> QED BY <1>0, <2>1, <3>3, <3>6 DEF BankInv
  <2>4. \/ phase' = "idle" /\ expected' = 0
        \/ /\ phase' = "flatten" /\ marked' = marked /\ unclosed' = InMarket
           /\ expected' = Equity - Fee * Cardinality(InMarket)
    BY <1>4 DEF Evaluate, Done, Fire
  <2> QED BY <2>2, <2>3, <2>4
<1>5. ASSUME NEW s \in Coins, FlattenOne(s) PROVE BankInv'
  BY <1>0, <1>5, FlattenBanks
<1>6. ASSUME NEW s \in Coins, FlattenRaises(s) PROVE BankInv'
  <2>1. /\ UNCHANGED <<cash, pos, expected, phase>> /\ s \in skipped'
        /\ phase = "flatten" /\ unclosed' = unclosed \ {s}
    BY <1>6 DEF FlattenRaises, history
  <2>2. InMarket' = InMarket
    BY <2>1 DEF InMarket
  <2> QED BY <1>0, <2>1, <2>2 DEF BankInv, Banking
<1>7. CASE Lock \/ Crash
  <2>1. cash' = cash /\ expected' = 0 /\ phase' = "idle"
    BY <1>7 DEF Lock, Crash
  <2> QED BY <1>0, <2>1 DEF BankInv, Banking
<1>8. CASE Midnight \/ UNCHANGED guardVars
  <2>1. UNCHANGED <<cash, pos, marked, unclosed, skipped, expected, phase>>
    BY <1>8 DEF Midnight, guardVars, guard, history
  <2>2. InMarket' = InMarket /\ (Worth(marked \cap unclosed))' = Worth(marked \cap unclosed)
    BY <2>1 DEF InMarket, Worth
  <2> QED BY <1>0, <2>1, <2>2 DEF BankInv, Banking
<1>9. CASE WalletMoves
  <2>1. PICK amount \in Transfers : cash' = cash + amount /\ expected' = expected + amount
    BY <1>9 DEF WalletMoves
  <2>2. UNCHANGED <<pos, marked, unclosed, skipped, phase>> /\ amount \in Int
    BY <1>9 DEF WalletMoves, guard, GuardConstants
  <2>3. InMarket' = InMarket /\ (Worth(marked \cap unclosed))' = Worth(marked \cap unclosed)
    BY <2>2 DEF InMarket, Worth
  <2>4. ASSUME phase = "flatten", skipped = {}
        PROVE  cash' + Worth(marked \cap unclosed) = expected' + Fee * Cardinality(unclosed)
    <3>1. /\ Worth(marked \cap unclosed) \in Int /\ Cardinality(unclosed) \in Nat /\ Fee \in Int
          /\ cash + Worth(marked \cap unclosed) = expected + Fee * Cardinality(unclosed)
      BY <1>0, <2>4, HeldHasWorth DEF Banking, GuardConstants
    <3>2. Fee * Cardinality(unclosed) \in Int
      BY <3>1
    <3> QED BY <1>0, <2>1, <2>2, <3>1, <3>2
  <2> QED BY <1>0, <2>1, <2>2, <2>3, <2>4 DEF BankInv, Banking
<1> QED BY <1>1, <1>2, <1>3, <1>4, <1>5, <1>6, <1>7, <1>8, <1>9 DEF GuardNext

\* A flatten none of whose closes raised leaves in cash the equity the guard measured,
\* less one fee per position, whatever the order of the closes and the wallet syncs
\* between them, also with positions it had no mark for (BankedWhatItSaw).
THEOREM FlattenBanksWhatItSaw == GuardSpec => []BankedWhatItSaw
<1>1. GuardInit => LockInv /\ BankInv
  BY InitLock, InitBank, GuardConstantsHold
<1>2. LockInv /\ BankInv /\ [GuardNext]_guardVars => (LockInv /\ BankInv)'
  BY StepLock, StepBank, GuardConstantsHold
<1>3. ASSUME BankInv PROVE BankedWhatItSaw
  <2> SUFFICES ASSUME phase = "flatten", unclosed = {}, skipped = {} PROVE cash = expected
    BY DEF BankedWhatItSaw
  <2>1. marked \cap unclosed = {} /\ Cardinality(unclosed) = 0
    BY <1>3, FS_EmptySet
  <2>2. Worth(marked \cap unclosed) = 0
    BY <2>1, TotalEmpty, WorthIsTotal
  <2>3. cash + Worth(marked \cap unclosed) = expected + Fee * Cardinality(unclosed)
    BY <1>3 DEF BankInv, Banking
  <2>4. cash \in Int /\ expected \in Int /\ Fee \in Nat
    BY <1>3, GuardConstantsHold DEF BankInv, GuardConstants
  <2> QED BY <2>1, <2>2, <2>3, <2>4
<1> QED BY <1>1, <1>2, <1>3, PTL DEF GuardSpec

(***************************************************************************)
(* Opening: what a signal may become.                                      *)
(***************************************************************************)
\* The configurations config.validate accepts, with the maintenance rates of
\* mm_rate_for rising with the notional ("larger positions land in higher-rate tiers").
RulebookTyped(c) ==
    /\ c.policy \in {"efficient", "conservative"}
    /\ {c.risk, c.cost, c.exposure, c.maint} \subseteq Nat
    /\ {c.minStop, c.buffer, c.maxLeverage} \subseteq Nat \ {0}
    /\ c.reserve \in Nat /\ c.reserve <= 10000 /\ c.maxOpen \in Int /\ c.minNotional \in Int
    /\ \A s \in Ideas : c.maxStop[s.profile] \in Int
    /\ \A i \in 1 .. 3 : c.parts[i] \in Nat
    /\ c.parts[1] + c.parts[2] + c.parts[3] <= 100
RulebookTiers(c) ==
    /\ Len(c.tiers) \in Nat /\ DOMAIN c.tiers = 1 .. Len(c.tiers)
    /\ c.tiers # <<>> <=> Len(c.tiers) > 0
    /\ \A i \in DOMAIN c.tiers : c.tiers[i].upTo \in Int /\ c.tiers[i].rate \in Nat
    /\ \A i, j \in DOMAIN c.tiers : i <= j => c.tiers[i].rate <= c.tiers[j].rate

VenueTyped(m) == m.tick \in Nat \ {0} /\ m.step \in Nat \ {0}
IdeaTyped(s) ==
    /\ s.side \in {"LONG", "SHORT"} /\ s.entry \in Nat \ {0} /\ s.stop \in Nat
    /\ s.edge = NoSample \/ s.edge \in Int
    /\ s.score = NoSample \/ s.score \in Int
    /\ s.regime \in Nat

\* The rates a position can be charged.
Rates(c) == {c.maint} \cup {S!Most(c.tiers[i].rate, c.maint) : i \in DOMAIN c.tiers}
\* A share of the entry price, in basis points, that exceeds a stop of d basis points by
\* more than half a tick and the rounding of a price.
Spare(m, s, d, share) == s.entry * d + 10000 * (m.tick \div 2 + 1) <= s.entry * share
\* The buffer leaves that much behind every stop the guard band lets through, and so does
\* a position that is not levered at all.
BufferCounts(c, m, s) ==
    \A d \in c.minStop .. c.maxStop[s.profile] :
        /\ Spare(m, s, d, (c.buffer * d) \div 10)
        /\ \A rate \in Rates(c) : Spare(m, s, d, 10000 - rate)

SizingConstants ==
    /\ NoTicket \notin {"stop", "exposure", "minimum", "margin", "liquidation"}
    /\ Purses \subseteq Int /\ Portions \subseteq Nat
    /\ \A c \in Rulebooks : RulebookTyped(c) /\ RulebookTiers(c)
    /\ \A m \in Venues : VenueTyped(m)
    /\ \A s \in Ideas : IdeaTyped(s)
    /\ \A c \in Rulebooks, m \in Venues, s \in Ideas : BufferCounts(c, m, s)

OpenTrades == [notional : Nat, margin : Nat, loss : Int]
Shares == [i \in DOMAIN atRisk |-> atRisk[i].notional]
Locked == [i \in DOMAIN atRisk |-> atRisk[i].margin]

\* What was decided: typed, within what was free when it was, within the budget, and with
\* its liquidation behind its stop.
TicketTyped(t) ==
    /\ t.sig \in Ideas /\ t.stop \in Int /\ t.loss \in Int
    /\ t.notional \in Nat /\ t.margin \in Nat
    /\ t.leverage \in Nat \ {0} /\ t.dist \in Nat
    /\ \A i \in 1 .. 3 : t.targets[i].part \in Nat
    /\ t.targets[1].part + t.targets[2].part + t.targets[3].part <= 100
TicketFits(t) ==
    /\ S!OpenMargin + t.margin <= fund
    /\ (S!OpenNotional + t.notional) * 100 <= fund * rulebook.exposure
TicketStop(t) ==
    /\ t.sig.side = "LONG" => t.stop <= t.sig.entry
    /\ t.sig.side = "SHORT" => t.stop >= t.sig.entry
    /\ S!Abs(t.sig.entry - t.stop) * 10000 <= t.dist * t.sig.entry
TicketBudget(t) ==
    t.notional * (t.dist + rulebook.cost) <= ((fund * rulebook.risk) \div 100) * 150
TicketSafe(t) ==
    Spare(venue, t.sig, t.dist, S!Most(0, 10000 \div t.leverage - S!MaintRate(t.notional)))
TicketSound(t) ==
    TicketTyped(t) /\ TicketFits(t) /\ TicketStop(t) /\ TicketBudget(t) /\ TicketSafe(t)

\* The generations of an entry order: all but the newest have ended, and what they filled
\* with what the newest may still fill is the quantity of the order.
Generations == [qty : Nat, filled : Nat,
                status : {"NEW", "PARTIALLY_FILLED", "FILLED", "CANCELED"}]
FillsOf(g) == [i \in DOMAIN g |-> g[i].filled]
Chain(g, qty) ==
    /\ g \in Seq(Generations) /\ Len(g) > 0
    /\ \A i \in DOMAIN g : i < Len(g) => ~S!Active(g[i])
    /\ g[Len(g)].filled <= g[Len(g)].qty
    /\ Total(FillsOf(g), DOMAIN g) + g[Len(g)].qty - g[Len(g)].filled = qty

SizingInv ==
    /\ rulebook \in Rulebooks /\ venue \in Venues /\ fund \in Int
    /\ atRisk \in Seq(OpenTrades)
    /\ refusal # "liquidation"
    /\ ticket # NoTicket => TicketSound(ticket)
    /\ payloads # NoTicket => /\ ticket # NoTicket /\ payloads = S!Orders(ticket)
                              /\ Chain(renewals, payloads.entry.qty)

--------------------------------------------------------------------------------
(* Arithmetic.                                                             *)

LEMMA Quotient ==
    ASSUME NEW x \in Int, NEW y \in Nat \ {0}
    PROVE  x \div y \in Int /\ y * (x \div y) <= x /\ x < y * (x \div y) + y
OBVIOUS

LEMMA TimesMonotone ==
    ASSUME NEW a \in Int, NEW b \in Int, NEW k \in Nat, a <= b
    PROVE  a * k <= b * k /\ k * a <= k * b /\ a * k \in Int /\ k * a = a * k
OBVIOUS

LEMMA TimesCancels ==
    ASSUME NEW a \in Int, NEW b \in Int, NEW k \in Nat \ {0}, k * a < k * b + k
    PROVE  a <= b
<1>1. CASE a >= b + 1
  <2>1. k * (b + 1) <= k * a
    BY <1>1, TimesMonotone
  <2>2. k * (b + 1) = k * b + k
    OBVIOUS
  <2> QED BY <2>1, <2>2
<1> QED BY <1>1

\* A number that fits into a product fits into the quotient.
LEMMA QuotientAtLeast ==
    ASSUME NEW x \in Int, NEW y \in Nat \ {0}, NEW z \in Int, y * z <= x
    PROVE  z <= x \div y
<1>1. x \div y \in Int /\ x < y * (x \div y) + y
  BY Quotient
<1> QED BY <1>1, TimesCancels

LEMMA RoundedUp ==
    ASSUME NEW x \in Int, NEW y \in Nat \ {0}
    PROVE  /\ S!Ceiling(x, y) \in Int /\ x <= y * S!Ceiling(x, y)
           /\ y * S!Ceiling(x, y) < x + y
           /\ x >= 0 => S!Ceiling(x, y) >= 0
<1>1. S!Ceiling(x, y) = (x + y - 1) \div y /\ x + y - 1 \in Int
  BY DEF S!Ceiling
<1>2. /\ S!Ceiling(x, y) \in Int /\ y * S!Ceiling(x, y) <= x + y - 1
      /\ x + y - 1 < y * S!Ceiling(x, y) + y
  BY <1>1, Quotient
<1>3. ASSUME x >= 0 PROVE S!Ceiling(x, y) >= 0
  <2>1. y * 0 <= x + y - 1
    BY <1>3
  <2> QED BY <1>1, <2>1, QuotientAtLeast
<1>4. y * S!Ceiling(x, y) \in Int
  BY <1>2
<1> QED BY <1>2, <1>3, <1>4

LEMMA Extremes ==
    ASSUME NEW x \in Int, NEW y \in Int
    PROVE  /\ S!Most(x, y) \in Int /\ S!Most(x, y) >= x /\ S!Most(x, y) >= y
           /\ S!Most(x, y) \in {x, y}
           /\ S!Least(x, y) \in Int /\ S!Least(x, y) <= x /\ S!Least(x, y) <= y
           /\ S!Least(x, y) \in {x, y}
           /\ S!Abs(x) \in Nat /\ S!Abs(x) \in {x, -x}
BY DEF S!Most, S!Least, S!Abs

\* Rounding to the tick moves a price by half a tick at most.
LEMMA HalfATick ==
    ASSUME NEW p \in Int, venue.tick \in Nat \ {0}
    PROVE  /\ S!ToTick(p) \in Int
           /\ 2 * (S!ToTick(p) - p) <= venue.tick /\ 2 * (p - S!ToTick(p)) <= venue.tick
<1> DEFINE t == venue.tick
<1> HIDE DEF t
<1>1. t \in Nat \ {0} /\ t = venue.tick
  BY DEF t
<1>2. ASSUME NEW x \in Int
      PROVE  /\ ((2 * x + t) \div (2 * t)) * t \in Int
             /\ 2 * (((2 * x + t) \div (2 * t)) * t) <= 2 * x + t
             /\ 2 * x + t < 2 * (((2 * x + t) \div (2 * t)) * t) + 2 * t
  <2> DEFINE q == (2 * x + t) \div (2 * t)
  <2>1. 2 * x + t \in Int /\ 2 * t \in Nat \ {0}
    BY <1>1
  <2>2. q \in Int /\ (2 * t) * q <= 2 * x + t /\ 2 * x + t < (2 * t) * q + 2 * t
    BY <2>1, Quotient
  <2> HIDE DEF q
  <2>3. (2 * t) * q = 2 * (q * t) /\ q * t \in Int
    BY <2>2, <1>1
  <2> QED BY <2>2, <2>3 DEF q
<1>3. CASE p >= 0
  <2>1. S!ToTick(p) = ((2 * p + t) \div (2 * t)) * t
    BY <1>3, <1>1 DEF S!ToTick
  <2> DEFINE u == ((2 * p + t) \div (2 * t)) * t
  <2>2. u \in Int /\ 2 * u <= 2 * p + t /\ 2 * p + t < 2 * u + 2 * t
    BY <1>2
  <2> HIDE DEF u
  <2>3. S!ToTick(p) = u
    BY <2>1 DEF u
  <2> QED BY <2>2, <2>3, <1>1
<1>4. CASE p < 0
  <2>1. S!ToTick(p) = -(((t - 2 * p) \div (2 * t)) * t)
    BY <1>4, <1>1 DEF S!ToTick
  <2>2. PICK n \in Int : n = -p
    OBVIOUS
  <2>3. t - 2 * p = 2 * n + t
    BY <1>1, <2>2
  <2> DEFINE u == ((2 * n + t) \div (2 * t)) * t
  <2>4. u \in Int /\ 2 * u <= 2 * n + t /\ 2 * n + t < 2 * u + 2 * t
    BY <1>2
  <2>5. S!ToTick(p) = -u
    BY <2>1, <2>3
  <2> HIDE DEF u
  <2> QED BY <2>2, <2>4, <2>5, <1>1
<1> QED BY <1>3, <1>4

--------------------------------------------------------------------------------
(* The size and the leverage of one signal.                                *)

\* The rate of a notional is one of the configuration's, and a smaller notional is not
\* charged more.
LEMMA RateOfNotional ==
    ASSUME RulebookTyped(rulebook), RulebookTiers(rulebook), NEW n \in Int
    PROVE  /\ S!MaintRate(n) \in Rates(rulebook) /\ S!MaintRate(n) \in Nat
           /\ \A m \in Int : m <= n => S!MaintRate(m) <= S!MaintRate(n)
<1> DEFINE tiers == rulebook.tiers
           covering(k) == {i \in DOMAIN tiers : k <= tiers[i].upTo}
           first(k) == CHOOSE i \in covering(k) : \A j \in covering(k) : i <= j
           tier(k) == IF covering(k) = {} THEN Len(tiers) ELSE first(k)
<1>1. ASSUME NEW k \in Int
      PROVE  S!MaintRate(k) = IF tiers = <<>> THEN rulebook.maint
                              ELSE S!Most(tiers[tier(k)].rate, rulebook.maint)
  BY DEF S!MaintRate
<1>2. /\ Len(tiers) \in Nat /\ DOMAIN tiers = 1 .. Len(tiers)
      /\ (tiers # <<>> <=> Len(tiers) > 0) /\ rulebook.maint \in Nat
      /\ \A i \in DOMAIN tiers : tiers[i].upTo \in Int /\ tiers[i].rate \in Nat
      /\ \A i, j \in DOMAIN tiers : i <= j => tiers[i].rate <= tiers[j].rate
  BY DEF RulebookTyped, RulebookTiers
<1>3. CASE tiers = <<>>
  BY <1>1, <1>2, <1>3 DEF Rates
<1>4. CASE tiers # <<>>
  <2>1. ASSUME NEW k \in Int, covering(k) # {}
        PROVE  first(k) \in covering(k) /\ \A j \in covering(k) : first(k) <= j
    <3> DEFINE C == covering(k)
    <3>1. C # {} /\ C \subseteq Nat
      BY <2>1, <1>2
    <3>2. \E i \in C : \A j \in C : i <= j
      <4> HIDE DEF C
      <4>1. PICK i \in C : \A j \in C : <<j, i>> \notin OpToRel(<, Nat)
        BY Zenon, <3>1, NatLessThanWellFounded, WFMin
      <4>2. ASSUME NEW j \in C PROVE i <= j
        <5>1. i \in Nat /\ j \in Nat
          BY <3>1
        <5>2. ~(j < i)
          BY <4>1, <5>1 DEF OpToRel
        <5> QED BY <5>1, <5>2
      <4> QED BY <4>2
    <3> QED BY Zenon, <3>2
  <2>2. ASSUME NEW k \in Int PROVE tier(k) \in DOMAIN tiers
    <3> HIDE DEF first
    <3>1. CASE covering(k) = {}
      BY <3>1, <1>2, <1>4
    <3>2. CASE covering(k) # {}
      BY <3>2, <2>1
    <3> QED BY <3>1, <3>2
  <2>3. ASSUME NEW m \in Int, m <= n PROVE tier(m) <= tier(n)
    <3>1. covering(n) \subseteq covering(m)
      BY <1>2, <2>3
    <3> HIDE DEF first, covering
    <3>2. CASE covering(n) = {}
      BY <3>2, <2>2, <1>2
    <3>3. CASE covering(n) # {}
      <4>1. first(n) \in covering(m) /\ covering(m) # {}
        BY <3>1, <3>3, <2>1
      <4> QED BY <3>3, <4>1, <2>1
    <3> QED BY <3>2, <3>3
  <2> HIDE DEF tier
  <2>4. ASSUME NEW k \in Int
        PROVE  S!MaintRate(k) = S!Most(tiers[tier(k)].rate, rulebook.maint)
    BY <1>1, <1>4
  <2>5. S!MaintRate(n) \in Rates(rulebook) /\ S!MaintRate(n) \in Nat
    BY <2>2, <2>4, <1>2 DEF Rates, S!Most
  <2>6. ASSUME NEW m \in Int, m <= n PROVE S!MaintRate(m) <= S!MaintRate(n)
    <3>1. tier(m) \in DOMAIN tiers /\ tier(n) \in DOMAIN tiers /\ tier(m) <= tier(n)
      BY <2>2, <2>3, <2>6
    <3>2. tiers[tier(m)].rate <= tiers[tier(n)].rate
      BY <3>1, <1>2
    <3> QED BY <3>1, <3>2, <2>4, <1>2 DEF S!Most
  <2> QED BY <2>5, <2>6
<1> QED BY <1>3, <1>4

\* The risk multiplier stays between a half and one and a half.
LEMMA MultiplierBounds ==
    ASSUME NEW s, IdeaTyped(s)
    PROVE  S!Multiplier(s) \in 50 .. 150
<1>1. \A x, lo, hi \in Int : lo <= hi => S!Clamp(x, lo, hi) \in lo .. hi
  BY DEF S!Clamp
<1>2. S!ShadowMultiplier(s.edge) \in Int
  <2>1. CASE s.edge = NoSample
    BY <2>1 DEF S!ShadowMultiplier
  <2>2. CASE s.edge # NoSample
    <3> DEFINE x == 100 + (s.edge * 30) \div 100
    <3>1. x \in Int
      BY <2>2 DEF IdeaTyped
    <3>2. S!ShadowMultiplier(s.edge) = S!Clamp(x, 70, 130)
      BY <2>2 DEF S!ShadowMultiplier
    <3> HIDE DEF x
    <3> QED BY <1>1, <3>1, <3>2
  <2> QED BY <2>1, <2>2
<1>3. S!ScoreMultiplier(s.score) \in Int
  <2>1. CASE s.score = NoSample
    BY <2>1 DEF S!ScoreMultiplier
  <2>2. CASE s.score # NoSample
    <3> DEFINE x == 100 + (s.score * 20) \div 100
    <3>1. x \in Int
      BY <2>2 DEF IdeaTyped
    <3>2. S!ScoreMultiplier(s.score) = S!Clamp(x, 80, 120)
      BY <2>2 DEF S!ScoreMultiplier
    <3> HIDE DEF x
    <3> QED BY <1>1, <3>1, <3>2
  <2> QED BY <2>1, <2>2
<1>4. s.regime \in Int
  BY DEF IdeaTyped
<1> DEFINE x == (S!ShadowMultiplier(s.edge) * S!ScoreMultiplier(s.score) * s.regime) \div 10000
<1>5. x \in Int
  BY <1>2, <1>3, <1>4
<1>6. S!Multiplier(s) = S!Clamp(x, 50, 150)
  BY DEF S!Multiplier
<1> HIDE DEF x
<1>7. S!Clamp(x, 50, 150) \in 50 .. 150
  BY <1>5 DEF S!Clamp
<1> QED BY <1>6, <1>7

\* A stop that is not refused is on its side of the entry, and not further away than the
\* distance the size is computed with.
LEMMA StopFacts ==
    ASSUME RulebookTyped(rulebook), NEW s \in Ideas, IdeaTyped(s), ~S!StopRefused(s)
    PROVE  /\ S!StopDist(s) \in rulebook.minStop .. rulebook.maxStop[s.profile]
           /\ S!StopDist(s) \in Nat \ {0} /\ S!NormalStop(s) \in Int
           /\ s.side = "LONG" => S!NormalStop(s) <= s.entry
           /\ s.side = "SHORT" => S!NormalStop(s) >= s.entry
           /\ S!Abs(s.entry - S!NormalStop(s)) * 10000 <= S!StopDist(s) * s.entry
<1> DEFINE r == S!Abs(s.entry - s.stop)
           c == S!Ceiling(r * 10000, s.entry)
           d == S!StopDist(s)
           wide == (s.entry * rulebook.minStop) \div 10000
<1>1. /\ s.entry \in Nat \ {0} /\ s.stop \in Nat /\ s.side \in {"LONG", "SHORT"}
      /\ rulebook.minStop \in Nat \ {0} /\ rulebook.maxStop[s.profile] \in Int
  BY DEF IdeaTyped, RulebookTyped
<1>2. /\ s.side = "LONG" => s.stop < s.entry
      /\ s.side = "SHORT" => s.stop > s.entry
      /\ ~(d > rulebook.maxStop[s.profile])
  BY <1>1 DEF S!StopRefused
<1>3. r \in Nat /\ r * 10000 \in Nat
  <2>1. s.entry - s.stop \in Int
    BY <1>1
  <2>2. r \in Nat
    BY ONLY <2>1, Extremes
  <2> HIDE DEF r
  <2> QED BY <2>2
<1>4. c \in Int /\ r * 10000 <= s.entry * c
  <2> DEFINE n == r * 10000
  <2>1. n \in Int /\ c = S!Ceiling(n, s.entry)
    BY <1>3
  <2> HIDE DEF r, n
  <2>2. S!Ceiling(n, s.entry) \in Int /\ n <= s.entry * S!Ceiling(n, s.entry)
    <3>1. n \in Int /\ s.entry \in Nat \ {0}
      BY <1>1, <2>1
    <3> QED BY ONLY <3>1, RoundedUp
  <2> HIDE DEF c
  <2>3. c \in Int /\ n <= s.entry * c
    BY <2>1, <2>2
  <2> QED BY <2>3 DEF n
<1>5. d = S!Most(c, rulebook.minStop)
  BY DEF S!StopDist
<1>6. d \in Int /\ d >= c /\ d >= rulebook.minStop
  <2> HIDE DEF c, d
  <2>1. c \in Int /\ rulebook.minStop \in Int
    BY <1>1, <1>4
  <2> QED BY ONLY <1>5, <2>1, Extremes
<1>7. r * 10000 <= d * s.entry
  <2> HIDE DEF r, c, d
  <2>1. s.entry * c <= d * s.entry /\ s.entry * c \in Int /\ d * s.entry \in Int
    BY <1>1, <1>4, <1>6, TimesMonotone
  <2> QED BY <1>3, <1>4, <2>1
<1>8. wide \in Int /\ 10000 * wide <= s.entry * rulebook.minStop /\ wide >= 0
  <2>1. s.entry * rulebook.minStop \in Nat
    BY <1>1
  <2> QED BY <2>1
<1>9. 10000 * wide <= d * s.entry
  <2> HIDE DEF wide, d
  <2>1. s.entry * rulebook.minStop <= d * s.entry /\ d * s.entry \in Int
        /\ s.entry * rulebook.minStop \in Int
    BY <1>1, <1>6, TimesMonotone
  <2> QED BY <1>8, <2>1
<1> DEFINE tight == (r * 10000) \div s.entry < rulebook.minStop
<1>10. S!NormalStop(s) = IF (r * 10000) \div s.entry < rulebook.minStop
                         THEN S!Toward(s, wide) ELSE s.stop
  BY DEF S!NormalStop
<1>11. CASE (r * 10000) \div s.entry < rulebook.minStop
  <2> HIDE DEF r, d, wide
  <2>1. S!NormalStop(s) = IF s.side = "LONG" THEN s.entry - wide ELSE s.entry + wide
    BY <1>10, <1>11 DEF S!Toward
  <2>2. S!Abs(s.entry - S!NormalStop(s)) = wide
    BY <2>1, <1>8, <1>1 DEF S!Abs
  <2> QED BY <2>1, <2>2, <1>1, <1>2, <1>6, <1>8, <1>9 DEF d
<1>12. CASE ~((r * 10000) \div s.entry < rulebook.minStop)
  <2>1. S!NormalStop(s) = s.stop
    BY <1>10, <1>12
  <2> HIDE DEF d
  <2> QED BY <2>1, <1>1, <1>2, <1>6, <1>7 DEF d
<1> QED BY <1>11, <1>12

--------------------------------------------------------------------------------
(* What is open.                                                           *)

LEMMA SizingSums == \A f : S!SumFunction(f) = Total(f, DOMAIN f)
BY Zenon DEF S!SumFunction, S!SumFunctionOnSet, S!FoldFunctionOnSet, S!MapThenFoldSet,
             Total, SumFunctionOnSet, FoldFunctionOnSet, MapThenFoldSet

LEMMA OpenSums ==
    ASSUME atRisk \in Seq(OpenTrades)
    PROVE  /\ S!OpenNotional = Total(Shares, 1 .. Len(atRisk)) /\ S!OpenNotional \in Nat
           /\ S!OpenMargin = Total(Locked, 1 .. Len(atRisk)) /\ S!OpenMargin \in Nat
<1>1. /\ DOMAIN atRisk = 1 .. Len(atRisk) /\ Len(atRisk) \in Nat
      /\ \A i \in 1 .. Len(atRisk) : atRisk[i] \in OpenTrades
  OBVIOUS
<1>2. /\ DOMAIN Shares = 1 .. Len(atRisk) /\ DOMAIN Locked = 1 .. Len(atRisk)
      /\ \A i \in 1 .. Len(atRisk) : Shares[i] \in Nat /\ Locked[i] \in Nat
  BY <1>1 DEF Shares, Locked, OpenTrades
<1>3. S!OpenNotional = S!SumFunction(Shares) /\ S!OpenMargin = S!SumFunction(Locked)
  BY DEF S!OpenNotional, S!OpenMargin, Shares, Locked
<1>4. IsFiniteSet(1 .. Len(atRisk))
  BY <1>1, FS_Interval
<1> QED BY <1>2, <1>3, <1>4, SizingSums, TotalIsNat

\* Behind a larger share there is more to spare.
LEMMA SpareMonotone ==
    ASSUME VenueTyped(venue), NEW s, s.entry \in Nat \ {0}, NEW d \in Int,
           NEW a \in Int, NEW b \in Int, a <= b, Spare(venue, s, d, a)
    PROVE  Spare(venue, s, d, b)
<1>1. s.entry * a <= s.entry * b /\ s.entry * a \in Int /\ s.entry * b \in Int
  BY TimesMonotone
<1>2. s.entry * d + 10000 * (venue.tick \div 2 + 1) \in Int
  BY DEF VenueTyped
<1> QED BY <1>1, <1>2 DEF Spare

\* Up to the safe leverage, and at no higher a rate, the stop fires before liquidation.
LEMMA LeverageSpares ==
    ASSUME RulebookTyped(rulebook), RulebookTiers(rulebook), VenueTyped(venue),
           NEW s \in Ideas, IdeaTyped(s), BufferCounts(rulebook, venue, s),
           ~S!StopRefused(s), S!Sized(s) \in Int
    PROVE  /\ S!SafeLeverage(s) \in Nat \ {0}
           /\ \A lev \in 1 .. S!SafeLeverage(s), rate \in Nat :
                  rate <= S!MaintRate(S!Sized(s)) =>
                      Spare(venue, s, S!StopDist(s), S!Most(0, 10000 \div lev - rate))
<1> DEFINE d == S!StopDist(s)
           R == S!MaintRate(S!Sized(s))
           b == rulebook.buffer
           top == rulebook.maxLeverage
           L == S!SafeLeverage(s)
           D == b * d + 10 * R
           q == 100000 \div D
           W == (b * d) \div 10
<1>1. /\ d \in Nat \ {0} /\ R \in Nat /\ b \in Nat \ {0} /\ top \in Nat \ {0}
      /\ s.entry \in Nat \ {0}
  BY StopFacts, RateOfNotional DEF RulebookTyped, IdeaTyped
<1>2. Spare(venue, s, d, W) /\ Spare(venue, s, d, 10000 - R)
  BY StopFacts, RateOfNotional DEF BufferCounts
<1>3. L = S!Most(1, S!Least(top, q))
  BY DEF S!SafeLeverage
<1> HIDE DEF d, R, b, top, L
<1>4. b * d \in Nat \ {0} /\ D \in Nat \ {0}
  BY <1>1
<1>5. W \in Int /\ 10 * W <= b * d
  <2> DEFINE x == b * d
  <2>1. x \in Int /\ W = x \div 10 /\ x = b * d
    BY <1>4
  <2> HIDE DEF x, W
  <2> QED BY <2>1
<1>6. q \in Int /\ D * q <= 100000
  <2> HIDE DEF D
  <2> QED BY <1>4, Quotient
<1> HIDE DEF q
<1>7. L \in Nat \ {0} /\ (L <= q \/ L = 1)
  BY <1>1, <1>3, <1>6 DEF S!Most, S!Least
<1>8. ASSUME NEW lev \in 1 .. L, NEW rate \in Nat, rate <= R
      PROVE  Spare(venue, s, d, S!Most(0, 10000 \div lev - rate))
  <2> DEFINE k == 10000 \div lev
  <2>1. lev \in Nat \ {0} /\ k \in Int
    BY <1>7, Quotient
  <2>2. S!Most(0, k - rate) \in Int /\ S!Most(0, k - rate) >= k - rate
    <3>1. k - rate \in Int
      BY <2>1
    <3> HIDE DEF k
    <3> QED BY ONLY <3>1, Extremes
  <2>3. CASE L <= q
    <3>1. D * lev <= D * q /\ D * lev \in Int /\ D * q \in Int
      <4> HIDE DEF D
      <4>1. lev <= q
        BY <2>1, <2>3, <1>6, <1>7
      <4> QED BY <4>1, <2>1, <1>4, <1>6, TimesMonotone
    <3>2. (10 * W + 10 * R) * lev <= D * lev
      <4> HIDE DEF W
      <4>1. 10 * W + 10 * R <= D
        BY <1>4, <1>5, <1>1
      <4> HIDE DEF D
      <4> QED BY <4>1, <2>1, <1>1, <1>4, <1>5, TimesMonotone
    <3>3. lev * (W + R) <= 10000
      <4> HIDE DEF W, D
      <4>1. (10 * W + 10 * R) * lev = 10 * (lev * (W + R)) /\ lev * (W + R) \in Int
        BY <2>1, <1>1, <1>5
      <4> QED BY <4>1, <3>1, <3>2, <1>6
    <3>4. W + R <= k
      <4> HIDE DEF W
      <4>1. W + R \in Int
        BY <1>1, <1>5
      <4> QED BY <4>1, <3>3, <2>1, QuotientAtLeast
    <3> HIDE DEF W, k
    <3>5. W <= S!Most(0, k - rate)
      BY <3>4, <2>1, <2>2, <1>1, <1>5, <1>8
    <3>6. /\ W \in Int /\ S!Most(0, k - rate) \in Int /\ d \in Int
          /\ s.entry \in Nat \ {0} /\ Spare(venue, s, d, W)
      BY <1>1, <1>2, <1>5, <2>2
    <3> DEFINE m == S!Most(0, k - rate)
    <3> HIDE DEF m
    <3>7. W <= m /\ m \in Int
      BY <3>5, <3>6 DEF m
    <3>8. Spare(venue, s, d, m)
      BY <3>6, <3>7, SpareMonotone
    <3> QED BY <3>8 DEF m, k
  <2>4. CASE L = 1
    <3>1. k = 10000
      BY <2>1, <2>4
    <3>2. 10000 - R <= S!Most(0, k - rate)
      <4> HIDE DEF k
      <4> QED BY <3>1, <2>1, <2>2, <1>1, <1>8
    <3> HIDE DEF k
    <3>3. 10000 - R \in Int
      BY <1>1
    <3>4. /\ S!Most(0, k - rate) \in Int /\ d \in Int
          /\ s.entry \in Nat \ {0} /\ Spare(venue, s, d, 10000 - R)
      BY <1>1, <1>2, <2>2
    <3> DEFINE m == S!Most(0, k - rate)
    <3> HIDE DEF m
    <3>5. 10000 - R <= m /\ m \in Int
      BY <3>2, <3>4 DEF m
    <3>6. Spare(venue, s, d, m)
      BY <3>3, <3>4, <3>5, SpareMonotone
    <3> QED BY <3>6 DEF m, k
  <2> QED BY <1>7, <2>3, <2>4
<1> QED BY <1>7, <1>8 DEF L, d, R

\* A signal that no check before the liquidation's refuses.
Passed(s) ==
    /\ ~S!StopRefused(s) /\ S!Room > 0 /\ S!Available > 0
    /\ rulebook.policy = "conservative" => S!SlotMargin > 0

LEMMA PassesInOrder ==
    ASSUME NEW s, S!Refusal(s) \notin {"stop", "exposure", "minimum", "margin"},
           S!Room \in Int, S!Available \in Int, S!Available > 0 => S!SlotMargin \in Int
    PROVE  Passed(s) /\ ~(S!Sized(s) < rulebook.minNotional)
<1>1. ~S!StopRefused(s)
  BY Zenon DEF S!Refusal
<1>2. ~(S!Room <= 0)
  BY Zenon, <1>1 DEF S!Refusal
<1>3. ~(S!Sized(s) < rulebook.minNotional)
  BY Zenon, <1>1, <1>2 DEF S!Refusal
<1>4. ~(S!Available <= 0 \/ (rulebook.policy = "conservative" /\ S!SlotMargin <= 0))
  BY Zenon, <1>1, <1>2, <1>3 DEF S!Refusal
<1> QED BY <1>1, <1>2, <1>3, <1>4 DEF Passed

\* A notional whose margin is more than what is free at a leverage exceeds what that
\* leverage makes of it.
LEMMA ShrinksOnly ==
    ASSUME NEW n \in Nat, NEW L \in Nat \ {0}, NEW A \in Nat, S!Ceiling(n, L) > A
    PROVE  A * L <= n /\ A * L \in Nat
<1>1. S!Ceiling(n, L) \in Int /\ L * S!Ceiling(n, L) < n + L
  BY RoundedUp
<1>2. L * (A + 1) <= L * S!Ceiling(n, L) /\ L * (A + 1) \in Int /\ L * S!Ceiling(n, L) \in Int
  BY <1>1, TimesMonotone
<1>3. L * (A + 1) = A * L + L /\ A * L \in Nat
  OBVIOUS
<1> QED BY <1>1, <1>2, <1>3

\* What one slot of the conservative policy may take is free.
LEMMA SlotIsFree ==
    ASSUME RulebookTyped(rulebook), fund \in Nat, S!OpenMargin \in Nat,
           Len(atRisk) \in Nat
    PROVE  /\ S!SlotMargin \in Int
           /\ S!SlotMargin > 0 => S!SlotMargin <= S!Available
<1> DEFINE k == 10000 - rulebook.reserve
           x == (fund * k) \div 10000 - S!OpenMargin
           y == S!Most(1, rulebook.maxOpen - Len(atRisk))
           m == x \div y
<1>1. k \in Nat /\ k <= 10000 /\ rulebook.maxOpen - Len(atRisk) \in Int
  <2>1. rulebook.reserve \in Nat /\ rulebook.reserve <= 10000
    BY DEF RulebookTyped
  <2>2. rulebook.maxOpen \in Int
    BY DEF RulebookTyped
  <2>3. rulebook.maxOpen - Len(atRisk) \in Int
    BY <2>2
  <2>4. k \in Nat /\ k <= 10000
    BY <2>1
  <2> QED BY <2>3, <2>4
<1>2. S!SlotMargin = m
  BY DEF S!SlotMargin
<1>3. y \in Nat \ {0}
  <2> DEFINE z == rulebook.maxOpen - Len(atRisk)
  <2>1. z \in Int
    BY <1>1
  <2> HIDE DEF z
  <2>2. S!Most(1, z) \in Nat \ {0}
    BY <2>1 DEF S!Most
  <2> QED BY <2>2 DEF z
<1> HIDE DEF y
<1>4. x \in Int /\ x <= S!Available
  <2> DEFINE z == fund * k
  <2>1. z <= fund * 10000 /\ z \in Int
    <3> HIDE DEF k
    <3> QED BY <1>1
  <2>2. x = z \div 10000 - S!OpenMargin
    OBVIOUS
  <2> HIDE DEF x, z
  <2> QED BY <2>1, <2>2 DEF S!Available
<1> HIDE DEF x
<1>5. m \in Int /\ y * m <= x
  BY <1>3, <1>4, Quotient
<1> HIDE DEF m
<1>6. ASSUME m > 0 PROVE m <= y * m /\ y * m \in Int
  BY <1>3, <1>5, <1>6
<1>7. S!Available \in Int
  BY DEF S!Available
<1> QED BY <1>2, <1>4, <1>5, <1>6, <1>7

\* The leverage stays within the safe one, the margin within what is free, and the
\* notional only shrinks.
LEMMA SolvedFacts ==
    ASSUME RulebookTyped(rulebook), NEW s, Passed(s), S!Sized(s) \in Nat,
           S!SafeLeverage(s) \in Nat \ {0}, S!Available \in Int, S!SlotMargin \in Int,
           S!SlotMargin > 0 => S!SlotMargin <= S!Available
    PROVE  /\ S!Solved(s).leverage \in 1 .. S!SafeLeverage(s)
           /\ S!Solved(s).margin \in Nat /\ S!Solved(s).margin <= S!Available
           /\ S!Solved(s).notional \in Nat /\ S!Solved(s).notional <= S!Sized(s)
<1> DEFINE n == S!Sized(s)
           L == S!SafeLeverage(s)
           A == S!Available
           C == S!ChosenLeverage(s)
           M == S!SlotMargin
           c == S!Ceiling(n, C)
<1>1. n \in Nat /\ L \in Nat \ {0} /\ A \in Nat \ {0} /\ M \in Int /\ (M > 0 => M <= A)
  BY DEF Passed
<1>2. \/ C = L
      \/ M > 0 /\ C = S!Least(S!Most(1, S!Ceiling(n, M)), L)
  BY DEF Passed, RulebookTyped, S!ChosenLeverage
<1>3. S!Solved(s) = IF c > A THEN [notional |-> A * L, leverage |-> L, margin |-> A]
                    ELSE [notional |-> n, leverage |-> C, margin |-> c]
  BY DEF S!Solved
<1> HIDE DEF n, L, A, C, M
<1>4. M > 0 => /\ S!Ceiling(n, M) \in Nat /\ n <= M * S!Ceiling(n, M)
  BY <1>1, RoundedUp
<1>5. C \in 1 .. L
  BY <1>1, <1>2, <1>4 DEF S!Least, S!Most
<1>6. c \in Nat /\ C * c < n + C
  BY <1>1, <1>5, RoundedUp
<1>7. ASSUME c > A PROVE C = L
  <2> SUFFICES ASSUME C # L PROVE FALSE
    OBVIOUS
  <2> DEFINE u == S!Ceiling(n, M)
  <2>1. M > 0 /\ C >= u /\ u \in Nat /\ n <= M * u
    BY <1>1, <1>2, <1>4 DEF S!Least, S!Most
  <2> HIDE DEF u, c
  <2>2. M * u <= M * C /\ M * u \in Int /\ M * C \in Int
    BY <2>1, <1>1, <1>5, TimesMonotone
  <2>3. C * c < C * M + C
    <3>1. C * M = M * C /\ C * c \in Int
      BY <1>1, <1>5, <1>6
    <3> QED BY <3>1, <2>1, <2>2, <1>1, <1>5, <1>6
  <2>4. c <= M
    BY <2>3, <1>1, <1>5, <1>6, TimesCancels
  <2> QED BY <2>1, <2>4, <1>1, <1>6, <1>7
<1>8. CASE c > A
  <2>1. A * L <= n /\ A * L \in Nat
    <3>1. C = L
      BY <1>7, <1>8
    <3> QED BY <3>1, <1>8, <1>1, ShrinksOnly
  <2> HIDE DEF c
  <2>2. S!Solved(s) = [notional |-> A * L, leverage |-> L, margin |-> A]
    BY <1>3, <1>8
  <2> QED BY <2>1, <2>2, <1>1 DEF n, L, A
<1>9. CASE ~(c > A)
  <2> HIDE DEF c
  <2>1. S!Solved(s) = [notional |-> n, leverage |-> C, margin |-> c]
    BY <1>3, <1>9
  <2> QED BY <2>1, <1>1, <1>5, <1>6, <1>9 DEF n, L, A
<1> QED BY <1>8, <1>9

\* The notional the risk formula asks for keeps the loss at the stop, costs included,
\* within the budget.
LEMMA TargetWithinBudget ==
    ASSUME RulebookTyped(rulebook), NEW s, IdeaTyped(s), fund \in Nat,
           S!StopDist(s) \in Nat \ {0}
    PROVE  /\ S!TargetNotional(s) \in Nat
           /\ S!TargetNotional(s) * (S!StopDist(s) + rulebook.cost)
                  <= ((fund * rulebook.risk) \div 100) * 150
<1> DEFINE B == (fund * rulebook.risk) \div 100
           m == S!Multiplier(s)
           b == S!Budget(s)
           w == S!StopDist(s) + rulebook.cost
           t == S!TargetNotional(s)
<1>1. rulebook.risk \in Nat /\ rulebook.cost \in Nat
  BY DEF RulebookTyped
<1>2. B \in Nat
  <2>1. fund * rulebook.risk \in Nat
    BY <1>1
  <2> QED BY <2>1
<1>3. m \in Nat /\ m <= 150
  BY MultiplierBounds
<1>4. b = (B * m) \div 10000 /\ t = (b * 10000) \div w
  BY DEF S!Budget, S!TargetNotional
<1>5. w \in Nat \ {0}
  BY <1>1
<1> HIDE DEF B, m, b, w, t
<1>6. B * m \in Nat /\ B * m <= B * 150
  BY <1>2, <1>3
<1>7. b \in Nat /\ b * 10000 <= B * m
  <2> DEFINE x == B * m
  <2>1. x \in Nat /\ b = x \div 10000
    BY <1>4, <1>6
  <2> HIDE DEF x
  <2>2. b \in Nat /\ b * 10000 <= x
    BY <2>1
  <2> QED BY <2>2 DEF x
<1>8. t \in Int /\ w * t <= b * 10000 /\ t >= 0
  <2>1. b * 10000 \in Int /\ w * 0 <= b * 10000
    BY <1>5, <1>7
  <2> QED BY <2>1, <1>4, <1>5, Quotient, QuotientAtLeast
<1>9. t * w = w * t /\ w * t \in Int /\ B * 150 \in Int
  BY <1>2, <1>5, <1>8
<1> QED BY <1>6, <1>7, <1>8, <1>9 DEF B, w, t

\* A stop behind which there is something to spare fires before the liquidation, sent as
\* it is or rounded to the tick.
LEMMA SpareInside ==
    ASSUME VenueTyped(venue), NEW s, IdeaTyped(s), NEW stop \in Int, NEW d \in Nat,
           NEW share \in Int, Spare(venue, s, d, share),
           s.side = "LONG" => stop <= s.entry, s.side = "SHORT" => stop >= s.entry,
           S!Abs(s.entry - stop) * 10000 <= d * s.entry
    PROVE  /\ S!Inside(s.side, stop, S!Toward(s, (s.entry * share) \div 10000))
           /\ S!Inside(s.side, S!ToTick(stop), S!Toward(s, (s.entry * share) \div 10000))
<1> DEFINE e == s.entry
           t == venue.tick
           x == e * share
           k == x \div 10000
           half == t \div 2
           p == S!ToTick(stop)
<1>1. e \in Nat \ {0} /\ t \in Nat \ {0} /\ s.side \in {"LONG", "SHORT"}
  BY DEF IdeaTyped, VenueTyped
<1>2. /\ p \in Int /\ 2 * (p - stop) <= t /\ 2 * (stop - p) <= t
  BY <1>1, HalfATick
<1>3. e * d + 10000 * (half + 1) <= x /\ x \in Int /\ e * d = d * e /\ e * d \in Int
  BY <1>1 DEF Spare
<1>4. half \in Nat /\ p - stop <= half /\ stop - p <= half
  BY <1>1, <1>2
<1>5. S!Abs(e - stop) \in Int /\ S!Abs(e - stop) * 10000 <= e * d
  <2>1. e - stop \in Int
    BY <1>1
  <2> QED BY <2>1, <1>3 DEF S!Abs
<1>6. S!Abs(e - stop) + half + 1 <= k /\ k \in Int
  <2> HIDE DEF x, half
  <2>1. (S!Abs(e - stop) + half + 1) * 10000 <= x
    BY <1>3, <1>4, <1>5
  <2> DEFINE a == S!Abs(e - stop) + half + 1
  <2>2. a \in Int /\ 10000 * a <= x
    BY <2>1, <1>4, <1>5
  <2> HIDE DEF a
  <2>3. a <= k /\ k \in Int
    BY <2>2, <1>3
  <2> QED BY <2>3 DEF a
<1>7. S!Toward(s, k) = IF s.side = "LONG" THEN e - k ELSE e + k
  BY DEF S!Toward
<1>8. s.side = "LONG" => stop <= e
  OBVIOUS
<1>9. s.side = "SHORT" => stop >= e
  OBVIOUS
<1> HIDE DEF k, half, p
<1>10. CASE s.side = "LONG"
  <2>1. S!Abs(e - stop) = e - stop
    BY <1>8, <1>10, <1>1 DEF S!Abs
  <2>2. stop > e - k /\ p > e - k
    BY <2>1, <1>1, <1>2, <1>4, <1>6
  <2>3. S!Toward(s, k) = e - k
    BY <1>7, <1>10
  <2>4. S!Inside(s.side, stop, S!Toward(s, k)) /\ S!Inside(s.side, p, S!Toward(s, k))
    BY <2>2, <2>3, <1>10 DEF S!Inside
  <2> QED BY <2>4 DEF k, p
<1>11. CASE s.side = "SHORT"
  <2>1. S!Abs(e - stop) = stop - e
    BY <1>9, <1>11, <1>1 DEF S!Abs
  <2>2. stop < e + k /\ p < e + k
    BY <2>1, <1>1, <1>2, <1>4, <1>6
  <2>3. S!Toward(s, k) = e + k
    BY <1>7, <1>11
  <2>4. S!Inside(s.side, stop, S!Toward(s, k)) /\ S!Inside(s.side, p, S!Toward(s, k))
    BY <2>2, <2>3, <1>11 DEF S!Inside
  <2> QED BY <2>4 DEF k, p
<1> QED BY <1>1, <1>10, <1>11

\* The targets close the position once.
LEMMA PartsFacts ==
    ASSUME RulebookTyped(rulebook), NEW s
    PROVE  /\ \A i \in 1 .. 3 : S!Targets(s)[i].part \in Nat
           /\ S!Targets(s)[1].part + S!Targets(s)[2].part + S!Targets(s)[3].part <= 100
<1> DEFINE T == S!Targets(s)
<1>1. /\ \A i \in 1 .. 3 : rulebook.parts[i] \in Nat
      /\ rulebook.parts[1] + rulebook.parts[2] + rulebook.parts[3] <= 100
  BY DEF RulebookTyped
<1>2. \/ \A i \in 1 .. 3 : T[i].part = IF i = 1 THEN 100 ELSE 0
      \/ \A i \in 1 .. 3 : T[i].part = rulebook.parts[i]
  <2>1. CASE s.profile = "reversion" BY <2>1 DEF S!Targets
  <2>2. CASE s.profile = "trend" BY <2>2 DEF S!Targets
  <2>3. CASE s.profile = "bugra" BY <2>3 DEF S!Targets
  <2>4. CASE s.profile \notin {"reversion", "trend", "bugra"} BY <2>4 DEF S!Targets
  <2> QED BY <2>1, <2>2, <2>3, <2>4
<1> HIDE DEF T
<1>3. T[1].part + T[2].part + T[3].part <= 100 /\ \A i \in 1 .. 3 : T[i].part \in Nat
  <2>1. 1 \in 1 .. 3 /\ 2 \in 1 .. 3 /\ 3 \in 1 .. 3
    OBVIOUS
  <2>2. CASE \A i \in 1 .. 3 : T[i].part = IF i = 1 THEN 100 ELSE 0
    <3>1. T[1].part = 100 /\ T[2].part = 0 /\ T[3].part = 0
      BY <2>1, <2>2
    <3> QED BY <2>2, <3>1
  <2>3. CASE \A i \in 1 .. 3 : T[i].part = rulebook.parts[i]
    <3>1. /\ T[1].part = rulebook.parts[1] /\ T[2].part = rulebook.parts[2]
          /\ T[3].part = rulebook.parts[3]
      BY <2>1, <2>3
    <3> QED BY <2>3, <3>1, <1>1
  <2> QED BY <1>2, <2>2, <2>3
<1> QED BY <1>3 DEF T

\* The ticket of a signal that passed.
Ticket(s) ==
    [sig |-> s, stop |-> S!NormalStop(s), dist |-> S!StopDist(s),
     notional |-> S!Solved(s).notional, leverage |-> S!Solved(s).leverage,
     margin |-> S!Solved(s).margin, targets |-> S!Targets(s),
     loss |-> (S!Solved(s).notional * (S!StopDist(s) + rulebook.cost)) \div 10000]

\* What is bought with the balance is bought with a positive one.
LEMMA FundsFacts ==
    ASSUME SizingConstants, SizingInv
    PROVE  /\ S!Room \in Int /\ S!Available \in Int /\ Len(atRisk) \in Nat
           /\ S!Available > 0 => fund \in Nat
           /\ fund \in Nat => S!SlotMargin \in Int
           /\ RulebookTyped(rulebook) /\ RulebookTiers(rulebook) /\ VenueTyped(venue)
           /\ \A s \in Ideas : IdeaTyped(s) /\ BufferCounts(rulebook, venue, s)
<1>1. S!OpenNotional \in Nat /\ S!OpenMargin \in Nat /\ fund \in Int /\ Len(atRisk) \in Nat
  BY OpenSums DEF SizingInv
<1>2. /\ RulebookTyped(rulebook) /\ RulebookTiers(rulebook) /\ VenueTyped(venue)
      /\ \A s \in Ideas : IdeaTyped(s) /\ BufferCounts(rulebook, venue, s)
  BY DEF SizingInv, SizingConstants
<1>3. S!Room \in Int
  <2>1. rulebook.exposure \in Nat
    BY <1>2 DEF RulebookTyped
  <2>2. fund * rulebook.exposure \in Int
    BY <2>1, <1>1
  <2> QED BY <2>2, <1>1 DEF S!Room
<1>4. S!Available \in Int /\ (S!Available > 0 => fund \in Nat)
  BY <1>1 DEF S!Available
<1>5. fund \in Nat => S!SlotMargin \in Int
  BY <1>1, <1>2, SlotIsFree
<1> QED BY <1>1, <1>2, <1>3, <1>4, <1>5

LEMMA TicketMade ==
    ASSUME SizingConstants, SizingInv, NEW s \in Ideas, Passed(s)
    PROVE  /\ TicketSound(Ticket(s))
           /\ S!Inside(s.side, S!NormalStop(s),
                       S!Liquidation(s, S!Solved(s).leverage, S!MaintRate(S!Sized(s))))
<1> DEFINE d == S!StopDist(s)
           n == S!Sized(s)
           lev == S!Solved(s).leverage
           N == S!Solved(s).notional
           G == S!Solved(s).margin
<1>1. /\ RulebookTyped(rulebook) /\ RulebookTiers(rulebook) /\ VenueTyped(venue)
      /\ IdeaTyped(s) /\ BufferCounts(rulebook, venue, s)
      /\ S!Room \in Int /\ S!Available \in Int /\ S!SlotMargin \in Int
      /\ fund \in Nat /\ Len(atRisk) \in Nat
      /\ ~S!StopRefused(s) /\ S!Room > 0 /\ S!Available > 0
  BY FundsFacts DEF Passed
<1>2. /\ d \in Nat \ {0} /\ S!NormalStop(s) \in Int
      /\ s.side = "LONG" => S!NormalStop(s) <= s.entry
      /\ s.side = "SHORT" => S!NormalStop(s) >= s.entry
      /\ S!Abs(s.entry - S!NormalStop(s)) * 10000 <= d * s.entry
  BY <1>1, StopFacts
<1>3. /\ S!TargetNotional(s) \in Nat
      /\ S!TargetNotional(s) * (d + rulebook.cost) <= ((fund * rulebook.risk) \div 100) * 150
  BY <1>1, <1>2, TargetWithinBudget
<1>4. n \in Nat /\ n <= S!TargetNotional(s) /\ n <= S!Room
  BY <1>1, <1>3 DEF S!Sized, S!Least
<1>5. /\ S!SafeLeverage(s) \in Nat \ {0}
      /\ \A l \in 1 .. S!SafeLeverage(s), rate \in Nat :
             rate <= S!MaintRate(n) => Spare(venue, s, d, S!Most(0, 10000 \div l - rate))
  BY <1>1, <1>4, LeverageSpares
<1>6. S!OpenMargin \in Nat /\ S!OpenNotional \in Nat
  BY OpenSums DEF SizingInv
<1>7. S!SlotMargin > 0 => S!SlotMargin <= S!Available
  BY <1>1, <1>6, SlotIsFree
<1>8. /\ lev \in 1 .. S!SafeLeverage(s) /\ lev \in Nat \ {0}
      /\ G \in Nat /\ G <= S!Available /\ N \in Nat /\ N <= n
  BY <1>1, <1>4, <1>5, <1>7, SolvedFacts
<1>9. /\ S!MaintRate(n) \in Nat /\ S!MaintRate(N) \in Nat /\ S!MaintRate(N) <= S!MaintRate(n)
  <2>1. n \in Int /\ N \in Int /\ N <= n
    BY <1>4, <1>8
  <2>2. RulebookTyped(rulebook) /\ RulebookTiers(rulebook)
    BY <1>1
  <2> QED BY ONLY <2>1, <2>2, RateOfNotional
<1> HIDE DEF d, n, lev, N, G
<1>10. rulebook.cost \in Nat
  BY <1>1 DEF RulebookTyped
<1>11. /\ Ticket(s).sig = s /\ Ticket(s).stop = S!NormalStop(s) /\ Ticket(s).notional = N
       /\ Ticket(s).margin = G /\ Ticket(s).leverage = lev /\ Ticket(s).dist = d
       /\ Ticket(s).targets = S!Targets(s)
       /\ Ticket(s).loss = (N * (d + rulebook.cost)) \div 10000
  BY DEF Ticket, d, N, G, lev
<1>17. TicketTyped(Ticket(s))
  <2>1. N * (d + rulebook.cost) \in Nat
    BY <1>2, <1>8, <1>10
  <2>2. (N * (d + rulebook.cost)) \div 10000 \in Int
    BY <2>1
  <2> QED BY <1>2, <1>8, <1>11, <1>1, <2>2, PartsFacts DEF TicketTyped
<1>12. TicketFits(Ticket(s))
  <2> DEFINE x == fund * rulebook.exposure
  <2>1. x \in Int
    BY <1>1 DEF RulebookTyped
  <2>2. S!Room = x \div 100 - S!OpenNotional
    BY DEF S!Room
  <2> HIDE DEF x
  <2>3. (S!OpenNotional + N) * 100 <= x
    BY <2>1, <2>2, <1>4, <1>6, <1>8, <1>1
  <2>4. S!OpenMargin + G <= fund
    BY <1>1, <1>6, <1>8 DEF S!Available
  <2> QED BY <2>3, <2>4, <1>11 DEF TicketFits, x
<1>13. TicketStop(Ticket(s))
  BY <1>2, <1>11 DEF TicketStop
<1>14. TicketBudget(Ticket(s))
  <2> DEFINE w == d + rulebook.cost
             B == ((fund * rulebook.risk) \div 100) * 150
  <2>1. w \in Nat
    BY <1>2, <1>10
  <2>2. N * w <= S!TargetNotional(s) * w /\ N * w \in Int /\ S!TargetNotional(s) * w \in Int
    <3> HIDE DEF w
    <3> QED BY <2>1, <1>3, <1>4, <1>8, TimesMonotone
  <2>3. B \in Int
    <3>1. fund * rulebook.risk \in Int
      BY <1>1 DEF RulebookTyped
    <3> QED BY <3>1
  <2>4. S!TargetNotional(s) * w <= B
    BY <1>3
  <2> HIDE DEF w, B
  <2>5. N * w <= B
    BY <2>2, <2>3, <2>4
  <2> QED BY <2>5, <1>11 DEF TicketBudget, w, B
<1>15. TicketSafe(Ticket(s))
  <2>1. Spare(venue, s, d, S!Most(0, 10000 \div lev - S!MaintRate(N)))
    BY <1>5, <1>8, <1>9
  <2> QED BY <2>1, <1>11 DEF TicketSafe
<1>16. S!Inside(s.side, S!NormalStop(s), S!Liquidation(s, lev, S!MaintRate(n)))
  <2> DEFINE share == S!Most(0, 10000 \div lev - S!MaintRate(n))
  <2>1. Spare(venue, s, d, share)
    BY <1>5, <1>8, <1>9
  <2>2. 10000 \div lev \in Int
    BY <1>8, Quotient
  <2>3. share \in Int
    <3> DEFINE z == 10000 \div lev - S!MaintRate(n)
    <3>1. z \in Int
      BY <2>2, <1>9
    <3> HIDE DEF z
    <3>2. S!Most(0, z) \in Int
      BY <3>1 DEF S!Most
    <3> QED BY <3>2 DEF z
  <2>4. S!Liquidation(s, lev, S!MaintRate(n)) = S!Toward(s, (s.entry * share) \div 10000)
    BY Zenon DEF S!Liquidation
  <2> HIDE DEF share
  <2>5. d \in Nat
    BY <1>2
  <2>6. S!Inside(s.side, S!NormalStop(s), S!Toward(s, (s.entry * share) \div 10000))
    BY <2>1, <2>3, <2>5, <1>1, <1>2, SpareInside
  <2> QED BY <2>4, <2>6
<1> QED BY <1>12, <1>13, <1>14, <1>15, <1>16, <1>17 DEF TicketSound, n, lev

--------------------------------------------------------------------------------
(* The generations of an entry order.                                      *)

LEMMA ChainFacts ==
    ASSUME NEW g, NEW qty, Chain(g, qty)
    PROVE  /\ Len(g) \in Nat \ {0} /\ DOMAIN g = 1 .. Len(g) /\ Len(g) \in DOMAIN g
           /\ \A i \in DOMAIN g : g[i] \in Generations /\ FillsOf(g)[i] = g[i].filled
           /\ \A i \in DOMAIN g : g[i].qty \in Nat /\ g[i].filled \in Nat
           /\ DOMAIN FillsOf(g) = DOMAIN g
           /\ IsFiniteSet(DOMAIN g) /\ Total(FillsOf(g), DOMAIN g) \in Nat
<1>1. g \in Seq(Generations) /\ Len(g) > 0
  BY DEF Chain
<1>2. Len(g) \in Nat \ {0} /\ DOMAIN g = 1 .. Len(g) /\ Len(g) \in DOMAIN g
  BY <1>1
<1>3. \A i \in DOMAIN g : g[i] \in Generations
  BY <1>1
<1>4. \A i \in DOMAIN g : g[i].qty \in Nat /\ g[i].filled \in Nat
  BY <1>3 DEF Generations
<1>5. DOMAIN FillsOf(g) = DOMAIN g /\ \A i \in DOMAIN g : FillsOf(g)[i] = g[i].filled
  BY DEF FillsOf
<1>6. IsFiniteSet(DOMAIN g)
  BY <1>2, FS_Interval
<1>7. Total(FillsOf(g), DOMAIN g) \in Nat
  BY <1>4, <1>5, <1>6, TotalIsNat
<1> QED BY <1>2, <1>3, <1>4, <1>5, <1>6, <1>7

\* The newest generation fills or ends.
LEMMA NewestChanges ==
    ASSUME NEW g, NEW qty \in Int, Chain(g, qty), NEW c \in Generations,
           c.filled <= c.qty, c.qty = g[Len(g)].qty
    PROVE  Chain([g EXCEPT ![Len(g)] = c], qty)
<1> DEFINE n == Len(g)
           h == [g EXCEPT ![n] = c]
           D == DOMAIN g
<1>1. /\ n \in Nat \ {0} /\ D = 1 .. n /\ n \in D /\ IsFiniteSet(D)
      /\ g \in Seq(Generations)
      /\ \A i \in D : FillsOf(g)[i] = g[i].filled /\ g[i].filled \in Nat /\ g[i].qty \in Nat
  BY ChainFacts DEF Chain
<1>2. h \in Seq(Generations) /\ Len(h) = n /\ DOMAIN h = D /\ h[n] = c
      /\ \A i \in D : i # n => h[i] = g[i]
  BY <1>1
<1> HIDE DEF h, n
<1>3. c.filled \in Nat /\ c.qty \in Nat
  BY DEF Generations
<1>4. \A i \in D : FillsOf(h)[i] = h[i].filled
  BY <1>2 DEF FillsOf
<1>5. \A i \in D : FillsOf(h)[i] \in Int
  <2> TAKE i \in D
  <2>1. CASE i = n BY <2>1, <1>2, <1>3, <1>4
  <2>2. CASE i # n BY <2>2, <1>1, <1>2, <1>4
  <2> QED BY <2>1, <2>2
<1>6. Total(FillsOf(h), D \ {n}) = Total(FillsOf(g), D \ {n})
  <2>1. IsFiniteSet(D \ {n})
    BY <1>1, FS_Subset
  <2>2. \A i \in D \ {n} : FillsOf(h)[i] \in Int /\ FillsOf(h)[i] = FillsOf(g)[i]
    BY <1>1, <1>2, <1>4, <1>5
  <2> QED BY <2>1, <2>2, TotalSame
<1>7. /\ Total(FillsOf(h), D) = c.filled + Total(FillsOf(h), D \ {n})
      /\ Total(FillsOf(g), D) = g[n].filled + Total(FillsOf(g), D \ {n})
      /\ Total(FillsOf(g), D \ {n}) \in Int
  <2>1. \A i \in D : FillsOf(g)[i] \in Int
    BY <1>1
  <2>2. IsFiniteSet(D \ {n})
    BY <1>1, FS_Subset
  <2>3. Total(FillsOf(g), D \ {n}) \in Int
    BY <2>1, <2>2, TotalIsInt
  <2>4. FillsOf(h)[n] = c.filled /\ FillsOf(g)[n] = g[n].filled
    BY <1>1, <1>2, <1>4
  <2>5. Total(FillsOf(h), D) = FillsOf(h)[n] + Total(FillsOf(h), D \ {n})
    <3> DEFINE F == FillsOf(h)
    <3>1. IsFiniteSet(D) /\ n \in D /\ \A i \in D : F[i] \in Int
      BY <1>1, <1>5
    <3> HIDE DEF F, D
    <3>2. \A i \in D : Total(F, D) = F[i] + Total(F, D \ {i})
      BY <3>1, TotalRemove
    <3> QED BY <3>1, <3>2 DEF F
  <2>6. Total(FillsOf(g), D) = FillsOf(g)[n] + Total(FillsOf(g), D \ {n})
    <3> DEFINE F == FillsOf(g)
    <3>1. IsFiniteSet(D) /\ n \in D /\ \A i \in D : F[i] \in Int
      BY <1>1, <2>1
    <3> HIDE DEF F, D
    <3>2. \A i \in D : Total(F, D) = F[i] + Total(F, D \ {i})
      BY <3>1, TotalRemove
    <3> QED BY <3>1, <3>2 DEF F
  <2> QED BY <2>3, <2>4, <2>5, <2>6
<1>8. Total(FillsOf(g), D) + g[n].qty - g[n].filled = qty
  BY DEF Chain, n
<1>9. Total(FillsOf(h), D) + c.qty - c.filled = qty
  <2>1. g[n].filled \in Nat /\ g[n].qty \in Nat /\ c.qty = g[n].qty
    BY <1>1 DEF n
  <2> QED BY <1>3, <1>6, <1>7, <1>8, <2>1
<1>10. \A i \in D : i < n => ~S!Active(h[i])
  <2> TAKE i \in D
  <2> HAVE i < n
  <2>1. ~S!Active(g[i]) /\ i # n
    BY <1>1 DEF Chain, n
  <2>2. h[i] = g[i]
    BY <1>2, <2>1
  <2> QED BY <2>1, <2>2
<1>11. Chain(h, qty)
  BY <1>1, <1>2, <1>9, <1>10 DEF Chain
<1> QED BY <1>11 DEF h, n

\* What is left of an ended generation is placed again.
LEMMA NewestFollowed ==
    ASSUME NEW g, NEW qty \in Int, Chain(g, qty), ~S!Active(g[Len(g)]),
           NEW c \in Generations, c.filled = 0,
           c.qty = g[Len(g)].qty - g[Len(g)].filled
    PROVE  Chain(Append(g, c), qty)
<1> DEFINE n == Len(g)
           h == Append(g, c)
           D == DOMAIN g
           E == D \cup {n + 1}
<1>1. /\ n \in Nat \ {0} /\ D = 1 .. n /\ n \in D /\ IsFiniteSet(D)
      /\ g \in Seq(Generations)
      /\ \A i \in D : FillsOf(g)[i] = g[i].filled /\ g[i].filled \in Nat /\ g[i].qty \in Nat
      /\ Total(FillsOf(g), D) \in Nat
  BY ChainFacts DEF Chain
<1>2. h \in Seq(Generations) /\ Len(h) = n + 1 /\ DOMAIN h = E /\ h[n + 1] = c
      /\ \A i \in D : h[i] = g[i]
  BY <1>1
<1> HIDE DEF h, n
<1>3. n + 1 \notin D /\ n + 1 \in E
  BY <1>1
<1>4. \A i \in E : FillsOf(h)[i] = h[i].filled
  BY <1>2 DEF FillsOf
<1>5. FillsOf(h)[n + 1] = 0 /\ \A i \in D : FillsOf(h)[i] = FillsOf(g)[i]
  BY <1>1, <1>2, <1>3, <1>4
<1>6. Total(FillsOf(h), D) = Total(FillsOf(g), D)
  <2>1. \A i \in D : FillsOf(h)[i] \in Int /\ FillsOf(h)[i] = FillsOf(g)[i]
    BY <1>1, <1>5
  <2> QED BY <2>1, <1>1, TotalSame
<1>7. Total(FillsOf(h), E) = Total(FillsOf(h), D) + FillsOf(h)[n + 1]
  <2>1. \A i \in E : FillsOf(h)[i] \in Int
    BY <1>1, <1>5
  <2> QED BY <2>1, <1>1, <1>3, TotalAdd
<1>8. Total(FillsOf(g), D) + g[n].qty - g[n].filled = qty
  BY DEF Chain, n
<1>9. Total(FillsOf(h), E) + c.qty - c.filled = qty
  <2>1. g[n].filled \in Nat /\ g[n].qty \in Nat /\ c.qty = g[n].qty - g[n].filled
    BY <1>1 DEF n
  <2> QED BY <1>1, <1>5, <1>6, <1>7, <1>8, <2>1
<1>10. \A i \in E : i < n + 1 => ~S!Active(h[i])
  <2> TAKE i \in E
  <2> HAVE i < n + 1
  <2>1. i \in D /\ h[i] = g[i]
    BY <1>1, <1>2
  <2>2. CASE i = n BY <2>1, <2>2 DEF n
  <2>3. CASE i < n BY <2>1, <2>3 DEF Chain, n
  <2> QED BY <1>1, <2>1, <2>2, <2>3
<1>11. c.filled <= c.qty
  BY DEF Generations
<1>12. Chain(h, qty)
  BY <1>2, <1>9, <1>10, <1>11, <1>1 DEF Chain
<1> QED BY <1>12 DEF h

--------------------------------------------------------------------------------
(* The inductive invariant.                                                *)

\* A ticket stays sound while nothing it was made from changes.
LEMMA SoundKept ==
    ASSUME NEW t, TicketSound(t), ticket' = t, UNCHANGED <<rulebook, venue, fund, atRisk>>
    PROVE  TicketSound(ticket)'
<1>1. S!OpenMargin' = S!OpenMargin /\ S!OpenNotional' = S!OpenNotional
  BY Zenon DEF S!OpenMargin, S!OpenNotional
<1>2. S!MaintRate(ticket.notional)' = S!MaintRate(t.notional)
  BY DEF S!MaintRate
<1>3. TicketTyped(ticket)'
  BY Zenon DEF TicketSound
<1>4. TicketFits(ticket)'
  BY <1>1 DEF TicketSound, TicketFits
<1>5. TicketStop(ticket)'
  BY Zenon DEF TicketSound
<1>6. TicketBudget(ticket)'
  BY DEF TicketSound, TicketBudget
<1>7. TicketSafe(ticket)'
  <2>1. /\ Spare(venue, t.sig, t.dist, S!Most(0, 10000 \div t.leverage - S!MaintRate(t.notional)))
        /\ ticket' = t /\ venue' = venue
    BY DEF TicketSound, TicketSafe
  <2> QED BY <1>2, <2>1 DEF TicketSafe
<1> QED BY <1>3, <1>4, <1>5, <1>6, <1>7 DEF TicketSound

\* The liquidation check never refuses.
LEMMA NeverLiquidation ==
    ASSUME SizingConstants, SizingInv, NEW s \in Ideas
    PROVE  /\ S!Refusal(s) # "liquidation"
           /\ S!Refusal(s) = NoTicket => TicketSound(Ticket(s))
<1>1. ASSUME S!Refusal(s) \notin {"stop", "exposure", "minimum", "margin"}
      PROVE  /\ TicketSound(Ticket(s)) /\ S!Refusal(s) # "liquidation"
  <2>1. S!Room \in Int /\ S!Available \in Int /\ (S!Available > 0 => S!SlotMargin \in Int)
    BY FundsFacts
  <2>2. Passed(s) /\ ~(S!Sized(s) < rulebook.minNotional)
    BY <1>1, <2>1, PassesInOrder
  <2>3. /\ TicketSound(Ticket(s))
        /\ S!Inside(s.side, S!NormalStop(s),
                    S!Liquidation(s, S!Solved(s).leverage, S!MaintRate(S!Sized(s))))
    BY <2>2, TicketMade
  <2>4. S!Refusal(s) # "liquidation"
    <3>1. ~S!StopRefused(s) /\ ~(S!Room <= 0) /\ ~(S!Available <= 0)
          /\ ~(rulebook.policy = "conservative" /\ S!SlotMargin <= 0)
      BY <2>1, <2>2 DEF Passed
    <3>2. S!Refusal(s) = NoTicket
      BY Zenon, <3>1, <2>2, <2>3 DEF S!Refusal
    <3> QED BY <3>2 DEF SizingConstants
  <2> QED BY <2>3, <2>4
<1>2. "liquidation" \notin {"stop", "exposure", "minimum", "margin"}
  OBVIOUS
<1>3. NoTicket \notin {"stop", "exposure", "minimum", "margin"}
  BY DEF SizingConstants
<1>4. CASE S!Refusal(s) \in {"stop", "exposure", "minimum", "margin"}
  BY <1>2, <1>3, <1>4
<1> QED BY <1>1, <1>4

LEMMA SizingStarts == ASSUME SizingConstants, S!Init PROVE SizingInv
<1>1. /\ rulebook \in Rulebooks /\ venue \in Venues /\ fund \in Purses /\ atRisk = <<>>
      /\ ticket = NoTicket /\ refusal = NoTicket /\ payloads = NoTicket
  BY DEF S!Init
<1> QED BY <1>1 DEF SizingInv, SizingConstants

\* Steps that leave the process and its book alone, and neither make nor send a ticket.
LEMMA QuietStep ==
    ASSUME SizingInv, UNCHANGED <<rulebook, venue, fund, atRisk>>,
           refusal' # "liquidation",
           \/ ticket' = NoTicket /\ payloads' = NoTicket
           \/ /\ ticket' = ticket /\ payloads' = payloads
              /\ payloads # NoTicket => Chain(renewals', payloads.entry.qty)
    PROVE  SizingInv'
<1>1. /\ rulebook' \in Rulebooks /\ venue' \in Venues /\ fund' \in Int
      /\ atRisk' \in Seq(OpenTrades)
  BY DEF SizingInv
<1>2. CASE ticket' = NoTicket /\ payloads' = NoTicket
  BY <1>1, <1>2 DEF SizingInv
<1>3. CASE /\ ticket' = ticket /\ payloads' = payloads
           /\ payloads # NoTicket => Chain(renewals', payloads.entry.qty)
  <2>1. ticket' # NoTicket => TicketSound(ticket)'
    <3> SUFFICES ASSUME ticket' # NoTicket PROVE TicketSound(ticket)'
      OBVIOUS
    <3>1. TicketSound(ticket)
      BY <1>3 DEF SizingInv
    <3> QED BY <3>1, <1>3, SoundKept
  <2>2. ASSUME payloads' # NoTicket
        PROVE  /\ ticket' # NoTicket /\ payloads' = S!Orders(ticket)'
               /\ Chain(renewals', payloads'.entry.qty)
    <3>1. ticket # NoTicket /\ payloads = S!Orders(ticket)
      BY <1>3, <2>2 DEF SizingInv
    <3>2. S!Orders(ticket)' = S!Orders(ticket)
      BY Zenon, <1>3 DEF S!Orders, S!EntryOrder, S!StopOrder, S!TargetOrders, S!TargetOrder,
                         S!EntryQty, S!StepDown, S!ToTick
    <3> QED BY <1>3, <2>2, <3>1, <3>2
  <2> QED BY <1>1, <2>1, <2>2 DEF SizingInv
<1> QED BY <1>2, <1>3

LEMMA AllowStep == ASSUME SizingConstants, SizingInv, NEW s \in Ideas, S!Allow(s) PROVE SizingInv'
<1>1. /\ ticket = NoTicket /\ S!Refusal(s) = NoTicket /\ ticket' = Ticket(s) /\ refusal' = NoTicket
      /\ UNCHANGED <<rulebook, venue, fund, atRisk>> /\ payloads' = payloads
  BY DEF S!Allow, S!Idle, Ticket
<1>2. TicketSound(ticket)'
  BY <1>1, NeverLiquidation, SoundKept
<1>3. payloads' = NoTicket
  BY <1>1 DEF SizingInv
<1>4. /\ rulebook' \in Rulebooks /\ venue' \in Venues /\ fund' \in Int
      /\ atRisk' \in Seq(OpenTrades) /\ refusal' # "liquidation"
  BY <1>1 DEF SizingInv, SizingConstants
<1> QED BY <1>2, <1>3, <1>4 DEF SizingInv

LEMMA OpenStep == ASSUME SizingConstants, SizingInv, S!Open PROVE SizingInv'
<1>1. /\ ticket # NoTicket /\ payloads' = NoTicket /\ ticket' = NoTicket
      /\ atRisk' = Append(atRisk, [notional |-> ticket.notional, margin |-> ticket.margin,
                                   loss |-> ticket.loss])
      /\ UNCHANGED <<rulebook, venue, fund, refusal>>
  BY DEF S!Open
<1>2. [notional |-> ticket.notional, margin |-> ticket.margin, loss |-> ticket.loss] \in OpenTrades
  BY <1>1 DEF SizingInv, TicketSound, TicketTyped, OpenTrades
<1>3. atRisk' \in Seq(OpenTrades)
  <2> DEFINE r == [notional |-> ticket.notional, margin |-> ticket.margin, loss |-> ticket.loss]
  <2>1. r \in OpenTrades /\ atRisk \in Seq(OpenTrades) /\ atRisk' = Append(atRisk, r)
    BY <1>1, <1>2 DEF SizingInv
  <2> HIDE DEF r
  <2> QED BY <2>1
<1> QED BY <1>1, <1>3 DEF SizingInv

LEMMA CloseStep ==
    ASSUME SizingInv, NEW i \in DOMAIN atRisk, NEW gain \in BOOLEAN, S!Close(i, gain)
    PROVE  /\ SizingInv' /\ atRisk \in Seq(OpenTrades) /\ atRisk' \in Seq(OpenTrades)
           /\ Len(atRisk') = Len(atRisk) - 1
<1>1. /\ ticket = NoTicket /\ ticket' = NoTicket /\ payloads' = payloads
      /\ fund' = fund + (IF gain THEN atRisk[i].loss ELSE -atRisk[i].loss)
      /\ atRisk' = SubSeq(atRisk, 1, i - 1) \o SubSeq(atRisk, i + 1, Len(atRisk))
      /\ UNCHANGED <<rulebook, venue, refusal>>
  BY DEF S!Close, S!RemoveAt
<1>2. /\ atRisk \in Seq(OpenTrades) /\ i \in 1 .. Len(atRisk) /\ Len(atRisk) \in Nat
      /\ \A j \in 1 .. Len(atRisk) : atRisk[j] \in OpenTrades
      /\ fund \in Int
  BY DEF SizingInv
<1>3. fund' \in Int
  <2>1. atRisk[i].loss \in Int
    BY <1>2 DEF OpenTrades
  <2> QED BY <2>1, <1>1, <1>2
<1>4. /\ SubSeq(atRisk, 1, i - 1) \in Seq(OpenTrades) /\ Len(SubSeq(atRisk, 1, i - 1)) = i - 1
  BY <1>2, SubSeqProperties
<1>5. /\ SubSeq(atRisk, i + 1, Len(atRisk)) \in Seq(OpenTrades)
      /\ Len(SubSeq(atRisk, i + 1, Len(atRisk))) = Len(atRisk) - i
  BY <1>2, SubSeqProperties
<1>6. atRisk' \in Seq(OpenTrades) /\ Len(atRisk') = Len(atRisk) - 1
  <2> DEFINE a == SubSeq(atRisk, 1, i - 1)
             b == SubSeq(atRisk, i + 1, Len(atRisk))
  <2>1. /\ a \in Seq(OpenTrades) /\ b \in Seq(OpenTrades)
        /\ Len(a) = i - 1 /\ Len(b) = Len(atRisk) - i /\ atRisk' = a \o b
    BY <1>1, <1>4, <1>5
  <2> HIDE DEF a, b
  <2>2. a \o b \in Seq(OpenTrades) /\ Len(a \o b) = Len(a) + Len(b)
    <3>1. a \in Seq(OpenTrades) /\ b \in Seq(OpenTrades)
      BY <2>1
    <3> QED BY ONLY <3>1, ConcatProperties
  <2> QED BY <1>2, <2>1, <2>2
<1>7. payloads' = NoTicket
  BY <1>1 DEF SizingInv
<1>8. SizingInv'
  BY <1>1, <1>3, <1>6, <1>7 DEF SizingInv
<1> QED BY <1>2, <1>6, <1>8

\* The quantity of the entry order is a whole number of steps within the notional.
LEMMA EntryQtyFacts ==
    ASSUME SizingConstants, SizingInv, NEW t, TicketSound(t)
    PROVE  S!EntryQty(t) \in Nat /\ S!EntryQty(t) * t.sig.entry <= t.notional
<1> DEFINE e == t.sig.entry
           k == venue.step
           q == t.notional \div e
           r == q \div k
<1>1. e \in Nat \ {0} /\ t.notional \in Nat
  BY DEF TicketSound, TicketTyped, SizingConstants, IdeaTyped
<1>2. k \in Nat \ {0}
  BY DEF SizingInv, SizingConstants, VenueTyped
<1>3. S!EntryQty(t) = r * k
  BY DEF S!EntryQty, S!StepDown
<1>4. q \in Nat /\ e * q <= t.notional /\ e * q \in Int
  <2>1. e * 0 <= t.notional
    BY <1>1
  <2> HIDE DEF e
  <2>2. q \in Int /\ e * q <= t.notional /\ 0 <= q
    BY <1>1, <2>1, Quotient, QuotientAtLeast
  <2> HIDE DEF q
  <2> QED BY <2>2, <1>1
<1> HIDE DEF q
<1>5. r \in Nat /\ k * r <= q
  <2>1. k * 0 <= q
    BY <1>2, <1>4
  <2> HIDE DEF k
  <2> QED BY <1>2, <1>4, <2>1, Quotient, QuotientAtLeast
<1> HIDE DEF r, k, e
<1>6. r * k \in Nat /\ r * k <= q
  BY <1>2, <1>5
<1> DEFINE z == r * k
<1>7. z * e <= q * e /\ z * e \in Int /\ q * e = e * q
  <2>1. z \in Nat /\ z <= q
    BY <1>6
  <2> HIDE DEF z
  <2> QED BY <2>1, <1>1, <1>4, TimesMonotone
<1>8. z * e <= t.notional
  <2> HIDE DEF z
  <2> QED BY <1>7, <1>4, <1>1
<1> QED BY <1>3, <1>6, <1>8 DEF e

LEMMA BuildStep == ASSUME SizingConstants, SizingInv, S!Build PROVE SizingInv'
<1>1. /\ ticket # NoTicket /\ payloads' = S!Orders(ticket) /\ ticket' = ticket
      /\ renewals' = <<[qty |-> S!EntryQty(ticket), filled |-> 0, status |-> "NEW"]>>
      /\ UNCHANGED <<rulebook, venue, fund, atRisk, refusal>>
  BY DEF S!Build
<1>2. TicketSound(ticket)
  BY <1>1 DEF SizingInv
<1>3. TicketSound(ticket)'
  BY <1>1, <1>2, SoundKept
<1>4. S!Orders(ticket)' = S!Orders(ticket)
  BY Zenon, <1>1 DEF S!Orders, S!EntryOrder, S!StopOrder, S!TargetOrders, S!TargetOrder,
                     S!EntryQty, S!StepDown, S!ToTick
<1> DEFINE q == S!EntryQty(ticket)
           c == [qty |-> q, filled |-> 0, status |-> "NEW"]
<1>5. q \in Nat
  BY <1>2, EntryQtyFacts
<1>6. payloads'.entry.qty = q
  BY <1>1 DEF S!Orders, S!EntryOrder
<1>7. renewals' = <<c>>
  BY <1>1
<1> HIDE DEF q
<1>8. c \in Generations /\ c.qty = q /\ c.filled = 0
  BY <1>5 DEF Generations
<1> HIDE DEF c
<1>9. Chain(<<c>>, q)
  <2>1. <<c>> \in Seq(Generations) /\ Len(<<c>>) = 1 /\ DOMAIN <<c>> = {1} /\ <<c>>[1] = c
    BY <1>8
  <2>2. Total(FillsOf(<<c>>), {1}) = 0
    <3> DEFINE F == FillsOf(<<c>>)
    <3>1. F[1] = 0
      BY <2>1, <1>8 DEF FillsOf
    <3> HIDE DEF F
    <3>2. IsFiniteSet({}) /\ 1 \notin {} /\ {} \cup {1} = {1}
      BY FS_EmptySet
    <3>3. Total(F, {} \cup {1}) = Total(F, {}) + F[1]
      BY <3>1, <3>2, TotalAdd
    <3> QED BY <3>1, <3>2, <3>3, TotalEmpty DEF F
  <2> QED BY <2>1, <2>2, <1>5, <1>8 DEF Chain
<1> QED BY <1>1, <1>3, <1>4, <1>6, <1>7, <1>9 DEF SizingInv

LEMMA NewestFacts ==
    ASSUME SizingInv, payloads # NoTicket
    PROVE  /\ Chain(renewals, payloads.entry.qty) /\ payloads.entry.qty \in Int
           /\ S!Current = renewals[Len(renewals)] /\ S!Current \in Generations
           /\ S!Current.qty \in Nat /\ S!Current.filled \in Nat
           /\ S!Current.filled <= S!Current.qty
<1>1. Chain(renewals, payloads.entry.qty)
  BY DEF SizingInv
<1>2. S!Current = renewals[Len(renewals)]
  BY DEF S!Current, S!Last
<1> DEFINE n == Len(renewals)
<1>3. n \in DOMAIN renewals /\ renewals[n] \in Generations /\ renewals[n].qty \in Nat
      /\ renewals[n].filled \in Nat /\ Total(FillsOf(renewals), DOMAIN renewals) \in Nat
  BY <1>1, ChainFacts
<1>4. /\ renewals[n].filled <= renewals[n].qty
      /\ Total(FillsOf(renewals), DOMAIN renewals) + renewals[n].qty - renewals[n].filled
            = payloads.entry.qty
  BY <1>1 DEF Chain
<1> QED BY <1>1, <1>2, <1>3, <1>4

LEMMA FillKeeps ==
    ASSUME SizingInv, NEW part \in Nat, S!Fill(part), payloads # NoTicket
    PROVE  Chain(renewals', payloads.entry.qty)
<1> DEFINE c == S!Current
           x == (c.qty * part) \div 100
           f == S!Least(x, S!Remaining(c))
           d == S!Filled(part)
<1>1. f > 0 /\ renewals' = [renewals EXCEPT ![Len(renewals)] = d]
  BY DEF S!Fill, S!SetCurrent
<1>2. /\ Chain(renewals, payloads.entry.qty) /\ payloads.entry.qty \in Int
      /\ c = renewals[Len(renewals)] /\ c \in Generations
      /\ c.qty \in Nat /\ c.filled \in Nat /\ c.filled <= c.qty
  BY NewestFacts
<1>3. d = [c EXCEPT !.filled = @ + f, !.status = IF S!Remaining(c) = f THEN "FILLED"
                                                 ELSE "PARTIALLY_FILLED"]
  BY DEF S!Filled
<1>4. S!Remaining(c) = c.qty - c.filled
  BY DEF S!Remaining
<1> HIDE DEF c
<1>5. x \in Nat
  <2>1. c.qty * part \in Nat
    BY <1>2
  <2> QED BY <2>1
<1> HIDE DEF x
<1>6. f \in Nat /\ f <= c.qty - c.filled
  BY <1>1, <1>2, <1>4, <1>5 DEF S!Least
<1> HIDE DEF f, d
<1>7. d \in Generations /\ d.qty = c.qty /\ d.filled = c.filled + f
  <2> DEFINE st == IF S!Remaining(c) = f THEN "FILLED" ELSE "PARTIALLY_FILLED"
             fl == c.filled + f
  <2>1. st \in {"NEW", "PARTIALLY_FILLED", "FILLED", "CANCELED"} /\ fl \in Nat
    BY <1>2, <1>6
  <2>2. d = [c EXCEPT !.filled = fl, !.status = st]
    BY <1>3
  <2> HIDE DEF st, fl
  <2>3. d \in Generations /\ d.qty = c.qty /\ d.filled = fl
    BY <2>1, <2>2, <1>2 DEF Generations
  <2> QED BY <2>3 DEF fl
<1>8. d.filled <= d.qty /\ d.qty = renewals[Len(renewals)].qty
  BY <1>2, <1>6, <1>7
<1>9. Chain([renewals EXCEPT ![Len(renewals)] = d], payloads.entry.qty)
  BY <1>2, <1>7, <1>8, NewestChanges
<1> QED BY <1>1, <1>9

\* The newest generation with its status changed to CANCELED.
LEMMA CancelKeeps ==
    ASSUME SizingInv, payloads # NoTicket, NEW d,
           d = [S!Current EXCEPT !.status = "CANCELED"]
    PROVE  /\ Chain(S!SetCurrent(d), payloads.entry.qty) /\ ~S!Active(d)
           /\ d.qty = S!Current.qty /\ d.filled = S!Current.filled
<1> DEFINE c == S!Current
<1>1. /\ Chain(renewals, payloads.entry.qty) /\ payloads.entry.qty \in Int
      /\ c = renewals[Len(renewals)] /\ c \in Generations
      /\ c.qty \in Nat /\ c.filled \in Nat /\ c.filled <= c.qty
  BY NewestFacts
<1>2. d = [c EXCEPT !.status = "CANCELED"]
  OBVIOUS
<1> HIDE DEF c
<1>3. d \in Generations /\ d.qty = c.qty /\ d.filled = c.filled /\ d.status = "CANCELED"
  BY <1>1, <1>2 DEF Generations
<1>4. Chain([renewals EXCEPT ![Len(renewals)] = d], payloads.entry.qty)
  BY <1>1, <1>3, NewestChanges
<1> QED BY <1>3, <1>4 DEF S!SetCurrent, S!Active, c

LEMMA ReplaceKeeps ==
    ASSUME SizingInv, S!CancelReplace, payloads # NoTicket
    PROVE  Chain(renewals', payloads.entry.qty)
<1> DEFINE c == S!Current
           d == [c EXCEPT !.status = IF S!Active(c) THEN "CANCELED" ELSE @]
           n == [qty |-> S!Remaining(c), filled |-> 0, status |-> "NEW"]
           g == S!SetCurrent(d)
           Q == payloads.entry.qty
<1>1. renewals' = Append(g, n)
  BY DEF S!CancelReplace, S!Replaced
<1>2. /\ Chain(renewals, Q) /\ Q \in Int
      /\ c = renewals[Len(renewals)] /\ c \in Generations
      /\ c.qty \in Nat /\ c.filled \in Nat /\ c.filled <= c.qty
  BY NewestFacts
<1>3. Chain(g, Q) /\ ~S!Active(d) /\ d.qty = c.qty /\ d.filled = c.filled /\ d \in Generations
  <2>1. CASE S!Active(c)
    <3>1. d = [c EXCEPT !.status = "CANCELED"]
      BY <2>1
    <3>2. d \in Generations
      <4> HIDE DEF c
      <4> QED BY <3>1, <1>2 DEF Generations
    <3> QED BY <3>1, <3>2, CancelKeeps
  <2>2. CASE ~S!Active(c)
    <3>1. d = c
      <4> HIDE DEF c
      <4> QED BY <2>2, <1>2 DEF Generations
    <3>2. S!SetCurrent(c) = [renewals EXCEPT ![Len(renewals)] = c]
      BY DEF S!SetCurrent
    <3> HIDE DEF c, d
    <3>3. Chain([renewals EXCEPT ![Len(renewals)] = c], Q)
      BY <1>2, NewestChanges
    <3> QED BY <3>1, <3>2, <3>3, <2>2, <1>2
  <2> QED BY <2>1, <2>2
<1>4. Len(g) = Len(renewals) /\ g[Len(g)] = d
  <2>1. renewals \in Seq(Generations) /\ Len(renewals) \in DOMAIN renewals
    BY <1>2, ChainFacts DEF Chain
  <2>2. g = [renewals EXCEPT ![Len(renewals)] = d]
    BY DEF S!SetCurrent
  <2> HIDE DEF g, d
  <2> QED BY <2>1, <2>2, <1>3
<1>5. n \in Generations /\ n.filled = 0 /\ n.qty = c.qty - c.filled
  <2> HIDE DEF c
  <2> QED BY <1>2 DEF Generations, S!Remaining
<1> HIDE DEF g, n, d, c, Q
<1>6. Chain(Append(g, n), Q)
  BY <1>2, <1>3, <1>4, <1>5, NewestFollowed
<1> QED BY <1>1, <1>6 DEF Q

LEMMA SizingKeeps ==
    ASSUME SizingConstants, SizingInv, [S!Next]_S!vars
    PROVE  SizingInv'
<1>1. CASE UNCHANGED S!vars
  <2>1. /\ UNCHANGED <<rulebook, venue, fund, atRisk>> /\ refusal' = refusal
        /\ ticket' = ticket /\ payloads' = payloads /\ renewals' = renewals
    BY <1>1 DEF S!vars
  <2> QED BY <2>1, QuietStep DEF SizingInv
<1>2. ASSUME NEW s \in Ideas, S!Refuse(s) PROVE SizingInv'
  <2>1. /\ UNCHANGED <<rulebook, venue, fund, atRisk>> /\ refusal' = S!Refusal(s)
        /\ ticket' = ticket /\ payloads' = payloads /\ renewals' = renewals
    BY <1>2 DEF S!Refuse
  <2>2. refusal' # "liquidation"
    BY <2>1, NeverLiquidation
  <2> QED BY <2>1, <2>2, QuietStep DEF SizingInv
<1>3. ASSUME NEW s \in Ideas, S!Allow(s) PROVE SizingInv'
  BY <1>3, AllowStep
<1>4. CASE S!Open
  BY <1>4, OpenStep
<1>5. CASE S!Build
  BY <1>5, BuildStep
<1>6. CASE S!Reject
  <2>1. /\ UNCHANGED <<rulebook, venue, fund, atRisk>> /\ refusal' = "payload"
        /\ ticket' = NoTicket /\ payloads' = NoTicket
    BY <1>6 DEF S!Reject
  <2> QED BY <2>1, QuietStep
<1>7. ASSUME NEW i \in DOMAIN atRisk, NEW gain \in BOOLEAN, S!Close(i, gain) PROVE SizingInv'
  BY <1>7, CloseStep
<1>8. ASSUME NEW part \in Portions, S!Fill(part) PROVE SizingInv'
  <2>1. /\ UNCHANGED <<rulebook, venue, fund, atRisk>> /\ refusal' = refusal
        /\ ticket' = ticket /\ payloads' = payloads
    BY <1>8 DEF S!Fill
  <2>2. part \in Nat
    BY DEF SizingConstants
  <2>3. payloads # NoTicket => Chain(renewals', payloads.entry.qty)
    BY <1>8, <2>2, FillKeeps
  <2> QED BY <2>1, <2>3, QuietStep DEF SizingInv
<1>9. CASE S!CancelReplace
  <2>1. /\ UNCHANGED <<rulebook, venue, fund, atRisk>> /\ refusal' = refusal
        /\ ticket' = ticket /\ payloads' = payloads
    BY <1>9 DEF S!CancelReplace
  <2>2. payloads # NoTicket => Chain(renewals', payloads.entry.qty)
    BY <1>9, ReplaceKeeps
  <2> QED BY <2>1, <2>2, QuietStep DEF SizingInv
<1>10. CASE S!Cancel
  <2>1. /\ UNCHANGED <<rulebook, venue, fund, atRisk>> /\ refusal' = refusal
        /\ ticket' = ticket /\ payloads' = payloads
        /\ renewals' = S!SetCurrent([S!Current EXCEPT !.status = "CANCELED"])
    BY <1>10 DEF S!Cancel
  <2>2. payloads # NoTicket => Chain(renewals', payloads.entry.qty)
    BY <2>1, CancelKeeps
  <2> QED BY <2>1, <2>2, QuietStep DEF SizingInv
<1>11. CASE S!EndDryRun
  <2>1. /\ UNCHANGED <<rulebook, venue, fund, atRisk>> /\ refusal' = refusal
        /\ ticket' = NoTicket /\ payloads' = NoTicket
    BY <1>11 DEF S!EndDryRun
  <2> QED BY <2>1, QuietStep DEF SizingInv
<1> QED
  BY <1>1, <1>2, <1>3, <1>4, <1>5, <1>6, <1>7, <1>8, <1>9, <1>10, <1>11 DEF S!Next

--------------------------------------------------------------------------------
(* What follows of every state.                                            *)

LEMMA InvStops == ASSUME SizingConstants, SizingInv PROVE S!StopFiresFirst
<1>1. refusal # "liquidation"
  BY DEF SizingInv
<1>2. ASSUME payloads # NoTicket
      PROVE  S!Inside(ticket.sig.side, payloads.stop.trigger,
                      S!Liquidation(ticket.sig, ticket.leverage, S!MaintRate(ticket.notional)))
  <2> DEFINE s == ticket.sig
             rate == S!MaintRate(ticket.notional)
             share == S!Most(0, 10000 \div ticket.leverage - rate)
  <2>1. TicketSound(ticket) /\ payloads = S!Orders(ticket)
    BY <1>2 DEF SizingInv
  <2>2. /\ s \in Ideas /\ ticket.stop \in Int /\ ticket.dist \in Nat
        /\ ticket.notional \in Nat /\ ticket.leverage \in Nat \ {0}
    BY <2>1 DEF TicketSound, TicketTyped
  <2>3. /\ s.side = "LONG" => ticket.stop <= s.entry
        /\ s.side = "SHORT" => ticket.stop >= s.entry
        /\ S!Abs(s.entry - ticket.stop) * 10000 <= ticket.dist * s.entry
    BY <2>1 DEF TicketSound, TicketStop
  <2>4. Spare(venue, s, ticket.dist, share)
    BY <2>1 DEF TicketSound, TicketSafe
  <2>5. payloads.stop.trigger = S!ToTick(ticket.stop)
    BY <2>1 DEF S!Orders, S!StopOrder
  <2>6. /\ RulebookTyped(rulebook) /\ RulebookTiers(rulebook) /\ VenueTyped(venue)
        /\ IdeaTyped(s)
    BY <2>2, FundsFacts
  <2>7. rate \in Nat
    BY <2>2, <2>6, RateOfNotional
  <2>8. share \in Int
    <3> DEFINE k == 10000 \div ticket.leverage
    <3>1. k \in Int
      BY <2>2, Quotient
    <3> HIDE DEF k, rate
    <3>2. k - rate \in Int
      BY <3>1, <2>7
    <3> QED BY <3>2 DEF S!Most, k
  <2>9. S!Liquidation(s, ticket.leverage, rate) = S!Toward(s, (s.entry * share) \div 10000)
    BY DEF S!Liquidation
  <2> HIDE DEF share, s, rate
  <2>10. S!Inside(s.side, S!ToTick(ticket.stop), S!Toward(s, (s.entry * share) \div 10000))
    BY <2>2, <2>3, <2>4, <2>6, <2>8, SpareInside
  <2>11. S!Inside(s.side, payloads.stop.trigger, S!Liquidation(s, ticket.leverage, rate))
    BY <2>5, <2>9, <2>10
  <2> QED BY <2>11 DEF s, rate
<1> QED BY <1>1, <1>2 DEF S!StopFiresFirst

LEMMA InvBudget == ASSUME SizingConstants, SizingInv PROVE S!LossWithinBudget
<1> SUFFICES ASSUME payloads # NoTicket
             PROVE  payloads.entry.qty * S!Abs(ticket.sig.entry - payloads.stop.trigger) * 10
                        + (payloads.entry.qty * ticket.sig.entry * rulebook.cost) \div 1000
                    <= (((fund * rulebook.risk) \div 100) * 15) \div 100
                        + payloads.entry.qty * venue.tick * 5
  BY DEF S!LossWithinBudget
<1> DEFINE q == payloads.entry.qty
           e == ticket.sig.entry
           p == payloads.stop.trigger
           stop == ticket.stop
           d == ticket.dist
           c == rulebook.cost
           t == venue.tick
           N == ticket.notional
           B == (fund * rulebook.risk) \div 100
           r == S!Abs(e - stop)
           a == S!Abs(e - p)
<1>1. TicketSound(ticket) /\ payloads = S!Orders(ticket)
  BY DEF SizingInv
<1>2. q = S!EntryQty(ticket) /\ p = S!ToTick(stop)
  BY <1>1 DEF S!Orders, S!StopOrder, S!EntryOrder
<1>3. q \in Nat /\ q * e <= N
  BY <1>1, <1>2, EntryQtyFacts
<1>4. /\ ticket.sig \in Ideas /\ stop \in Int /\ d \in Nat /\ N \in Nat
  BY <1>1 DEF TicketSound, TicketTyped
<1>5. e \in Nat \ {0} /\ t \in Nat \ {0} /\ c \in Nat /\ rulebook.risk \in Nat
  <2>1. RulebookTyped(rulebook) /\ VenueTyped(venue) /\ IdeaTyped(ticket.sig)
    BY <1>4, FundsFacts
  <2>2. e \in Nat \ {0}
    BY <2>1 DEF IdeaTyped
  <2>3. t \in Nat \ {0}
    BY <2>1 DEF VenueTyped
  <2>4. c \in Nat /\ rulebook.risk \in Nat
    BY <2>1 DEF RulebookTyped
  <2> QED BY <2>2, <2>3, <2>4
<1>6. r * 10000 <= d * e
  BY <1>1 DEF TicketSound, TicketStop
<1>7. N * (d + c) <= B * 150
  BY <1>1 DEF TicketSound, TicketBudget
<1>8. p \in Int /\ 2 * (p - stop) <= t /\ 2 * (stop - p) <= t
  BY <1>2, <1>4, <1>5, HalfATick
<1>9. B \in Int
  <2>1. fund * rulebook.risk \in Int
    BY <1>5 DEF SizingInv
  <2> QED BY <2>1
<1> HIDE DEF q, e, p, stop, d, c, t, N, B
<1>10. r \in Nat /\ a \in Nat /\ 2 * a <= 2 * r + t
  BY <1>4, <1>5, <1>8 DEF S!Abs
<1> HIDE DEF r, a
<1>11. q * a * 10 <= q * r * 10 + q * t * 5 /\ q * a * 10 \in Int /\ q * t * 5 \in Int
       /\ q * r * 10 \in Int
  <2>1. q * (2 * a) <= q * (2 * r + t) /\ q * (2 * r + t) \in Int /\ q * (2 * a) \in Int
    <3>1. 2 * a \in Int /\ 2 * r + t \in Int
      BY <1>10, <1>5
    <3> QED BY <3>1, <1>3, <1>10, TimesMonotone
  <2>2. q * (2 * a) * 5 = q * a * 10 /\ q * (2 * r + t) * 5 = q * r * 10 + q * t * 5
    BY <1>3, <1>5, <1>10
  <2>3. q * a * 10 \in Int /\ q * t * 5 \in Int /\ q * r * 10 \in Int
    BY <1>3, <1>5, <1>10
  <2> QED BY <2>1, <2>2, <2>3
<1> DEFINE Z == q * e
           x == Z * c
           k == x \div 1000
           y == B * 15
<1>12. Z \in Nat /\ Z <= N /\ x \in Nat
  <2>1. Z \in Nat /\ Z <= N
    BY <1>3, <1>5
  <2> HIDE DEF Z
  <2> QED BY <2>1, <1>5
<1>13. Z * (d + c) <= B * 150 /\ Z * (d + c) = Z * d + x /\ Z * d \in Int
  <2> HIDE DEF Z
  <2>1. d + c \in Nat
    BY <1>4, <1>5
  <2>2. Z * (d + c) <= N * (d + c) /\ Z * (d + c) \in Int /\ N * (d + c) \in Int
    BY <2>1, <1>4, <1>12, TimesMonotone
  <2>3. Z * (d + c) = Z * d + Z * c /\ Z * d \in Int
    BY <1>4, <1>5, <1>12
  <2> QED BY <2>2, <2>3, <1>7, <1>9
<1>14. q * r * 10000 <= Z * d /\ q * r \in Int
  <2>1. q * (r * 10000) <= q * (d * e)
    <3>1. r * 10000 \in Int /\ d * e \in Int
      BY <1>4, <1>5, <1>10
    <3> QED BY <3>1, <1>3, <1>6, TimesMonotone
  <2>2. q * (d * e) = Z * d /\ q * (r * 10000) = q * r * 10000 /\ q * r \in Int
    BY <1>3, <1>4, <1>5, <1>10
  <2> QED BY <2>1, <2>2
<1> HIDE DEF Z
<1>15. k \in Int /\ k * 1000 <= x
  <2> HIDE DEF x
  <2> QED BY <1>12
<1>16. q * r * 10 + k <= y \div 100 /\ y \div 100 \in Int
  <2> DEFINE u == q * r * 10 + k
             v == q * r
  <2>1. v \in Int
    BY <1>14
  <2>2. u * 1000 <= B * 150
    <3>1. u = v * 10 + k
      OBVIOUS
    <3>2. v * 10000 <= Z * d
      BY <1>14
    <3> HIDE DEF u, v, k, x
    <3> QED BY <3>1, <3>2, <2>1, <1>9, <1>12, <1>13, <1>15
  <2>3. u \in Int
    BY <2>1, <1>15
  <2> HIDE DEF u
  <2>4. u * 100 <= y /\ y \in Int
    BY <2>2, <2>3, <1>9
  <2> HIDE DEF y
  <2>5. u <= y \div 100 /\ y \div 100 \in Int
    BY <2>3, <2>4
  <2> QED BY <2>5 DEF u
<1>17. q * a * 10 + k <= y \div 100 + q * t * 5
  <2> HIDE DEF k, y
  <2> QED BY <1>11, <1>15, <1>16
<1> QED BY <1>17 DEF q, e, p, t, c, B, a, Z

LEMMA InvFills == ASSUME SizingConstants, SizingInv PROVE S!NeverOverfilled
<1> DEFINE quantities == [i \in DOMAIN payloads.targets |-> payloads.targets[i].qty]
           pending == [i \in DOMAIN renewals |->
                          IF S!Active(renewals[i]) THEN renewals[i].qty ELSE renewals[i].filled]
           Q == payloads.entry.qty
<1> SUFFICES ASSUME payloads # NoTicket
             PROVE  /\ S!SumFunction(quantities) <= Q
                    /\ Q * ticket.sig.entry <= ticket.notional
                    /\ S!SumFunction(pending) <= Q
  BY DEF S!NeverOverfilled
<1>1. TicketSound(ticket) /\ payloads = S!Orders(ticket) /\ Chain(renewals, Q)
  BY DEF SizingInv
<1>2. Q = S!EntryQty(ticket)
  BY <1>1 DEF S!Orders, S!EntryOrder
<1>3. Q \in Nat /\ Q * ticket.sig.entry <= ticket.notional
  BY <1>1, <1>2, EntryQtyFacts
<1>4. S!SumFunction(quantities) <= Q
  <2> DEFINE T == {j \in 1 .. 3 : S!TargetOrder(ticket, j).qty > 0}
             part(i) == ticket.targets[i].part
             all == [i \in 1 .. 3 |-> (Q * part(i)) \div 100]
  <2>1. payloads.targets = [i \in T |-> S!TargetOrder(ticket, i)]
    BY <1>1 DEF S!Orders, S!TargetOrders
  <2>2. \A i \in 1 .. 3 : part(i) \in Nat
    BY <1>1 DEF TicketSound, TicketTyped
  <2>3. part(1) + part(2) + part(3) <= 100
    BY <1>1 DEF TicketSound, TicketTyped
  <2>4. \A i \in 1 .. 3 : all[i] \in Nat /\ all[i] * 100 <= Q * part(i)
    <3> TAKE i \in 1 .. 3
    <3> DEFINE x == Q * part(i)
    <3>1. x \in Nat
      BY <1>3, <2>2
    <3>2. all[i] = x \div 100
      OBVIOUS
    <3> HIDE DEF all, x
    <3>3. all[i] \in Nat /\ all[i] * 100 <= x
      BY <3>1, <3>2
    <3> QED BY <3>3 DEF x
  <2>5. ASSUME NEW i \in 1 .. 3
        PROVE  S!TargetOrder(ticket, i).qty \in Int /\ S!TargetOrder(ticket, i).qty <= all[i]
    <3> DEFINE k == venue.step
               w == all[i] \div k
    <3>1. k \in Nat \ {0}
      BY FundsFacts DEF VenueTyped
    <3>2. S!TargetOrder(ticket, i).qty = w * k
      BY <1>2 DEF S!TargetOrder, S!StepDown
    <3>3. all[i] \in Int
      BY <2>4
    <3>4. w \in Int /\ k * w <= all[i]
      <4> HIDE DEF all, k
      <4> QED BY <3>1, <3>3, Quotient
    <3> HIDE DEF w, k
    <3>5. w * k = k * w /\ k * w \in Int
      BY <3>1, <3>4
    <3> HIDE DEF all
    <3> QED BY <3>2, <3>4, <3>5
  <2>6. /\ DOMAIN quantities = T /\ T \subseteq 1 .. 3
        /\ \A i \in T : quantities[i] = S!TargetOrder(ticket, i).qty
    BY <2>1
  <2> HIDE DEF all, quantities, T, part
  <2>7. IsFiniteSet(1 .. 3) /\ IsFiniteSet(T)
    <3>1. IsFiniteSet(1 .. 3)
      <4>1. \A b \in Int : IsFiniteSet(1 .. b)
        BY FS_Interval
      <4>2. 3 \in Int
        OBVIOUS
      <4> QED BY <4>1, <4>2, Zenon
    <3>2. T \in SUBSET (1 .. 3)
      BY <2>6
    <3> QED BY <3>1, <3>2, FS_Subset
  <2>8. S!SumFunction(quantities) = Total(quantities, T)
    BY <2>6, SizingSums
  <2>9. Total(quantities, T) <= Total(all, T) /\ Total(quantities, T) \in Int
        /\ Total(all, T) \in Int
    <3>1. \A i \in T : quantities[i] \in Int /\ all[i] \in Int /\ quantities[i] <= all[i]
      <4> TAKE i \in T
      <4>1. i \in 1 .. 3 /\ quantities[i] = S!TargetOrder(ticket, i).qty
        BY <2>6
      <4>2. S!TargetOrder(ticket, i).qty \in Int /\ S!TargetOrder(ticket, i).qty <= all[i]
        BY <4>1, <2>5
      <4>3. all[i] \in Int
        BY <4>1, <2>4
      <4> QED BY <4>1, <4>2, <4>3
    <3> QED BY <3>1, <2>7, TotalMonotone, TotalIsInt
  <2>10. ASSUME NEW i \in 1 .. 3, NEW U \in SUBSET (1 .. 3), i \notin U
         PROVE  Total(all, U \cup {i}) = Total(all, U) + all[i]
    <3>1. IsFiniteSet(U)
      BY <2>7, FS_Subset
    <3>2. \A j \in U \cup {i} : all[j] \in Int
      BY <2>4
    <3> QED BY <2>10, <3>1, <3>2, TotalAdd
  <2>11. Total(all, 1 .. 3) = all[1] + all[2] + all[3]
    <3>1. Total(all, {} \cup {1}) = Total(all, {}) + all[1]
      BY <2>10
    <3>2. Total(all, {1} \cup {2}) = Total(all, {1}) + all[2]
      BY <2>10
    <3>3. Total(all, {1, 2} \cup {3}) = Total(all, {1, 2}) + all[3]
      BY <2>10
    <3>4. {} \cup {1} = {1} /\ {1} \cup {2} = {1, 2} /\ {1, 2} \cup {3} = 1 .. 3
      OBVIOUS
    <3>5. Total(all, {}) = 0
      BY TotalEmpty
    <3>6. all[1] \in Nat /\ all[2] \in Nat /\ all[3] \in Nat
      BY <2>4
    <3>7. Total(all, {1}) = all[1]
      BY <3>1, <3>4, <3>5, <3>6
    <3>8. Total(all, {1, 2}) = all[1] + all[2]
      BY <3>2, <3>4, <3>7
    <3> QED BY <3>3, <3>4, <3>8
  <2>12. Total(all, T) <= Total(all, 1 .. 3)
    <3>1. \A i \in 1 .. 3 : all[i] \in Nat
      BY <2>4
    <3> QED BY <2>6, <2>7, <3>1, TotalSubset
  <2>13. all[1] + all[2] + all[3] <= Q
    <3>1. /\ all[1] \in Nat /\ all[2] \in Nat /\ all[3] \in Nat
          /\ all[1] * 100 <= Q * part(1) /\ all[2] * 100 <= Q * part(2)
          /\ all[3] * 100 <= Q * part(3)
          /\ part(1) \in Nat /\ part(2) \in Nat /\ part(3) \in Nat
      BY <2>2, <2>4
    <3> DEFINE sum == part(1) + part(2) + part(3)
    <3>2. sum \in Nat /\ sum <= 100
      BY <2>3, <3>1
    <3>3. Q * sum = Q * part(1) + Q * part(2) + Q * part(3)
          /\ Q * part(1) \in Int /\ Q * part(2) \in Int /\ Q * part(3) \in Int
      BY <1>3, <3>1
    <3> HIDE DEF sum, Q
    <3>4. Q * sum <= Q * 100
      BY <1>3, <3>2, TimesMonotone
    <3> QED BY <1>3, <3>1, <3>3, <3>4
  <2> HIDE DEF Q
  <2> QED BY <1>3, <2>4, <2>8, <2>9, <2>11, <2>12, <2>13
<1>5. S!SumFunction(pending) <= Q
  <2> DEFINE g == renewals
             n == Len(g)
             D == DOMAIN g
             F == FillsOf(g)
  <2>1. /\ n \in D /\ IsFiniteSet(D) /\ Total(F, D) \in Nat
        /\ \A i \in D : g[i].qty \in Nat /\ g[i].filled \in Nat /\ F[i] = g[i].filled
        /\ \A i \in D : i # n => ~S!Active(g[i])
    BY <1>1, ChainFacts DEF Chain
  <2>2. Total(F, D) + g[n].qty - g[n].filled = Q /\ g[n].filled <= g[n].qty
    BY <1>1 DEF Chain
  <2>3. /\ DOMAIN pending = D
        /\ \A i \in D : pending[i] = IF S!Active(g[i]) THEN g[i].qty ELSE g[i].filled
    OBVIOUS
  <2> HIDE DEF g, n, D, F, pending, Q
  <2>4. S!SumFunction(pending) = Total(pending, D)
    BY <2>3, SizingSums
  <2>5. \A i \in D : pending[i] \in Int /\ F[i] \in Int
    BY <2>1, <2>3
  <2>6. Total(pending, D \ {n}) = Total(F, D \ {n}) /\ Total(F, D \ {n}) \in Int
    <3>1. IsFiniteSet(D \ {n})
      BY <2>1, FS_Subset
    <3>2. \A i \in D \ {n} : pending[i] \in Int /\ pending[i] = F[i] /\ F[i] \in Int
      BY <2>1, <2>3, <2>5
    <3> QED BY <3>1, <3>2, TotalSame, TotalIsInt
  <2>7. /\ Total(pending, D) = pending[n] + Total(pending, D \ {n})
        /\ Total(F, D) = F[n] + Total(F, D \ {n})
    BY <2>1, <2>5, TotalRemove
  <2>8. pending[n] <= g[n].qty /\ pending[n] \in Int /\ F[n] = g[n].filled
    BY <2>1, <2>2, <2>3
  <2>9. g[n].qty \in Nat /\ g[n].filled \in Nat
    BY <2>1
  <2> QED BY <2>2, <2>4, <2>6, <2>7, <2>8, <2>9
<1> QED BY <1>3, <1>4, <1>5

\* The caps hold after every opening.
LEMMA CapsStep ==
    ASSUME SizingConstants, SizingInv, [S!Next]_S!vars, Len(atRisk') > Len(atRisk)
    PROVE  S!OpenMargin' <= fund' /\ S!OpenNotional' * 100 <= fund' * rulebook.exposure
<1>1. \A g \in Seq(OpenTrades) : Len(g) \in Nat
  OBVIOUS
<1>2. atRisk \in Seq(OpenTrades) /\ Len(atRisk) \in Nat
  BY <1>1 DEF SizingInv
<1>3. S!Open
  <2>1. ~(atRisk' = atRisk)
    BY <1>2
  <2>2. ASSUME NEW i \in DOMAIN atRisk, NEW gain \in BOOLEAN, S!Close(i, gain) PROVE FALSE
    <3>1. Len(atRisk') = Len(atRisk) - 1
      BY <2>2, CloseStep
    <3> QED BY <3>1, <1>2
  <2>3. ASSUME NEW s \in Ideas, S!Refuse(s) \/ S!Allow(s) PROVE FALSE
    BY <2>1, <2>3 DEF S!Refuse, S!Allow
  <2>4. ASSUME NEW part \in Portions, S!Fill(part) PROVE FALSE
    BY <2>1, <2>4 DEF S!Fill
  <2>5. ~S!Build /\ ~S!Reject /\ ~S!CancelReplace /\ ~S!Cancel /\ ~S!EndDryRun
    BY <2>1 DEF S!Build, S!Reject, S!CancelReplace, S!Cancel, S!EndDryRun
  <2>6. ~UNCHANGED S!vars
    BY <2>1 DEF S!vars
  <2> QED BY <2>2, <2>3, <2>4, <2>5, <2>6 DEF S!Next
<1> DEFINE r == [notional |-> ticket.notional, margin |-> ticket.margin, loss |-> ticket.loss]
           n == Len(atRisk)
           D == 1 .. n
<1>4. /\ atRisk' = Append(atRisk, r) /\ fund' = fund
  BY <1>3 DEF S!Open
<1>5. TicketTyped(ticket) /\ TicketFits(ticket)
  BY <1>3 DEF S!Open, SizingInv, TicketSound
<1>6. r \in OpenTrades /\ r.notional = ticket.notional /\ r.margin = ticket.margin
  BY <1>5 DEF TicketTyped, OpenTrades
<1> HIDE DEF r
<1>7. /\ atRisk' \in Seq(OpenTrades) /\ Len(atRisk') = n + 1
      /\ atRisk'[n + 1] = r /\ \A i \in D : atRisk'[i] = atRisk[i]
      /\ DOMAIN atRisk' = 1 .. n + 1 /\ DOMAIN atRisk = D
  BY <1>2, <1>4, <1>6
<1>8. /\ S!OpenNotional = Total(Shares, D) /\ S!OpenMargin = Total(Locked, D)
  BY <1>2, OpenSums
<1>9. S!OpenNotional' = Total(Shares', 1 .. n + 1) /\ S!OpenMargin' = Total(Locked', 1 .. n + 1)
  <2>1. S!OpenNotional' = S!SumFunction(Shares') /\ S!OpenMargin' = S!SumFunction(Locked')
    BY DEF S!OpenNotional, S!OpenMargin, Shares, Locked
  <2>2. DOMAIN Shares' = 1 .. n + 1 /\ DOMAIN Locked' = 1 .. n + 1
    BY <1>7 DEF Shares, Locked
  <2> QED BY <2>1, <2>2, SizingSums
<1>10. ASSUME NEW f, NEW g, NEW x,
              \A i \in D : f[i] \in Int /\ g[i] = f[i], g[n + 1] = x, x \in Int
       PROVE  Total(g, 1 .. n + 1) = Total(f, D) + x
  <2>1. IsFiniteSet(D) /\ n + 1 \notin D /\ 1 .. n + 1 = D \cup {n + 1}
    <3>1. IsFiniteSet(D)
      BY <1>2, FS_Interval
    <3>2. n + 1 \notin D /\ 1 .. n + 1 = D \cup {n + 1}
      BY <1>2
    <3> QED BY <3>1, <3>2
  <2>2. \A i \in D \cup {n + 1} : g[i] \in Int
    BY <1>10
  <2> HIDE DEF D
  <2>3. Total(g, D \cup {n + 1}) = Total(g, D) + g[n + 1]
    BY <2>1, <2>2, TotalAdd
  <2>4. Total(f, D) = Total(g, D)
    BY <2>1, <1>10, TotalSame
  <2> QED BY <2>1, <2>3, <2>4, <1>10
<1>11. /\ \A i \in D : Shares[i] \in Int /\ Shares'[i] = Shares[i]
       /\ Shares'[n + 1] = ticket.notional
       /\ \A i \in D : Locked[i] \in Int /\ Locked'[i] = Locked[i]
       /\ Locked'[n + 1] = ticket.margin
       /\ ticket.notional \in Int /\ ticket.margin \in Int
  <2>1. \A i \in D : atRisk[i] \in OpenTrades
    BY <1>2
  <2>2. n + 1 \in 1 .. n + 1 /\ D \subseteq 1 .. n + 1
    BY <1>2
  <2>3. \A i \in 1 .. n + 1 : Shares'[i] = atRisk'[i].notional /\ Locked'[i] = atRisk'[i].margin
    BY <1>7 DEF Shares, Locked
  <2>4. \A i \in D : Shares[i] = atRisk[i].notional /\ Locked[i] = atRisk[i].margin
    BY <1>7 DEF Shares, Locked
  <2>5. \A i \in D : atRisk[i].notional \in Int /\ atRisk[i].margin \in Int
    BY <2>1 DEF OpenTrades
  <2>6. \A i \in D : Shares'[i] = Shares[i] /\ Locked'[i] = Locked[i]
    BY <2>2, <2>3, <2>4, <1>7
  <2>7. Shares'[n + 1] = ticket.notional /\ Locked'[n + 1] = ticket.margin
    BY <2>2, <2>3, <1>6, <1>7
  <2>8. ticket.notional \in Int /\ ticket.margin \in Int
    BY <1>5 DEF TicketTyped
  <2> HIDE DEF D, n
  <2> QED BY <2>4, <2>5, <2>6, <2>7, <2>8
<1>12. /\ S!OpenNotional' = S!OpenNotional + ticket.notional
       /\ S!OpenMargin' = S!OpenMargin + ticket.margin
  BY <1>8, <1>9, <1>10, <1>11
<1> QED BY <1>4, <1>5, <1>12 DEF TicketFits

\* The invariant holds of every process that sizes, whatever it does.
LEMMA OpeningInductive ==
    ASSUME SizingConstants
    PROVE  /\ OpeningInit => (SizingRuns => SizingInv)
           /\ (SizingRuns => SizingInv) /\ [OpeningNext]_sizingVars
                  => (SizingRuns => SizingInv)'
<1>1. OpeningInit => (SizingRuns => SizingInv)
  <2> SUFFICES ASSUME S!Init PROVE SizingInv
    BY DEF OpeningInit, SizingParked, SizingRuns
  <2>1. rulebook \in Rulebooks /\ venue \in Venues /\ fund \in Int
    BY DEF S!Init, SizingConstants
  <2>2. ticket = NoTicket /\ payloads = NoTicket /\ refusal = NoTicket /\ atRisk = <<>>
    BY DEF S!Init
  <2>3. refusal # "liquidation"
    BY <2>2 DEF SizingConstants
  <2>4. atRisk \in Seq(OpenTrades)
    BY <2>2
  <2> QED BY <2>1, <2>2, <2>3, <2>4 DEF SizingInv
<1>2. (SizingRuns => SizingInv) /\ [OpeningNext]_sizingVars => (SizingRuns => SizingInv)'
  <2> SUFFICES ASSUME SizingRuns => SizingInv, [OpeningNext]_sizingVars, SizingRuns'
               PROVE  SizingInv'
    OBVIOUS
  <2>1. SizingRuns
    BY DEF OpeningNext, sizingVars, SizingRuns
  <2>2. [S!Next]_S!vars
    BY DEF OpeningNext, sizingVars, S!vars
  <2> QED BY <2>1, <2>2, SizingKeeps
<1> QED BY <1>1, <1>2

\* StopFiresFirst: of every position the engine sends, at every leverage it may choose,
\* the stop it sends lies between the entry and the liquidation price, and the
\* fail-closed refusal is never reached (risk.py: "Should be unreachable given the
\* leverage ceiling").
THEOREM StopsFireFirst == ASSUME SizingConstants PROVE OpeningSpec => []StopFiresFirst
<1> DEFINE Inv == SizingRuns => SizingInv
<1>1. OpeningInit => Inv
  BY OpeningInductive
<1>2. Inv /\ [OpeningNext]_sizingVars => Inv'
  BY OpeningInductive
<1>3. Inv => StopFiresFirst
  BY InvStops DEF StopFiresFirst
<1> QED BY <1>1, <1>2, <1>3, PTL DEF OpeningSpec

\* LossWithinBudget: what the orders lose at their stop stays within the budget, the
\* targets and the generations of the entry never sum to more than was decided, and no
\* opening commits more than the balance or the exposure cap leave free.
THEOREM LossesStayWithinBudget == ASSUME SizingConstants PROVE OpeningSpec => LossWithinBudget
<1> DEFINE Inv == SizingRuns => SizingInv
           Bounded == SizingRuns => S!LossWithinBudget /\ S!NeverOverfilled
           Capped == Len(atRisk') > Len(atRisk) =>
                         /\ S!OpenMargin' <= fund'
                         /\ S!OpenNotional' * 100 <= fund' * rulebook.exposure
<1>1. OpeningInit => Inv
  BY OpeningInductive
<1>2. Inv /\ [OpeningNext]_sizingVars => Inv'
  BY OpeningInductive
<1>3. Inv => Bounded
  BY InvBudget, InvFills
<1>4. Inv /\ [OpeningNext]_sizingVars => [Capped]_S!vars
  <2> SUFFICES ASSUME Inv, [OpeningNext]_sizingVars, ~UNCHANGED S!vars PROVE Capped
    OBVIOUS
  <2>1. SizingRuns /\ S!Next
    BY DEF OpeningNext, sizingVars, S!vars
  <2> QED BY <2>1, CapsStep
<1>5. OpeningSpec => []Bounded
  BY <1>1, <1>2, <1>3, PTL DEF OpeningSpec
<1>6. OpeningSpec => [][Capped]_S!vars
  BY <1>1, <1>2, <1>4, PTL DEF OpeningSpec
<1> QED BY <1>5, <1>6 DEF LossWithinBudget, S!CapsAtEntry
================================================================================
