--------------------------- MODULE FeedWatchdogProofs ---------------------------
(***************************************************************************)
(* Proofs about FeedWatchdog: every age the engine acts on is at least the *)
(* age of the exchange's newest bar, so no trade opens on a dead feed.     *)
(* Then about Decisions: what is made of those candles, by the setups and  *)
(* by the shadow learner. Then about Outlook: what is made of the whole    *)
(* market, by the regime and the correlation controller.                   *)
(***************************************************************************)
EXTENDS FeedWatchdog, Decisions, Outlook, SetSums, SequenceTheorems, TLAPS

\* The newest bar the exchange serves is never younger than its schedule allows.
ServedBehindSchedule == \A tf \in TF : served[tf] >= phase[tf]

IInv == TypeOK /\ ServedBehindSchedule /\ FreshnessIsReal

Obs == [TF -> Ages \cup {Never}]
Caches == [Symbols -> Obs]

\* A cache with no series fresher than the exchange.
Real(c) == \A s \in Symbols, tf \in TF : c[s][tf] # Never => c[s][tf] >= served[tf]

--------------------------------------------------------------------------------

LEMMA Constants ==
    /\ Cap \in Nat
    /\ \A tf \in TF : BarLen[tf] \in Nat /\ BarLen[tf] > 0 /\ BarLen[tf] <= Cap
    /\ \A tf \in TF : Halt(tf) \in Nat
    /\ Signal \in TF
    /\ GuardBars \in Nat
<1>1. /\ Cap \in Nat /\ AlertGrace \in Nat /\ HaltGrace \in Nat /\ GuardBars \in Nat
      /\ BarLen \in [TF -> Nat \ {0}] /\ Signal \in TF
      /\ \A tf \in TF : Halt(tf) < Cap
  BY FeedAssumption
<1>2. ASSUME NEW tf \in TF
      PROVE /\ BarLen[tf] \in Nat /\ BarLen[tf] > 0 /\ BarLen[tf] <= Cap
            /\ Halt(tf) \in Nat
  <2>1. BarLen[tf] \in Nat /\ BarLen[tf] > 0
    BY <1>1
  <2>2. Halt(tf) \in Nat /\ BarLen[tf] <= Halt(tf)
    BY <1>1, <2>1 DEF Halt, Alert
  <2> QED BY <1>1, <2>1, <2>2
<1> QED BY <1>1, <1>2

\* A tick makes an age older by one, up to the bound.
LEMMA OlderType ==
    ASSUME NEW a \in Ages \cup {Never}
    PROVE /\ Older(a) \in Ages \cup {Never}
          /\ a # Never => Older(a) \in Ages /\ Older(a) >= a
          /\ a = Never <=> Older(a) = Never
          /\ a # Never /\ a < Cap => Older(a) = a + 1
BY Constants DEF Older, Ages, Never

LEMMA OlderMonotone ==
    ASSUME NEW a \in Ages, NEW b \in Ages, a >= b
    PROVE Older(a) >= Older(b)
BY Constants DEF Older, Ages, Never

\* The youngest of a set of ages is one of them and no older than any.
LEMMA YoungestIsOne ==
    ASSUME NEW S \in SUBSET Ages, S # {}
    PROVE Youngest(S) \in S /\ \A b \in S : Youngest(S) <= b
<1>1. S \in SUBSET Nat
  BY Constants DEF Ages
<1>2. \E n \in S : \A m \in S : n <= m
  <2>1. PICK n \in S : \A m \in S : <<m, n>> \notin OpToRel(<, Nat)
    BY Zenon, <1>1, NatLessThanWellFounded, WFMin
  <2>2. ASSUME NEW m \in S PROVE n <= m
    <3>1. n \in Nat /\ m \in Nat
      BY <1>1
    <3>2. ~(m < n)
      BY <2>1, <3>1 DEF OpToRel
    <3> QED BY <3>1, <3>2
  <2> QED BY <2>2
<1> QED BY <1>2 DEF Youngest

\* A fetch leaves a series typed and no fresher than the exchange.
LEMMA FetchedIsReal ==
    ASSUME TypeOK, NEW c \in Caches, Real(c), NEW keys, NEW answered
    PROVE Fetched(c, keys, answered) \in Caches /\ Real(Fetched(c, keys, answered))
<1>1. served \in [TF -> Ages]
  BY DEF TypeOK
<1>2. ASSUME NEW s \in Symbols, NEW tf \in TF
      PROVE Fetched(c, keys, answered)[s][tf] \in {served[tf], c[s][tf]}
  BY DEF Fetched
<1>3. Fetched(c, keys, answered) \in Caches
  <2>1. ASSUME NEW s \in Symbols, NEW tf \in TF
        PROVE (IF <<s, tf>> \in keys \cap answered /\ ~Current(c[s][tf], tf)
               THEN served[tf] ELSE c[s][tf]) \in Ages \cup {Never}
    BY <1>1 DEF Caches, Obs
  <2> QED BY <2>1 DEF Fetched, Caches, Obs
<1>4. ASSUME NEW s \in Symbols, NEW tf \in TF,
             Fetched(c, keys, answered)[s][tf] # Never
      PROVE Fetched(c, keys, answered)[s][tf] >= served[tf]
  <2>1. served[tf] \in Int
    BY <1>1, Constants DEF Ages
  <2> QED BY <1>2, <1>4, <2>1 DEF Real
<1> QED BY <1>3, <1>4 DEF Real

\* What the watchdog observes is typed and no fresher than the exchange.
LEMMA ObservedIsReal ==
    ASSUME TypeOK, FreshnessIsReal, NEW c \in Caches, Real(c), NEW keys
    PROVE /\ Observed(c, keys) \in Obs
          /\ \A tf \in TF : Observed(c, keys)[tf] # Never
                               => Observed(c, keys)[tf] >= served[tf]
<1> DEFINE A(tf) == ({c[s][tf] : s \in {x \in Symbols : <<x, tf>> \in keys}}
                        \cup {seen[tf]})
<1> DEFINE V(tf) == IF A(tf) \ {Never} = {} THEN Never
                    ELSE Youngest(A(tf) \ {Never})
<1>1. Observed(c, keys) = [tf \in TF |-> V(tf)]
  BY DEF Observed
<1>2. ASSUME NEW tf \in TF
      PROVE V(tf) \in Ages \cup {Never} /\ (V(tf) # Never => V(tf) >= served[tf])
  <2>1. \A a \in A(tf) : a \in Ages \cup {Never} /\ (a # Never => a >= served[tf])
    <3>1. seen[tf] \in Ages \cup {Never} /\ (seen[tf] # Never => seen[tf] >= served[tf])
      BY DEF TypeOK, FreshnessIsReal
    <3>2. ASSUME NEW s \in Symbols
          PROVE c[s][tf] \in Ages \cup {Never} /\ (c[s][tf] # Never => c[s][tf] >= served[tf])
      BY DEF Caches, Obs, Real
    <3>3. ASSUME NEW a \in A(tf)
          PROVE a = seen[tf] \/ \E s \in Symbols : a = c[s][tf]
      BY Zenon, <3>3
    <3> HIDE DEF A
    <3> QED BY <3>1, <3>2, <3>3
  <2>2. CASE A(tf) \ {Never} = {}
    BY <2>2
  <2>3. CASE A(tf) \ {Never} # {}
    <3> HIDE DEF A
    <3>1. A(tf) \ {Never} \in SUBSET Ages
      BY <2>1
    <3>2. Youngest(A(tf) \ {Never}) \in A(tf) \ {Never}
      BY <2>3, <3>1, YoungestIsOne
    <3> QED BY <2>1, <2>3, <3>2
  <2> QED BY <2>2, <2>3
<1> HIDE DEF V
<1> QED BY <1>1, <1>2 DEF Obs

--------------------------------------------------------------------------------
(* A cycle, in the terms the proofs need.                                  *)

\* What a cycle does to the book and to what the engine knows.
LEMMA CycleEffect ==
    ASSUME IInv, Cycle
    PROVE /\ cache' \in Caches /\ Real(cache')
          /\ seen' \in Obs
          /\ \A tf \in TF : seen'[tf] # Never => seen'[tf] >= served[tf]
          /\ feedState' \in {"OK", "ALERT", "HALT"} /\ failing' \in BOOLEAN
          /\ open' \subseteq Symbols
          /\ open' \ open # {} => ~Halted(seen) /\ ~TooOld(served[Signal])
<1>1. PICK breach \in BOOLEAN :
         \E answered \in Answers(Wanted(Scanned(breach) \cup open)),
            books \in Answers(Scanned(breach) \cup open) :
               Pass(Scanned(breach), answered, books)
  BY Zenon DEF Cycle
<1>2. PICK answered, books : Pass(Scanned(breach), answered, books)
  BY Zenon, <1>1
<1> DEFINE scanned == Scanned(breach)
           c1 == Fetched(cache, KeysOf(scanned), answered)
           usable == {s \in scanned : Snapshot(c1, s, books) /\ ~TooOld(c1[s][Signal])}
           WithFetched(S) == Fetched(c1, KeysOf(S \ usable), answered)
           Ready(trades) ==
               {s \in trades : s \in usable \/ Snapshot(WithFetched(trades), s, books)}
           Obsv(trades) == Observed(WithFetched(trades), KeysOf(scanned \cup trades))
<1>3. PICK entered \in SUBSET (usable \ open) :
        LET trades == open \cup entered
            ready == Ready(trades)
        IN  \/ /\ ready = trades
               /\ \E closed \in SUBSET open : open' = trades \ closed
               /\ cache' = WithFetched(trades)
               /\ seen' = Obsv(trades)
               /\ feedState' = Verdict(Obsv(trades))
               /\ failing' = FALSE
            \/ \E s \in trades \ ready, reached \in SUBSET ready :
               /\ \E closed \in SUBSET (reached \cap open) : open' = trades \ closed
               /\ cache' = WithFetched(reached \cup {s})
               /\ failing' = TRUE
               /\ UNCHANGED <<seen, feedState>>
  BY Zenon, <1>2 DEF Pass
<1> DEFINE trades == open \cup entered
<1>4. cache \in Caches /\ Real(cache) /\ TypeOK /\ FreshnessIsReal
  BY DEF IInv, TypeOK, FreshnessIsReal, Caches, Obs, Real
<1>5. c1 \in Caches /\ Real(c1)
  BY <1>4, FetchedIsReal
<1>6. ASSUME NEW S PROVE WithFetched(S) \in Caches /\ Real(WithFetched(S))
  <2> HIDE DEF c1, usable
  <2> QED BY <1>4, <1>5, FetchedIsReal
<1>7. /\ Obsv(trades) \in Obs
      /\ \A tf \in TF : Obsv(trades)[tf] # Never => Obsv(trades)[tf] >= served[tf]
  <2> HIDE DEF WithFetched, scanned, trades
  <2> QED BY <1>4, <1>6, ObservedIsReal
<1>8. usable \subseteq Symbols
  BY DEF Scanned
<1>9. trades \subseteq Symbols
  <2> HIDE DEF usable
  <2> QED BY <1>4, <1>8 DEF TypeOK
<1>10. Ready(trades) \subseteq trades
  <2> HIDE DEF WithFetched, usable
  <2> QED OBVIOUS
<1>11. \A obs : Verdict(obs) \in {"OK", "ALERT", "HALT"}
  BY DEF Verdict
<1>12. \/ /\ cache' = WithFetched(trades) /\ seen' = Obsv(trades)
          /\ feedState' = Verdict(Obsv(trades)) /\ failing' = FALSE
       \/ /\ \E S : cache' = WithFetched(S)
          /\ failing' = TRUE
          /\ seen' = seen /\ feedState' = feedState
  <2> HIDE DEF WithFetched, Ready, Obsv
  <2> QED BY <1>3
<1>13. open' \subseteq trades
  <2> HIDE DEF WithFetched, Ready, Obsv
  <2> QED BY <1>3
<1>14. ASSUME open' \ open # {}
       PROVE ~Halted(seen) /\ ~TooOld(served[Signal])
  <2>1. PICK s \in usable : TRUE
    <3> HIDE DEF usable
    <3> QED BY <1>3, <1>13, <1>14
  <2>2. s \in scanned /\ Snapshot(c1, s, books) /\ ~TooOld(c1[s][Signal])
    <3> HIDE DEF c1, scanned
    <3> QED BY <2>1
  <2>3. ~Halted(seen) /\ s \in Symbols
    BY <2>2 DEF Scanned
  <2>4. c1[s][Signal] # Never /\ c1[s][Signal] >= served[Signal]
    <3> HIDE DEF c1, scanned
    <3> QED BY <2>2, <2>3, <1>5, Constants DEF Snapshot, Real
  <2>5. c1[s][Signal] \in Int /\ served[Signal] \in Int /\ BarLen[Signal] \in Nat
    <3> HIDE DEF c1
    <3> QED BY <1>4, <1>5, <2>3, Constants DEF Caches, Obs, Ages, Never, TypeOK
  <2>6. ~(c1[s][Signal] > GuardBars * BarLen[Signal])
    <3> HIDE DEF c1, scanned
    <3> QED BY <2>2 DEF TooOld
  <2>7. GuardBars * BarLen[Signal] \in Int
    BY <2>5, Constants
  <2>8. ~(served[Signal] > GuardBars * BarLen[Signal])
    <3> HIDE DEF c1, scanned
    <3> QED BY <2>4, <2>5, <2>6, <2>7
  <2> QED BY <2>3, <2>8 DEF TooOld
<1>15. /\ cache' \in Caches /\ Real(cache') /\ seen' \in Obs
       /\ \A tf \in TF : seen'[tf] # Never => seen'[tf] >= served[tf]
       /\ feedState' \in {"OK", "ALERT", "HALT"} /\ failing' \in BOOLEAN
  <2>1. /\ seen \in Obs /\ feedState \in {"OK", "ALERT", "HALT"}
        /\ \A tf \in TF : seen[tf] # Never => seen[tf] >= served[tf]
    BY <1>4 DEF TypeOK, FreshnessIsReal, Obs
  <2> HIDE DEF WithFetched, Ready, Obsv
  <2> QED BY <1>6, <1>7, <1>11, <1>12, <2>1
<1>16. open' \subseteq Symbols
  <2> HIDE DEF Ready, trades
  <2> QED BY <1>9, <1>10, <1>12, <1>13
<1> QED BY <1>14, <1>15, <1>16

--------------------------------------------------------------------------------
(* The inductive invariant.                                                *)

LEMMA InitEstablishes == Init => IInv
<1> SUFFICES ASSUME Init PROVE IInv
  OBVIOUS
<1>1. TypeOK
  <2>1. Cap \in Nat /\ MaxRestarts \in Nat /\ 0 \in Ages
    BY FeedAssumption DEF Ages
  <2>2. phase \in [TF -> Ages] /\ \A tf \in TF : phase[tf] < BarLen[tf]
    BY <2>1, Constants DEF Init
  <2>3. served \in [TF -> Ages] /\ seen \in [TF -> Ages \cup {Never}] /\ since \in Ages
    BY <2>1 DEF Init
  <2>4. cache \in [Symbols -> [TF -> Ages \cup {Never}]]
    BY DEF Init, Cold
  <2>5. restarts \in 0 .. MaxRestarts
    BY <2>1 DEF Init
  <2>6. {alive, link, loaded, failing, paused} \subseteq BOOLEAN
    BY DEF Init
  <2> QED BY <2>2, <2>3, <2>4, <2>5, <2>6 DEF Init, TypeOK
<1>2. ServedBehindSchedule
  BY DEF Init, ServedBehindSchedule
<1>3. FreshnessIsReal
  BY DEF Init, FreshnessIsReal, Never, Cold
<1> QED BY <1>1, <1>2, <1>3 DEF IInv

LEMMA CyclePreserves == ASSUME IInv, Cycle PROVE IInv'
<1>1. /\ cache' \in Caches /\ Real(cache') /\ seen' \in Obs
      /\ \A tf \in TF : seen'[tf] # Never => seen'[tf] >= served[tf]
      /\ feedState' \in {"OK", "ALERT", "HALT"} /\ failing' \in BOOLEAN
      /\ open' \subseteq Symbols
  BY CycleEffect
<1>2. /\ loaded' = TRUE
      /\ UNCHANGED <<phase, alive, served, link, since, paused, restarts>>
  BY DEF Cycle, exchangeVars
<1>3. TypeOK'
  BY <1>1, <1>2 DEF IInv, TypeOK, Caches, Obs
<1>4. ServedBehindSchedule'
  BY <1>2 DEF IInv, ServedBehindSchedule
<1>5. FreshnessIsReal'
  BY <1>1, <1>2 DEF FreshnessIsReal, Real
<1> QED BY <1>3, <1>4, <1>5 DEF IInv

LEMMA TickPreserves == ASSUME IInv, Tick PROVE IInv'
<1>1. /\ served' = [tf \in TF |-> IF alive THEN phase'[tf] ELSE Older(served[tf])]
      /\ phase' = [tf \in TF |-> IF phase[tf] + 1 = BarLen[tf] THEN 0 ELSE phase[tf] + 1]
      /\ cache' = [s \in Symbols |-> [tf \in TF |-> Older(cache[s][tf])]]
      /\ seen' = [tf \in TF |-> Older(seen[tf])]
      /\ since' = Older(since)
      /\ UNCHANGED <<alive, link, loaded, feedState, failing, paused,
                     open, restarts>>
  BY DEF Tick
<1>2. ASSUME NEW tf \in TF
      PROVE /\ phase[tf] \in Nat /\ phase[tf] < BarLen[tf] /\ phase[tf] <= served[tf]
            /\ served[tf] \in Ages /\ BarLen[tf] \in Nat /\ BarLen[tf] > 0
            /\ BarLen[tf] <= Cap /\ Cap \in Nat
  <2>1. /\ phase[tf] \in Ages /\ phase[tf] < BarLen[tf] /\ served[tf] \in Ages
        /\ served[tf] >= phase[tf]
    BY DEF IInv, TypeOK, ServedBehindSchedule
  <2> QED BY <2>1, Constants DEF Ages
<1>3. ASSUME NEW tf \in TF
      PROVE /\ phase'[tf] < BarLen[tf]
            /\ phase'[tf] \in Ages /\ phase'[tf] <= Older(served[tf])
            /\ Older(served[tf]) \in Ages
  <2>1. phase'[tf] = IF phase[tf] + 1 = BarLen[tf] THEN 0 ELSE phase[tf] + 1
    BY <1>1
  <2>2. phase'[tf] < BarLen[tf] /\ phase'[tf] \in Ages
    BY <1>2, <2>1 DEF Ages
  <2>3. Older(served[tf]) \in Ages /\ phase'[tf] <= Older(served[tf])
    BY <1>2, <2>1, <2>2 DEF Older, Ages, Never
  <2> QED BY <2>2, <2>3
<1>4. ASSUME NEW tf \in TF
      PROVE served'[tf] \in Ages /\ phase'[tf] <= served'[tf] /\ served'[tf] <= Older(served[tf])
  <2>1. served'[tf] = phase'[tf] \/ served'[tf] = Older(served[tf])
    BY <1>1
  <2> QED BY <1>3, <2>1, Constants DEF Ages
<1>5. TypeOK'
  <2>1. served' \in [TF -> Ages]
    BY <1>1, <1>4
  <2>2. cache' \in [Symbols -> [TF -> Ages \cup {Never}]]
    BY <1>1, OlderType DEF IInv, TypeOK
  <2>3. seen' \in [TF -> Ages \cup {Never}]
    BY <1>1, OlderType DEF IInv, TypeOK
  <2>4. since' \in Ages
    <3>1. since \in Ages /\ since # Never
      BY DEF IInv, TypeOK, Ages, Never
    <3> QED BY <1>1, <3>1, OlderType
  <2>5. phase' \in [TF -> Ages] /\ \A tf \in TF : phase'[tf] < BarLen[tf]
    BY <1>1, <1>3
  <2>6. {alive, link, loaded, failing, paused}' \subseteq BOOLEAN
    BY <1>1 DEF IInv, TypeOK
  <2> QED BY <1>1, <2>1, <2>2, <2>3, <2>4, <2>5, <2>6 DEF IInv, TypeOK
<1>6. ServedBehindSchedule'
  <2>1. ASSUME NEW tf \in TF PROVE served'[tf] >= phase'[tf]
    <3>1. served'[tf] \in Int /\ phase'[tf] \in Int
      BY <1>3, <1>4, Constants DEF Ages
    <3> QED BY <1>4, <3>1
  <2> QED BY <2>1 DEF ServedBehindSchedule
<1>7. ASSUME NEW a \in Ages \cup {Never}, NEW tf \in TF, a # Never => a >= served[tf],
             Older(a) # Never
      PROVE Older(a) >= served'[tf]
  <2>1. a \in Ages /\ a >= served[tf] /\ served[tf] \in Ages
    BY <1>2, <1>7, OlderType
  <2>2. Older(a) >= Older(served[tf]) /\ Older(a) \in Ages
    BY <2>1, <1>7, OlderMonotone, OlderType
  <2> QED BY <1>3, <1>4, <2>2, Constants DEF Ages
<1>8. FreshnessIsReal'
  <2>1. ASSUME NEW tf \in TF, seen'[tf] # Never PROVE seen'[tf] >= served'[tf]
    BY <1>1, <1>7, <2>1 DEF IInv, TypeOK, FreshnessIsReal
  <2>2. ASSUME NEW tf \in TF, NEW s \in Symbols, cache'[s][tf] # Never
        PROVE cache'[s][tf] >= served'[tf]
    BY <1>1, <1>7, <2>2 DEF IInv, TypeOK, FreshnessIsReal
  <2> QED BY <2>1, <2>2 DEF FreshnessIsReal
<1> QED BY <1>5, <1>6, <1>8 DEF IInv

LEMMA RevivePreserves == ASSUME IInv, FeedRevives PROVE IInv'
<1>1. /\ alive' = TRUE /\ served' = phase
      /\ UNCHANGED <<phase, link, loaded, cache, since, seen, feedState, failing,
                     paused, open, restarts>>
  BY DEF FeedRevives
<1>2. ASSUME NEW tf \in TF
      PROVE /\ phase[tf] \in Ages /\ phase[tf] \in Int
            /\ served[tf] \in Int /\ served[tf] >= phase[tf]
  <2>1. /\ phase[tf] \in Ages /\ served[tf] \in Ages
        /\ served[tf] >= phase[tf]
    BY DEF IInv, TypeOK, ServedBehindSchedule
  <2> QED BY <2>1, Constants DEF Ages
<1>3. TypeOK'
  BY <1>1 DEF IInv, TypeOK
<1>4. ServedBehindSchedule'
  BY <1>1, <1>2 DEF ServedBehindSchedule
<1>5. FreshnessIsReal'
  <2>1. \A tf \in TF : served'[tf] = phase[tf] /\ seen'[tf] = seen[tf]
    BY <1>1
  <2>2. ASSUME NEW tf \in TF, NEW a \in Ages \cup {Never}, a # Never => a >= served[tf],
               a # Never
        PROVE a >= phase[tf]
    BY <1>2, <2>2, Constants DEF Ages
  <2> QED BY <1>1, <2>1, <2>2 DEF IInv, TypeOK, FreshnessIsReal
<1> QED BY <1>3, <1>4, <1>5 DEF IInv

LEMMA NextPreserves == IInv /\ [Next]_vars => IInv'
<1> SUFFICES ASSUME IInv, [Next]_vars PROVE IInv'
  OBVIOUS
<1>1. CASE Cycle
  BY <1>1, CyclePreserves
<1>2. CASE CycleRaises
  BY <1>2 DEF CycleRaises, exchangeVars, IInv, TypeOK, ServedBehindSchedule, FreshnessIsReal
<1>3. CASE SetPaused
  BY <1>3 DEF SetPaused, exchangeVars, IInv, TypeOK, ServedBehindSchedule, FreshnessIsReal
<1>4. CASE Restart
  <2>1. restarts' \in 0 .. MaxRestarts
    BY <1>4, FeedAssumption DEF Restart, IInv, TypeOK
  <2>2. cache' = Cold /\ seen' = [tf \in TF |-> Never] /\ since' = 0
        /\ UNCHANGED <<phase, alive, served, link, open>>
        /\ feedState' = "OK" /\ loaded' = FALSE /\ failing' = FALSE /\ paused' = FALSE
    BY <1>4 DEF Restart, exchangeVars
  <2>3. TypeOK'
    <3>1. since' \in Ages
      BY <2>2, Constants DEF Ages
    <3>2. cache' \in [Symbols -> [TF -> Ages \cup {Never}]]
      BY <2>2 DEF Cold
    <3>3. seen' \in [TF -> Ages \cup {Never}]
      BY <2>2
    <3> QED BY <2>1, <2>2, <3>1, <3>2, <3>3 DEF IInv, TypeOK
  <2>4. ServedBehindSchedule' /\ FreshnessIsReal'
    BY <2>2 DEF IInv, ServedBehindSchedule, FreshnessIsReal, Cold
  <2> QED BY <2>3, <2>4 DEF IInv
<1>5. CASE Tick
  BY <1>5, TickPreserves
<1>6. CASE FeedDies
  BY <1>6 DEF FeedDies, IInv, TypeOK, ServedBehindSchedule, FreshnessIsReal
<1>7. CASE FeedRevives
  BY <1>7, RevivePreserves
<1>8. CASE LinkChanges
  BY <1>8 DEF LinkChanges, IInv, TypeOK, ServedBehindSchedule, FreshnessIsReal
<1>9. CASE UNCHANGED vars
  BY <1>9 DEF vars, exchangeVars, IInv, TypeOK, ServedBehindSchedule, FreshnessIsReal
<1> QED BY <1>1, <1>2, <1>3, <1>4, <1>5, <1>6, <1>7, <1>8, <1>9 DEF Next

\* The inductive invariant holds of every reachable state.
THEOREM FeedInvariant == Spec => []IInv
<1>1. Init => IInv
  BY InitEstablishes
<1>2. IInv /\ [Next]_vars => IInv'
  BY NextPreserves
<1> QED BY <1>1, <1>2, PTL DEF Spec

--------------------------------------------------------------------------------

\* Every reachable state is well typed.
THEOREM TypeCorrect == Spec => []TypeOK
<1>1. IInv => TypeOK
  BY DEF IInv
<1> QED BY <1>1, FeedInvariant, PTL

\* No cached series and no observation of the watchdog is fresher than the
\* exchange's newest bar (FreshnessIsReal).
THEOREM FreshnessHolds == Spec => []FreshnessIsReal
<1>1. IInv => FreshnessIsReal
  BY DEF IInv
<1> QED BY <1>1, FeedInvariant, PTL

\* The step form of NoEntryOnDeadFeed.
EntryStep ==
    open' \ open # {} =>
        /\ \A tf \in TF : served[tf] <= Halt(tf) \/ since <= Halt(tf)
        /\ ~TooOld(served[Signal])

LEMMA EntryOnLiveFeed == IInv /\ [Next]_vars => EntryStep \/ UNCHANGED vars
<1> SUFFICES ASSUME IInv, [Next]_vars, open' \ open # {}
             PROVE /\ \A tf \in TF : served[tf] <= Halt(tf) \/ since <= Halt(tf)
                   /\ ~TooOld(served[Signal])
  BY DEF EntryStep
<1>1. Cycle
  BY DEF Next, vars, CycleRaises, SetPaused, Restart, Tick, FeedDies, FeedRevives, LinkChanges
<1>2. ~Halted(seen) /\ ~TooOld(served[Signal])
  BY <1>1, CycleEffect
<1>3. ASSUME NEW tf \in TF PROVE served[tf] <= Halt(tf) \/ since <= Halt(tf)
  <2>1. ~(Age(seen, tf) > Halt(tf)) /\ Halt(tf) \in Nat
    BY <1>2, Constants DEF Halted
  <2>2. /\ seen[tf] \in Ages \cup {Never} /\ served[tf] \in Ages /\ since \in Ages
        /\ seen[tf] # Never => seen[tf] >= served[tf]
    BY DEF IInv, TypeOK, FreshnessIsReal
  <2>3. CASE seen[tf] = Never
    BY <2>1, <2>2, <2>3, Constants DEF Age, Ages
  <2>4. CASE seen[tf] # Never
    BY <2>1, <2>2, <2>4, Constants DEF Age, Ages
  <2> QED BY <2>3, <2>4
<1> QED BY <1>2, <1>3

\* No trade opens on a dead feed, nor on a stale signal bar (NoEntryOnDeadFeed).
THEOREM EntriesNeedALiveFeed == Spec => NoEntryOnDeadFeed
<1>1. IInv /\ [Next]_vars => [EntryStep]_vars
  BY EntryOnLiveFeed
<1> QED BY <1>1, FeedInvariant, PTL DEF Spec, NoEntryOnDeadFeed, EntryStep

--------------------------------------------------------------------------------
(* From the candles to a position (Signals), for every history, shape of a *)
(* bar, set of legs and period. First the candles that are held, then the  *)
(* leg of a position, then the window that an Ichimoku position keeps.     *)

IsSequence(s) == s \in Seq({s[i] : i \in DOMAIN s})

PositionFields == {"sig", "at", "last", "risk", "exit", "window"}

Candle == [open : Int, close : Int, high : Int, low : Int]

\* The legs of a setting are those of STRATEGIES, or the plain one. A position is none of
\* the values that stand for "none"; the lines of an Ichimoku leg fit into the bars that
\* its detector waits for (setups.py: 9 and 26 into 26 + 52 + 3).
SignalConstants ==
    /\ PriceUnit \in Int /\ \A s \in Shapes : s.move \in Int /\ s.up \in Int /\ s.down \in Int
    /\ Histories \subseteq Seq(Candle) \ {<<>>}
    /\ \A s \in Settings : IsSequence(s.strategies)
    /\ NoValue \notin Nat /\ DOMAIN NoValue # PositionFields
    /\ Periods.tenkan \in 1 .. Periods.kijun /\ Periods.kijun \in Nat
    /\ Periods.shift \in Nat /\ Periods.senkou \in Nat
    /\ Periods.kijun <= Periods.shift + Periods.senkou + 3 /\ Periods.minBars \in Nat

(***************************************************************************)
(* The candles.                                                            *)
(***************************************************************************)
CandlesTyped ==
    /\ series \in Seq(Candle) \ {<<>>} /\ forming \in Candle
    /\ cached \in Seq(Candle)
    /\ wire # NoValue => wire \in Seq(Candle) \ {<<>>}

\* An answer holds the bars that are over and the one that was in progress, which at most
\* has ended since.
AnswerInTime ==
    wire # NoValue => /\ Len(wire) \in {Len(series), Len(series) + 1}
                      /\ \A i \in 1 .. Len(wire) - 1 : wire[i] = series[i]

\* What is held for closed is over.
HeldIsOver ==
    /\ Len(cached) <= Len(series)
    /\ \A i \in 1 .. Len(cached) :
          cached[i] = series[i] \/ (i = Len(cached) /\ i \in late)

CandleInv == CandlesTyped /\ AnswerInTime /\ HeldIsOver

LEMMA TwoExtremes ==
  ASSUME NEW a \in Int, NEW b \in Int
  PROVE  G!MaxOf({a, b}) \in Int /\ G!MinOf({a, b}) \in Int
<1>1. \E x \in {a, b} : \A y \in {a, b} : y <= x
  <2>1. CASE a <= b
    BY <2>1
  <2>2. CASE b <= a
    BY <2>2
  <2> QED BY <2>1, <2>2
<1>2. \E x \in {a, b} : \A y \in {a, b} : x <= y
  <2>1. CASE a <= b
    BY <2>1
  <2>2. CASE b <= a
    BY <2>2
  <2> QED BY <2>1, <2>2
<1>3. G!MaxOf({a, b}) \in {a, b}
  BY <1>1, Zenon DEF G!MaxOf
<1>4. G!MinOf({a, b}) \in {a, b}
  BY <1>2, Zenon DEF G!MinOf
<1> QED BY <1>3, <1>4

LEMMA CandlesAreMade ==
  ASSUME SignalConstants, NEW o \in Int
  PROVE  G!Opened(o) \in Candle /\ \A s \in Shapes : G!Shaped(o, s) \in Candle
<1>1. G!Opened(o) \in Candle
  BY DEF G!Opened, Candle
<1>2. ASSUME NEW s \in Shapes PROVE G!Shaped(o, s) \in Candle
  <2> DEFINE c == o + s.move * PriceUnit
  <2>1. s.move * PriceUnit \in Int /\ s.up * PriceUnit \in Int /\ s.down * PriceUnit \in Int
    BY DEF SignalConstants
  <2>2. c \in Int
    BY <2>1
  <2> HIDE DEF c
  <2>3. G!MaxOf({o, c}) \in Int /\ G!MinOf({o, c}) \in Int
    BY <2>2, TwoExtremes
  <2>4. G!MaxOf({o, c}) + s.up * PriceUnit \in Int /\ G!MinOf({o, c}) - s.down * PriceUnit \in Int
    BY <2>1, <2>3
  <2>5. G!Shaped(o, s) = [open |-> o, close |-> c, high |-> G!MaxOf({o, c}) + s.up * PriceUnit,
                          low |-> G!MinOf({o, c}) - s.down * PriceUnit]
    BY DEF G!Shaped, c
  <2> QED BY <2>2, <2>4, <2>5 DEF Candle
<1> QED BY <1>1, <1>2

LEMMA LastCandle ==
  ASSUME NEW b \in Seq(Candle), b # <<>>
  PROVE  Len(b) \in Nat \ {0} /\ b[Len(b)] \in Candle /\ G!Close(b) \in Int
<1>1. Len(b) \in Nat \ {0}
  OBVIOUS
<1>2. b[Len(b)] \in Candle
  BY <1>1
<1> QED BY <1>1, <1>2 DEF G!Close, Candle

LEMMA CandleStarts == ASSUME SignalConstants, G!Init PROVE CandleInv
<1>1. series \in Seq(Candle) \ {<<>>}
  BY DEF SignalConstants, G!Init
<1>2. forming \in Candle
  BY <1>1, LastCandle, CandlesAreMade DEF G!Init
<1>3. wire = NoValue /\ cached = <<>>
  BY DEF G!Init
<1> QED BY <1>1, <1>2, <1>3 DEF CandleInv, CandlesTyped, AnswerInTime, HeldIsOver

LEMMA CandleKeeps == ASSUME SignalConstants, CandleInv, [G!Next]_G!vars PROVE CandleInv'
<1> USE DEF CandleInv, CandlesTyped, AnswerInTime, HeldIsOver
<1>1. CASE G!Trade
  <2>1. PICK s \in Shapes : forming' = G!Shaped(forming.open, s)
    BY <1>1 DEF G!Trade
  <2>2. forming.open \in Int
    BY DEF Candle
  <2>3. forming' \in Candle
    BY <2>1, <2>2, CandlesAreMade
  <2> QED BY <1>1, <2>3 DEF G!Trade
<1>2. CASE G!BarEnds
  <2>1. /\ series' = Append(series, forming) /\ forming' = G!Opened(forming.close)
        /\ UNCHANGED <<wire, cached, late>>
        /\ wire = NoValue \/ Len(wire) > Len(series)
    BY <1>2 DEF G!BarEnds
  <2>2. forming.close \in Int
    BY DEF Candle
  <2>3. forming' \in Candle
    BY <2>1, <2>2, CandlesAreMade
  <2>4. /\ series' \in Seq(Candle) \ {<<>>} /\ Len(series') = Len(series) + 1
        /\ \A i \in 1 .. Len(series) : series'[i] = series[i]
    BY <2>1
  <2>5. HeldIsOver'
    BY <2>1, <2>4
  <2>6. AnswerInTime'
    BY <2>1, <2>4
  <2> QED BY <2>1, <2>3, <2>4, <2>5, <2>6
<1>3. CASE G!Ask
  <2>1. wire' = Append(series, forming) /\ UNCHANGED <<series, forming, cached, late>>
    BY <1>3 DEF G!Ask
  <2>2. /\ Append(series, forming) \in Seq(Candle) \ {<<>>}
        /\ Len(Append(series, forming)) = Len(series) + 1
        /\ \A i \in 1 .. Len(series) : Append(series, forming)[i] = series[i]
    OBVIOUS
  <2>3. Len(series) \in Nat
    OBVIOUS
  <2> QED BY <2>1, <2>2, <2>3
<1>4. CASE G!Receive
  <2>1. /\ wire # NoValue /\ cached' = G!ClosedView(wire) /\ wire' = NoValue
        /\ late' = (IF Len(wire) <= Len(series) THEN late \cup {Len(wire)} ELSE late)
        /\ UNCHANGED <<series, forming>>
    BY <1>4 DEF G!Receive
  <2>2. Len(wire) \in Nat \ {0} /\ Len(series) \in Nat
    BY <2>1
  <2>3. CASE Len(wire) = Len(series)
    <3>1. cached' = wire /\ Len(wire) \in late'
      BY <2>1, <2>2, <2>3 DEF G!ClosedView
    <3>2. ASSUME NEW i \in 1 .. Len(cached')
          PROVE  cached'[i] = series'[i] \/ (i = Len(cached') /\ i \in late')
      <4>1. i \in 1 .. Len(wire) - 1 \/ i = Len(wire)
        BY <2>2, <3>1
      <4> QED BY <2>1, <3>1, <4>1
    <3> QED BY <2>1, <2>3, <3>1, <3>2
  <2>4. CASE Len(wire) = Len(series) + 1
    <3>1. cached' = SubSeq(wire, 1, Len(wire) - 1)
      BY <2>1, <2>2, <2>4 DEF G!ClosedView
    <3>2. /\ cached' \in Seq(Candle) /\ Len(cached') = Len(series)
          /\ \A i \in 1 .. Len(cached') : cached'[i] = wire[i]
      BY <2>1, <2>2, <2>4, <3>1
    <3>3. \A i \in 1 .. Len(cached') : cached'[i] = series'[i]
      BY <2>1, <2>2, <2>4, <3>2
    <3> QED BY <2>1, <3>2, <3>3
  <2> QED BY <2>1, <2>3, <2>4
<1>5. CASE G!Cycle \/ G!Leave \/ UNCHANGED G!vars
  BY <1>5 DEF G!Cycle, G!Leave, G!vars
<1> QED BY <1>1, <1>2, <1>3, <1>4, <1>5 DEF G!Next

\* FinalUnlessLate: a candle held for closed is final, unless it ended while the answer
\* that holds it was on its way.
THEOREM CandlesAreFinal == ASSUME SignalConstants PROVE DecisionSpec => []FinalUnlessLate
<1> DEFINE Inv == SignalsRun => CandleInv
<1>1. DecisionInit => Inv
  BY CandleStarts DEF DecisionInit, SignalsParked, SignalsRun
<1>2. Inv /\ [DecisionNext]_decisionVars => Inv'
  <2> SUFFICES ASSUME Inv, [DecisionNext]_decisionVars, SignalsRun' PROVE CandleInv'
    OBVIOUS
  <2>1. CASE SignalsStep
    BY <2>1, CandleKeeps DEF SignalsStep
  <2>2. CASE ~SignalsStep
    <3>1. UNCHANGED G!vars
      BY <2>2 DEF DecisionNext, ShadowStep, decisionVars, signalVars, G!vars
    <3>2. SignalsRun
      BY <3>1 DEF SignalsRun, G!vars
    <3> QED BY <3>1, <3>2, CandleKeeps
  <2> QED BY <2>1, <2>2
<1>3. Inv => FinalUnlessLate
  <2> SUFFICES ASSUME CandleInv PROVE G!FinalUnlessLate
    BY DEF FinalUnlessLate
  <2>1. DOMAIN cached = 1 .. Len(cached) /\ DOMAIN series = 1 .. Len(series)
    BY DEF CandleInv, CandlesTyped
  <2>2. Len(cached) \in Nat /\ Len(series) \in Nat
    BY DEF CandleInv, CandlesTyped
  <2>3. ASSUME NEW i \in DOMAIN cached PROVE i \in DOMAIN series
    <3>1. i \in 1 .. Len(cached) /\ Len(cached) <= Len(series)
      BY <2>1 DEF CandleInv, HeldIsOver
    <3>2. i \in 1 .. Len(series)
      BY <2>2, <3>1
    <3> QED BY <2>1, <3>2
  <2> QED BY <2>1, <2>2, <2>3 DEF CandleInv, HeldIsOver, G!FinalUnlessLate
<1> QED BY <1>1, <1>2, <1>3, PTL DEF DecisionSpec

(***************************************************************************)
(* The leg of a position.                                                  *)
(***************************************************************************)
Raws == IF setting.strategies = <<>> THEN <<G!Plain(setting)>> ELSE setting.strategies

PositionShaped ==
    position # NoValue => DOMAIN position = PositionFields

\* Without legs no candle is asked for.
LegInv ==
    /\ setting \in Settings /\ legs = G!Parsed(setting)
    /\ legs = NoValue => wire = NoValue /\ cached = <<>>
    /\ PositionShaped /\ G!OwnLeg

\* The legs are one for each strategy, each with a key of its own.
LEMMA LegFacts ==
  ASSUME SignalConstants, setting \in Settings, legs = G!Parsed(setting), legs # NoValue
  PROVE  /\ Len(Raws) \in Nat \ {0} /\ DOMAIN Raws = 1 .. Len(Raws)
         /\ setting.strategies # <<>> => Raws = setting.strategies
         /\ DOMAIN legs = 1 .. Len(Raws) /\ Len(legs) = Len(Raws)
         /\ \A i \in DOMAIN legs : legs[i] = G!LegOf(setting, Raws, i)
         /\ \A i, j \in DOMAIN legs : legs[i].key = legs[j].key => i = j
<1>1. /\ Raws = <<G!Plain(setting)>> \/ Raws = setting.strategies
      /\ setting.strategies # <<>> => Raws = setting.strategies
  BY DEF Raws
<1>2. IsSequence(setting.strategies)
  BY DEF SignalConstants
<1>3. Len(Raws) \in Nat \ {0} /\ DOMAIN Raws = 1 .. Len(Raws)
  <2>1. CASE setting.strategies = <<>>
    <3>1. Raws = <<G!Plain(setting)>>
      BY <2>1 DEF Raws
    <3> QED BY <3>1
  <2>2. CASE setting.strategies # <<>>
    BY <1>1, <1>2, <2>2 DEF IsSequence
  <2> QED BY <2>1, <2>2
<1>4. /\ ~G!Refused(Raws)
      /\ legs = [i \in DOMAIN Raws |-> G!LegOf(setting, Raws, i)]
  BY Zenon DEF G!Parsed, Raws
<1>5. DOMAIN legs = 1 .. Len(Raws) /\ \A i \in DOMAIN legs : legs[i] = G!LegOf(setting, Raws, i)
  BY <1>3, <1>4
<1>6. Len(legs) = Len(Raws)
  <2>1. legs \in [1 .. Len(Raws) -> {legs[i] : i \in DOMAIN legs}]
    BY <1>4, <1>5
  <2>2. legs \in Seq({legs[i] : i \in DOMAIN legs})
    BY <1>3, <2>1, SeqDef
  <2>3. Len(legs) \in Nat /\ DOMAIN legs = 1 .. Len(legs)
    BY <2>2
  <2>4. 1 .. Len(legs) = 1 .. Len(Raws)
    BY <1>5, <2>3
  <2> DEFINE n == Len(legs)
             m == Len(Raws)
  <2>5. n \in Nat /\ m \in Nat \ {0} /\ 1 .. n = 1 .. m
    BY <1>3, <2>3, <2>4
  <2> HIDE DEF n, m
  <2>6. m \in 1 .. n /\ (n # 0 => n \in 1 .. m)
    <3>1. m \in 1 .. m /\ (n # 0 => n \in 1 .. n)
      BY <2>5
    <3> QED BY <2>5, <3>1
  <2>7. n = m
    BY <2>5, <2>6
  <2> QED BY <2>7 DEF n, m
<1>7. \A i \in DOMAIN legs : legs[i].key = G!Key(Raws, i)
  BY <1>5 DEF G!LegOf
<1>8. \A i, j \in DOMAIN legs : legs[i].key = legs[j].key => i = j
  BY <1>3, <1>4, <1>5, <1>7 DEF G!Refused
<1> QED BY <1>1, <1>3, <1>5, <1>6, <1>8

\* OwnLeg, of a position p.
OfOwnLeg(p) ==
    \E i \in DOMAIN legs :
        /\ <<legs[i].profile, legs[i].ltf, legs[i].htf>> = <<p.sig.profile, p.sig.ltf, p.sig.htf>>
        /\ legs[i].universe # {} => Asset \in legs[i].universe
        /\ p.exit = legs[i].exit
        /\ p.risk = legs[i].risk

LEMMA RoutedToOne ==
  ASSUME NEW sig, NEW i \in DOMAIN legs, i \in Nat, G!Routed(sig) = {i}, SignalConstants, NEW b
  PROVE  /\ G!Position(sig, b).sig = sig /\ G!Position(sig, b).exit = legs[i].exit
         /\ G!Position(sig, b).risk = IF G!Multi THEN legs[i].risk ELSE setting.risk
<1>1. \E x \in {i} : \A y \in {i} : y <= x
  OBVIOUS
<1>2. G!MaxOf({i}) = i
  BY <1>1, Zenon DEF G!MaxOf
<1>3. i # NoValue /\ G!Routed(sig) # {}
  BY DEF SignalConstants
<1> QED BY <1>2, <1>3 DEF G!Position

LEMMA EntryOwnLeg ==
  ASSUME SignalConstants, setting \in Settings, legs = G!Parsed(setting), legs # NoValue,
         Len(setting.strategies) # 1,
         NEW b, NEW sig \in G!Candidates(b)
  PROVE  OfOwnLeg(G!Position(sig, b))
<1>1. /\ Len(Raws) \in Nat \ {0} /\ DOMAIN Raws = 1 .. Len(Raws)
      /\ setting.strategies # <<>> => Raws = setting.strategies
      /\ DOMAIN legs = 1 .. Len(Raws) /\ Len(legs) = Len(Raws)
      /\ \A i \in DOMAIN legs : legs[i] = G!LegOf(setting, Raws, i)
      /\ \A i, j \in DOMAIN legs : legs[i].key = legs[j].key => i = j
  BY LegFacts
<1>2. CASE G!Multi
  <2>1. PICK i \in DOMAIN legs : /\ legs[i].universe # {} => Asset \in legs[i].universe
                                 /\ sig \in G!SignalsOf(legs[i], legs[i].key, b)
    BY <1>2 DEF G!Candidates
  <2>2. /\ sig.key = legs[i].key /\ sig.profile = legs[i].profile
        /\ sig.ltf = legs[i].ltf /\ sig.htf = legs[i].htf
    BY <2>1 DEF G!SignalsOf
  <2>3. G!Routed(sig) = {i} /\ i \in Nat
    BY <1>1, <2>2 DEF G!Routed
  <2> QED BY <1>2, <2>1, <2>2, <2>3, RoutedToOne DEF OfOwnLeg
<1>3. CASE ~G!Multi
  <2>1. setting.strategies = <<>>
    <3>1. Len(Raws) = 1
      BY <1>1, <1>3 DEF G!Multi
    <3> QED BY <1>1, <3>1
  <2>2. Raws = <<G!Plain(setting)>>
    BY <2>1 DEF Raws
  <2>3. DOMAIN legs = {1} /\ legs[1] = G!LegOf(setting, Raws, 1)
    BY <1>1, <2>2
  <2>4. /\ legs[1].profile = setting.profile /\ legs[1].ltf = setting.ltf
        /\ legs[1].htf = setting.htf /\ legs[1].universe = {}
        /\ legs[1].key = <<setting.profile>> /\ legs[1].risk = setting.risk
    <3>1. Raws[1] = G!Plain(setting)
      BY <2>2
    <3>2. G!Key(Raws, 1) = <<setting.profile>>
      BY <3>1 DEF G!Key, G!Plain
    <3> QED BY <2>3, <3>1, <3>2 DEF G!LegOf, G!Plain
  <2>5. /\ sig.key = <<setting.profile>> /\ sig.profile = setting.profile
        /\ sig.ltf = setting.ltf /\ sig.htf = setting.htf
    <3>1. sig \in G!SignalsOf(G!Plain(setting), <<setting.profile>>, b)
      BY <1>3 DEF G!Candidates
    <3> QED BY <3>1 DEF G!SignalsOf, G!Plain
  <2>6. G!Routed(sig) = {1} /\ 1 \in Nat
    BY <2>3, <2>4, <2>5 DEF G!Routed
  <2> QED BY <1>3, <2>3, <2>4, <2>5, <2>6, RoutedToOne DEF OfOwnLeg
<1> QED BY <1>2, <1>3

LEMMA LegStarts == ASSUME G!Init PROVE LegInv
BY DEF G!Init, LegInv, PositionShaped, G!OwnLeg

\* What a cycle may do: enter, leave, or keep the position.
LEMMA CycleCases ==
  ASSUME PositionShaped, G!Cycle
  PROVE  \/ /\ position = NoValue
            /\ \E sig \in G!Candidates(cached) : position' = G!Position(sig, cached)
         \/ position # NoValue /\ position' = NoValue /\ left' = "TKCROSS"
         \/ /\ position # NoValue
            /\ DOMAIN position' = DOMAIN position
            /\ position'.sig = position.sig /\ position'.at = position.at
            /\ position'.risk = position.risk /\ position'.exit = position.exit
<1> DEFINE w == IF G!Follows(position) THEN G!Grown(position, cached) ELSE position.window
           p == [position EXCEPT !.last = Len(cached)]
           q == [p EXCEPT !.window = w]
<1>1. CASE position # NoValue /\ position' = q
  <2>1. PositionFields = DOMAIN position
    BY <1>1 DEF PositionShaped
  <2>2. /\ DOMAIN p = DOMAIN position /\ p.sig = position.sig /\ p.at = position.at
        /\ p.risk = position.risk /\ p.exit = position.exit
    BY <2>1 DEF PositionFields
  <2> HIDE DEF p
  <2>3. /\ DOMAIN q = DOMAIN p /\ q.sig = p.sig /\ q.at = p.at
        /\ q.risk = p.risk /\ q.exit = p.exit
    BY <2>1, <2>2 DEF PositionFields
  <2> HIDE DEF q
  <2> QED BY <1>1, <2>2, <2>3
<1>2. CASE ~(position # NoValue /\ position' = q)
  BY <1>2 DEF G!Cycle, PositionShaped
<1> QED BY <1>1, <1>2

LEMMA LegKeeps == ASSUME SignalConstants, LegInv, [G!Next]_G!vars PROVE LegInv'
<1>1. CASE G!Cycle
  <2>1. UNCHANGED <<setting, legs, wire, cached>> /\ cached # <<>>
    BY <1>1 DEF G!Cycle
  <2>2. legs # NoValue
    BY <2>1 DEF LegInv
  <2>3. CASE \E sig \in G!Candidates(cached) : position' = G!Position(sig, cached)
    <3>1. PICK sig \in G!Candidates(cached) : position' = G!Position(sig, cached)
      BY <2>3
    <3>2. PositionShaped'
      BY <3>1 DEF PositionShaped, PositionFields, G!Position
    <3>3. Len(setting.strategies) # 1 => OfOwnLeg(position')
      BY <2>2, <3>1, EntryOwnLeg DEF LegInv
    <3>4. G!OwnLeg'
      BY <2>1, <3>3 DEF G!OwnLeg, OfOwnLeg
    <3> QED BY <2>1, <3>2, <3>4 DEF LegInv
  <2>4. CASE position' = NoValue
    BY <2>1, <2>4 DEF LegInv, PositionShaped, G!OwnLeg
  <2>5. CASE /\ position # NoValue /\ DOMAIN position' = DOMAIN position
             /\ position'.sig = position.sig
             /\ position'.risk = position.risk /\ position'.exit = position.exit
    BY <2>1, <2>5 DEF LegInv, PositionShaped, G!OwnLeg
  <2> QED BY <1>1, <2>3, <2>4, <2>5, CycleCases DEF LegInv
<1>2. CASE G!Leave
  BY <1>2 DEF G!Leave, LegInv, PositionShaped, G!OwnLeg
<1>3. CASE G!Trade \/ G!BarEnds \/ G!Ask \/ G!Receive \/ UNCHANGED G!vars
  <2>1. UNCHANGED <<setting, legs, position>>
    BY <1>3 DEF G!Trade, G!BarEnds, G!Ask, G!Receive, G!vars
  <2>2. legs' = NoValue => wire' = NoValue /\ cached' = <<>>
    BY <1>3, <2>1 DEF LegInv, G!Trade, G!BarEnds, G!Ask, G!Receive, G!vars
  <2> QED BY <2>1, <2>2 DEF LegInv, PositionShaped, G!OwnLeg
<1> QED BY <1>1, <1>2, <1>3 DEF G!Next

\* OwnLeg: a position belongs to the leg that signalled it, with its risk and exits.
THEOREM PositionsHaveTheirLeg == ASSUME SignalConstants PROVE DecisionSpec => []OwnLeg
<1> DEFINE Inv == SignalsRun => LegInv
<1>1. DecisionInit => Inv
  BY LegStarts DEF DecisionInit, SignalsParked, SignalsRun
<1>2. Inv /\ [DecisionNext]_decisionVars => Inv'
  <2> SUFFICES ASSUME Inv, [DecisionNext]_decisionVars, SignalsRun' PROVE LegInv'
    OBVIOUS
  <2>1. CASE SignalsStep
    BY <2>1, LegKeeps DEF SignalsStep
  <2>2. CASE ~SignalsStep
    <3>1. UNCHANGED G!vars
      BY <2>2 DEF DecisionNext, ShadowStep, decisionVars, signalVars, G!vars
    <3>2. SignalsRun
      BY <3>1 DEF SignalsRun, G!vars
    <3> QED BY <3>1, <3>2, LegKeeps
  <2> QED BY <2>1, <2>2
<1>3. Inv => OwnLeg
  BY DEF OwnLeg, LegInv
<1> QED BY <1>1, <1>2, <1>3, PTL DEF DecisionSpec

(***************************************************************************)
(* The window of an Ichimoku position.                                     *)
(***************************************************************************)
\* The extremes of the candle i that is over.
Ended(i) == <<series[i].high, series[i].low>>

\* No candle ended on the way of its answer from a kijun before the entry on.
Timely == late \cap (position.at - Periods.kijun) .. Len(cached) = {}

\* The kijun extremes up to the bar seen last, of the candles that are over.
WindowOf(w, n) ==
    /\ w \in Seq(Int \X Int) /\ Len(w) = Periods.kijun
    /\ \A j \in 1 .. Periods.kijun : w[j] = Ended(n - Periods.kijun + j)

\* What has been asked for is newer than what is held.
AnswerAhead ==
    /\ wire # NoValue => Len(wire) > Len(cached) + 1
    /\ wire = NoValue /\ cached # <<>> => Len(series) \in {Len(cached), Len(cached) + 1}

\* No bar passes unseen, unless one ends on the way of its answer.
BarByBar ==
    \/ /\ Len(cached) = position.last
       /\ wire = NoValue => Len(series) <= position.last + 1
       /\ wire # NoValue => \/ Len(series) = position.last + 1
                            \/ /\ Len(series) = position.last + 2
                               /\ Len(wire) = position.last + 2
    \/ /\ Len(cached) = position.last + 1 /\ Len(series) = position.last + 1
       /\ wire = NoValue

FollowedInv ==
    position # NoValue /\ G!Follows(position) =>
        /\ position.at \in Nat /\ position.last \in Nat
        /\ Periods.kijun <= position.at /\ position.at <= position.last
        /\ Timely => BarByBar /\ WindowOf(position.window, position.last)

WindowInv == CandleInv /\ LegInv /\ AnswerAhead /\ FollowedInv

LEMMA NewestFacts ==
  ASSUME NEW S, NEW w \in Seq(S), NEW n \in 1 .. Len(w)
  PROVE  /\ G!Newest(w, n) \in Seq(S) /\ Len(G!Newest(w, n)) = n
         /\ \A j \in 1 .. n : G!Newest(w, n)[j] = w[Len(w) - n + j]
<1> DEFINE m == Len(w) - n + 1
<1>1. Len(w) \in Nat /\ m \in 1 .. Len(w) /\ n = Len(w) - m + 1
  OBVIOUS
<1>2. \E x \in {1, m} : \A y \in {1, m} : y <= x
  BY <1>1
<1>3. G!MaxOf({1, m}) \in {1, m} /\ \A y \in {1, m} : y <= G!MaxOf({1, m})
  <2> HIDE DEF m
  <2> QED BY <1>2, Zenon DEF G!MaxOf
<1>4. G!MaxOf({1, m}) = m
  BY <1>1, <1>3
<1>5. G!Newest(w, n) = SubSeq(w, m, Len(w))
  BY <1>4 DEF G!Newest
<1> HIDE DEF m
<1>6. SubSeq(w, m, Len(w)) \in Seq(S) /\ Len(SubSeq(w, m, Len(w))) = n
  BY <1>1
<1>7. ASSUME NEW j \in 1 .. n PROVE SubSeq(w, m, Len(w))[j] = w[Len(w) - n + j]
  <2>1. SubSeq(w, m, Len(w))[j] = w[m + j - 1]
    BY <1>1
  <2> QED BY <1>1, <2>1
<1> QED BY <1>5, <1>6, <1>7

\* The extremes of a history are pairs of integers, one for each candle.
LEMMA ExtremesFacts ==
  ASSUME NEW b \in Seq(Candle)
  PROVE  /\ G!Extremes(b) \in Seq(Int \X Int) /\ Len(G!Extremes(b)) = Len(b)
         /\ \A i \in 1 .. Len(b) : G!Extremes(b)[i] = <<b[i].high, b[i].low>>
<1>1. Len(b) \in Nat /\ DOMAIN b = 1 .. Len(b) /\ \A i \in 1 .. Len(b) : b[i] \in Candle
  OBVIOUS
<1>2. \A i \in 1 .. Len(b) : <<b[i].high, b[i].low>> \in Int \X Int
  BY <1>1 DEF Candle
<1>3. G!Extremes(b) = [i \in 1 .. Len(b) |-> <<b[i].high, b[i].low>>]
  BY <1>1 DEF G!Extremes
<1>4. G!Extremes(b) \in [1 .. Len(b) -> Int \X Int]
  BY <1>2, <1>3
<1>5. G!Extremes(b) \in Seq(Int \X Int)
  BY <1>1, <1>4, SeqDef
<1>6. Len(G!Extremes(b)) = Len(b)
  BY <1>1, <1>4, <1>5
<1> QED BY <1>3, <1>5, <1>6

\* A window holds the extremes of the newest n candles of b.
HoldsNewest(w, b, n) ==
    /\ w \in Seq(Int \X Int) /\ Len(w) = n
    /\ \A j \in 1 .. n : w[j] = <<b[Len(b) - n + j].high, b[Len(b) - n + j].low>>

\* Twice the middle of a window that holds the extremes of the newest n candles of b.
LEMMA MiddleFromWindow ==
  ASSUME NEW b \in Seq(Candle), NEW n \in Nat \ {0}, n <= Len(b),
         NEW w, HoldsNewest(w, b, n)
  PROVE  G!Twice(w) = G!Middle(b, n, Len(b))
<1> DEFINE B == (Len(b) - n + 1) .. Len(b)
<1>1. DOMAIN w = 1 .. n /\ Len(b) \in Nat
  BY DEF HoldsNewest
<1>2. ASSUME NEW j \in DOMAIN w
      PROVE  /\ Len(b) - n + j \in B
             /\ w[j][1] = b[Len(b) - n + j].high /\ w[j][2] = b[Len(b) - n + j].low
  BY <1>1 DEF HoldsNewest
<1>3. ASSUME NEW k \in B
      PROVE  /\ k - Len(b) + n \in DOMAIN w
             /\ w[k - Len(b) + n][1] = b[k].high /\ w[k - Len(b) + n][2] = b[k].low
  <2>1. k - Len(b) + n \in 1 .. n /\ Len(b) - n + (k - Len(b) + n) = k
    BY <1>1
  <2>2. w[k - Len(b) + n] = <<b[k].high, b[k].low>>
    BY <2>1 DEF HoldsNewest
  <2> QED BY <1>1, <2>1, <2>2
<1> HIDE DEF B
<1>4. {w[i][1] : i \in DOMAIN w} = {b[k].high : k \in B}
  <2>1. ASSUME NEW j \in DOMAIN w PROVE w[j][1] \in {b[k].high : k \in B}
    <3>1. \E k \in B : w[j][1] = b[k].high
      BY <1>2
    <3> QED BY <3>1
  <2>2. \A x \in {b[k].high : k \in B} : x \in {w[i][1] : i \in DOMAIN w}
    BY <1>3
  <2> QED BY <2>1, <2>2
<1>5. {w[i][2] : i \in DOMAIN w} = {b[k].low : k \in B}
  <2>1. ASSUME NEW j \in DOMAIN w PROVE w[j][2] \in {b[k].low : k \in B}
    <3>1. \E k \in B : w[j][2] = b[k].low
      BY <1>2
    <3> QED BY <3>1
  <2>2. \A x \in {b[k].low : k \in B} : x \in {w[i][2] : i \in DOMAIN w}
    BY <1>3
  <2> QED BY <2>1, <2>2
<1> QED BY <1>4, <1>5 DEF G!Twice, G!Middle, G!High, G!Low, B

\* An Ichimoku leg has waited for the bars that its window takes.
LEMMA IchimokuWaited ==
  ASSUME SignalConstants, LegInv, legs # NoValue, NEW b \in Seq(Candle),
         NEW sig \in G!Candidates(b), G!ProfileOf(sig.key) = "ichimoku_trend",
         sig.ltf = setting.frame
  PROVE  Periods.kijun <= Len(b)
<1>1. sig.profile = G!ProfileOf(sig.key) /\ G!Detect(sig.profile, b, htf) # NoValue
  <2>1. CASE G!Multi
    <3>1. PICK i \in DOMAIN legs : sig \in G!SignalsOf(legs[i], legs[i].key, b)
      BY <2>1 DEF G!Candidates
    <3>2. legs[i] = G!LegOf(setting, Raws, i)
      BY LegFacts DEF LegInv
    <3>3. legs[i].key = G!Key(Raws, i) /\ legs[i].profile = Raws[i].profile
      BY <3>2 DEF G!LegOf
    <3>4. G!ProfileOf(legs[i].key) = legs[i].profile
      BY <3>3 DEF G!Key, G!ProfileOf
    <3> QED BY <3>1, <3>4 DEF G!SignalsOf, G!Seen
  <2>2. CASE ~G!Multi
    <3>1. sig \in G!SignalsOf(G!Plain(setting), <<setting.profile>>, b)
      BY <2>2 DEF G!Candidates
    <3> QED BY <3>1 DEF G!SignalsOf, G!Seen, G!Plain, G!ProfileOf
  <2> QED BY <2>1, <2>2
<1>2. ~(Len(b) < G!MaxOf({Periods.minBars, G!Waits["ichimoku_trend"]}))
  BY <1>1 DEF G!Detect
<1> DEFINE m == Periods.minBars
           v == Periods.shift + Periods.senkou + 3
<1>3. G!Waits["ichimoku_trend"] = v
  BY DEF G!Waits
<1>4. m \in Int /\ v \in Int /\ Periods.kijun <= v /\ Periods.kijun \in Nat /\ Len(b) \in Nat
  BY DEF SignalConstants
<1> HIDE DEF m, v
<1>5. \E x \in {m, v} : \A y \in {m, v} : y <= x
  <2>1. CASE m <= v
    BY <1>4, <2>1
  <2>2. CASE v <= m
    BY <1>4, <2>2
  <2> QED BY <1>4, <2>1, <2>2
<1>6. G!MaxOf({m, v}) \in {m, v} /\ \A y \in {m, v} : y <= G!MaxOf({m, v})
  BY <1>5, Zenon DEF G!MaxOf
<1>7. ~(Len(b) < G!MaxOf({m, v}))
  BY <1>2, <1>3 DEF m
<1> QED BY <1>4, <1>6, <1>7

\* What an answer shows for closed is as long as the history.
LEMMA ClosedLength ==
  ASSUME CandleInv, wire # NoValue PROVE Len(G!ClosedView(wire)) = Len(series)
<1>1. Len(series) \in Nat \ {0} /\ wire \in Seq(Candle)
      /\ Len(wire) \in {Len(series), Len(series) + 1}
  BY DEF CandleInv, CandlesTyped, AnswerInTime
<1>2. CASE Len(wire) = Len(series)
  BY <1>1, <1>2 DEF G!ClosedView
<1>3. CASE Len(wire) = Len(series) + 1
  <2>1. G!ClosedView(wire) = SubSeq(wire, 1, Len(wire) - 1)
    BY <1>1, <1>3 DEF G!ClosedView
  <2> QED BY <1>1, <1>3, <2>1
<1> QED BY <1>1, <1>2, <1>3

LEMMA AheadKeeps ==
  ASSUME CandleInv, AnswerAhead, [G!Next]_G!vars PROVE AnswerAhead'
<1> USE DEF AnswerAhead
<1>1. Len(series) \in Nat /\ Len(cached) \in Nat /\ Len(cached) <= Len(series)
  BY DEF CandleInv, CandlesTyped, HeldIsOver
<1>2. CASE G!Trade \/ G!Cycle \/ G!Leave \/ UNCHANGED G!vars
  BY <1>2 DEF G!Trade, G!Cycle, G!Leave, G!vars
<1>3. CASE G!BarEnds
  <2>1. Len(series') = Len(series) + 1 /\ UNCHANGED <<wire, cached>>
    BY <1>3 DEF G!BarEnds, CandleInv, CandlesTyped
  <2> QED BY <1>1, <1>3, <2>1 DEF G!BarEnds
<1>4. CASE G!Ask
  <2>1. Len(wire') = Len(series) + 1 /\ Len(cached) < Len(series) /\ UNCHANGED cached
    BY <1>4 DEF G!Ask, CandleInv, CandlesTyped
  <2> QED BY <1>1, <1>4, <2>1 DEF G!Ask
<1>5. CASE G!Receive
  <2>1. /\ wire # NoValue /\ wire' = NoValue /\ series' = series
        /\ cached' = G!ClosedView(wire)
    BY <1>5 DEF G!Receive
  <2>2. Len(cached') = Len(series)
    BY <2>1, ClosedLength
  <2> QED BY <1>1, <2>1, <2>2
<1> QED BY <1>2, <1>3, <1>4, <1>5 DEF G!Next

\* The entry: the window is seeded with the newest extremes.
LEMMA EntryFollowed ==
  ASSUME SignalConstants, WindowInv, G!Cycle,
         NEW sig \in G!Candidates(cached), position' = G!Position(sig, cached),
         G!Follows(position')
  PROVE  FollowedInv'
<1>1. /\ UNCHANGED <<setting, series, wire, cached, late>> /\ cached # <<>> /\ wire = NoValue
  BY DEF G!Cycle
<1>2. /\ Len(series) \in Nat /\ Len(cached) \in Nat /\ cached \in Seq(Candle)
      /\ Len(series) \in {Len(cached), Len(cached) + 1}
  BY <1>1 DEF WindowInv, CandleInv, CandlesTyped, AnswerAhead
<1>3. /\ position'.sig = sig /\ position'.at = Len(cached) /\ position'.last = Len(cached)
      /\ position'.window = IF G!ProfileOf(sig.key) # "ichimoku_trend" THEN <<>>
                            ELSE G!Seed(cached)
  BY DEF G!Position
<1>4. G!ProfileOf(sig.key) = "ichimoku_trend" /\ sig.ltf = setting.frame
  BY <1>3 DEF G!Follows
<1>5. legs # NoValue
  BY <1>1 DEF WindowInv, LegInv
<1>6. Periods.kijun <= Len(cached) /\ Periods.kijun \in Nat \ {0}
  BY <1>2, <1>4, <1>5, IchimokuWaited DEF WindowInv, SignalConstants
<1>7. BarByBar'
  BY <1>1, <1>2, <1>3 DEF BarByBar
<1>8. ASSUME Timely' PROVE WindowOf(position.window, position.last)'
  <2> DEFINE k == Periods.kijun
             x == G!Extremes(cached)
             w == G!Newest(x, k)
  <2>1. position'.window = w /\ position'.last = Len(cached)
    BY <1>3, <1>4 DEF G!Seed
  <2>2. /\ x \in Seq(Int \X Int) /\ Len(x) = Len(cached)
        /\ \A i \in 1 .. Len(cached) : x[i] = <<cached[i].high, cached[i].low>>
    BY <1>2, ExtremesFacts
  <2> HIDE DEF x
  <2>3. k \in 1 .. Len(x)
    BY <1>2, <1>6, <2>2
  <2>4. /\ w \in Seq(Int \X Int) /\ Len(w) = k
        /\ \A j \in 1 .. k : w[j] = x[Len(x) - k + j]
    BY <2>2, <2>3, NewestFacts
  <2> HIDE DEF w
  <2>5. ASSUME NEW j \in 1 .. k PROVE w[j] = Ended(Len(cached) - k + j)
    <3>1. Len(cached) - k + j \in 1 .. Len(cached)
      BY <1>2, <1>6
    <3>2. Len(cached) - k + j \in (position'.at - k) .. Len(cached)
      BY <1>2, <1>3, <1>6
    <3>3. Len(cached) - k + j \notin late
      BY <1>1, <1>8, <3>2 DEF Timely
    <3>4. cached[Len(cached) - k + j] = series[Len(cached) - k + j]
      BY <3>1, <3>3 DEF WindowInv, CandleInv, HeldIsOver
    <3> QED BY <2>2, <2>4, <3>1, <3>4 DEF Ended
  <2>6. \A j \in 1 .. k : w[j] = Ended(Len(cached) - k + j)'
    BY <1>1, <2>5 DEF Ended
  <2>7. Len(cached') = Len(cached)
    BY <1>1
  <2> QED BY <2>1, <2>4, <2>6, <2>7 DEF WindowOf
<1> QED BY <1>1, <1>2, <1>3, <1>6, <1>7, <1>8 DEF FollowedInv

\* What an older position keeps: the window moves on by one bar.
LEMMA GrownFollowed ==
  ASSUME SignalConstants, WindowInv, wire = NoValue, position # NoValue, G!Follows(position),
         Len(cached) > position.last, Timely
  PROVE  /\ WindowOf(G!Grown(position, cached), Len(cached))
         /\ Len(cached) = position.last + 1 /\ Len(series) = position.last + 1
<1> DEFINE k == Periods.kijun
           p == position.last
           e == <<cached[Len(cached)].high, cached[Len(cached)].low>>
<1>1. /\ position.at \in Nat /\ p \in Nat /\ k <= position.at /\ position.at <= p
      /\ BarByBar /\ WindowOf(position.window, p)
  BY DEF WindowInv, FollowedInv
<1>2. k \in Nat \ {0}
  BY DEF SignalConstants
<1>3. Len(cached) = p + 1 /\ Len(series) = p + 1
  BY <1>1 DEF BarByBar
<1>4. /\ position.window \in Seq(Int \X Int) /\ Len(position.window) = k
      /\ \A j \in 1 .. k : position.window[j] = Ended(p - k + j)
  BY <1>1 DEF WindowOf
<1>5. /\ cached[p + 1] = series[p + 1] /\ cached[p + 1] \in Candle
  <2>1. p + 1 \in 1 .. Len(cached) /\ p + 1 \in (position.at - k) .. Len(cached)
    BY <1>1, <1>2, <1>3
  <2>2. p + 1 \notin late
    BY <2>1 DEF Timely
  <2> QED BY <2>1, <2>2 DEF WindowInv, CandleInv, CandlesTyped, HeldIsOver
<1>6. e \in Int \X Int /\ e = Ended(p + 1)
  BY <1>3, <1>5 DEF Candle, Ended
<1> DEFINE a == Append(position.window, e)
<1>7. G!Grown(position, cached) = G!Newest(a, k)
  BY DEF G!Grown
<1> HIDE DEF e
<1>8. /\ a \in Seq(Int \X Int) /\ Len(a) = k + 1
      /\ \A j \in 1 .. k : a[j] = position.window[j]
      /\ a[k + 1] = e
  BY <1>2, <1>4, <1>6
<1> HIDE DEF a
<1>9. k \in 1 .. Len(a)
  BY <1>2, <1>8
<1>10. /\ G!Newest(a, k) \in Seq(Int \X Int) /\ Len(G!Newest(a, k)) = k
       /\ \A j \in 1 .. k : G!Newest(a, k)[j] = a[Len(a) - k + j]
  BY <1>8, <1>9, NewestFacts
<1>11. ASSUME NEW j \in 1 .. k PROVE G!Newest(a, k)[j] = Ended(p + 1 - k + j)
  <2>1. G!Newest(a, k)[j] = a[j + 1]
    <3>1. Len(a) - k + j = j + 1
      BY <1>2, <1>8
    <3> QED BY <1>10, <3>1
  <2>2. CASE j + 1 \in 1 .. k
    <3>1. a[j + 1] = Ended(p - k + (j + 1))
      BY <1>4, <1>8, <2>2
    <3>2. p - k + (j + 1) = p + 1 - k + j
      BY <1>1, <1>2
    <3> QED BY <2>1, <3>1, <3>2
  <2>3. CASE j = k
    <3>1. p + 1 - k + j = p + 1
      BY <1>1, <1>2, <2>3
    <3> QED BY <1>6, <1>8, <2>1, <2>3, <3>1
  <2> QED BY <1>2, <2>2, <2>3
<1>12. ASSUME NEW j \in 1 .. k PROVE G!Newest(a, k)[j] = Ended(Len(cached) - k + j)
  <2>1. p + 1 - k + j = Len(cached) - k + j
    BY <1>1, <1>2, <1>3
  <2> QED BY <1>11, <2>1
<1> QED BY <1>3, <1>7, <1>10, <1>12 DEF WindowOf

\* The steps that leave a position alone.
LEMMA UntouchedFollowed ==
  ASSUME SignalConstants, WindowInv, position # NoValue, position' = position,
         G!Trade \/ G!BarEnds \/ G!Ask \/ G!Receive \/ UNCHANGED G!vars,
         G!Follows(position)'
  PROVE  FollowedInv'
<1> DEFINE p == position.last
<1>1. UNCHANGED setting
  BY DEF G!Trade, G!BarEnds, G!Ask, G!Receive, G!vars
<1>2. G!Follows(position)
  BY <1>1 DEF G!Follows
<1>3. /\ position.at \in Nat /\ p \in Nat /\ Periods.kijun <= position.at /\ position.at <= p
      /\ Timely => BarByBar /\ WindowOf(position.window, p)
  BY <1>2 DEF WindowInv, FollowedInv
<1>4. /\ series \in Seq(Candle) /\ Len(series) \in Nat \ {0} /\ Len(cached) \in Nat
      /\ Len(cached) <= Len(series) /\ forming \in Candle
      /\ wire # NoValue => /\ wire \in Seq(Candle) /\ Len(wire) \in {Len(series), Len(series) + 1}
                           /\ Len(wire) > Len(cached) + 1
  BY DEF WindowInv, CandleInv, CandlesTyped, AnswerInTime, HeldIsOver, AnswerAhead
<1>5. Periods.kijun \in Nat \ {0}
  BY DEF SignalConstants
<1>6. /\ Len(cached) <= Len(cached') /\ late \subseteq late' /\ Len(cached') \in Nat
      /\ Timely' => Timely
  <2>1. Len(cached) <= Len(cached') /\ late \subseteq late' /\ Len(cached') \in Nat
    <3>1. CASE G!Receive
      <4>1. Len(cached') = Len(series) /\ late \subseteq late'
        BY <3>1, ClosedLength DEF G!Receive, WindowInv
      <4> QED BY <1>4, <4>1
    <3>2. CASE ~G!Receive
      BY <1>4, <3>2 DEF G!Trade, G!BarEnds, G!Ask, G!vars
    <3> QED BY <3>1, <3>2
  <2>2. (position.at - Periods.kijun) .. Len(cached) \subseteq
            (position.at - Periods.kijun) .. Len(cached')
    BY <1>3, <1>4, <1>5, <2>1
  <2> QED BY <2>1, <2>2 DEF Timely
<1>7. ASSUME Timely' PROVE BarByBar' /\ WindowOf(position.window, position.last)'
  <2>1. BarByBar /\ WindowOf(position.window, p)
    BY <1>3, <1>6, <1>7
  <2>2. CASE G!Trade \/ G!Ask \/ UNCHANGED G!vars
    <3>1. UNCHANGED <<series, cached>>
      BY <2>2 DEF G!Trade, G!Ask, G!vars
    <3>2. WindowOf(position.window, position.last)'
      BY <2>1, <3>1 DEF WindowOf, Ended
    <3>3. CASE G!Ask
      <4>1. wire' # NoValue => Len(wire') = Len(series) + 1
        BY <1>4, <3>3 DEF G!Ask
      <4>2. wire = NoValue /\ Len(cached) < Len(series)
        BY <3>3 DEF G!Ask
      <4>3. Len(cached) = p /\ Len(series) = p + 1
        BY <1>3, <1>4, <2>1, <4>2 DEF BarByBar
      <4> QED BY <1>3, <3>1, <3>2, <4>1, <4>3 DEF BarByBar
    <3>4. CASE G!Trade \/ UNCHANGED G!vars
      BY <2>1, <3>1, <3>2, <3>4 DEF BarByBar, G!Trade, G!vars
    <3> QED BY <2>2, <3>3, <3>4
  <2>3. CASE G!BarEnds
    <3>1. /\ series' = Append(series, forming) /\ UNCHANGED <<wire, cached>>
          /\ p = Len(cached)
          /\ IF wire = NoValue THEN Len(cached) = Len(series) ELSE Len(wire) > Len(series)
      BY <2>3 DEF G!BarEnds
    <3>2. /\ Len(series') = Len(series) + 1
          /\ \A i \in 1 .. Len(series) : series'[i] = series[i]
      BY <1>4, <3>1
    <3>3. BarByBar'
      BY <1>3, <1>4, <2>1, <3>1, <3>2 DEF BarByBar
    <3>4. ASSUME NEW j \in 1 .. Periods.kijun
          PROVE  Ended(p - Periods.kijun + j)' = Ended(p - Periods.kijun + j)
      <4>1. p - Periods.kijun + j \in 1 .. Len(series)
        BY <1>3, <1>4, <1>5, <3>1
      <4> QED BY <3>2, <4>1 DEF Ended
    <3>5. WindowOf(position.window, position.last)'
      BY <2>1, <3>4 DEF WindowOf
    <3> QED BY <3>3, <3>5
  <2>4. CASE G!Receive
    <3>1. /\ wire # NoValue /\ wire' = NoValue /\ UNCHANGED series
          /\ late' = (IF Len(wire) <= Len(series) THEN late \cup {Len(wire)} ELSE late)
          /\ Len(cached') = Len(series)
      BY <2>4, ClosedLength DEF G!Receive, WindowInv
    <3>2. Len(wire) = Len(series) + 1
      <4>1. SUFFICES ASSUME Len(wire) = Len(series) PROVE FALSE
        BY <1>4, <3>1
      <4>2. Len(series) \in late' /\ Len(series) = Len(cached')
        BY <3>1, <1>4, <4>1
      <4>3. Len(cached') \in (position'.at - Periods.kijun) .. Len(cached')
        BY <1>3, <1>4, <1>5, <1>6, <2>1, <4>2 DEF BarByBar
      <4> QED BY <1>7, <4>2, <4>3 DEF Timely
    <3>3. Len(series) = p + 1
      BY <1>3, <1>4, <2>1, <3>1, <3>2 DEF BarByBar
    <3>4. BarByBar'
      BY <1>3, <3>1, <3>3 DEF BarByBar
    <3>5. WindowOf(position.window, position.last)'
      BY <2>1, <3>1 DEF WindowOf, Ended
    <3> QED BY <3>4, <3>5
  <2> QED BY <2>2, <2>3, <2>4
<1> QED BY <1>3, <1>7 DEF FollowedInv

\* A cycle that keeps an Ichimoku position.
LEMMA KeptFollowed ==
  ASSUME SignalConstants, WindowInv, G!Cycle, position' # NoValue, G!Follows(position)',
         ~\E sig \in G!Candidates(cached) : position' = G!Position(sig, cached)
  PROVE  FollowedInv'
<1> DEFINE w == G!Grown(position, cached)
           q == [position EXCEPT !.last = Len(cached)]
<1>1. /\ UNCHANGED <<setting, series, wire, cached, late>> /\ wire = NoValue
      /\ position # NoValue /\ Len(cached) > position.last
  BY DEF G!Cycle
<1>2. DOMAIN position = PositionFields /\ position'.sig = position.sig
  BY <1>1, CycleCases DEF WindowInv, LegInv, PositionShaped
<1>3. G!Follows(position)
  BY <1>1, <1>2 DEF G!Follows
<1>4. position' = [q EXCEPT !.window = w]
  BY <1>1, <1>2, <1>3 DEF G!Cycle, PositionFields
<1>5. DOMAIN q = PositionFields /\ q.at = position.at /\ q.last = Len(cached)
  BY <1>2 DEF PositionFields
<1> HIDE DEF q, w
<1>6. position'.at = position.at /\ position'.last = Len(cached) /\ position'.window = w
  BY <1>4, <1>5 DEF PositionFields
<1>7. /\ position.at \in Nat /\ position.last \in Nat
      /\ Periods.kijun <= position.at /\ position.at <= position.last
      /\ Len(cached) \in Nat
  BY <1>1, <1>3 DEF WindowInv, FollowedInv, CandleInv, CandlesTyped
<1>8. Timely' => Timely
  BY <1>1, <1>6 DEF Timely
<1>9. ASSUME Timely' PROVE BarByBar' /\ WindowOf(position.window, position.last)'
  <2>1. WindowOf(w, Len(cached)) /\ Len(cached) = position.last + 1
        /\ Len(series) = position.last + 1
    BY <1>1, <1>3, <1>8, <1>9, GrownFollowed DEF w
  <2>2. BarByBar'
    BY <1>1, <1>6, <1>7, <2>1 DEF BarByBar
  <2> QED BY <1>1, <1>6, <2>1, <2>2 DEF WindowOf, Ended
<1> QED BY <1>1, <1>6, <1>7, <1>9 DEF FollowedInv

LEMMA WindowKeeps == ASSUME SignalConstants, WindowInv, [G!Next]_G!vars PROVE WindowInv'
<1>1. CandleInv' /\ LegInv' /\ AnswerAhead'
  BY CandleKeeps, LegKeeps, AheadKeeps DEF WindowInv
<1>2. FollowedInv'
  <2> SUFFICES ASSUME position' # NoValue, G!Follows(position)' PROVE FollowedInv'
    BY DEF FollowedInv
  <2>1. CASE G!Cycle
    <3>1. CASE \E sig \in G!Candidates(cached) : position' = G!Position(sig, cached)
      <4>1. PICK sig \in G!Candidates(cached) : position' = G!Position(sig, cached)
        BY <3>1
      <4>2. G!Follows(position')
        BY <2>1 DEF G!Follows, G!Cycle
      <4> QED BY <2>1, <4>1, <4>2, EntryFollowed
    <3>2. CASE ~\E sig \in G!Candidates(cached) : position' = G!Position(sig, cached)
      BY <2>1, <3>2, KeptFollowed
    <3> QED BY <3>1, <3>2
  <2>2. CASE G!Leave
    BY <2>2 DEF G!Leave
  <2>3. CASE G!Trade \/ G!BarEnds \/ G!Ask \/ G!Receive \/ UNCHANGED G!vars
    <3>1. position' = position
      BY <2>3 DEF G!Trade, G!BarEnds, G!Ask, G!Receive, G!vars
    <3> QED BY <2>3, <3>1, UntouchedFollowed
  <2> QED BY <2>1, <2>2, <2>3 DEF G!Next
<1> QED BY <1>1, <1>2 DEF WindowInv

\* The lines from the window are those of the detector.
LEMMA LinesAgree ==
  ASSUME SignalConstants, WindowInv, NEW w, WindowOf(w, Len(cached)), Timely,
         position # NoValue, G!Follows(position), NEW side
  PROVE  G!CrossedIn(w, side) <=> IF side = "LONG" THEN G!TkBelow(cached, Len(cached))
                                  ELSE G!TkAbove(cached, Len(cached))
<1> DEFINE k == Periods.kijun
           t == Periods.tenkan
           n == Len(cached)
<1>1. k \in Nat \ {0} /\ t \in 1 .. k
  BY DEF SignalConstants
<1>2. /\ position.at \in Nat /\ k <= position.at /\ position.at <= n
      /\ n \in Nat /\ cached \in Seq(Candle)
  BY DEF WindowInv, FollowedInv, CandleInv, CandlesTyped, BarByBar
<1>3. /\ w \in Seq(Int \X Int) /\ Len(w) = k
      /\ \A j \in 1 .. k : w[j] = Ended(n - k + j)
  BY DEF WindowOf
<1>4. ASSUME NEW j \in 1 .. k
      PROVE  w[j] = <<cached[n - k + j].high, cached[n - k + j].low>>
  <2>1. n - k + j \in 1 .. n /\ n - k + j \in (position.at - k) .. n
    BY <1>1, <1>2
  <2>2. n - k + j \notin late
    BY <2>1 DEF Timely
  <2>3. cached[n - k + j] = series[n - k + j]
    BY <2>1, <2>2 DEF WindowInv, CandleInv, HeldIsOver
  <2> QED BY <1>3, <2>3 DEF Ended
<1>5. G!Twice(w) = G!Middle(cached, k, n)
  <2>1. HoldsNewest(w, cached, k) /\ k <= n
    BY <1>1, <1>2, <1>3, <1>4 DEF HoldsNewest
  <2> QED BY <1>1, <1>2, <2>1, MiddleFromWindow
<1> DEFINE v == G!Newest(w, t)
<1>6. /\ v \in Seq(Int \X Int) /\ Len(v) = t
      /\ \A j \in 1 .. t : v[j] = w[Len(w) - t + j]
  <2>1. t \in 1 .. Len(w)
    BY <1>1, <1>3
  <2> QED BY <1>3, <2>1, NewestFacts
<1> HIDE DEF v
<1>7. ASSUME NEW j \in 1 .. t
      PROVE  v[j] = <<cached[n - t + j].high, cached[n - t + j].low>>
  <2>1. k - t + j \in 1 .. k /\ n - k + (k - t + j) = n - t + j
    BY <1>1, <1>2
  <2>2. v[j] = w[k - t + j]
    BY <1>3, <1>6
  <2> QED BY <1>4, <2>1, <2>2
<1>8. G!Twice(v) = G!Middle(cached, t, n)
  <2>1. HoldsNewest(v, cached, t) /\ t <= n /\ t \in Nat \ {0}
    BY <1>1, <1>2, <1>6, <1>7 DEF HoldsNewest
  <2> QED BY <1>2, <2>1, MiddleFromWindow
<1>9. Len(w) >= k
  BY <1>1, <1>3
<1>10. CASE side = "LONG"
  <2>1. G!CrossedIn(w, side) <=> G!Twice(v) < G!Twice(w)
    BY <1>9, <1>10, Zenon DEF G!CrossedIn, v
  <2>2. G!TkBelow(cached, n) <=> G!Middle(cached, t, n) < G!Middle(cached, k, n)
    BY Zenon DEF G!TkBelow
  <2> QED BY <1>5, <1>8, <1>10, <2>1, <2>2
<1>11. CASE side # "LONG"
  <2>1. G!CrossedIn(w, side) <=> G!Twice(v) > G!Twice(w)
    BY <1>9, <1>11, Zenon DEF G!CrossedIn, v
  <2>2. G!TkAbove(cached, n) <=> G!Middle(cached, t, n) > G!Middle(cached, k, n)
    BY Zenon DEF G!TkAbove
  <2> QED BY <1>5, <1>8, <1>11, <2>1, <2>2
<1> QED BY <1>10, <1>11

\* A step that the property speaks of.
LEMMA ExitStep ==
  ASSUME SignalConstants, WindowInv, G!Next,
         position # NoValue, G!Follows(position), Len(cached) > position.last, Timely,
         position' # position, ~(position' = NoValue /\ left' = "other")
  PROVE  (position' = NoValue) =
            (IF position.sig.side = "LONG" THEN G!TkBelow(cached, Len(cached))
             ELSE G!TkAbove(cached, Len(cached)))
<1> DEFINE w == G!Grown(position, cached)
           q == [position EXCEPT !.last = Len(cached)]
<1>1. G!Cycle
  BY DEF G!Next, G!Trade, G!BarEnds, G!Ask, G!Receive, G!Leave
<1>2. wire = NoValue
  BY <1>1 DEF G!Cycle
<1>3. WindowOf(w, Len(cached))
  BY <1>2, GrownFollowed
<1>4. DOMAIN position = PositionFields
  BY DEF WindowInv, LegInv, PositionShaped
<1>5. [q EXCEPT !.window = w] # NoValue
  <2>1. DOMAIN [q EXCEPT !.window = w] = PositionFields
    BY <1>4 DEF PositionFields
  <2> QED BY <2>1 DEF SignalConstants
<1>6. IF G!CrossedIn(w, position.sig.side) THEN position' = NoValue
      ELSE position' = [q EXCEPT !.window = w]
  BY <1>1, <1>4 DEF G!Cycle, PositionFields
<1> HIDE DEF w, q
<1>7. (position' = NoValue) = G!CrossedIn(w, position.sig.side)
  <2>1. G!CrossedIn(w, position.sig.side) \in BOOLEAN
    BY Zenon DEF G!CrossedIn
  <2>2. CASE G!CrossedIn(w, position.sig.side)
    BY <1>6, <2>1, <2>2
  <2>3. CASE ~G!CrossedIn(w, position.sig.side)
    <3>1. position' # NoValue
      BY <1>5, <1>6, <2>3
    <3> QED BY <2>1, <2>3, <3>1
  <2> QED BY <2>2, <2>3
<1>8. G!TkBelow(cached, Len(cached)) \in BOOLEAN /\ G!TkAbove(cached, Len(cached)) \in BOOLEAN
  BY DEF G!TkBelow, G!TkAbove
<1>9. G!CrossedIn(w, position.sig.side) <=>
         IF position.sig.side = "LONG" THEN G!TkBelow(cached, Len(cached))
         ELSE G!TkAbove(cached, Len(cached))
  BY <1>3, LinesAgree
<1> QED BY <1>7, <1>8, <1>9

\* ExitByOwnLines: an Ichimoku position is left on the bar on which the detector's own
\* lines stand against it, and on no other.
THEOREM ExitsByTheDetectorsLines ==
  ASSUME SignalConstants PROVE DecisionSpec => ExitByOwnLines
<1> DEFINE Inv == SignalsRun => WindowInv
<1>1. DecisionInit => Inv
  <2> SUFFICES ASSUME DecisionInit, SignalsRun PROVE WindowInv
    OBVIOUS
  <2>1. G!Init
    BY DEF DecisionInit, SignalsParked, SignalsRun
  <2>2. position = NoValue /\ wire = NoValue /\ cached = <<>>
    BY <2>1 DEF G!Init
  <2> QED BY <2>1, <2>2, CandleStarts, LegStarts DEF WindowInv, AnswerAhead, FollowedInv
<1>2. Inv /\ [DecisionNext]_decisionVars => Inv'
  <2> SUFFICES ASSUME Inv, [DecisionNext]_decisionVars, SignalsRun' PROVE WindowInv'
    OBVIOUS
  <2>1. CASE SignalsStep
    BY <2>1, WindowKeeps DEF SignalsStep
  <2>2. CASE ~SignalsStep
    <3>1. UNCHANGED G!vars
      BY <2>2 DEF DecisionNext, ShadowStep, decisionVars, signalVars, G!vars
    <3>2. SignalsRun
      BY <3>1 DEF SignalsRun, G!vars
    <3> QED BY <3>1, <3>2, WindowKeeps
  <2> QED BY <2>1, <2>2
<1> DEFINE A == (/\ position # NoValue /\ G!Follows(position) /\ Len(cached) > position.last
                 /\ late \cap (position.at - Periods.kijun)..Len(cached) = {}
                 /\ position' # position /\ ~(position' = NoValue /\ left' = "other"))
                => (position' = NoValue) =
                     (IF position.sig.side = "LONG" THEN G!TkBelow(cached, Len(cached))
                      ELSE G!TkAbove(cached, Len(cached)))
<1>3. Inv /\ [DecisionNext]_decisionVars => [A]_G!vars
  <2> SUFFICES ASSUME Inv, SignalsStep PROVE A
    BY DEF DecisionNext, ShadowStep, decisionVars, signalVars, G!vars
  <2>1. WindowInv /\ G!Next
    BY DEF SignalsStep
  <2> QED BY <2>1, ExitStep DEF Timely
<1>4. ExitByOwnLines <=> [][A]_G!vars
  BY DEF ExitByOwnLines, G!ExitByOwnLines
<1> QED BY <1>1, <1>2, <1>3, <1>4, PTL DEF DecisionSpec

--------------------------------------------------------------------------------
(* The shadow learner (Shadow), for any legs and timeframes, any prices,   *)
(* thresholds and epochs, and updates that a restart may interrupt.        *)

\* score_delta speaks from fewer rows than risk_multiplier (shadow.py: 50 and 100).
ShadowConstants ==
    /\ IsFiniteSet(RowLegs) /\ BarsOf \in [RowLegs -> Nat \ {0}]
    /\ SoftStage \in Nat /\ RiskStage \in Nat /\ SoftStage <= RiskStage

RowFields == {"own", "reason", "outcome", "r", "bars", "last", "epoch"}

\* A row was last moved on or after its key, and no more often than bars went by.
RowsPaced ==
    /\ clock \in Nat
    /\ IsFiniteSet(DOMAIN rows) /\ DOMAIN rows \subseteq RowLegs \X Int
    /\ \A k \in DOMAIN rows :
          /\ RowFields \subseteq DOMAIN rows[k]
          /\ rows[k].own \in Int /\ rows[k].last \in Int /\ rows[k].bars \in Nat
          /\ rows[k].bars <= rows[k].last - k[2]

\* What an update has not reached is open; what it has just stored has no entry yet.
UpdateKnows ==
    /\ todo # NoValue => todo \subseteq H!OpenRows
    /\ writing # NoValue =>
          writing \in DOMAIN rows \ DOMAIN ab /\ rows[writing].outcome # "OPEN"
    /\ DOMAIN ab \subseteq DOMAIN rows

ShadowInv == RowsPaced /\ UpdateKnows /\ H!LoggedAtMostOnce /\ H!ExecutedTracked

Inserted(t, some, key, source, u) ==
    /\ IsFiniteSet(DOMAIN u) /\ DOMAIN u \subseteq RowLegs \X Int
    /\ DOMAIN t \subseteq DOMAIN u /\ \A k \in DOMAIN t : u[k] = t[k]
    /\ \A k \in DOMAIN u \ DOMAIN t :
          /\ RowFields \subseteq DOMAIN u[k] /\ k[2] = key
          /\ u[k].own \in Int /\ u[k].last = key /\ u[k].bars = 0 /\ u[k].outcome = "OPEN"
    /\ \A leg \in some : H!Admitted(leg, source) => <<leg, key>> \in DOMAIN u

\* Tracking adds rows under one key and leaves those that are there.
LEMMA InsertFacts ==
  ASSUME ShadowConstants, clock \in Nat
  PROVE  \A t, some, key, source, reason, u :
           /\ IsFiniteSet(DOMAIN t) /\ DOMAIN t \subseteq RowLegs \X Int
           /\ some \subseteq RowLegs /\ key \in Int
           /\ u = H!Insert(t, some, key, source, reason)
           => Inserted(t, some, key, source, u)
<1> SUFFICES ASSUME NEW t, NEW some, NEW key, NEW source, NEW reason, NEW u,
                    IsFiniteSet(DOMAIN t), DOMAIN t \subseteq RowLegs \X Int,
                    some \subseteq RowLegs, key \in Int,
                    u = H!Insert(t, some, key, source, reason)
             PROVE  Inserted(t, some, key, source, u)
  OBVIOUS
<1> DEFINE new == {<<leg, key>> : leg \in {l \in some : H!Admitted(l, source)}} \ DOMAIN t
           row(k) == [own |-> H!SignalBar(k[1]), source |-> source, reason |-> reason,
                      outcome |-> "OPEN", r |-> 0, bars |-> 0, last |-> key,
                      epoch |-> epoch]
<1>1. u = [k \in DOMAIN t \cup new |-> IF k \in new THEN row(k) ELSE t[k]]
  BY Zenon DEF H!Insert
<1>2. /\ new \subseteq RowLegs \X {key} /\ new \cap DOMAIN t = {}
      /\ \A k \in new : k[1] \in RowLegs /\ k[2] = key
      /\ \A leg \in some : H!Admitted(leg, source) => <<leg, key>> \in DOMAIN t \cup new
  OBVIOUS
<1>3. IsFiniteSet(new)
  <2>1. IsFiniteSet({key})
    BY FS_Singleton
  <2>2. IsFiniteSet(RowLegs \X {key})
    BY <2>1, FS_Product DEF ShadowConstants
  <2> HIDE DEF new
  <2> QED BY <1>2, <2>2, FS_Subset
<1>4. \A k \in new : H!SignalBar(k[1]) \in Int
  <2> SUFFICES ASSUME NEW k \in new PROVE H!SignalBar(k[1]) \in Int
    OBVIOUS
  <2>1. BarsOf[k[1]] \in Nat \ {0}
    BY <1>2 DEF ShadowConstants
  <2> QED BY <2>1 DEF H!SignalBar
<1> HIDE DEF new
<1>5. /\ DOMAIN u = DOMAIN t \cup new
      /\ \A k \in new : u[k] = row(k)
      /\ \A k \in DOMAIN t : u[k] = t[k]
  BY <1>1, <1>2
<1>6. \A k \in new : /\ RowFields \subseteq DOMAIN row(k) /\ row(k).own = H!SignalBar(k[1])
                     /\ row(k).last = key /\ row(k).bars = 0 /\ row(k).outcome = "OPEN"
  BY DEF RowFields
<1> HIDE DEF row
<1>7. IsFiniteSet(DOMAIN u)
  BY <1>3, <1>5, FS_Union
<1>8. DOMAIN u \subseteq RowLegs \X Int
  BY <1>2, <1>5
<1> QED BY <1>2, <1>4, <1>5, <1>6, <1>7, <1>8 DEF Inserted

\* One cycle's tracking, whatever its verdict.
LEMMA TrackFacts ==
  ASSUME ShadowConstants, RowsPaced,
         NEW leg \in RowLegs, NEW others \in SUBSET RowLegs,
         NEW verdict \in {"rejected", "opened", "no_slot", "refused"},
         H!Track(leg, others, verdict)
  PROVE  /\ IsFiniteSet(DOMAIN rows') /\ DOMAIN rows' \subseteq RowLegs \X Int
         /\ DOMAIN rows \subseteq DOMAIN rows' /\ \A k \in DOMAIN rows : rows'[k] = rows[k]
         /\ \A k \in DOMAIN rows' \ DOMAIN rows :
               /\ RowFields \subseteq DOMAIN rows'[k]
               /\ rows'[k].own \in Int /\ rows'[k].last = k[2] /\ rows'[k].bars = 0
               /\ rows'[k].outcome = "OPEN"
         /\ traded' \subseteq traded \cup (DOMAIN rows' \cap (RowLegs \X Int))
<1> DEFINE key == H!SignalBar(leg)
           t == H!Insert(rows, {leg}, key, H!Source(verdict), H!Reason(verdict))
           u == H!Insert(t, others, key, "rejected", "not_selected")
           s == [u EXCEPT ![<<leg, key>>].reason = "max_open_trades"]
<1>1. key \in Int
  <2>1. BarsOf[leg] \in Nat \ {0} /\ clock \in Nat
    BY DEF ShadowConstants, RowsPaced
  <2> QED BY <2>1 DEF H!SignalBar
<1>2. rows' = IF verdict = "no_slot" /\ <<leg, key>> \notin DOMAIN rows THEN s ELSE u
  BY Zenon DEF H!Track, H!WithOthers, H!Stamped
<1> HIDE DEF key
<1>a. /\ t = H!Insert(rows, {leg}, key, H!Source(verdict), H!Reason(verdict))
      /\ u = H!Insert(t, others, key, "rejected", "not_selected")
  OBVIOUS
<1> HIDE DEF t, u
<1>b. clock \in Nat /\ IsFiniteSet(DOMAIN rows) /\ DOMAIN rows \subseteq RowLegs \X Int
  BY DEF RowsPaced
<1>3. Inserted(rows, {leg}, key, H!Source(verdict), t)
  <2>1. {leg} \subseteq RowLegs
    OBVIOUS
  <2> QED BY <1>1, <1>a, <1>b, <2>1, InsertFacts
<1>4. Inserted(t, others, key, "rejected", u)
  <2>1. IsFiniteSet(DOMAIN t) /\ DOMAIN t \subseteq RowLegs \X Int
    BY <1>3 DEF Inserted
  <2> QED BY <1>1, <1>a, <1>b, <2>1, InsertFacts
<1> USE DEF Inserted
<1>5. /\ DOMAIN rows \subseteq DOMAIN u /\ \A k \in DOMAIN rows : u[k] = rows[k]
      /\ \A k \in DOMAIN u \ DOMAIN rows :
            /\ RowFields \subseteq DOMAIN u[k]
            /\ u[k].own \in Int /\ u[k].last = k[2] /\ u[k].bars = 0 /\ u[k].outcome = "OPEN"
  <2>1. \A k \in DOMAIN u \ DOMAIN rows : k \in DOMAIN t \/ k \notin DOMAIN t
    OBVIOUS
  <2> QED BY <1>3, <1>4, <2>1
<1>6. ASSUME verdict = "opened" PROVE <<leg, key>> \in DOMAIN u
  BY <1>3, <1>4, <1>6 DEF H!Admitted, H!Source
<1>7. traded' \subseteq traded \cup (DOMAIN u \cap (RowLegs \X Int))
  <2>1. CASE verdict = "opened"
    BY <1>1, <1>6, <2>1 DEF H!Track, key
  <2>2. CASE verdict # "opened"
    BY <2>2 DEF H!Track
  <2> QED BY <2>1, <2>2
<1>8. CASE rows' = u
  BY <1>4, <1>5, <1>7, <1>8
<1>9. CASE rows' = s /\ <<leg, key>> \notin DOMAIN rows
  <2>1. /\ DOMAIN s = DOMAIN u
        /\ \A k \in DOMAIN u : k # <<leg, key>> => s[k] = u[k]
    BY Zenon
  <2>2. ASSUME <<leg, key>> \in DOMAIN u
        PROVE  s[<<leg, key>>] = [u[<<leg, key>>] EXCEPT !.reason = "max_open_trades"]
    BY <2>2, Zenon
  <2> DEFINE q == u[<<leg, key>>]
             v == [q EXCEPT !.reason = "max_open_trades"]
  <2>3. /\ DOMAIN v = DOMAIN q
        /\ \A f \in DOMAIN q : f # "reason" => v[f] = q[f]
    BY Zenon
  <2> HIDE DEF s, q, v
  <2>4. ASSUME NEW k \in DOMAIN s \ DOMAIN rows
        PROVE  /\ RowFields \subseteq DOMAIN s[k]
               /\ s[k].own \in Int /\ s[k].last = k[2] /\ s[k].bars = 0 /\ s[k].outcome = "OPEN"
    <3>1. CASE k # <<leg, key>>
      BY <1>5, <2>1, <2>4, <3>1
    <3>2. CASE k = <<leg, key>>
      <4>1. s[k] = v /\ q = u[k] /\ k \in DOMAIN u
        BY <2>1, <2>2, <2>4, <3>2 DEF q, v
      <4>2. /\ RowFields \subseteq DOMAIN q /\ q.own \in Int /\ q.last = k[2] /\ q.bars = 0
            /\ q.outcome = "OPEN"
        BY <1>5, <2>4, <4>1
      <4>3. {"own", "last", "bars", "outcome"} \subseteq DOMAIN q
        BY <4>2 DEF RowFields
      <4>4. v.own = q.own /\ v.last = q.last /\ v.bars = q.bars /\ v.outcome = q.outcome
        BY <2>3, <4>3
      <4> QED BY <2>3, <4>1, <4>2, <4>4
    <3> QED BY <3>1, <3>2
  <2>5. \A k \in DOMAIN rows : s[k] = rows[k]
    BY <1>5, <1>9, <2>1
  <2> QED BY <1>4, <1>5, <1>7, <1>9, <2>1, <2>4, <2>5
<1> QED BY <1>2, <1>8, <1>9

\* A row that is moved keeps its key, its own bar and its epoch.
LEMMA AdvanceFacts ==
  ASSUME RowsPaced, NEW k \in DOMAIN rows, H!Advance(k)
  PROVE  /\ DOMAIN rows' = DOMAIN rows
         /\ \A j \in DOMAIN rows : j # k => rows'[j] = rows[j]
         /\ DOMAIN rows'[k] = DOMAIN rows[k]
         /\ rows'[k].own = rows[k].own
         /\ rows'[k].outcome = H!Outcome(k)
         /\ rows'[k].bars = rows[k].bars + 1
         /\ rows'[k].last = H!Newest
<1>1. PICK close \in ExpiryR :
         rows' = [rows EXCEPT ![k].outcome = H!Outcome(k), ![k].bars = @ + 1,
                              ![k].last = H!Newest, ![k].r = H!NetR(k, close)]
  BY DEF H!Advance
<1> DEFINE a == [rows[k] EXCEPT !.outcome = H!Outcome(k)]
           b == [a EXCEPT !.bars = @ + 1]
           c == [b EXCEPT !.last = H!Newest]
           d == [c EXCEPT !.r = H!NetR(k, close)]
<1>2. rows' = [rows EXCEPT ![k] = d]
  BY <1>1
<1>3. DOMAIN rows' = DOMAIN rows /\ rows'[k] = d
      /\ \A j \in DOMAIN rows : j # k => rows'[j] = rows[j]
  BY <1>2, Zenon
<1>4. {"own", "outcome", "r", "bars", "last"} \subseteq DOMAIN rows[k]
  BY DEF RowsPaced, RowFields
<1>5. /\ DOMAIN a = DOMAIN rows[k] /\ a.own = rows[k].own /\ a.bars = rows[k].bars
      /\ a.outcome = H!Outcome(k)
  BY <1>4
<1> HIDE DEF a
<1>6. /\ DOMAIN b = DOMAIN a /\ b.own = a.own /\ b.bars = a.bars + 1 /\ b.outcome = a.outcome
  BY <1>4, <1>5
<1> HIDE DEF b
<1>7. /\ DOMAIN c = DOMAIN b /\ c.own = b.own /\ c.bars = b.bars /\ c.outcome = b.outcome
      /\ c.last = H!Newest
  BY <1>4, <1>5, <1>6
<1> HIDE DEF c
<1>8. /\ DOMAIN d = DOMAIN c /\ d.own = c.own /\ d.bars = c.bars /\ d.outcome = c.outcome
      /\ d.last = c.last
  BY <1>4, <1>5, <1>6, <1>7
<1> HIDE DEF d
<1> QED BY <1>3, <1>5, <1>6, <1>7, <1>8

LEMMA ShadowStarts == ASSUME H!Init PROVE ShadowInv
<1>1. rows = <<>> /\ ab = <<>> /\ traded = {} /\ todo = NoValue /\ writing = NoValue /\ clock = 0
  BY DEF H!Init
<1>2. DOMAIN <<>> = {}
  OBVIOUS
<1>3. IsFiniteSet({})
  BY FS_EmptySet
<1> QED BY <1>1, <1>2, <1>3 DEF ShadowInv, RowsPaced, UpdateKnows, H!LoggedAtMostOnce,
           H!ExecutedTracked

LEMMA ShadowKeeps == ASSUME ShadowConstants, ShadowInv, [H!Next]_H!svars PROVE ShadowInv'
<1> USE DEF ShadowInv
<1>1. CASE \E leg \in RowLegs, others \in SUBSET RowLegs,
             verdict \in {"rejected", "opened", "no_slot", "refused"} :
             H!Track(leg, others, verdict)
  <2>1. PICK leg \in RowLegs, others \in SUBSET RowLegs,
             verdict \in {"rejected", "opened", "no_slot", "refused"} :
             H!Track(leg, others, verdict)
    BY <1>1
  <2>2. /\ IsFiniteSet(DOMAIN rows') /\ DOMAIN rows' \subseteq RowLegs \X Int
        /\ DOMAIN rows \subseteq DOMAIN rows' /\ \A k \in DOMAIN rows : rows'[k] = rows[k]
        /\ \A k \in DOMAIN rows' \ DOMAIN rows :
              /\ RowFields \subseteq DOMAIN rows'[k]
              /\ rows'[k].own \in Int /\ rows'[k].last = k[2] /\ rows'[k].bars = 0
              /\ rows'[k].outcome = "OPEN"
        /\ traded' \subseteq traded \cup (DOMAIN rows' \cap (RowLegs \X Int))
    BY <2>1, TrackFacts
  <2>3. todo = NoValue /\ writing = NoValue /\ UNCHANGED <<clock, todo, writing, ab>>
    BY <2>1 DEF H!Track, H!Between
  <2>4. RowsPaced'
    <3>1. ASSUME NEW k \in DOMAIN rows'
          PROVE  /\ RowFields \subseteq DOMAIN rows'[k]
                 /\ rows'[k].own \in Int /\ rows'[k].last \in Int /\ rows'[k].bars \in Nat
                 /\ rows'[k].bars <= rows'[k].last - k[2]
      <4>1. CASE k \in DOMAIN rows
        BY <2>2, <4>1 DEF RowsPaced
      <4>2. CASE k \notin DOMAIN rows
        <5>1. k[2] \in Int
          BY <2>2, <3>1
        <5> QED BY <2>2, <4>2, <5>1
      <4> QED BY <4>1, <4>2
    <3> QED BY <2>2, <2>3, <3>1 DEF RowsPaced
  <2>5. UpdateKnows'
    BY <2>2, <2>3 DEF UpdateKnows
  <2>6. H!LoggedAtMostOnce'
    BY <2>2, <2>3 DEF UpdateKnows, H!LoggedAtMostOnce
  <2>7. H!ExecutedTracked'
    BY <2>2 DEF H!ExecutedTracked
  <2> QED BY <2>4, <2>5, <2>6, <2>7
<1>2. CASE \E k \in DOMAIN rows : H!Skip(k)
  BY <1>2 DEF H!Skip, RowsPaced, UpdateKnows, H!OpenRows, H!LoggedAtMostOnce, H!ExecutedTracked
<1>3. CASE \E k \in DOMAIN rows : H!Advance(k)
  <2>1. PICK k \in DOMAIN rows : H!Advance(k)
    BY <1>3
  <2>2. /\ DOMAIN rows' = DOMAIN rows
        /\ \A j \in DOMAIN rows : j # k => rows'[j] = rows[j]
        /\ DOMAIN rows'[k] = DOMAIN rows[k]
        /\ rows'[k].own = rows[k].own
        /\ rows'[k].outcome = H!Outcome(k)
        /\ rows'[k].bars = rows[k].bars + 1
        /\ rows'[k].last = H!Newest
    BY <2>1, AdvanceFacts
  <2>3. /\ todo # NoValue /\ writing = NoValue /\ k \in todo /\ H!Counts(k)
        /\ todo' = todo \ {k} /\ writing' = (IF H!Outcome(k) = "OPEN" THEN NoValue ELSE k)
        /\ UNCHANGED <<clock, traded, ab>>
    BY <2>1 DEF H!Advance
  <2>4. rows[k].outcome = "OPEN" /\ todo \subseteq H!OpenRows
    BY <2>3 DEF UpdateKnows, H!OpenRows
  <2>5. k \notin DOMAIN ab
    BY <2>4 DEF H!LoggedAtMostOnce
  <2>6. RowsPaced'
    <3>1. /\ RowFields \subseteq DOMAIN rows'[k]
          /\ rows'[k].own \in Int /\ rows'[k].last \in Int /\ rows'[k].bars \in Nat
          /\ rows'[k].bars <= rows'[k].last - k[2]
      <4>1. /\ k[2] \in Int /\ clock \in Nat /\ rows[k].last \in Int /\ rows[k].bars \in Nat
            /\ rows[k].bars <= rows[k].last - k[2] /\ rows[k].own \in Int
            /\ RowFields \subseteq DOMAIN rows[k]
        BY DEF RowsPaced
      <4>2. H!Newest > rows[k].last /\ H!Newest \in Int
        BY <2>3, <4>1 DEF H!Counts, H!Newest
      <4> QED BY <2>2, <4>1, <4>2
    <3> QED BY <2>2, <2>3, <3>1 DEF RowsPaced
  <2>7. UpdateKnows'
    <3>1. todo' # NoValue => todo' \subseteq H!OpenRows'
      BY <2>2, <2>3, <2>4 DEF H!OpenRows
    <3>2. writing' # NoValue =>
             writing' \in DOMAIN rows' \ DOMAIN ab' /\ rows'[writing'].outcome # "OPEN"
      BY <2>2, <2>3, <2>5
    <3>3. DOMAIN ab' \subseteq DOMAIN rows'
      BY <2>2, <2>3 DEF UpdateKnows
    <3> QED BY <3>1, <3>2, <3>3 DEF UpdateKnows
  <2>8. H!LoggedAtMostOnce'
    BY <2>2, <2>3, <2>5 DEF H!LoggedAtMostOnce, UpdateKnows
  <2>9. H!ExecutedTracked'
    BY <2>2, <2>3 DEF H!ExecutedTracked
  <2> QED BY <2>6, <2>7, <2>8, <2>9
<1>4. CASE H!BeginUpdate
  BY <1>4 DEF H!BeginUpdate, H!Between, RowsPaced, UpdateKnows, H!OpenRows,
              H!LoggedAtMostOnce, H!ExecutedTracked
<1>5. CASE H!LogAdvice
  <2> DEFINE entry == H!Entry(writing)
  <2>1. /\ writing # NoValue /\ writing' = NoValue
        /\ UNCHANGED <<clock, rows, traded, todo>>
        /\ ab' = [k \in DOMAIN ab \cup {writing} |->
                    IF k # writing THEN ab[k]
                    ELSE (IF k \in DOMAIN ab THEN ab[k] ELSE <<>>) \o <<entry>>]
    BY <1>5 DEF H!LogAdvice
  <2>2. /\ writing \in DOMAIN rows \ DOMAIN ab /\ rows[writing].outcome # "OPEN"
        /\ DOMAIN ab \subseteq DOMAIN rows
    BY <2>1 DEF UpdateKnows
  <2>3. entry.r = rows[writing].r
    BY DEF H!Entry
  <2> HIDE DEF entry
  <2>4. ab'[writing] = <<>> \o <<entry>>
    BY <2>1, <2>2
  <2>5. <<>> \o <<entry>> = <<entry>>
    <3>1. <<entry>> \in Seq({entry})
      OBVIOUS
    <3> QED BY <3>1
  <2>6. Len(ab'[writing]) = 1 /\ ab'[writing][1] = entry
    BY <2>4, <2>5
  <2>7. DOMAIN ab' = DOMAIN ab \cup {writing} /\ \A k \in DOMAIN ab : ab'[k] = ab[k]
    BY <2>1, <2>2
  <2>8. H!LoggedAtMostOnce'
    BY <2>1, <2>2, <2>3, <2>6, <2>7 DEF H!LoggedAtMostOnce
  <2>9. UpdateKnows'
    BY <2>1, <2>2, <2>7 DEF UpdateKnows, H!OpenRows
  <2> QED BY <2>1, <2>8, <2>9 DEF RowsPaced, H!ExecutedTracked
<1>6. CASE H!EndUpdate \/ H!Restart \/ H!CloseTrade
  BY <1>6 DEF H!EndUpdate, H!Restart, H!CloseTrade, RowsPaced, UpdateKnows, H!OpenRows,
              H!LoggedAtMostOnce, H!ExecutedTracked
<1>7. CASE H!Tick
  BY <1>7 DEF H!Tick, H!Between, RowsPaced, UpdateKnows, H!OpenRows,
              H!LoggedAtMostOnce, H!ExecutedTracked
<1>8. CASE H!NewEpoch
  BY <1>8 DEF H!NewEpoch, H!Between, RowsPaced, UpdateKnows, H!OpenRows,
              H!LoggedAtMostOnce, H!ExecutedTracked
<1>9. CASE UNCHANGED H!svars
  BY <1>9 DEF H!svars, RowsPaced, UpdateKnows, H!OpenRows, H!LoggedAtMostOnce, H!ExecutedTracked
<1> QED BY <1>1, <1>2, <1>3, <1>4, <1>5, <1>6, <1>7, <1>8, <1>9 DEF H!Next

\* Only an update moves a row.
LEMMA RowsMoveForward ==
  ASSUME ShadowConstants, ShadowInv, [H!Next]_H!svars, NEW k \in DOMAIN rows,
         rows'[k].bars # rows[k].bars
  PROVE  /\ rows[k].own = k[2] /\ BarsOf[k[1]] = 1 => H!Newest >= rows[k].own + 1
         /\ rows[k].last < H!Newest
         /\ rows'[k].bars <= H!Newest - k[2]
<1>1. RowsPaced
  BY DEF ShadowInv
<1>2. PICK j \in DOMAIN rows : H!Advance(j)
  <2>1. ~ \E leg \in RowLegs, others \in SUBSET RowLegs,
            verdict \in {"rejected", "opened", "no_slot", "refused"} :
            H!Track(leg, others, verdict)
    BY <1>1, TrackFacts
  <2>2. ~UNCHANGED rows
    OBVIOUS
  <2> QED BY <2>1, <2>2 DEF H!Next, H!svars, H!Skip, H!BeginUpdate, H!LogAdvice, H!EndUpdate,
             H!CloseTrade, H!Restart, H!Tick, H!NewEpoch
<1>3. k = j /\ rows'[k].bars = rows[k].bars + 1
  BY <1>1, <1>2, AdvanceFacts
<1>4. H!Counts(k)
  BY <1>2, <1>3 DEF H!Advance
<1>5. /\ k[2] \in Int /\ clock \in Nat /\ rows[k].last \in Int /\ rows[k].bars \in Nat
      /\ rows[k].bars <= rows[k].last - k[2] /\ rows[k].own \in Int
  BY <1>1 DEF RowsPaced
<1> QED BY <1>3, <1>4, <1>5 DEF H!Counts, H!Newest

\* What is said of a leg before its sample is there is neutral.
LEMMA AdviceWaits == ASSUME ShadowConstants, RowsPaced PROVE H!AdviceIsEarned
<1> DEFINE R == {k \in DOMAIN rows : rows[k].outcome # "OPEN" /\ rows[k].epoch = epoch}
<1>1. Cardinality(R) \in Nat
  <2>1. IsFiniteSet(R)
    BY FS_Subset DEF RowsPaced
  <2> QED BY <2>1, FS_CardinalityType
<1>2. H!Resolved(rows) = R
  BY DEF H!Resolved
<1>a. H!Cardinality(R) = Cardinality(R)
  BY Zenon DEF H!Cardinality, Cardinality
<1>3. ASSUME NEW leg, Cardinality(R) < SoftStage
      PROVE  H!RiskMultiplier(rows, leg) = 100 /\ H!ScoreDelta(rows, leg) = 0
  <2>1. Cardinality(R) < RiskStage
    BY <1>1, <1>3 DEF ShadowConstants
  <2>2. H!RiskMultiplier(rows, leg) = 100
    BY <1>2, <1>a, <2>1, Zenon DEF H!RiskMultiplier
  <2>3. H!ScoreDelta(rows, leg) = 0
    BY <1>2, <1>a, <1>3, Zenon DEF H!ScoreDelta
  <2> QED BY <2>2, <2>3
<1>4. \A leg \in RowLegs :
         H!RiskMultiplier(rows, leg) # 100 \/ H!ScoreDelta(rows, leg) # 0 =>
            Cardinality(R) >= SoftStage
  <2> HIDE DEF R
  <2> QED BY <1>1, <1>3 DEF ShadowConstants
<1> QED BY <1>4, <1>a, Zenon DEF H!AdviceIsEarned

\* ShadowIsHonest: rows move forward and once per bar, none is logged twice, executed
\* signals are tracked, and advice waits for its sample.
THEOREM ShadowStaysHonest == ASSUME ShadowConstants PROVE DecisionSpec => ShadowIsHonest
<1> DEFINE Inv == ShadowRuns => ShadowInv
           Honest == ShadowRuns => H!LoggedAtMostOnce /\ H!ExecutedTracked /\ H!AdviceIsEarned
           Forward == \A k \in DOMAIN rows : rows'[k].bars # rows[k].bars =>
                         /\ rows[k].own = k[2] /\ BarsOf[k[1]] = 1 => H!Newest >= rows[k].own + 1
                         /\ rows[k].last < H!Newest
                         /\ rows'[k].bars <= H!Newest - k[2]
<1>1. DecisionInit => Inv
  BY ShadowStarts DEF DecisionInit, ShadowParked, ShadowRuns
<1>2. Inv /\ [DecisionNext]_decisionVars => Inv'
  <2> SUFFICES ASSUME Inv, [DecisionNext]_decisionVars, ShadowRuns' PROVE ShadowInv'
    OBVIOUS
  <2>1. CASE ShadowStep
    BY <2>1, ShadowKeeps DEF ShadowStep
  <2>2. CASE ~ShadowStep
    <3>1. UNCHANGED H!svars
      BY <2>2 DEF DecisionNext, SignalsStep, decisionVars, shadowVars, H!svars
    <3>2. ShadowRuns
      BY <3>1 DEF ShadowRuns, H!svars
    <3> QED BY <3>1, <3>2, ShadowKeeps
  <2> QED BY <2>1, <2>2
<1>3. Inv => Honest
  BY AdviceWaits DEF ShadowInv
<1>4. Inv /\ [DecisionNext]_decisionVars => [Forward]_H!svars
  <2> SUFFICES ASSUME Inv, [DecisionNext]_decisionVars, ~UNCHANGED H!svars PROVE Forward
    OBVIOUS
  <2>1. ShadowRuns /\ H!Next
    BY DEF DecisionNext, SignalsStep, ShadowStep, decisionVars, shadowVars, H!svars
  <2> QED BY <2>1, RowsMoveForward
<1>5. DecisionSpec => []Honest
  BY <1>1, <1>2, <1>3, PTL DEF DecisionSpec
<1>6. DecisionSpec => [][Forward]_H!svars
  BY <1>1, <1>2, <1>4, PTL DEF DecisionSpec
<1> QED BY <1>5, <1>6 DEF ShadowIsHonest, H!NoLookahead

--------------------------------------------------------------------------------
(***************************************************************************)
(* What the engine makes of the market before it sizes (Outlook).          *)
(***************************************************************************)
Dimensions == {"trend", "vol", "breadth", "corr", "liq"}

\* What a reading of the market may hold: Symbols of the sample, and numbers.
ReadingsAreSound ==
    \A r \in Shows :
        /\ r.bars \in Int /\ r.adx \in Int \cup {NoRead}
        /\ r.widths \in Seq(Int \cup {NoRead}) /\ r.depths \in Seq(Int \cup {NoRead})
        /\ r.ups \in Int /\ r.total \in Int
        /\ r.series \in SUBSET O!Range(Sample)
        /\ r.high \in Int /\ r.low \in Int

OutlookConstants ==
    /\ NoRead \notin Int \cup O!Labels
    /\ Sample \in Seq(O!Range(Sample)) /\ ReadingsAreSound
    /\ DimsOn \in SUBSET Dimensions
    /\ ConfirmBars \in Nat \ {0} /\ PersistTarget \in Nat \ {0}
    /\ IsFiniteSet(DOMAIN PriorOf) /\ KnownLegs \in SUBSET DOMAIN PriorOf
    /\ \A leg \in DOMAIN PriorOf : PriorOf[leg] \in Int
    /\ TiltStrength \in Int /\ Shares \in SUBSET Int
    /\ TradesAtMost \in Nat \ {0}
    /\ CorrPenalty \in 0 .. 50 * TradesAtMost

\* The last n values of s are x.
Ends(s, n, x) == n <= Len(s) /\ \A i \in Len(s) - n + 1 .. Len(s) : s[i] = x

\* The regime is one of the labels, and what is counted for the next one was just shown.
Confirming ==
    /\ raws \in Seq(O!Labels)
    /\ regime # NoRead =>
          /\ regime.label \in O!Labels /\ regime.conf \in 0 .. 100
          /\ regime.persist \in 1 .. PersistTarget /\ regime.trans \in Int
          /\ regime.ok \in BOOLEAN
          /\ \A d \in DOMAIN regime.sub : regime.sub[d] \in Int
          /\ regime.count \in 0 .. ConfirmBars - 1
          /\ Ends(raws, regime.count, regime.pending)

\* Neither the open trades nor the snapshot of them are more than the slots.
Slotted ==
    /\ IsFiniteSet(held) /\ Cardinality(held) <= TradesAtMost
    /\ IsFiniteSet(snapshot) /\ Cardinality(snapshot) <= TradesAtMost
    /\ slots # NoRead => slots \in 1 .. TradesAtMost

OutlookInv == RegimeRuns => reading \in Shows /\ Confirming /\ Slotted

--------------------------------------------------------------------------------
(* The scores.                                                              *)

LEMMA ClampedIn ==
    ASSUME NEW x \in Int, NEW lo \in Int, NEW hi \in Int, lo <= hi
    PROVE  O!Clamped(x, lo, hi) \in lo .. hi
  BY DEF O!Clamped

LEMMA ClampedShare ==
    ASSUME NEW x \in Int
    PROVE  O!Clamped(x, 0, 100) \in 0 .. 100
  BY DEF O!Clamped

LEMMA OutlookSums == \A f, T : O!SumFunctionOnSet(f, T) = Total(f, T)
  BY Zenon DEF Total, O!SumFunctionOnSet, SumFunctionOnSet, O!FoldFunctionOnSet,
     FoldFunctionOnSet, O!MapThenFoldSet, MapThenFoldSet

LEMMA OutlookCounts == \A S : O!Cardinality(S) = Cardinality(S)
  BY Zenon DEF O!Cardinality, Cardinality

LEMMA QuotientIsInt ==
    ASSUME NEW a \in Int, NEW b \in Nat \ {0}
    PROVE  a \div b \in Int
  OBVIOUS

LEMMA MeanIsInt ==
    ASSUME NEW v, NEW S, IsFiniteSet(S), S # {}, \A x \in S : v[x] \in Int
    PROVE  O!Mean(v, S) \in Int
<1>1. Total(v, S) \in Int
  BY TotalIsInt
<1>2. Cardinality(S) \in Nat \ {0}
  BY FS_CardinalityType, FS_EmptySet
<1>3. Total(v, S) \div Cardinality(S) \in Int
  BY <1>1, <1>2, QuotientIsInt
<1> QED BY <1>3, OutlookSums, OutlookCounts, Zenon DEF O!Mean

LEMMA KnownFacts ==
    ASSUME NEW s \in Seq(Int \cup {NoRead})
    PROVE  /\ IsFiniteSet(O!Known(s))
           /\ \A i \in O!Known(s) : s[i] \in Int
<1>1. O!Known(s) \subseteq 1 .. Len(s)
  BY DEF O!Known
<1>2. IsFiniteSet(1 .. Len(s))
  BY FS_Interval
<1>3. IsFiniteSet(O!Known(s))
  BY <1>1, <1>2, FS_Subset
<1>4. \A i \in O!Known(s) : s[i] \in Int
  BY DEF O!Known
<1> QED BY <1>3, <1>4

\* The symbols of a sample are finitely many.
LEMMA SeriesFinite ==
    ASSUME OutlookConstants, NEW r \in Shows
    PROVE  IsFiniteSet(r.series) /\ IsFiniteSet(O!Pairs(r))
<1>1. IsFiniteSet(O!Range(Sample))
  <2>1. IsFiniteSet(1 .. Len(Sample))
    BY FS_Interval DEF OutlookConstants
  <2>2. O!Range(Sample) = {Sample[i] : i \in 1 .. Len(Sample)}
    BY DEF OutlookConstants, O!Range
  <2> QED BY <2>1, <2>2, ImageFinite
<1>2. IsFiniteSet(r.series)
  BY <1>1, FS_Subset DEF OutlookConstants, ReadingsAreSound
<1>3. IsFiniteSet(SUBSET r.series)
  BY <1>2, FS_SUBSET
<1>4. O!Pairs(r) \subseteq SUBSET r.series
  BY DEF O!Pairs
<1> QED BY <1>2, <1>3, <1>4, FS_Subset

LEMMA CorrIsScore ==
    ASSUME OutlookConstants, NEW r \in Shows
    PROVE  O!Corr(r) \in Int \cup {NoRead}
<1> SUFFICES ASSUME ~(Cardinality(r.series) < 3)
             PROVE  O!Corr(r) \in Int
  BY OutlookCounts, Zenon DEF O!Corr
<1> DEFINE f == [p \in O!Pairs(r) |-> O!Pearson(r, p)]
<1>1. Cardinality(r.series) \in Nat /\ IsFiniteSet(r.series) /\ IsFiniteSet(O!Pairs(r))
  BY SeriesFinite, FS_CardinalityType
<1>2. O!Pairs(r) # {}
  <2>1. PICK x : x \in r.series
    BY <1>1, FS_EmptySet
  <2>2. Cardinality({x}) = 1 /\ IsFiniteSet({x})
    BY FS_Singleton
  <2>3. PICK y : y \in r.series /\ y # x
    <3>1. r.series # {x}
      BY <1>1, <2>2
    <3> QED BY <2>1, <3>1
  <2>4. Cardinality({x} \cup {y}) = 2
    BY <2>2, <2>3, FS_AddElement
  <2>5. {x} \cup {y} \in O!Pairs(r)
    BY <2>1, <2>3, <2>4, OutlookCounts, Zenon DEF O!Pairs
  <2> QED BY <2>5
<1>3. \A p \in O!Pairs(r) : f[p] \in Int
  <2>1. r.high \in Int /\ r.low \in Int
    BY DEF OutlookConstants, ReadingsAreSound
  <2> QED BY <2>1 DEF O!Pearson
<1> HIDE DEF f
<1>4. O!Mean(f, O!Pairs(r)) \in Int
  BY <1>1, <1>2, <1>3, MeanIsInt
<1>5. O!Clamped(O!Mean(f, O!Pairs(r)), 0, 100) \in Int
  <2>1. PICK m : m = O!Mean(f, O!Pairs(r))
    OBVIOUS
  <2>2. O!Clamped(m, 0, 100) \in 0 .. 100
    BY <1>4, <2>1, ClampedShare
  <2>3. O!Clamped(m, 0, 100) \in Int
    BY <2>2
  <2> QED BY <2>1, <2>3, Zenon
<1> QED BY <1>5, OutlookCounts, Zenon DEF O!Corr, f

\* Every score is a number, or there is none.
LEMMA ScoreIsNumber ==
    ASSUME OutlookConstants, NEW r \in Shows, NEW d \in Dimensions
    PROVE  O!Score(r, d) \in Int \cup {NoRead}
<1>1. /\ r.bars \in Int /\ r.adx \in Int \cup {NoRead}
      /\ r.widths \in Seq(Int \cup {NoRead}) /\ r.depths \in Seq(Int \cup {NoRead})
      /\ r.ups \in Int /\ r.total \in Int
  BY DEF OutlookConstants, ReadingsAreSound
<1>2. O!Trend(r) \in Int \cup {NoRead}
  <2>1. CASE r.adx \in Int
    <3>1. PICK x \in Int : x = ((r.adx - 20) * 100) \div 20
      BY <2>1
    <3>2. O!Clamped(x, 0, 100) \in 0 .. 100
      BY ClampedShare
    <3>3. O!Clamped(x, 0, 100) \in Int
      BY <3>2
    <3>4. O!Trend(r) \in {NoRead, O!Clamped(x, 0, 100)}
      BY <3>1, Zenon DEF O!Trend
    <3> QED BY <3>3, <3>4
  <2>2. CASE r.adx = NoRead
    BY <2>2 DEF O!Trend
  <2> QED BY <1>1, <2>1, <2>2
<1>3. O!Vol(r) \in Int \cup {NoRead}
  BY <1>1, KnownFacts, MeanIsInt DEF O!Vol
<1>4. O!Breadth(r) \in Int \cup {NoRead}
  <2>1. CASE ~(r.total < 3)
    <3>1. (r.ups * 100) \in Int /\ r.total \in Nat \ {0}
      BY <1>1, <2>1
    <3>2. (r.ups * 100) \div r.total \in Int
      BY <3>1, QuotientIsInt
    <3> QED BY <3>2 DEF O!Breadth
  <2> QED BY <2>1 DEF O!Breadth
<1>5. O!Liq(r) \in Int \cup {NoRead}
  BY <1>1, KnownFacts, MeanIsInt DEF O!Liq
<1> QED BY <1>2, <1>3, <1>4, <1>5, CorrIsScore DEF O!Score, Dimensions

LEMMA ScoresAreNumbers ==
    ASSUME OutlookConstants, NEW r \in Shows
    PROVE  /\ DOMAIN O!SubScores[r] \subseteq DimsOn
           /\ \A d \in DOMAIN O!SubScores[r] : O!SubScores[r][d] \in Int
<1>1. O!SubScores[r] = O!ScoresOf(r)
  BY DEF O!SubScores
<1>2. ASSUME NEW d \in DOMAIN O!ScoresOf(r)
      PROVE  d \in DimsOn /\ O!ScoresOf(r)[d] \in Int
  <2>1. d \in DimsOn /\ O!Score(r, d) # NoRead /\ O!ScoresOf(r)[d] = O!Score(r, d)
    BY <1>2, Zenon DEF O!ScoresOf
  <2>2. O!Score(r, d) \in Int \cup {NoRead}
    BY <2>1, ScoreIsNumber DEF OutlookConstants
  <2> QED BY <2>1, <2>2
<1> QED BY <1>1, <1>2

LEMMA GetIsInt ==
    ASSUME NEW sub, \A d \in DOMAIN sub : sub[d] \in Int, NEW e, NEW x \in Int
    PROVE  O!Get(sub, e, x) \in Int
  BY DEF O!Get
--------------------------------------------------------------------------------
(* The label.                                                               *)

LEMMA LabelOfRead ==
    ASSUME OutlookConstants, NEW r
    PROVE  O!Raw(r) \in O!Labels
<1>1. \A sub : O!RawLabel(sub) \in O!Labels
  BY Zenon DEF O!RawLabel, O!Labels
<1>2. "UNCERTAIN" \in O!Labels
  BY DEF O!Labels
<1> QED BY <1>1, <1>2, Zenon DEF O!Raw

\* One more of the same at the end, whether or not the oldest is forgotten.
LEMMA OneMore ==
    ASSUME OutlookConstants, NEW s \in Seq(O!Labels), NEW x \in O!Labels,
           NEW n \in 0 .. ConfirmBars - 1, Ends(s, n, x)
    PROVE  O!Recent(s, x) \in Seq(O!Labels) /\ Ends(O!Recent(s, x), n + 1, x)
<1> DEFINE t == Append(s, x)
<1>1. ConfirmBars \in Nat /\ n \in Nat /\ n < ConfirmBars
  BY DEF OutlookConstants
<1>2. t \in Seq(O!Labels) /\ Len(t) = Len(s) + 1 /\ Len(s) \in Nat
  OBVIOUS
<1>3. Ends(t, n + 1, x)
  <2>1. ASSUME NEW i \in Len(t) - (n + 1) + 1 .. Len(t) PROVE t[i] = x
    <3>1. CASE i = Len(s) + 1
      BY <3>1
    <3>2. CASE i # Len(s) + 1
      <4>1. i \in Len(s) - n + 1 .. Len(s) /\ i \in 1 .. Len(s)
        BY <1>1, <1>2, <3>2 DEF Ends
      <4>2. t[i] = s[i]
        BY <4>1
      <4> QED BY <4>1, <4>2 DEF Ends
    <3> QED BY <3>1, <3>2
  <2>2. n + 1 <= Len(t)
    BY <1>1, <1>2 DEF Ends
  <2> QED BY <2>1, <2>2 DEF Ends
<1>4. CASE Len(t) > ConfirmBars + 1
  <2>1. O!Recent(s, x) = Tail(t)
    BY <1>4, Zenon DEF O!Recent
  <2> HIDE DEF t
  <2>2. /\ Tail(t) \in Seq(O!Labels) /\ Len(Tail(t)) = Len(t) - 1
        /\ \A i \in 1 .. Len(t) - 1 : Tail(t)[i] = t[i + 1]
    <3>1. t # <<>>
      BY <1>1, <1>2, <1>4
    <3> QED BY <1>2, <3>1, HeadTailProperties
  <2>3. ASSUME NEW i \in Len(Tail(t)) - (n + 1) + 1 .. Len(Tail(t)) PROVE Tail(t)[i] = x
    <3>1. i \in 1 .. Len(t) - 1 /\ i + 1 \in Len(t) - (n + 1) + 1 .. Len(t)
      BY <1>1, <1>2, <1>4, <2>2
    <3> QED BY <1>3, <2>2, <3>1 DEF Ends
  <2>4. n + 1 <= Len(Tail(t))
    BY <1>1, <1>2, <1>4, <2>2
  <2> QED BY <2>1, <2>2, <2>3, <2>4 DEF Ends
<1>5. CASE ~(Len(t) > ConfirmBars + 1)
  <2>1. O!Recent(s, x) = t
    BY <1>5, Zenon DEF O!Recent
  <2> QED BY <1>2, <1>3, <2>1
<1> QED BY <1>4, <1>5

\* What the hysteresis makes of one more label: either it is held, and what is counted
\* was just shown, or it is shown for the Confirm-th time or a panic.
LEMMA HysteresisCounts ==
    ASSUME OutlookConstants, Confirming, NEW raw \in O!Labels, NEW prev, prev = regime,
           NEW h, h = O!Hysteresis(raw, prev), NEW s, s = O!Recent(raws, raw)
    PROVE  /\ s \in Seq(O!Labels)
           /\ h.label \in O!Labels /\ h.persist \in 1 .. PersistTarget
           /\ h.count \in 0 .. ConfirmBars - 1 /\ Ends(s, h.count, h.pending)
           /\ prev # NoRead /\ h.label # prev.label /\ h.label # "PANIC" =>
                 Ends(s, ConfirmBars, h.label)
<1>1. ConfirmBars \in Nat \ {0} /\ PersistTarget \in Nat \ {0} /\ NoRead \notin O!Labels
  BY DEF OutlookConstants
<1>2. raws \in Seq(O!Labels) /\ Len(raws) \in Nat
  BY DEF Confirming
<1>3. s \in Seq(O!Labels) /\ Ends(s, 1, raw)
  <2>1. 0 \in 0 .. ConfirmBars - 1 /\ Ends(raws, 0, raw) /\ 0 + 1 = 1
    BY <1>1, <1>2 DEF Ends
  <2> QED BY <1>2, <2>1, OneMore
<1>4. Len(s) \in Nat
  BY <1>3
<1>5. \A x : Ends(s, 0, x)
  BY <1>4 DEF Ends
<1>6. 0 \in 0 .. ConfirmBars - 1 /\ 1 \in 1 .. PersistTarget
  BY <1>1
<1>7. CASE h = O!Adopted(raw)
  <2>1. h.label = raw /\ h.persist = 1 /\ h.count = 0 /\ h.pending = NoRead
    BY <1>7 DEF O!Adopted
  <2>2. CASE prev # NoRead /\ raw # prev.label /\ raw # "PANIC"
    <3> DEFINE q == O!Seen(raw, prev)
    <3>1. /\ prev.persist \in 1 .. PersistTarget /\ prev.count \in 0 .. ConfirmBars - 1
          /\ Ends(raws, prev.count, prev.pending)
      BY <2>2 DEF Confirming
    <3>2. q \in 1 .. ConfirmBars /\ Ends(s, q, raw)
      <4>1. CASE prev.pending = raw
        <5>1. q = prev.count + 1
          BY <4>1, Zenon DEF O!Seen
        <5>2. Ends(s, prev.count + 1, raw)
          BY <1>2, <3>1, <4>1, OneMore
        <5> QED BY <1>1, <3>1, <5>1, <5>2
      <4>2. CASE prev.pending # raw
        <5>1. q = 1
          BY <4>2, Zenon DEF O!Seen
        <5> QED BY <1>1, <1>3, <5>1
      <4> QED BY <4>1, <4>2
    <3> HIDE DEF q
    <3>3. q >= ConfirmBars
      <4> SUFFICES ASSUME ~(q >= ConfirmBars) PROVE FALSE
        OBVIOUS
      <4>1. h.label = prev.label
        BY <2>2 DEF O!Hysteresis, q
      <4> QED BY <2>1, <2>2, <4>1
    <3>4. q = ConfirmBars
      BY <1>1, <3>2, <3>3
    <3> QED BY <1>3, <1>5, <1>6, <2>1, <3>2, <3>4
  <2> QED BY <1>3, <1>5, <1>6, <2>1, <2>2
<1>8. CASE h # O!Adopted(raw)
  <2>1. prev # NoRead
    BY <1>8, Zenon DEF O!Hysteresis
  <2>2. /\ prev.label \in O!Labels /\ prev.persist \in 1 .. PersistTarget
        /\ prev.count \in 0 .. ConfirmBars - 1 /\ Ends(raws, prev.count, prev.pending)
    BY <2>1 DEF Confirming
  <2>3. O!Longer(prev.persist) \in 1 .. PersistTarget
    BY <1>1, <2>2 DEF O!Longer
  <2>4. CASE raw = prev.label
    <3>1. h.label = raw /\ h.persist = O!Longer(prev.persist) /\ h.count = 0
      BY <2>1, <2>4 DEF O!Hysteresis
    <3> QED BY <1>3, <1>5, <1>6, <2>3, <2>4, <3>1
  <2>5. CASE raw # prev.label
    <3>1. ~(O!Seen(raw, prev) >= ConfirmBars)
      BY <1>8, <2>1, <2>5, Zenon DEF O!Hysteresis
    <3>2. /\ h.label = prev.label /\ h.persist = O!Longer(prev.persist)
          /\ h.pending = raw /\ h.count = O!Seen(raw, prev)
      BY <1>8, <2>1, <2>5 DEF O!Hysteresis
    <3>3. Ends(s, h.count, raw) /\ h.count \in 0 .. ConfirmBars - 1
      <4>1. CASE prev.pending = raw
        <5>1. h.count = prev.count + 1
          BY <3>2, <4>1, Zenon DEF O!Seen
        <5>2. Ends(s, prev.count + 1, raw)
          BY <1>2, <2>2, <4>1, OneMore
        <5> QED BY <1>1, <2>2, <3>1, <3>2, <5>1, <5>2
      <4>2. CASE prev.pending # raw
        <5>1. h.count = 1
          BY <3>2, <4>2, Zenon DEF O!Seen
        <5> QED BY <1>1, <1>3, <3>1, <3>2, <5>1
      <4> QED BY <4>1, <4>2
    <3> QED BY <1>3, <2>2, <2>3, <3>2, <3>3
  <2> QED BY <2>4, <2>5
<1> QED BY <1>7, <1>8
--------------------------------------------------------------------------------
(* The confidence, and what is evaluated.                                   *)

\* A part of a whole, in hundredths of it.
LEMMA PartOfWhole ==
    ASSUME NEW w \in Nat, NEW n \in Nat, NEW m \in Nat \ {0}, n <= m
    PROVE  (w * n) \div m \in 0 .. w
<1>1. 0 <= w * n /\ w * n <= w * m /\ w * n \in Int /\ w * m \in Int
  OBVIOUS
<1>2. PICK a \in Int : a = w * n
  BY <1>1
<1>3. 0 <= a \div m /\ a \div m \in Int /\ m * (a \div m) <= a
  BY <1>1, <1>2
<1>4. PICK q \in Int : q = a \div m
  BY <1>3
<1>5. ASSUME ~(q <= w) PROVE FALSE
  <2>1. q >= w + 1
    BY <1>5
  <2>2. m * q >= m * (w + 1)
    BY <2>1
  <2>3. m * (w + 1) = w * m + m
    OBVIOUS
  <2> QED BY <1>1, <1>2, <1>3, <1>4, <2>2, <2>3
<1> QED BY <1>2, <1>3, <1>4, <1>5

LEMMA PersistenceIsShare ==
    ASSUME OutlookConstants, NEW p \in 1 .. PersistTarget
    PROVE  O!Persistence(p) \in 0 .. 100
<1>1. PersistTarget \in Nat \ {0} /\ p \in Nat /\ p <= PersistTarget
  BY DEF OutlookConstants
<1>2. PICK x : x = (100 * p) \div PersistTarget
  OBVIOUS
<1>3. x \in 0 .. 100
  BY <1>1, <1>2, PartOfWhole
<1>4. O!Clamped(x, 0, 100) \in 0 .. 100
  BY <1>3, ClampedShare
<1> QED BY <1>2, <1>4, Zenon DEF O!Persistence

LEMMA ConfidenceIsShare ==
    ASSUME OutlookConstants, NEW sub, DOMAIN sub \subseteq DimsOn, NEW p \in 1 .. PersistTarget
    PROVE  O!Confidence(sub, p) \in 0 .. 100
<1> SUFFICES ASSUME DOMAIN sub # {} PROVE O!Confidence(sub, p) \in 0 .. 100
  <2>1. DOMAIN sub = {} => O!Confidence(sub, p) = 0
    BY Zenon DEF O!Confidence
  <2>2. 0 \in 0 .. 100
    OBVIOUS
  <2> QED BY <2>1, <2>2, Zenon
<1>1. IsFiniteSet(DimsOn)
  <2>1. IsFiniteSet(Dimensions)
    <3>1. Dimensions = ((({"trend"} \cup {"vol"}) \cup {"breadth"}) \cup {"corr"})
                          \cup {"liq"}
      BY DEF Dimensions
    <3> QED BY <3>1, FS_Singleton, FS_Union
  <2> QED BY <2>1, FS_Subset DEF OutlookConstants
<1>2. PICK n : n = Cardinality(DOMAIN sub)
  OBVIOUS
<1>3. PICK m : m = Cardinality(DimsOn)
  OBVIOUS
<1>4. n \in Nat \ {0} /\ m \in Nat \ {0} /\ n <= m
  BY <1>1, <1>2, <1>3, FS_Subset, FS_CardinalityType, FS_EmptySet
<1>5. PICK c : c = (50 * n) \div m
  OBVIOUS
<1>6. c \in 0 .. 50
  BY <1>4, <1>5, PartOfWhole
<1>7. PICK q \in 0 .. 100 : q = O!Persistence(p)
  BY PersistenceIsShare
<1>8. PICK f : f = 50 + q \div 2
  OBVIOUS
<1>9. f \in 50 .. 100
  BY <1>7, <1>8
<1>10. PICK e : e = 50 + c
  OBVIOUS
<1>11. e \in Nat /\ f \in Nat /\ e <= 100 /\ f <= 100
  BY <1>6, <1>9, <1>10
<1>12. (f * e) \div 100 \in 0 .. f
  BY <1>11, PartOfWhole
<1>13. (e * f) = (f * e)
  BY <1>11
<1>14. O!Confidence(sub, p) = (e * f) \div 100
  BY <1>2, <1>3, <1>5, <1>7, <1>8, <1>10, OutlookCounts, Zenon DEF O!Confidence
<1> QED BY <1>11, <1>12, <1>13, <1>14

LEMMA TransitionIsNumber ==
    ASSUME OutlookConstants, NEW sub, \A d \in DOMAIN sub : sub[d] \in Int, NEW prev,
           prev # NoRead => \A d \in DOMAIN prev.sub : prev.sub[d] \in Int,
           NEW p \in 1 .. PersistTarget
    PROVE  O!TransitionRisk(sub, prev, p) \in Int
<1>1. PICK now \in Int : now = O!Get(sub, "trend", 0)
  BY GetIsInt
<1>2. PICK before \in Int : before = IF prev = NoRead THEN now ELSE O!Get(prev.sub, "trend", now)
  BY GetIsInt
<1>3. PICK v \in Int : v = O!Get(sub, "vol", 0)
  BY GetIsInt
<1>4. PICK c \in Int : c = O!Get(sub, "corr", 0)
  BY GetIsInt
<1>5. PICK q \in 0 .. 100 : q = O!Persistence(p)
  BY PersistenceIsShare
<1>6. PICK x \in Int : x = (35 * (IF now > before THEN now - before ELSE before - now)
                              + 30 * v + 20 * (100 - q) + 15 * c) \div 100
  OBVIOUS
<1>7. O!TransitionRisk(sub, prev, p) = O!Clamped(x, 0, 100)
  BY <1>1, <1>2, <1>3, <1>4, <1>5, <1>6, Zenon DEF O!TransitionRisk
<1> QED BY <1>7, ClampedShare

\* An evaluation leaves a regime and the labels shown that agree.
LEMMA EvaluatedIsEarned ==
    ASSUME OutlookConstants, Confirming, NEW r \in Shows,
           NEW e, e = O!Evaluated(r, regime), NEW s, s = O!Recent(raws, O!Raw(r))
    PROVE  /\ s \in Seq(O!Labels)
           /\ e.label \in O!Labels /\ e.conf \in 0 .. 100
           /\ e.persist \in 1 .. PersistTarget /\ e.trans \in Int /\ e.ok \in BOOLEAN
           /\ \A d \in DOMAIN e.sub : e.sub[d] \in Int
           /\ e.count \in 0 .. ConfirmBars - 1 /\ Ends(s, e.count, e.pending)
           /\ regime # NoRead /\ e.label # regime.label /\ e.label \notin {"PANIC", "UNCERTAIN"}
                 => Ends(s, ConfirmBars, e.label)
<1>1. PICK raw : raw = O!Raw(r)
  OBVIOUS
<1>2. PICK h : h = O!Hysteresis(raw, regime)
  OBVIOUS
<1>3. PICK sub : sub = O!SubScores[r]
  OBVIOUS
<1>4. raw \in O!Labels
  BY <1>1, LabelOfRead
<1>5. /\ s \in Seq(O!Labels)
      /\ h.label \in O!Labels /\ h.persist \in 1 .. PersistTarget
      /\ h.count \in 0 .. ConfirmBars - 1 /\ Ends(s, h.count, h.pending)
      /\ regime # NoRead /\ h.label # regime.label /\ h.label # "PANIC" =>
            Ends(s, ConfirmBars, h.label)
  BY <1>1, <1>2, <1>4, HysteresisCounts
<1>6. DOMAIN sub \subseteq DimsOn /\ \A d \in DOMAIN sub : sub[d] \in Int
  BY <1>3, ScoresAreNumbers
<1>7. O!Confidence(sub, h.persist) \in 0 .. 100
  BY <1>5, <1>6, ConfidenceIsShare
<1>8. O!TransitionRisk(sub, regime, h.persist) \in Int
  <2>1. regime # NoRead => \A d \in DOMAIN regime.sub : regime.sub[d] \in Int
    BY DEF Confirming
  <2> QED BY <1>5, <1>6, <2>1, TransitionIsNumber
<1>9. PICK unsure : unsure = (O!Trend(r) = NoRead
                               \/ (O!Confidence(sub, h.persist) < LowestConf /\ h.label # "PANIC"))
  OBVIOUS
<1>10. PICK ok : ok = (O!Trend(r) # NoRead)
  OBVIOUS
<1>11. e = [label |-> IF unsure THEN "UNCERTAIN" ELSE h.label,
            conf |-> O!Confidence(sub, h.persist), sub |-> sub, persist |-> h.persist,
            trans |-> O!TransitionRisk(sub, regime, h.persist), ok |-> ok,
            pending |-> h.pending, count |-> h.count]
  BY <1>1, <1>2, <1>3, <1>9, <1>10, Zenon DEF O!Evaluated
<1>12. ok \in BOOLEAN
  BY <1>10
<1>13. /\ e.label = (IF unsure THEN "UNCERTAIN" ELSE h.label)
       /\ e.conf = O!Confidence(sub, h.persist) /\ e.sub = sub /\ e.persist = h.persist
       /\ e.trans = O!TransitionRisk(sub, regime, h.persist) /\ e.ok = ok
       /\ e.pending = h.pending /\ e.count = h.count
  BY <1>11
<1>14. "UNCERTAIN" \in O!Labels
  BY DEF O!Labels
<1>15. e.label \in {"UNCERTAIN", h.label}
  BY <1>13
<1>16. e.label \in O!Labels
  BY <1>5, <1>14, <1>15
<1>17. ASSUME regime # NoRead, e.label # regime.label, e.label \notin {"PANIC", "UNCERTAIN"}
       PROVE  Ends(s, ConfirmBars, e.label)
  BY <1>5, <1>15, <1>17
<1> QED BY <1>5, <1>6, <1>7, <1>8, <1>12, <1>13, <1>16, <1>17
--------------------------------------------------------------------------------
(* The slots of a cycle.                                                    *)

LEMMA FavourIsNumber ==
    ASSUME NEW l \in O!Labels
    PROVE  O!Favour[l] \in Int /\ O!SlotShare[l] \in Int
  BY DEF O!Labels, O!Favour, O!SlotShare

LEMMA OpportunityIsNumber ==
    ASSUME OutlookConstants, Confirming, regime # NoRead, NEW a \in Shares
    PROVE  O!Opportunity(a) \in Int
<1>1. a \in Int
  BY DEF OutlookConstants
<1>2. /\ \A d \in DOMAIN regime.sub : regime.sub[d] \in Int
      /\ regime.label \in O!Labels /\ regime.conf \in Int /\ regime.trans \in Int
  <2>1. /\ \A d \in DOMAIN regime.sub : regime.sub[d] \in Int
        /\ regime.label \in O!Labels /\ regime.conf \in 0 .. 100 /\ regime.trans \in Int
    BY Zenon DEF Confirming
  <2>2. \A x \in 0 .. 100 : x \in Int
    OBVIOUS
  <2> QED BY <2>1, <2>2, Zenon
<1>3. PICK f \in Int : f = O!Favour[regime.label]
  BY <1>2, FavourIsNumber
<1>4. PICK b \in Int : b = O!Get(regime.sub, "breadth", 50)
  BY <1>2, GetIsInt
<1>5. PICK l \in Int : l = O!Get(regime.sub, "liq", 50)
  BY <1>2, GetIsInt
<1>6. PICK v \in Int : v = O!Get(regime.sub, "vol", 50)
  BY <1>2, GetIsInt
<1>7. PICK c \in Int : c = O!Get(regime.sub, "corr", 0)
  BY <1>2, GetIsInt
<1>8. PICK u \in Int : u = O!Suited(v)
  <2>1. PICK x \in Int : x = 100 - 2 * (IF v > 50 THEN v - 50 ELSE 50 - v)
    OBVIOUS
  <2>2. O!Clamped(x, 0, 100) \in 0 .. 100
    BY ClampedShare
  <2>3. O!Clamped(x, 0, 100) \in Int
    BY <2>2
  <2> QED BY <2>1, <2>3, Zenon DEF O!Suited
<1>9. PICK base \in Int : base = 30 * f + 20 * regime.conf + 15 * b + 15 * l + 10 * u + 10 * a
  BY <1>1, <1>2
<1>10. PICK penalty \in Int : penalty = 15 * c + 15 * regime.trans
  BY <1>2
<1>11. PICK x \in Int : x = (2 * base - penalty) \div 200
  OBVIOUS
<1>12. O!Opportunity(a) = O!Clamped(x, 0, 100)
  BY <1>3, <1>4, <1>5, <1>6, <1>7, <1>8, <1>9, <1>10, <1>11, Zenon DEF O!Opportunity
<1>13. O!Clamped(x, 0, 100) \in 0 .. 100
  BY ClampedShare
<1> QED BY <1>12, <1>13

LEMMA SlotsWithinCap ==
    ASSUME OutlookConstants, Confirming, NEW a \in Shares
    PROVE  O!PlanSlots(a) \in 1 .. TradesAtMost
<1>1. TradesAtMost \in Nat \ {0}
  BY DEF OutlookConstants
<1>2. CASE regime = NoRead \/ ~regime.ok
  <2>1. O!PlanSlots(a) = TradesAtMost
    BY <1>2, SMT DEF O!PlanSlots
  <2> QED BY <1>1, <2>1
<1>3. CASE ~(regime = NoRead \/ ~regime.ok)
  <2>1. O!Opportunity(a) \in Int
    BY <1>3, OpportunityIsNumber
  <2>2. O!SlotShare[regime.label] \in Int
    BY <1>3, FavourIsNumber DEF Confirming
  <2>3. PICK share : share = O!SlotShare[regime.label] * (50 + O!Opportunity(a) \div 2)
    OBVIOUS
  <2>4. PICK n \in Int : n = TradesAtMost * share
    <3>1. 50 + O!Opportunity(a) \div 2 \in Int
      BY <2>1
    <3>2. share \in Int
      BY <2>2, <2>3, <3>1
    <3>3. TradesAtMost * share \in Int
      BY <1>1, <3>2
    <3> QED BY <3>3
  <2>5. PICK x \in Int : x = O!Rounded(n, 10000)
    <3>1. O!Rounded(n, 10000) \in Int
      BY <2>4 DEF O!Rounded
    <3> QED BY <3>1
  <2>6. O!PlanSlots(a) = O!Clamped(x, 1, TradesAtMost)
    BY <1>3, <2>3, <2>4, <2>5 DEF O!PlanSlots
  <2>7. 1 \in Int /\ 1 <= TradesAtMost /\ TradesAtMost \in Int
    BY <1>1
  <2>8. O!Clamped(x, 1, TradesAtMost) \in 1 .. TradesAtMost
    BY <2>7, ClampedIn
  <2> QED BY <2>6, <2>8
<1> QED BY <1>2, <1>3

--------------------------------------------------------------------------------
(* The weights.                                                             *)

\* The weakest and the strongest leg of the table.
LEMMA TableEnds ==
    ASSUME OutlookConstants, DOMAIN PriorOf # {}
    PROVE  O!Weakest \in Int /\ O!Strongest \in Int /\ O!Weakest <= O!Strongest
<1> DEFINE S == {PriorOf[leg] : leg \in DOMAIN PriorOf}
           N == {-x : x \in S}
<1>1. O!Range(PriorOf) = S
  BY Zenon DEF O!Range
<1>2. IsFiniteSet(S) /\ S # {} /\ \A x \in S : x \in Int
  BY ImageFinite DEF OutlookConstants
<1> HIDE DEF S
<1>3. PICK m \in S : \A k \in S : m >= k
  BY <1>2, GreatestElement
<1>4. PICK l \in S : \A k \in S : l <= k
  <2>1. IsFiniteSet(N)
    <3>1. PICK neg : neg = [x \in S |-> -x]
      OBVIOUS
    <3>2. IsFiniteSet({neg[x] : x \in S})
      BY <1>2, ImageFinite
    <3>3. N = {neg[x] : x \in S}
      BY <3>1
    <3> QED BY <3>2, <3>3
  <2>2. N # {} /\ \A y \in N : y \in Int
    BY <1>2
  <2> HIDE DEF N
  <2>3. PICK g \in N : \A k \in N : g >= k
    BY <2>1, <2>2, GreatestElement
  <2>4. PICK l \in S : g = -l
    BY DEF N
  <2>5. ASSUME NEW k \in S PROVE l <= k
    <3>1. -k \in N
      BY DEF N
    <3> QED BY <1>2, <2>3, <2>4, <3>1
  <2> QED BY <2>5
<1>5. O!Weakest \in S /\ \A k \in S : O!Weakest <= k
  BY <1>1, <1>4, Zenon DEF O!Weakest
<1>6. O!Strongest \in S /\ \A k \in S : O!Strongest >= k
  BY <1>1, <1>3, Zenon DEF O!Strongest
<1> QED BY <1>2, <1>5, <1>6

LEMMA TiltIsNumber ==
    ASSUME OutlookConstants, NEW leg \in DOMAIN PriorOf
    PROVE  O!Tilted(PriorOf[leg]) \in Int
<1>1. PICK w \in Int : w = O!Weakest
  BY TableEnds
<1>2. PICK t \in Int : t = O!Strongest /\ w <= t
  BY <1>1, TableEnds
<1>3. PICK p \in Int : p = PriorOf[leg]
  BY DEF OutlookConstants
<1>4. CASE w = t
  <2>1. O!Tilted(PriorOf[leg]) = 0
    BY <1>1, <1>2, <1>4, Zenon DEF O!Tilted
  <2> QED BY <2>1
<1>5. CASE w # t
  <2>1. PICK d \in Nat \ {0} : d = t - w
    BY <1>2, <1>5
  <2>2. PICK a : a = TiltStrength * (2 * (p - w) - (t - w))
    OBVIOUS
  <2>3. a \in Int
    <3>1. PICK b \in Int : b = 2 * (p - w) - (t - w)
      OBVIOUS
    <3> QED BY <2>2, <3>1 DEF OutlookConstants
  <2>4. O!Tilted(PriorOf[leg]) = a \div d
    BY <1>1, <1>2, <1>3, <1>5, <2>1, <2>2, Zenon DEF O!Tilted
  <2> QED BY <2>1, <2>3, <2>4, QuotientIsInt
<1> QED BY <1>4, <1>5

\* Scaled by a share of a hundred, a tilt comes closer to none.
LEMMA ScaledTilt ==
    ASSUME NEW c \in 0 .. 100, NEW t \in Int
    PROVE  (c * t) \div 100 \in 0 .. t \/ (c * t) \div 100 \in t .. 0
<1>1. c \in Nat /\ c <= 100
  OBVIOUS
<1>2. PICK x : x = c * t
  OBVIOUS
<1>3. CASE t >= 0
  <2>1. 0 <= c * t /\ c * t <= 100 * t /\ c * t \in Int
    BY <1>1, <1>3
  <2> QED BY <1>2, <1>3, <2>1
<1>4. CASE ~(t >= 0)
  <2>1. c * t <= 0 /\ 100 * t <= c * t /\ c * t \in Int
    BY <1>1, <1>4
  <2> QED BY <1>2, <1>4, <2>1
<1> QED BY <1>3, <1>4

LEMMA UnmeasuredIsSoft ==
    ASSUME OutlookConstants, Confirming
    PROVE  O!UnmeasuredSoftens
<1> SUFFICES ASSUME NEW leg \in KnownLegs, regime # NoRead, CellsOf[leg][regime.label].n = 0
             PROVE  \/ O!EdgeWeight(leg) \in 100 .. 100 + O!Tilted(PriorOf[leg])
                    \/ O!EdgeWeight(leg) \in 100 + O!Tilted(PriorOf[leg]) .. 100
  BY Zenon DEF O!UnmeasuredSoftens
<1>1. PICK t \in Int : t = O!Tilted(PriorOf[leg])
  BY TiltIsNumber DEF OutlookConstants
<1>2. PICK w : w = O!EdgeWeight(leg)
  OBVIOUS
<1>3. O!Shrunk(leg, regime.label) = PriorOf[leg]
  BY DEF O!Shrunk
<1>4. CASE regime.ok
  <2>1. PICK c \in 0 .. 100 : c = regime.conf
    BY DEF Confirming
  <2>2. PICK y : y = (c * t) \div 100
    OBVIOUS
  <2>3. w = 100 + y
    BY <1>1, <1>2, <1>3, <1>4, <2>1, <2>2, Zenon DEF O!EdgeWeight
  <2>4. y \in 0 .. t \/ y \in t .. 0
    BY <2>2, ScaledTilt
  <2>5. w \in 100 .. 100 + t \/ w \in 100 + t .. 100
    BY <2>3, <2>4
  <2> QED BY <1>1, <1>2, <2>5
<1>5. CASE ~regime.ok
  <2>1. w = 100 + t
    BY <1>1, <1>2, <1>5, Zenon DEF O!EdgeWeight
  <2>2. w \in 100 .. 100 + t \/ w \in 100 + t .. 100
    BY <2>1
  <2> QED BY <1>1, <1>2, <2>2
<1> QED BY <1>4, <1>5
--------------------------------------------------------------------------------
(* The share of the book a trade joins.                                     *)

LEMMA JoinsTheBook ==
    ASSUME OutlookConstants, Slotted, view # NoRead, NEW t, NEW o \in snapshot,
           O!OneBet(t.symbol, o.symbol), o.side = t.side
    PROVE  O!CorrFactor(t.symbol, t.side) * TradesAtMost <= 100 * TradesAtMost - CorrPenalty
<1> DEFINE J == O!SameBet(t.symbol, t.side)
<1>1. PICK M \in Nat \ {0} : M = TradesAtMost
  BY DEF OutlookConstants
<1>2. PICK P \in Nat : P = CorrPenalty /\ P <= 50 * M
  BY <1>1 DEF OutlookConstants
<1>3. IsFiniteSet(snapshot) /\ Cardinality(snapshot) <= M
  BY <1>1 DEF Slotted
<1>4. J \subseteq snapshot /\ o \in J
  BY Zenon DEF O!SameBet
<1> HIDE DEF J
<1>5. PICK c : c = Cardinality(snapshot)
  OBVIOUS
<1>6. PICK j : j = Cardinality(J)
  OBVIOUS
<1>7. c \in Nat \ {0} /\ j \in Nat \ {0} /\ c <= M
  BY <1>3, <1>4, <1>5, <1>6, FS_Subset, FS_CardinalityType, FS_EmptySet
<1>8. PICK a : a = 100 * c - P * j
  OBVIOUS
<1>9. a \in Int /\ a <= 100 * c - P
  <2>1. P * j \in Int /\ P <= P * j
    BY <1>7
  <2> QED BY <1>7, <1>8, <2>1
<1>10. PICK x \in Int : x = a \div c /\ c * x <= a
  BY <1>7, <1>9
<1>11. PICK f : f = O!CorrFactor(t.symbol, t.side)
  OBVIOUS
<1>12. f = O!Clamped(x, 50, 100)
  BY <1>2, <1>5, <1>6, <1>8, <1>10, <1>11, OutlookCounts, SMT DEF O!CorrFactor, J
<1>13. f \in {50, 100, x} /\ (f = x => x <= 100) /\ (f = 100 => 100 <= x)
  BY <1>12 DEF O!Clamped
<1>14. c * x <= 100 * c - P
  BY <1>7, <1>9, <1>10
<1>15. CASE x > 100
  <2>1. c * x >= c * 101 /\ c * x \in Int
    BY <1>7, <1>15
  <2> QED BY <1>2, <1>7, <1>14, <2>1
<1>16. CASE x <= 100 /\ f = x
  <2>1. PICK d \in Nat : d = 100 - x
    BY <1>16
  <2>2. c * d >= P
    <3>1. c * d = 100 * c - c * x
      BY <1>7, <2>1
    <3>2. c * x \in Int /\ c * d \in Int
      BY <1>7
    <3> QED BY <1>7, <1>14, <3>1, <3>2
  <2>3. M * d >= c * d
    BY <1>7, <2>1
  <2>4. x * M = 100 * M - M * d
    BY <2>1
  <2>5. M * d \in Int /\ c * d \in Int
    BY <1>7
  <2> QED BY <1>1, <1>2, <1>7, <1>11, <1>16, <2>2, <2>3, <2>4, <2>5
<1>17. CASE f = 50
  BY <1>1, <1>2, <1>11, <1>17
<1> QED BY <1>10, <1>13, <1>15, <1>16, <1>17

--------------------------------------------------------------------------------
(* The clusters: what the union-find joins is what chains of links join.    *)

LEMMA ChainsMeet ==
    ASSUME NEW links, NEW all, \A l \in links : l \subseteq all
    PROVE  /\ \A s : O!Connected(s, s, links, all)
           /\ \A s \in all : \A t : O!Connected(s, t, links, all) => O!Connected(t, s, links, all)
           /\ \A s, t, u : O!Connected(s, t, links, all) /\ O!Connected(t, u, links, all)
                              => O!Connected(s, u, links, all)
           /\ \A s, t : {s, t} \in links => O!Connected(s, t, links, all)
<1> DEFINE Kept(C) == \A l \in links : l \cap C # {} => l \subseteq C
<1>1. \A s, t : O!Connected(s, t, links, all) <=>
                  \A C \in SUBSET all : s \in C /\ Kept(C) => t \in C
  BY Zenon DEF O!Connected
<1>2. ASSUME NEW s \in all, NEW t, O!Connected(s, t, links, all)
      PROVE  O!Connected(t, s, links, all)
  <2> SUFFICES ASSUME NEW C \in SUBSET all, t \in C, Kept(C), s \notin C PROVE FALSE
    BY <1>1
  <2> DEFINE D == all \ C
  <2>1. Kept(D)
    <3> SUFFICES ASSUME NEW l \in links, l \cap D # {}, NEW x \in l, x \notin D PROVE FALSE
      BY Zenon
    <3>1. x \in C
      OBVIOUS
    <3>2. l \subseteq C
      BY <3>1
    <3> QED BY <3>2
  <2>2. D \in SUBSET all /\ s \in D /\ t \notin D
    OBVIOUS
  <2> HIDE DEF Kept, D
  <2> QED BY <1>1, <1>2, <2>1, <2>2
<1>3. ASSUME NEW s, NEW t, {s, t} \in links PROVE O!Connected(s, t, links, all)
  <2> SUFFICES ASSUME NEW C \in SUBSET all, s \in C, Kept(C) PROVE t \in C
    BY <1>1
  <2>1. {s, t} \cap C # {}
    OBVIOUS
  <2> QED BY <1>3, <2>1
<1>4. \A s : O!Connected(s, s, links, all)
  BY <1>1
<1>5. \A s, t, u : O!Connected(s, t, links, all) /\ O!Connected(t, u, links, all)
                     => O!Connected(s, u, links, all)
  <2> HIDE DEF Kept
  <2> QED BY <1>1
<1> QED BY <1>2, <1>3, <1>4, <1>5

LEMMA LeastNumber ==
    ASSUME NEW S \in SUBSET Nat, S # {}
    PROVE  \E n \in S : \A m \in S : n <= m
<1>1. PICK n \in S : \A m \in S : <<m, n>> \notin OpToRel(<, Nat)
  BY Zenon, NatLessThanWellFounded, WFMin
<1>2. ASSUME NEW m \in S PROVE n <= m
  <2>1. n \in Nat /\ m \in Nat
    OBVIOUS
  <2>2. ~(m < n)
    BY <1>1, <2>1 DEF OpToRel
  <2> QED BY <2>1, <2>2
<1> QED BY <1>2

\* The walk over the pairs, up to the n-th.
Walks(r, g, n) ==
    g = [k \in 0 .. n |-> IF k = 0 THEN [s \in r.series |-> s]
                          ELSE O!Joined(r, g[k - 1], O!Outer(k), O!Inner(k))]
Walked(r, n) == CHOOSE g : Walks(r, g, n)

LEMMA WalkExists ==
    ASSUME NEW r, NEW n \in Nat
    PROVE  \E g : Walks(r, g, n)
<1> DEFINE Bad == {m \in Nat : ~ \E g : Walks(r, g, m)}
<1> SUFFICES ASSUME Bad # {} PROVE FALSE
  OBVIOUS
<1>1. PICK b \in Bad : \A m \in Bad : b <= m
  <2> HIDE DEF Bad
  <2>1. Bad \in SUBSET Nat
    BY DEF Bad
  <2> QED BY <2>1, LeastNumber
<1>2. b # 0
  <2> DEFINE g == [k \in 0 .. 0 |-> [s \in r.series |-> s]]
  <2>1. Walks(r, g, 0)
    BY DEF Walks
  <2> QED BY <2>1
<1>3. b - 1 \in Nat /\ ~(b <= b - 1) /\ b \in Nat
  BY <1>2
<1>4. PICK f : Walks(r, f, b - 1)
  BY <1>1, <1>3
<1> DEFINE step(h, k) == IF k = 0 THEN [s \in r.series |-> s]
                         ELSE O!Joined(r, h, O!Outer(k), O!Inner(k))
           g == [k \in 0 .. b |-> IF k = b THEN step(f[b - 1], b) ELSE f[k]]
<1>5. f = [k \in 0 .. b - 1 |-> step(f[k - 1], k)]
  BY <1>4, Zenon DEF Walks
<1> HIDE DEF step
<1>6. ASSUME NEW k \in 0 .. b PROVE g[k] = step(g[k - 1], k)
  <2>1. CASE k = 0
    <3>1. g[k] = f[k]
      BY <1>2, <2>1
    <3>2. f[k] = step(f[k - 1], k)
      BY <1>3, <1>5, <2>1
    <3>3. step(f[k - 1], k) = step(g[k - 1], k)
      BY <2>1, Zenon DEF step
    <3> QED BY <3>1, <3>2, <3>3
  <2>2. CASE k # 0 /\ k # b
    <3>1. k \in 0 .. b - 1 /\ k - 1 \in 0 .. b /\ k - 1 # b
      BY <1>3, <2>2
    <3>2. g[k] = f[k] /\ g[k - 1] = f[k - 1]
      BY <2>2, <3>1
    <3>3. f[k] = step(f[k - 1], k)
      BY <1>5, <3>1
    <3> QED BY <3>2, <3>3, Zenon
  <2>3. CASE k = b
    <3>1. b - 1 \in 0 .. b /\ b - 1 # b /\ b \in 0 .. b
      BY <1>3
    <3>2. g[b] = step(f[b - 1], b) /\ g[b - 1] = f[b - 1]
      BY <3>1
    <3> QED BY <2>3, <3>2, Zenon
  <2> QED BY <2>1, <2>2, <2>3
<1>7. g = [k \in 0 .. b |-> g[k]]
  OBVIOUS
<1> HIDE DEF g
<1>8. g = [k \in 0 .. b |-> step(g[k - 1], k)]
  BY <1>6, <1>7, Zenon
<1>9. Walks(r, g, b)
  BY <1>8, Zenon DEF Walks, step
<1> QED BY <1>1, <1>9

LEMMA WholeAndRest ==
    ASSUME NEW a \in Nat, NEW n \in Nat \ {0}
    PROVE  a = n * (a \div n) + (a % n) /\ a % n \in Int
  OBVIOUS

AtPlaces(n, k, i, j) == 1 + ((k - 1) \div n) = i /\ 1 + ((k - 1) % n) = j

\* The places the loops are at, and that they are at every pair of places once.
LEMMA LoopsMeet ==
    \A n \in Nat \ {0} : \A i \in 1 .. n : \A j \in 1 .. n :
        \E k \in 1 .. n * n : AtPlaces(n, k, i, j)
<1> TAKE n \in Nat \ {0}
<1> TAKE i \in 1 .. n
<1> TAKE j \in 1 .. n
<1>1. PICK p \in Nat : p = i - 1 /\ p + 1 <= n
  OBVIOUS
<1>2. PICK q \in Nat : q = j - 1 /\ q < n
  OBVIOUS
<1>3. PICK b \in Nat : b = p * n
  OBVIOUS
<1>4. PICK a \in Nat : a = b + q
  OBVIOUS
<1>5. a + 1 \in 1 .. n * n
  <2>1. (p + 1) * n <= n * n
    BY <1>1
  <2>2. (p + 1) * n = b + n
    BY <1>3
  <2>3. n * n \in Int
    OBVIOUS
  <2> QED BY <1>2, <1>4, <2>1, <2>2, <2>3
<1>6. PICK d \in Int : d = a \div n /\ n * d <= a /\ a < n * d + n
  OBVIOUS
<1>7. d = p
  <2>1. ASSUME d <= p - 1 PROVE FALSE
    <3>1. n * d <= n * (p - 1)
      BY <2>1
    <3>2. n * (p - 1) = b - n
      BY <1>3
    <3> QED BY <1>2, <1>4, <1>6, <3>1, <3>2
  <2>2. ASSUME d >= p + 1 PROVE FALSE
    <3>1. n * d >= n * (p + 1)
      BY <2>2
    <3>2. n * (p + 1) = b + n
      BY <1>3
    <3> QED BY <1>2, <1>4, <1>6, <3>1, <3>2
  <2> QED BY <2>1, <2>2
<1>8. a % n = q
  <2>1. a = n * (a \div n) + (a % n)
    BY WholeAndRest
  <2>2. n * d = b
    BY <1>3, <1>7
  <2>3. a % n \in Int
    BY WholeAndRest
  <2> QED BY <1>4, <1>6, <2>1, <2>2, <2>3
<1>10. PICK k \in 1 .. n * n : k = a + 1
  BY <1>5
<1>11. k - 1 = a
  BY <1>10
<1>12. 1 + ((k - 1) \div n) = i
  BY <1>1, <1>6, <1>7, <1>11
<1>13. 1 + ((k - 1) % n) = j
  BY <1>2, <1>8, <1>11
<1> QED BY <1>12, <1>13, Zenon DEF AtPlaces

LEMMA WalkUnfolds ==
    ASSUME NEW r, NEW n \in Nat
    PROVE  /\ Walked(r, n)[0] = [s \in r.series |-> s]
           /\ \A k \in 1 .. n : Walked(r, n)[k]
                                   = O!Joined(r, Walked(r, n)[k - 1], O!Outer(k), O!Inner(k))
<1>1. PICK g : g = Walked(r, n)
  OBVIOUS
<1>2. Walks(r, g, n)
  BY <1>1, WalkExists, Zenon DEF Walked
<1>3. 0 \in 0 .. n /\ \A k \in 1 .. n : k \in 0 .. n /\ k # 0
  OBVIOUS
<1>4. \A k \in 0 .. n : g[k] = IF k = 0 THEN [s \in r.series |-> s]
                               ELSE O!Joined(r, g[k - 1], O!Outer(k), O!Inner(k))
  BY <1>2, Zenon DEF Walks
<1>5. g[0] = [s \in r.series |-> s]
  BY <1>3, <1>4, Zenon
<1>6. \A k \in 1 .. n : g[k] = O!Joined(r, g[k - 1], O!Outer(k), O!Inner(k))
  BY <1>3, <1>4, Zenon
<1> QED BY <1>1, <1>5, <1>6, Zenon

\* What the walk has come to: symbols of one root are joined by a chain of links, and
\* the ends of the links seen so far have one root.
Chained(r, root) ==
    \A s, t \in r.series : root[s] = root[t] => O!Connected(s, t, O!Links(r), r.series)
Met(r, root, k) ==
    \A m \in 1 .. k :
        O!Outer(m) < O!Inner(m) /\ {Sample[O!Outer(m)], Sample[O!Inner(m)]} \in O!Links(r)
            => root[Sample[O!Outer(m)]] = root[Sample[O!Inner(m)]]
Together(root, x, y) == root[x] = root[y]
\* Symbols that are together stay together.
Coarser(r, root, u) ==
    \A s, t \in r.series : Together(root, s, t) => Together(u, s, t)
Rooted(r, root) == root = [s \in r.series |-> root[s]]
WalkedWell(r, root, k) == Rooted(r, root) /\ Chained(r, root) /\ Met(r, root, k)

LEMMA LinksInside ==
    ASSUME NEW r, NEW x, NEW y, {x, y} \in O!Links(r)
    PROVE  x \in r.series /\ y \in r.series
<1>1. {x, y} \in SUBSET r.series
  BY Zenon DEF O!Links, O!Pairs
<1> QED BY <1>1

LEMMA UnionKeeps ==
    ASSUME NEW r, NEW root, NEW x \in r.series, NEW y \in r.series, NEW u,
           Rooted(r, root), Chained(r, root),
           O!Connected(x, y, O!Links(r), r.series), u = O!Union(root, x, y)
    PROVE  Rooted(r, u) /\ Chained(r, u) /\ Together(u, x, y) /\ Coarser(r, root, u)
<1>2. DOMAIN root = r.series
  BY DEF Rooted
<1>3. u = [s \in r.series |-> IF root[s] = root[x] THEN root[y] ELSE root[s]]
  BY <1>2, Zenon DEF O!Union
<1>4. Rooted(r, u)
  BY <1>3 DEF Rooted
<1>5. \A s \in r.series : u[s] = IF root[s] = root[x] THEN root[y] ELSE root[s]
  BY <1>3
<1>6. u[x] = u[y]
  BY <1>5
<1>7. \A s, t \in r.series : root[s] = root[t] => u[s] = u[t]
  BY <1>5
<1>8. ASSUME NEW s \in r.series, NEW t \in r.series, u[s] = u[t]
      PROVE  O!Connected(s, t, O!Links(r), r.series)
  <2> DEFINE Joint(a, b) == O!Connected(a, b, O!Links(r), r.series)
  <2>1. \A l \in O!Links(r) : l \subseteq r.series
    BY Zenon DEF O!Links, O!Pairs
  <2>2. /\ \A a : Joint(a, a)
        /\ \A a \in r.series : \A b : Joint(a, b) => Joint(b, a)
        /\ \A a, b, c : Joint(a, b) /\ Joint(b, c) => Joint(a, c)
        /\ Joint(x, y)
    BY <2>1, ChainsMeet
  <2>3. \A a, b \in r.series : root[a] = root[b] => Joint(a, b)
    BY DEF Chained
  <2> SUFFICES Joint(s, t)
    OBVIOUS
  <2> HIDE DEF Joint
  <2>4. CASE root[s] = root[t]
    BY <2>3, <2>4
  <2>5. CASE root[s] = root[x] /\ root[t] # root[x]
    <3>1. root[y] = root[t]
      BY <1>5, <1>8, <2>5
    <3> QED BY <2>2, <2>3, <2>5, <3>1
  <2>6. CASE root[s] # root[x] /\ root[t] = root[x]
    <3>1. root[s] = root[y]
      BY <1>5, <1>8, <2>6
    <3> QED BY <2>2, <2>3, <2>6, <3>1
  <2>7. CASE root[s] # root[x] /\ root[t] # root[x] /\ root[s] # root[t]
    BY <1>5, <1>8, <2>7
  <2> QED BY <2>4, <2>5, <2>6, <2>7
<1> QED BY <1>4, <1>6, <1>7, <1>8 DEF Chained, Together, Coarser

LEMMA JoinKeeps ==
    ASSUME NEW r, NEW root, NEW k \in Nat \ {0}, WalkedWell(r, root, k - 1),
           NEW u, u = O!Joined(r, root, O!Outer(k), O!Inner(k))
    PROVE  WalkedWell(r, u, k)
<1>1. PICK x : x = Sample[O!Outer(k)]
  OBVIOUS
<1>2. PICK y : y = Sample[O!Inner(k)]
  OBVIOUS
<1>3. Rooted(r, root) /\ Chained(r, root) /\ Met(r, root, k - 1)
  BY Zenon DEF WalkedWell
<1>4. \A m \in 1 .. k : m \in 1 .. k - 1 \/ m = k
  OBVIOUS
<1>5. CASE O!Outer(k) < O!Inner(k) /\ {x, y} \in O!Links(r)
  <2>1. u = O!Union(root, x, y)
    BY <1>1, <1>2, <1>5, Zenon DEF O!Joined
  <2>2. Rooted(r, u) /\ Chained(r, u) /\ Together(u, x, y) /\ Coarser(r, root, u)
    <3>1. x \in r.series /\ y \in r.series
      BY <1>5, LinksInside, Zenon
    <3>2. \A l \in O!Links(r) : l \subseteq r.series
      BY Zenon DEF O!Links, O!Pairs
    <3>3. O!Connected(x, y, O!Links(r), r.series)
      BY <1>5, <3>2, ChainsMeet, Zenon
    <3> QED BY <1>3, <2>1, <3>1, <3>3, UnionKeeps, Zenon
  <2>3. ASSUME NEW m \in 1 .. k, O!Outer(m) < O!Inner(m),
               {Sample[O!Outer(m)], Sample[O!Inner(m)]} \in O!Links(r)
        PROVE  u[Sample[O!Outer(m)]] = u[Sample[O!Inner(m)]]
    <3>1. CASE m = k
      BY <1>1, <1>2, <2>2, <3>1, Zenon DEF Together
    <3>2. CASE m \in 1 .. k - 1
      <4>1. root[Sample[O!Outer(m)]] = root[Sample[O!Inner(m)]]
        BY <1>3, <2>3, <3>2, Zenon DEF Met
      <4>2. Sample[O!Outer(m)] \in r.series /\ Sample[O!Inner(m)] \in r.series
        BY <2>3, LinksInside
      <4> QED BY <2>2, <4>1, <4>2, Zenon DEF Together, Coarser
    <3> QED BY <1>4, <3>1, <3>2
  <2>4. Met(r, u, k)
    BY <2>3, Zenon DEF Met
  <2> QED BY <2>2, <2>4, Zenon DEF WalkedWell
<1>6. CASE ~(O!Outer(k) < O!Inner(k) /\ {x, y} \in O!Links(r))
  <2>1. u = root
    BY <1>1, <1>2, <1>6, Zenon DEF O!Joined
  <2>2. Met(r, root, k)
    BY <1>1, <1>2, <1>3, <1>4, <1>6, Zenon DEF Met
  <2> QED BY <1>3, <2>1, <2>2, Zenon DEF WalkedWell
<1> QED BY <1>5, <1>6

LEMMA WalkKeeps ==
    ASSUME NEW r, NEW n \in Nat
    PROVE  \A k \in 0 .. n : WalkedWell(r, Walked(r, n)[k], k)
<1>1. PICK g : g = Walked(r, n)
  OBVIOUS
<1>2. /\ g[0] = [s \in r.series |-> s]
      /\ \A k \in 1 .. n : g[k] = O!Joined(r, g[k - 1], O!Outer(k), O!Inner(k))
  BY <1>1, WalkUnfolds
<1> DEFINE Bad == {k \in 0 .. n : ~WalkedWell(r, g[k], k)}
<1> SUFFICES ASSUME Bad # {} PROVE FALSE
  BY <1>1
<1>3. PICK b \in Bad : \A m \in Bad : b <= m
  <2>1. Bad \in SUBSET Nat
    OBVIOUS
  <2> HIDE DEF Bad
  <2> QED BY <2>1, LeastNumber
<1>4. WalkedWell(r, g[0], 0)
  <2>1. \A l \in O!Links(r) : l \subseteq r.series
    BY Zenon DEF O!Links, O!Pairs
  <2>2. \A s : O!Connected(s, s, O!Links(r), r.series)
    BY <2>1, ChainsMeet
  <2>3. g[0] = [s \in r.series |-> g[0][s]] /\ \A s \in r.series : g[0][s] = s
    BY <1>2
  <2>4. Chained(r, g[0])
    BY <2>2, <2>3 DEF Chained
  <2>5. Met(r, g[0], 0)
    BY DEF Met
  <2>6. Rooted(r, g[0])
    BY <2>3, Zenon DEF Rooted
  <2> QED BY <2>4, <2>5, <2>6, Zenon DEF WalkedWell
<1>5. b \in 1 .. n /\ b - 1 \in 0 .. n /\ ~(b <= b - 1) /\ b \in Nat \ {0}
  BY <1>3, <1>4
<1>6. WalkedWell(r, g[b - 1], b - 1)
  BY <1>3, <1>5
<1>7. g[b] = O!Joined(r, g[b - 1], O!Outer(b), O!Inner(b))
  BY <1>2, <1>5
<1>8. WalkedWell(r, g[b], b)
  BY <1>5, <1>6, <1>7, JoinKeeps
<1> QED BY <1>3, <1>8

\* The ends of every link have one root in the end.
LEMMA ClustersChain ==
    ASSUME OutlookConstants, NEW r \in Shows, NEW root, root = O!Roots(r)
    PROVE  \A s, t \in r.series :
               (root[s] = root[t]) <=> O!Connected(s, t, O!Links(r), r.series)
<1>1. PICK n \in Nat : n = Len(Sample)
  BY DEF OutlookConstants
<1>2. PICK z \in Nat : z = n * n
  OBVIOUS
<1>3. root = Walked(r, z)[z]
  BY <1>1, <1>2, Zenon DEF O!Roots, Walked, Walks
<1>4. z \in 0 .. z
  OBVIOUS
<1>5. Chained(r, root) /\ Met(r, root, z)
  <2>1. WalkedWell(r, root, z)
    BY <1>3, <1>4, WalkKeeps, Zenon
  <2> QED BY <2>1, Zenon DEF WalkedWell
<1>6. r.series \subseteq {Sample[i] : i \in 1 .. n}
  <2>1. O!Range(Sample) = {Sample[i] : i \in 1 .. n}
    BY <1>1 DEF OutlookConstants, O!Range
  <2>2. r.series \in SUBSET O!Range(Sample)
    BY DEF OutlookConstants, ReadingsAreSound
  <2> QED BY <2>1, <2>2
<1>7. ASSUME NEW l \in O!Links(r), NEW x \in l, NEW y \in l PROVE root[x] = root[y]
  <2> SUFFICES ASSUME x # y PROVE root[x] = root[y]
    OBVIOUS
  <2>1. l \in SUBSET r.series /\ Cardinality(l) = 2
    BY OutlookCounts, Zenon DEF O!Links, O!Pairs
  <2>2. l = {x, y}
    <3>1. IsFiniteSet(l)
      BY <2>1, SeriesFinite, FS_Subset
    <3>2. {x, y} = {x} \cup {y} /\ Cardinality({x} \cup {y}) = 2
      <4>1. IsFiniteSet({x}) /\ Cardinality({x}) = 1 /\ y \notin {x}
        BY FS_Singleton
      <4>2. Cardinality({x} \cup {y}) = 1 + 1
        BY <4>1, FS_AddElement
      <4> QED BY <4>2
    <3>3. {x, y} \subseteq l
      OBVIOUS
    <3> QED BY <2>1, <3>1, <3>2, <3>3, FS_Subset
  <2>3. PICK i \in 1 .. n : x = Sample[i]
    BY <1>6, <2>1
  <2>4. PICK j \in 1 .. n : y = Sample[j]
    BY <1>6, <2>1
  <2>5. n \in Nat \ {0} /\ i # j
    BY <2>3, <2>4
  <2>6. ASSUME NEW p \in 1 .. n, NEW q \in 1 .. n, p < q, {Sample[p], Sample[q]} = l
        PROVE  root[Sample[p]] = root[Sample[q]]
    <3>1. PICK k \in 1 .. n * n : AtPlaces(n, k, p, q)
      <4>1. n \in Nat \ {0}
        BY <2>5
      <4> QED BY <4>1, LoopsMeet, Zenon
    <3>2. O!Outer(k) = p /\ O!Inner(k) = q
      BY <1>1, <3>1, Zenon DEF O!Outer, O!Inner, AtPlaces
    <3> QED BY <1>2, <1>5, <2>6, <3>2, Zenon DEF Met
  <2>7. CASE i < j
    BY <2>2, <2>3, <2>4, <2>6, <2>7
  <2>8. CASE j < i
    <3>1. {Sample[j], Sample[i]} = l
      BY <2>2, <2>3, <2>4
    <3> QED BY <2>3, <2>4, <2>6, <2>8, <3>1
  <2> QED BY <2>5, <2>7, <2>8
<1>8. ASSUME NEW s \in r.series, NEW t \in r.series, O!Connected(s, t, O!Links(r), r.series)
      PROVE  root[s] = root[t]
  <2> DEFINE C == {u \in r.series : root[u] = root[s]}
  <2>1. C \in SUBSET r.series /\ s \in C
    OBVIOUS
  <2>2. ASSUME NEW l \in O!Links(r), l \cap C # {} PROVE l \subseteq C
    <3>1. PICK x \in l : x \in C
      BY <2>2
    <3>2. \A y \in l : y \in r.series /\ root[y] = root[x]
      <4>1. l \subseteq r.series
        BY Zenon DEF O!Links, O!Pairs
      <4> QED BY <1>7, <4>1
    <3> QED BY <3>1, <3>2
  <2> HIDE DEF C
  <2>3. t \in C
    BY <1>8, <2>1, <2>2, Zenon DEF O!Connected
  <2> QED BY <2>3 DEF C
<1> QED BY <1>5, <1>8 DEF Chained
--------------------------------------------------------------------------------
(* The steps.                                                               *)

LEMMA OutlookStart ==
    ASSUME OutlookConstants, OutlookInit
    PROVE  OutlookInv
<1>1. CASE RegimeParked
  BY <1>1 DEF RegimeParked, OutlookInv, RegimeRuns
<1>2. CASE O!Init
  <2>1. /\ reading \in Shows /\ regime = NoRead /\ raws = <<>>
        /\ held = {} /\ snapshot = {} /\ slots = NoRead
    BY <1>2 DEF O!Init
  <2>2. Confirming
    BY <2>1 DEF Confirming
  <2>3. IsFiniteSet({}) /\ Cardinality({}) = 0 /\ 0 <= TradesAtMost
    BY FS_EmptySet DEF OutlookConstants
  <2>4. Slotted
    BY <2>1, <2>3, Zenon DEF Slotted
  <2> QED BY <2>1, <2>2, <2>4 DEF OutlookInv
<1> QED BY <1>1, <1>2 DEF OutlookInit

LEMMA SameOutlook ==
    ASSUME Confirming, UNCHANGED <<regime, raws>>
    PROVE  Confirming'
<1>1. regime' = regime /\ raws' = raws
  OBVIOUS
<1> QED BY <1>1, Zenon DEF Confirming, Ends

LEMMA SameSlots ==
    ASSUME Slotted, UNCHANGED <<held, snapshot, slots>>
    PROVE  Slotted'
<1>1. held' = held /\ snapshot' = snapshot /\ slots' = slots
  OBVIOUS
<1> QED BY <1>1, Zenon DEF Slotted

LEMMA EvaluateKeeps ==
    ASSUME OutlookConstants, reading \in Shows, Confirming, Slotted, O!Evaluate
    PROVE  Confirming' /\ Slotted'
<1>1. /\ regime' = O!Evaluated(reading, regime) /\ raws' = O!Recent(raws, O!Raw(reading))
      /\ UNCHANGED <<held, snapshot, slots>>
  BY DEF O!Evaluate
<1>2. PICK e : e = O!Evaluated(reading, regime)
  OBVIOUS
<1>3. PICK s : s = O!Recent(raws, O!Raw(reading))
  OBVIOUS
<1>4. /\ s \in Seq(O!Labels)
      /\ e.label \in O!Labels /\ e.conf \in 0 .. 100
      /\ e.persist \in 1 .. PersistTarget /\ e.trans \in Int /\ e.ok \in BOOLEAN
      /\ \A d \in DOMAIN e.sub : e.sub[d] \in Int
      /\ e.count \in 0 .. ConfirmBars - 1 /\ Ends(s, e.count, e.pending)
  BY <1>2, <1>3, EvaluatedIsEarned
<1>5. regime' = e /\ raws' = s
  BY <1>1, <1>2, <1>3
<1>6. Confirming'
  BY <1>4, <1>5, Zenon DEF Confirming, Ends
<1> QED BY <1>1, <1>6, SameSlots

LEMMA TakeKeeps ==
    ASSUME OutlookConstants, Slotted, NEW s, NEW side, O!Take(s, side)
    PROVE  Slotted'
<1>1. PICK t : t = [symbol |-> s, side |-> side]
  OBVIOUS
<1>2. /\ slots # NoRead /\ Cardinality(held) < slots /\ held' = held \cup {t}
      /\ snapshot' = snapshot /\ slots' = slots
  BY <1>1, OutlookCounts DEF O!Take
<1>3. slots \in 1 .. TradesAtMost /\ IsFiniteSet(held) /\ TradesAtMost \in Nat
  BY <1>2 DEF Slotted, OutlookConstants
<1>4. /\ IsFiniteSet(held \cup {t})
      /\ \/ Cardinality(held \cup {t}) = Cardinality(held)
         \/ Cardinality(held \cup {t}) = Cardinality(held) + 1
  BY <1>3, FS_AddElement
<1>5. Cardinality(held) \in Nat
  BY <1>3, FS_CardinalityType
<1>6. Cardinality(held \cup {t}) <= TradesAtMost
  BY <1>2, <1>3, <1>4, <1>5
<1> QED BY <1>2, <1>4, <1>6, Zenon DEF Slotted

LEMMA CloseKeeps ==
    ASSUME OutlookConstants, Slotted, NEW t, O!CloseTrade(t)
    PROVE  Slotted'
<1>1. held' = held \ {t} /\ snapshot' = snapshot /\ slots' = slots
  BY DEF O!CloseTrade
<1>2. IsFiniteSet(held) /\ Cardinality(held) <= TradesAtMost /\ TradesAtMost \in Nat
  BY DEF Slotted, OutlookConstants
<1>3. IsFiniteSet(held \ {t}) /\ Cardinality(held \ {t}) <= Cardinality(held)
  BY <1>2, FS_Subset
<1>4. Cardinality(held) \in Nat /\ Cardinality(held \ {t}) \in Nat
  BY <1>2, <1>3, FS_CardinalityType
<1>5. Cardinality(held \ {t}) <= TradesAtMost
  BY <1>2, <1>3, <1>4
<1> QED BY <1>1, <1>3, <1>5, Zenon DEF Slotted

LEMMA BeginKeepsSlots ==
    ASSUME OutlookConstants, Confirming, Slotted, NEW a \in Shares, O!BeginPass2(a)
    PROVE  Slotted'
<1>1. slots' = O!PlanSlots(a) /\ snapshot' = held /\ held' = held
  BY DEF O!BeginPass2
<1>2. O!PlanSlots(a) \in 1 .. TradesAtMost
  BY SlotsWithinCap
<1> QED BY <1>1, <1>2, Zenon DEF Slotted

LEMMA ForgetKeepsSlots ==
    ASSUME OutlookConstants, Slotted, held' = held, snapshot' = {}, slots' = NoRead
    PROVE  Slotted'
<1>1. IsFiniteSet({}) /\ Cardinality({}) = 0 /\ 0 <= TradesAtMost
  BY FS_EmptySet DEF OutlookConstants
<1> QED BY <1>1, Zenon DEF Slotted

LEMMA OutlookStep ==
    ASSUME OutlookConstants, OutlookInv, [OutlookNext]_regimeVars
    PROVE  OutlookInv'
<1>1. CASE UNCHANGED regimeVars
  <2>1. /\ reading' = reading /\ regime' = regime /\ raws' = raws /\ held' = held
        /\ snapshot' = snapshot /\ slots' = slots
    BY <1>1 DEF regimeVars
  <2>2. RegimeRuns' => RegimeRuns
    BY <2>1 DEF RegimeRuns
  <2> QED BY <2>1, <2>2, SameOutlook, SameSlots DEF OutlookInv
<1>2. CASE RegimeRuns /\ O!Next
  <2>1. reading \in Shows /\ Confirming /\ Slotted
    BY <1>2 DEF OutlookInv
  <2>2. CASE O!Evaluate
    BY <2>1, <2>2, EvaluateKeeps DEF O!Evaluate, OutlookInv
  <2>3. CASE O!EvaluateFails
    BY <2>1, <2>3, SameOutlook, SameSlots DEF O!EvaluateFails, OutlookInv
  <2>4. CASE O!EndCycle
    BY <2>1, <2>4, SameOutlook, ForgetKeepsSlots DEF O!EndCycle, OutlookInv
  <2>5. CASE O!Restart
    <3>1. regime' = NoRead /\ raws' = <<>> /\ held' = held /\ snapshot' = {}
          /\ slots' = NoRead /\ reading' = reading
      BY <2>5 DEF O!Restart
    <3>2. <<>> \in Seq(O!Labels)
      OBVIOUS
    <3>3. Confirming'
      BY <3>1, <3>2, Zenon DEF Confirming
    <3> QED BY <2>1, <3>1, <3>3, ForgetKeepsSlots DEF OutlookInv
  <2>6. ASSUME NEW a \in Shares, O!BeginPass2(a) PROVE OutlookInv'
    BY <2>1, <2>6, SameOutlook, BeginKeepsSlots DEF O!BeginPass2, OutlookInv
  <2>7. ASSUME NEW s, NEW side, O!Take(s, side) PROVE OutlookInv'
    BY <2>1, <2>7, SameOutlook, TakeKeeps DEF O!Take, OutlookInv
  <2>8. ASSUME NEW t, O!CloseTrade(t) PROVE OutlookInv'
    BY <2>1, <2>8, SameOutlook, CloseKeeps DEF O!CloseTrade, OutlookInv
  <2>9. ASSUME NEW r \in Shows, O!Shift(r) PROVE OutlookInv'
    BY <2>1, <2>9, SameOutlook, SameSlots DEF O!Shift, OutlookInv
  <2> QED BY <1>2, <2>2, <2>3, <2>4, <2>5, <2>6, <2>7, <2>8, <2>9 DEF O!Next
<1> QED BY <1>1, <1>2 DEF OutlookNext

\* Only an evaluation and a start give the regime and the clusters another value.
LEMMA OnlyEvaluations ==
    ASSUME O!Next, regime' # regime \/ view' # view
    PROVE  O!Evaluate \/ (regime' = NoRead /\ view' = NoRead)
  BY DEF O!Next, O!EvaluateFails, O!EndCycle, O!Restart, O!BeginPass2, O!Take, O!CloseTrade, O!Shift

\* A label is adopted after it was shown Confirm times in a row, clusters are the
\* chains of correlated pairs, a leg that was not measured is never tilted beyond its
\* prior, and a trade that joins its like is made smaller: for every market, table of
\* legs and set of symbols (regime.py, correlation.py, regime_matrix.py, engine.py).
THEOREM RegimeAlwaysEarned ==
    ASSUME OutlookConstants
    PROVE  OutlookSpec => RegimeIsEarned
<1> DEFINE Flips ==
               (regime # NoRead /\ regime' # NoRead /\ regime'.label # regime.label
                   /\ regime'.label \notin {"PANIC", "UNCERTAIN"})
               => /\ Len(raws') >= ConfirmBars
                  /\ \A i \in Len(raws') - ConfirmBars + 1 .. Len(raws') :
                        raws'[i] = regime'.label
           Chains ==
               (view' # view /\ view' # NoRead) =>
                   \A s, t \in reading.series :
                       (view'[s] = view'[t]) <=> O!Connected(s, t, O!Links(reading), reading.series)
           Shrinks ==
               view # NoRead =>
                   \A t \in held' \ held :
                       (\E o \in held \cap snapshot :
                            O!OneBet(t.symbol, o.symbol) /\ o.side = t.side)
                           => O!CorrFactor(t.symbol, t.side) * TradesAtMost
                                 <= 100 * TradesAtMost - CorrPenalty
           Softens == RegimeRuns => O!UnmeasuredSoftens
<1>1. OutlookInit => OutlookInv
  BY OutlookStart
<1>2. OutlookInv /\ [OutlookNext]_regimeVars => OutlookInv'
  BY OutlookStep
<1>3. OutlookInv => Softens
  BY UnmeasuredIsSoft DEF OutlookInv
<1>4. OutlookInv /\ [OutlookNext]_regimeVars => [Flips]_O!rvars
  <2> SUFFICES ASSUME OutlookInv, RegimeRuns, O!Next, regime # NoRead, regime' # NoRead,
                      regime'.label # regime.label, regime'.label \notin {"PANIC", "UNCERTAIN"}
               PROVE  /\ Len(raws') >= ConfirmBars
                      /\ \A i \in Len(raws') - ConfirmBars + 1 .. Len(raws') :
                            raws'[i] = regime'.label
    BY DEF OutlookNext, regimeVars, O!rvars
  <2>1. reading \in Shows /\ Confirming
    BY DEF OutlookInv
  <2>2. regime' = O!Evaluated(reading, regime) /\ raws' = O!Recent(raws, O!Raw(reading))
    BY OnlyEvaluations DEF O!Evaluate
  <2>3. PICK e : e = O!Evaluated(reading, regime)
    OBVIOUS
  <2>4. PICK s : s = O!Recent(raws, O!Raw(reading))
    OBVIOUS
  <2>5. s \in Seq(O!Labels) /\ Ends(s, ConfirmBars, e.label)
    BY <2>1, <2>2, <2>3, <2>4, EvaluatedIsEarned
  <2>6. Len(s) \in Nat /\ ConfirmBars \in Nat
    BY <2>5 DEF OutlookConstants
  <2>7. Len(s) >= ConfirmBars /\ \A i \in Len(s) - ConfirmBars + 1 .. Len(s) : s[i] = e.label
    BY <2>5, <2>6 DEF Ends
  <2> QED BY <2>2, <2>3, <2>4, <2>7
<1>5. OutlookInv /\ [OutlookNext]_regimeVars => [Chains]_O!rvars
  <2> SUFFICES ASSUME OutlookInv, RegimeRuns, O!Next, view' # view, view' # NoRead
               PROVE  \A s, t \in reading.series :
                         (view'[s] = view'[t])
                             <=> O!Connected(s, t, O!Links(reading), reading.series)
    BY DEF OutlookNext, regimeVars, O!rvars
  <2>1. reading \in Shows
    BY DEF OutlookInv
  <2>2. view' = O!ClustersOf(reading)
    BY <2>1, OnlyEvaluations DEF O!Evaluate, O!Clusters
  <2>3. view' = O!Roots(reading)
    BY <2>2 DEF O!ClustersOf
  <2>4. PICK root : root = O!Roots(reading)
    OBVIOUS
  <2>5. \A s, t \in reading.series :
            (root[s] = root[t]) <=> O!Connected(s, t, O!Links(reading), reading.series)
    BY <2>1, <2>4, ClustersChain
  <2> QED BY <2>3, <2>4, <2>5, Zenon
<1>6. OutlookInv /\ [OutlookNext]_regimeVars => [Shrinks]_O!rvars
  <2> SUFFICES ASSUME OutlookInv, RegimeRuns, view # NoRead, NEW t, NEW o \in snapshot,
                      O!OneBet(t.symbol, o.symbol), o.side = t.side
               PROVE  O!CorrFactor(t.symbol, t.side) * TradesAtMost
                         <= 100 * TradesAtMost - CorrPenalty
    BY DEF OutlookNext, regimeVars, O!rvars
  <2> QED BY JoinsTheBook DEF OutlookInv
<1>7. OutlookSpec => []Softens
  BY <1>1, <1>2, <1>3, PTL DEF OutlookSpec
<1>8. OutlookSpec => [][Flips]_O!rvars
  BY <1>1, <1>2, <1>4, PTL DEF OutlookSpec
<1>9. OutlookSpec => [][Chains]_O!rvars
  BY <1>1, <1>2, <1>5, PTL DEF OutlookSpec
<1>10. OutlookSpec => [][Shrinks]_O!rvars
  BY <1>1, <1>2, <1>6, PTL DEF OutlookSpec
<1> QED BY <1>7, <1>8, <1>9, <1>10
        DEF RegimeIsEarned, O!FlipsAreConfirmed, O!ClustersAreChains, O!PileUpShrinks
================================================================================
