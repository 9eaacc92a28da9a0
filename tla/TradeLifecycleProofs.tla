-------------------------- MODULE TradeLifecycleProofs --------------------------
(***************************************************************************)
(* Proofs about TradeLifecycle, for every plan, every market and every     *)
(* number of bars.  Lemmas first say what each stage of simulate_fill does *)
(* to a sound trade; the inductive invariant then adds to the soundness of *)
(* both trades how far the row lags behind the backtest.  A second         *)
(* invariant walks the replay of Ladder beside the backtest's trade.       *)
(* The two replays of Research follow as instances: the one with limit     *)
(* orders (Maker), then walk-forward validation (Replay).                  *)
(***************************************************************************)
EXTENDS Ladder, Research, SetSums, SequenceTheorems, TLAPS

\* What a trade of plan p satisfies between any two stages of a bar.
Sound(p, t) ==
    /\ t \in Trade
    /\ ConservedIn(p, t)
    /\ t.hits = 0 => t.stop = p.sl
    /\ t.trailing => t.hits = 3

\* u is t after stages that neither move the stop back nor touch the clock.
Advanced(p, t, u) ==
    /\ Sound(p, u)
    /\ u.stop >= t.stop
    /\ u.held = t.held /\ u.last = t.last

PlanType ==
    [sl : Int, entry : Int, be : Int, tp : [1 .. 3 -> Int], frac : [1 .. 3 -> Nat],
     moveBE : BOOLEAN, trail : Nat, timeStop : Nat, chan : Nat, cross : BOOLEAN]

\* The newest elements of a sequence are a sequence of the same elements.
LEMMA NewestType ==
    ASSUME NEW S, NEW s \in Seq(S), NEW n \in Nat
    PROVE  Newest(s, n) \in Seq(S)
<1>1. CASE Len(s) <= n
  BY <1>1 DEF Newest
<1>2. CASE ~(Len(s) <= n)
  <2>1. \A i \in Len(s) - n + 1 .. Len(s) : s[i] \in S
    BY <1>2, LenProperties, ElementOfSeq, SMT
  <2>2. SubSeq(s, Len(s) - n + 1, Len(s)) \in Seq(S)
    BY <2>1, <1>2, LenProperties, SubSeqProperties
  <2> QED BY <2>2, <1>2 DEF Newest
<1> QED BY <1>1, <1>2

\* The larger of two integers is one of them and not below either.
LEMMA HighestOfTwo ==
    ASSUME NEW a \in Int, NEW b \in Int
    PROVE  /\ Highest({a, b}) \in Int
           /\ Highest({a, b}) >= a
           /\ Highest({a, b}) >= b
<1>1. \E x \in {a, b} : \A y \in {a, b} : x >= y
  OBVIOUS
<1> QED BY <1>1 DEF Highest, Max

\* A plan has its parts, of their types and in their order.
LEMMA PlanFacts ==
    ASSUME NEW p \in Plans
    PROVE  /\ p \in PlanType
           /\ Plan(p)
  BY LifecycleAssumption DEF PlanType

\* What a bar is.
LEMMA BarFacts ==
    ASSUME NEW b \in Bars
    PROVE  b.adv \in Int /\ b.fav \in Int /\ b.close \in Int
  BY LifecycleAssumption

--------------------------------------------------------------------------------
(* The stages of simulate_fill.                                            *)

\* A full close at any price leaves a sound, closed trade.
LEMMA ClosedSound ==
    ASSUME NEW p \in Plans, NEW t, Sound(p, t), t.st = "OPEN", NEW price \in Int,
           NEW r \in {"SL", "BE", "TRAIL", "TIME", "CHANNEL", "TKCROSS", "FORCED"}
    PROVE  /\ Advanced(p, t, Closed(p, t, price, r))
           /\ Closed(p, t, price, r).st = "CLOSED"
<1> DEFINE u == Closed(p, t, price, r)
<1>1. p.entry \in Int
  BY PlanFacts DEF PlanType
<1>2. t \in Trade /\ t.rem \in Int /\ t.pnl \in Int
  BY LifecycleAssumption DEF Sound, Trade
<1> DEFINE z == 0
           y == t.pnl + t.rem * (price - p.entry)
<1>3. y \in Int /\ z \in 0 .. Whole
  BY <1>1, <1>2, LifecycleAssumption, SMT
<1>4. u = [t EXCEPT !.rem = z, !.pnl = y, !.st = "CLOSED", !.reason = r]
  <2>1. t.rem - t.rem = z
    BY <1>2, SMT
  <2>2. u = [t EXCEPT !.rem = t.rem - t.rem, !.pnl = y, !.st = "CLOSED", !.reason = r]
    BY <1>2 DEF Closed, Take, Trade
  <2> HIDE DEF u, y, z
  <2> QED BY <2>1, <2>2, Zenon
<1> HIDE DEF u, y, z
<1>5. u \in Trade
  BY <1>2, <1>3, <1>4, Zenon DEF Trade
<1>6. u.rem = z /\ u.st = "CLOSED" /\ u.hits = t.hits /\ u.stop = t.stop
      /\ u.trailing = t.trailing /\ u.held = t.held /\ u.last = t.last
  BY <1>2, <1>4, Zenon DEF Trade
<1>7. t.stop \in Int
  BY <1>2 DEF Trade
<1> QED BY <1>5, <1>6, <1>7 DEF Advanced, Sound, ConservedIn, u, z

\* The trailing stop of a runner only tightens, with or without inputs.
LEMMA TrailedSound ==
    ASSUME NEW p \in Plans, NEW t, Sound(p, t), NEW b \in Bars, NEW inputs
    PROVE  Advanced(p, t, Trailed(p, t, b, inputs)) /\ Trailed(p, t, b, inputs).st = t.st
<1> DEFINE c == b.close - p.trail
<1>1. c \in Int
  BY BarFacts, PlanFacts DEF PlanType
<1>2. t \in Trade /\ t.stop \in Int
  BY DEF Sound, Trade
<1>3. CASE t.trailing /\ inputs
  <2>1. Highest({t.stop, c}) \in Int /\ Highest({t.stop, c}) >= t.stop
    BY <1>1, <1>2, HighestOfTwo
  <2>2. Trailed(p, t, b, inputs) = [t EXCEPT !.stop = Highest({t.stop, c})]
    BY <1>3 DEF Trailed
  <2> DEFINE x == Highest({t.stop, c})
             u == [t EXCEPT !.stop = x]
  <2> HIDE DEF x, c
  <2>3. u \in Trade
    BY <1>2, <2>1, Zenon DEF Trade, x
  <2>4. u.stop = x /\ u.hits = t.hits /\ u.st = t.st /\ u.rem = t.rem
        /\ u.trailing = t.trailing /\ u.held = t.held /\ u.last = t.last
    BY <1>2, Zenon DEF Trade
  <2>5. t.hits # 0
    BY <1>3 DEF Sound
  <2>6. Trailed(p, t, b, inputs) = u
    BY <2>2 DEF x
  <2> HIDE DEF u
  <2> QED BY <2>1, <2>3, <2>4, <2>5, <2>6 DEF Advanced, Sound, ConservedIn, x
<1>4. CASE ~(t.trailing /\ inputs)
  BY <1>2, <1>4 DEF Trailed, Advanced
<1> QED BY <1>3, <1>4

\* A target takes its fraction of a sound trade and secures or closes the rest.
LEMMA TargetSound ==
    ASSUME NEW p \in Plans, NEW t, Sound(p, t), NEW b \in Bars, NEW i \in 1 .. 3
    PROVE  Advanced(p, t, Target(p, t, b, i))
<1>1. /\ p.entry \in Int /\ p.tp[i] \in Int /\ p.tp[1] \in Int /\ p.be \in Int /\ p.sl \in Int
      /\ p.frac[1] \in Nat /\ p.frac[2] \in Nat /\ p.frac[3] \in Nat /\ p.frac[i] \in Nat
      /\ Plan(p)
  BY PlanFacts DEF PlanType
<1>0. Whole \in Nat
  BY LifecycleAssumption
<1>2. t \in Trade /\ t.stop \in Int /\ t.rem \in Int /\ t.pnl \in Int /\ t.hits \in 0 .. 3
  BY LifecycleAssumption DEF Sound, Trade
<1>3. CASE ~(t.st = "OPEN" /\ t.hits = i - 1 /\ b.fav >= p.tp[i])
  BY <1>2, <1>3 DEF Target, Advanced
<1>4. CASE t.st = "OPEN" /\ t.hits = i - 1 /\ b.fav >= p.tp[i]
  <2> DEFINE x == t.rem - p.frac[i]
             y == t.pnl + p.frac[i] * (p.tp[i] - p.entry)
             taken == [t EXCEPT !.rem = x, !.pnl = y, !.hits = i]
  <2>1. y \in Int
    BY <1>1, <1>2, SMT
  <2>2. Target(p, t, b, i) =
          IF taken.rem = 0 THEN [taken EXCEPT !.st = "CLOSED", !.reason = "TP"]
          ELSE Secured(p, taken, i)
    BY <1>2, <1>4 DEF Target, Take, Trade
  <2>3. t.rem = Whole - TakenBy(p, i - 1) /\ t.rem \in 0 .. Whole
    BY <1>2, <1>4 DEF Sound, ConservedIn, Trade
  <2>4. TakenBy(p, i) = TakenBy(p, i - 1) + p.frac[i] /\ TakenBy(p, i) <= Whole
    <3>1. CASE i = 1 BY <1>0, <1>1, <3>1 DEF TakenBy, Plan
    <3>2. CASE i = 2 BY <1>0, <1>1, <3>2 DEF TakenBy, Plan
    <3>3. CASE i = 3 BY <1>0, <1>1, <3>3 DEF TakenBy, Plan
    <3> QED BY <3>1, <3>2, <3>3
  <2>5. TakenBy(p, i - 1) \in Int
    BY <1>1 DEF TakenBy
  <2>6. x \in 0 .. Whole /\ x = Whole - TakenBy(p, i)
    BY <1>0, <1>1, <2>3, <2>4, <2>5
  <2> HIDE DEF x, y
  <2>7. taken \in Trade
    <3>1. i \in 0 .. 3
      OBVIOUS
    <3> QED BY <1>2, <2>1, <2>6, <3>1, Zenon DEF Trade
  <2>8. taken.rem = x /\ taken.hits = i /\ taken.st = "OPEN" /\ taken.stop = t.stop
        /\ taken.trailing = t.trailing /\ taken.held = t.held /\ taken.last = t.last
    BY <1>2, <1>4, Zenon DEF Trade
  <2>9. ~t.trailing /\ t.trailing \in BOOLEAN
    <3>1. t.hits # 3
      BY <1>4
    <3> QED BY <1>2, <3>1 DEF Sound, Trade
  <2> HIDE DEF taken
  <2>10. CASE x = 0
    <3> DEFINE u == [taken EXCEPT !.st = "CLOSED", !.reason = "TP"]
    <3>1. Target(p, t, b, i) = u
      BY <2>2, <2>8, <2>10
    <3>2. u \in Trade
      BY <2>7, Zenon DEF Trade
    <3>3. u.st = "CLOSED" /\ u.rem = taken.rem /\ u.hits = taken.hits /\ u.stop = taken.stop
          /\ u.trailing = taken.trailing /\ u.held = taken.held /\ u.last = taken.last
      BY <2>7, Zenon DEF Trade
    <3> HIDE DEF u
    <3> QED BY <1>2, <2>8, <2>9, <2>10, <3>1, <3>2, <3>3 DEF Advanced, Sound, ConservedIn
  <2>11. CASE x # 0
    <3>1. Target(p, t, b, i) = Secured(p, taken, i)
      BY <2>2, <2>8, <2>11
    <3>2. x > 0
      BY <2>6, <2>11, LifecycleAssumption
    <3> DEFINE lock == Highest({taken.stop, p.tp[1]})
    <3>3. lock \in Int /\ lock >= taken.stop
      BY <1>1, <1>2, <2>8, HighestOfTwo
    <3> HIDE DEF lock
    <3>4. CASE i = 1 /\ p.moveBE
      <4> DEFINE u == [taken EXCEPT !.stop = p.be, !.be = TRUE]
      <4>1. Secured(p, taken, i) = u
        BY <3>4 DEF Secured
      <4>2. t.stop = p.sl /\ p.be >= p.sl
        BY <1>1, <1>2, <1>4, <3>4 DEF Sound, Plan
      <4>3. u \in Trade
        BY <1>1, <2>7, Zenon DEF Trade
      <4>4. u.st = taken.st /\ u.rem = taken.rem /\ u.hits = taken.hits /\ u.stop = p.be
            /\ u.trailing = taken.trailing /\ u.held = taken.held /\ u.last = taken.last
        BY <2>7, Zenon DEF Trade
      <4> HIDE DEF u
      <4> QED BY <2>6, <2>8, <2>9, <3>1, <3>2, <3>4, <4>1, <4>2, <4>3, <4>4
              DEF Advanced, Sound, ConservedIn
    <3>5. CASE i = 1 /\ ~p.moveBE
      <4>1. Secured(p, taken, i) = taken
        BY <3>5 DEF Secured
      <4> QED BY <1>2, <2>6, <2>7, <2>8, <2>9, <3>1, <3>2, <3>5, <4>1
              DEF Advanced, Sound, ConservedIn
    <3>6. CASE i = 2
      <4> DEFINE u == [taken EXCEPT !.stop = lock]
      <4>1. Secured(p, taken, i) = u
        BY <3>6 DEF Secured, lock
      <4>2. u \in Trade
        BY <3>3, <2>7, Zenon DEF Trade
      <4>3. u.st = taken.st /\ u.rem = taken.rem /\ u.hits = taken.hits /\ u.stop = lock
            /\ u.trailing = taken.trailing /\ u.held = taken.held /\ u.last = taken.last
        BY <2>7, Zenon DEF Trade
      <4> HIDE DEF u
      <4> QED BY <2>6, <2>8, <2>9, <3>1, <3>2, <3>3, <3>6, <4>1, <4>2, <4>3
              DEF Advanced, Sound, ConservedIn
    <3>7. CASE i = 3
      <4> DEFINE u == [taken EXCEPT !.trailing = TRUE]
      <4>1. Secured(p, taken, i) = u
        BY <3>7 DEF Secured
      <4>2. u \in Trade
        BY <2>7, Zenon DEF Trade
      <4>3. u.st = taken.st /\ u.rem = taken.rem /\ u.hits = taken.hits /\ u.stop = taken.stop
            /\ u.held = taken.held /\ u.last = taken.last
        BY <2>7, Zenon DEF Trade
      <4> HIDE DEF u
      <4> QED BY <1>2, <2>6, <2>8, <3>1, <3>2, <3>7, <4>1, <4>2, <4>3
              DEF Advanced, Sound, ConservedIn
    <3> QED BY <3>4, <3>5, <3>6, <3>7
  <2> QED BY <2>10, <2>11
<1> QED BY <1>3, <1>4

\* Stages compose.
LEMMA Chained ==
    ASSUME NEW p \in Plans, NEW t, NEW u, NEW v, Sound(p, t), Advanced(p, t, u),
           Advanced(p, u, v)
    PROVE  Advanced(p, t, v)
  BY DEF Advanced, Sound, Trade

LEMMA TargetsSound ==
    ASSUME NEW p \in Plans, NEW t, Sound(p, t), NEW b \in Bars
    PROVE  Advanced(p, t, Targets(p, t, b))
<1> DEFINE u1 == Target(p, t, b, 1)
           u2 == Target(p, u1, b, 2)
           u3 == Target(p, u2, b, 3)
<1>1. Advanced(p, t, u1)
  BY TargetSound
<1>2. Sound(p, u1)
  BY <1>1 DEF Advanced
<1> HIDE DEF u1
<1>3. Advanced(p, u1, u2)
  BY <1>2, TargetSound
<1>4. Sound(p, u2)
  BY <1>3 DEF Advanced
<1> HIDE DEF u2
<1>5. Advanced(p, u2, u3)
  BY <1>4, TargetSound
<1> HIDE DEF u3
<1>6. Advanced(p, t, u2)
  BY <1>1, <1>3, Chained
<1>7. Advanced(p, t, u3)
  BY <1>4, <1>5, <1>6, Chained
<1> QED BY <1>7 DEF u1, u2, u3, Targets

\* The time stop leaves no open trade that has reached its age.
LEMMA TimeExitSound ==
    ASSUME NEW p \in Plans, NEW t, Sound(p, t), NEW b \in Bars
    PROVE  /\ Advanced(p, t, TimeExit(p, t, b))
           /\ TimeExit(p, t, b).st = "OPEN" /\ p.timeStop > 0 =>
                TimeExit(p, t, b).held < p.timeStop
<1>1. b.close \in Int /\ p.timeStop \in Nat
  BY BarFacts, PlanFacts DEF PlanType
<1>2. t \in Trade /\ t.stop \in Int /\ t.held \in Nat
  BY DEF Sound, Trade
<1>3. CASE t.st = "OPEN" /\ p.timeStop > 0 /\ t.held >= p.timeStop
  BY <1>1, <1>2, <1>3, ClosedSound DEF TimeExit
<1>4. CASE ~(t.st = "OPEN" /\ p.timeStop > 0 /\ t.held >= p.timeStop)
  BY <1>1, <1>2, <1>4 DEF TimeExit, Advanced
<1> QED BY <1>3, <1>4

LEMMA ChannelExitSound ==
    ASSUME NEW p \in Plans, NEW t, Sound(p, t), NEW b \in Bars
    PROVE  /\ Advanced(p, t, ChannelExit(p, t, b))
           /\ ChannelExit(p, t, b).st = "OPEN" => t.st = "OPEN"
<1>1. b.close \in Int /\ b.adv \in Int /\ p.chan \in Nat
  BY BarFacts, PlanFacts DEF PlanType
<1>2. t \in Trade /\ t.stop \in Int /\ t.chan \in Seq(Int)
  BY DEF Sound, Trade
<1>3. CASE t.st # "OPEN" \/ p.chan = 0
  BY <1>2, <1>3 DEF ChannelExit, Advanced
<1>4. CASE ~(t.st # "OPEN" \/ p.chan = 0)
  <2> DEFINE w == Newest(Append(t.chan, b.adv), p.chan)
             g == [t EXCEPT !.chan = w]
  <2>1. w \in Seq(Int)
    BY <1>1, <1>2, NewestType, AppendProperties
  <2> HIDE DEF w
  <2>2. g \in Trade /\ g.st = "OPEN" /\ Advanced(p, t, g)
    <3>1. g \in Trade
      BY <1>2, <2>1, Zenon DEF Trade
    <3>2. g.st = t.st /\ g.rem = t.rem /\ g.hits = t.hits /\ g.stop = t.stop
          /\ g.trailing = t.trailing /\ g.held = t.held /\ g.last = t.last
      BY <1>2, Zenon DEF Trade
    <3>3. t.st = "OPEN"
      BY <1>4
    <3> HIDE DEF g
    <3> QED BY <1>2, <3>1, <3>2, <3>3 DEF Advanced, Sound, ConservedIn
  <2>3. Sound(p, g)
    BY <2>2 DEF Advanced
  <2>4. Advanced(p, g, Closed(p, g, b.close, "CHANNEL"))
    BY <1>1, <2>2, <2>3, ClosedSound
  <2>5. ChannelExit(p, t, b) \in {g, Closed(p, g, b.close, "CHANNEL")}
    BY <1>4 DEF ChannelExit, w
  <2> HIDE DEF g
  <2> QED BY <1>4, <2>2, <2>4, <2>5, Chained
<1> QED BY <1>3, <1>4

LEMMA CrossExitSound ==
    ASSUME NEW p \in Plans, NEW t, Sound(p, t), NEW b \in Bars
    PROVE  /\ Advanced(p, t, CrossExit(p, t, b))
           /\ CrossExit(p, t, b).st = "OPEN" => t.st = "OPEN"
<1>1. b.close \in Int /\ Slow \in Nat
  BY BarFacts, WindowAssumption
<1>2. t \in Trade /\ t.stop \in Int /\ t.window \in Seq(Bars)
  BY DEF Sound, Trade
<1>3. CASE t.st # "OPEN" \/ ~p.cross
  BY <1>2, <1>3 DEF CrossExit, Advanced
<1>4. CASE ~(t.st # "OPEN" \/ ~p.cross)
  <2> DEFINE w == Newest(Append(t.window, b), Slow)
             g == [t EXCEPT !.window = w]
  <2>1. w \in Seq(Bars)
    BY <1>1, <1>2, NewestType, AppendProperties
  <2> HIDE DEF w
  <2>2. g \in Trade /\ g.st = "OPEN" /\ Advanced(p, t, g)
    <3>1. g \in Trade
      BY <1>2, <2>1, Zenon DEF Trade
    <3>2. g.st = t.st /\ g.rem = t.rem /\ g.hits = t.hits /\ g.stop = t.stop
          /\ g.trailing = t.trailing /\ g.held = t.held /\ g.last = t.last
      BY <1>2, Zenon DEF Trade
    <3>3. t.st = "OPEN"
      BY <1>4
    <3> HIDE DEF g
    <3> QED BY <1>2, <3>1, <3>2, <3>3 DEF Advanced, Sound, ConservedIn
  <2>3. Sound(p, g)
    BY <2>2 DEF Advanced
  <2>4. Advanced(p, g, Closed(p, g, b.close, "TKCROSS"))
    BY <1>1, <2>2, <2>3, ClosedSound
  <2>5. CrossExit(p, t, b) \in {g, Closed(p, g, b.close, "TKCROSS")}
    BY <1>4 DEF CrossExit, w
  <2> HIDE DEF g
  <2> QED BY <1>4, <2>2, <2>4, <2>5, Chained
<1> QED BY <1>3, <1>4

\* Counting a bar touches the clock only.
LEMMA CountedSound ==
    ASSUME NEW p \in Plans, NEW t, Sound(p, t), NEW n \in Nat
    PROVE  /\ Sound(p, Counted(t, n))
           /\ Counted(t, n).last = n /\ Counted(t, n).held = t.held + 1
           /\ Counted(t, n).stop = t.stop /\ Counted(t, n).st = t.st
           /\ Counted(t, n).trailing = t.trailing
<1> DEFINE h == t.held + 1
           u == [t EXCEPT !.last = n, !.held = h]
<1>1. t \in Trade /\ h \in Nat
  BY DEF Sound, Trade
<1> HIDE DEF h
<1>2. u \in Trade
  BY <1>1, Zenon DEF Trade
<1>3. u.st = t.st /\ u.rem = t.rem /\ u.hits = t.hits /\ u.stop = t.stop
      /\ u.trailing = t.trailing /\ u.held = h /\ u.last = n
  BY <1>1, Zenon DEF Trade
<1>4. Counted(t, n) = u
  BY <1>1 DEF Counted, h
<1> HIDE DEF u
<1> QED BY <1>2, <1>3, <1>4 DEF Sound, ConservedIn, h

\* u is t after bar n: a bar that counts counts once, and an open trade is younger
\* than its time stop.
Filled(p, t, n, u) ==
    /\ Sound(p, u) /\ u.stop >= t.stop
    /\ ~Fresh(t, n) => u = t
    /\ Fresh(t, n) => /\ u.last = n /\ u.held = t.held + 1
                      /\ u.st = "OPEN" /\ p.timeStop > 0 => u.held < p.timeStop

\* A bar leaves a sound trade sound, its stop no looser and its clock right.
LEMMA FillSound ==
    ASSUME NEW p \in Plans, NEW t, Sound(p, t), NEW b \in Bars, NEW n \in Nat, NEW inputs
    PROVE  Filled(p, t, n, SimulateFill(p, t, b, n, inputs))
<1> DEFINE u == SimulateFill(p, t, b, n, inputs)
<1> SUFFICES Filled(p, t, n, u)
  OBVIOUS
<1>1. CASE ~Fresh(t, n)
  <2>1. u = t
    BY <1>1 DEF SimulateFill
  <2> HIDE DEF u
  <2> QED BY <1>1, <2>1 DEF Filled, Sound, Trade
<1>2. CASE Fresh(t, n)
  <2> DEFINE c == Counted(t, n)
             v == Trailed(p, c, b, inputs)
             w == Targets(p, v, b)
             x == TimeExit(p, w, b)
             y == ChannelExit(p, x, b)
             z == CrossExit(p, y, b)
  <2>1. u = IF b.adv <= v.stop THEN Closed(p, v, v.stop, StopReason(v)) ELSE z
    BY <1>2 DEF SimulateFill, Exits
  <2> HIDE DEF u
  <2>2. Sound(p, c) /\ c.last = n /\ c.held = t.held + 1 /\ c.stop = t.stop /\ c.st = t.st
    BY CountedSound
  <2> HIDE DEF c
  <2>3. Advanced(p, c, v) /\ v.st = c.st
    BY <2>2, TrailedSound
  <2>4. Sound(p, v) /\ v.stop \in Int
    BY <2>3 DEF Advanced, Sound, Trade
  <2>5. v.st = "OPEN"
    BY <1>2, <2>2, <2>3 DEF Fresh
  <2> HIDE DEF v
  <2>6. CASE b.adv <= v.stop
    <3>1. StopReason(v) \in {"SL", "BE", "TRAIL", "TIME", "CHANNEL", "TKCROSS", "FORCED"}
      BY DEF StopReason
    <3>2. Advanced(p, v, u) /\ u.st = "CLOSED"
      BY <2>1, <2>4, <2>5, <2>6, <3>1, ClosedSound
    <3>3. Advanced(p, c, u)
      BY <2>2, <2>3, <3>2, Chained
    <3> QED BY <1>2, <2>2, <3>2, <3>3 DEF Advanced, Filled
  <2>7. CASE ~(b.adv <= v.stop)
    <3>1. Advanced(p, v, w) /\ Sound(p, w)
      BY <2>4, TargetsSound DEF Advanced
    <3> HIDE DEF w
    <3>2. /\ Advanced(p, w, x) /\ Sound(p, x)
          /\ x.st = "OPEN" /\ p.timeStop > 0 => x.held < p.timeStop
      BY <3>1, TimeExitSound DEF Advanced
    <3> HIDE DEF x
    <3>3. Advanced(p, x, y) /\ Sound(p, y) /\ (y.st = "OPEN" => x.st = "OPEN")
      BY <3>2, ChannelExitSound DEF Advanced
    <3> HIDE DEF y
    <3>4. Advanced(p, y, z) /\ (z.st = "OPEN" => y.st = "OPEN")
      BY <3>3, CrossExitSound
    <3>5. u = z
      BY <2>1, <2>7
    <3> HIDE DEF z
    <3>6. Advanced(p, c, w)
      BY <2>2, <2>3, <3>1, Chained
    <3>7. Advanced(p, c, x)
      BY <2>2, <3>2, <3>6, Chained
    <3>8. Advanced(p, c, y)
      BY <2>2, <3>3, <3>7, Chained
    <3>9. Advanced(p, c, z)
      BY <2>2, <3>4, <3>8, Chained
    <3>10. x.held = u.held
      BY <3>3, <3>4, <3>5 DEF Advanced
    <3> QED BY <1>2, <2>2, <3>2, <3>3, <3>4, <3>5, <3>9, <3>10 DEF Advanced, Filled
  <2> QED BY <2>6, <2>7
<1> QED BY <1>1, <1>2

\* Without a runner no open trade trails, so the missing inputs change nothing.
LEMMA NoTrailing ==
    ASSUME NEW p \in Plans, p \notin WithRunner, NEW t, Sound(p, t), NEW b, NEW n \in Nat
    PROVE  SimulateFill(p, t, b, n, TRUE) = SimulateFill(p, t, b, n, FALSE)
<1>1. CASE ~Fresh(t, n)
  BY <1>1 DEF SimulateFill
<1>2. CASE Fresh(t, n)
  <2>1. p.frac[1] \in Nat /\ p.frac[2] \in Nat /\ p.frac[3] \in Nat /\ Whole \in Nat
    BY PlanFacts, LifecycleAssumption DEF PlanType
  <2>2. ~(p.frac[1] + p.frac[2] + p.frac[3] < Whole)
    BY DEF WithRunner
  <2>3. ~t.trailing
    BY <1>2, <2>1, <2>2 DEF Fresh, Sound, ConservedIn, TakenBy
  <2>4. ~Counted(t, n).trailing
    BY <2>3, CountedSound
  <2>5. Trailed(p, Counted(t, n), b, TRUE) = Trailed(p, Counted(t, n), b, FALSE)
    BY <2>4 DEF Trailed
  <2> QED BY <1>2, <2>5, Zenon DEF SimulateFill
<1> QED BY <1>1, <1>2

--------------------------------------------------------------------------------
(* The repair.                                                             *)

\* The repair keeps a trade sound and its stop in place, and moves its clock to
\* the bar before the current one or not at all.
LEMMA RepairedSound ==
    ASSUME NEW p \in Plans, NEW t, Sound(p, t), NEW s \in Seq(Bars), NEW n \in Entry .. Len(s),
           NEW u, u = Repaired(p, t, s, n)
    PROVE  /\ Sound(p, u) /\ u.stop = t.stop /\ u.st = t.st
           /\ \/ u.held = t.held /\ u.last = t.last
              \/ u.held = n - 1 - Entry /\ u.last = n - 1 /\ n > Entry
<1> DEFINE held == n - 1 - Entry
           past == Newest(Between(s, Entry, n - 1), p.chan)
           adv  == [i \in 1 .. Len(past) |-> past[i].adv]
           h == IF held > t.held THEN held ELSE t.held
           l == IF held > t.held THEN n - 1 ELSE t.last
           c == IF p.chan > 0 /\ Len(adv) > Len(t.chan) THEN adv ELSE t.chan
           w == IF p.cross /\ n > 1 THEN Newest(SubSeq(s, 1, n - 1), Slow) ELSE t.window
           r == [t EXCEPT !.held = h, !.last = l, !.chan = c, !.window = w]
<1>1. /\ p.chan \in Nat /\ Slow \in Nat /\ Entry \in Nat \ {0} /\ n \in Nat /\ n >= Entry
      /\ Len(s) \in Nat /\ n <= Len(s)
  BY PlanFacts, LifecycleAssumption, WindowAssumption, LenProperties DEF PlanType
<1>2. /\ t \in Trade /\ t.held \in Nat /\ t.last \in Nat /\ t.chan \in Seq(Int)
      /\ t.window \in Seq(Bars)
  BY DEF Sound, Trade
<1>3. h \in Nat /\ l \in Nat
  BY <1>1, <1>2
<1>4. past \in Seq(Bars)
  <2>1. \A i \in Entry + 1 .. n - 1 : s[i] \in Bars
    BY <1>1, ElementOfSeq
  <2>2. Between(s, Entry, n - 1) \in Seq(Bars)
    BY <1>1, <2>1, SubSeqProperties DEF Between
  <2> QED BY <1>1, <2>2, NewestType
<1>5. adv \in Seq(Int)
  <2> HIDE DEF past
  <2>1. Len(past) \in Nat
    BY <1>4, LenProperties
  <2>2. \A i \in 1 .. Len(past) : past[i].adv \in Int
    BY <1>4, ElementOfSeq, BarFacts
  <2>3. [i \in 1 .. Len(past) |-> past[i].adv] \in [1 .. Len(past) -> Int]
    BY <2>2
  <2> QED BY <2>1, <2>3
<1>6. c \in Seq(Int)
  BY <1>2, <1>5
<1>7. w \in Seq(Bars)
  <2>1. \A i \in 1 .. n - 1 : s[i] \in Bars
    BY <1>1, ElementOfSeq
  <2>2. SubSeq(s, 1, n - 1) \in Seq(Bars)
    BY <1>1, <2>1, SubSeqProperties
  <2> QED BY <1>1, <1>2, <2>2, NewestType
<1>8. u = r
  BY <1>2 DEF Repaired
<1>9. \/ h = t.held /\ l = t.last
      \/ h = n - 1 - Entry /\ l = n - 1 /\ n > Entry
  BY <1>1, <1>2
<1> HIDE DEF h, l, c, w
<1>10. r \in Trade
  BY <1>2, <1>3, <1>6, <1>7, Zenon DEF Trade
<1>11. r.st = t.st /\ r.rem = t.rem /\ r.hits = t.hits /\ r.stop = t.stop
       /\ r.trailing = t.trailing /\ r.held = h /\ r.last = l
  BY <1>2, Zenon DEF Trade
<1> HIDE DEF r
<1> QED BY <1>8, <1>9, <1>10, <1>11 DEF Sound, ConservedIn

\* A repair on the entry bar or the bar after it finds nothing to repair, except
\* in the TK-cross window.
LEMMA RepairedNothing ==
    ASSUME NEW p \in Plans, ~p.cross, NEW t, Sound(p, t), t.held = 0, NEW s \in Seq(Bars),
           NEW n \in {Entry, Entry + 1}
    PROVE  Repaired(p, t, s, n) = t
<1> DEFINE past == Newest(Between(s, Entry, n - 1), p.chan)
           adv  == [i \in 1 .. Len(past) |-> past[i].adv]
<1>1. Entry \in Nat /\ p.chan \in Nat
  BY PlanFacts, LifecycleAssumption DEF PlanType
<1>2. t \in Trade /\ t.chan \in Seq(Int) /\ Len(t.chan) \in Nat
  BY LenProperties DEF Sound, Trade
<1>3. Between(s, Entry, n - 1) = <<>>
  BY <1>1, SubSeqEmpty DEF Between
<1>4. past = <<>>
  BY <1>1, <1>3 DEF Newest
<1>5. Len(adv) = 0
  BY <1>4
<1>6. ~(n - 1 - Entry > t.held) /\ ~(Len(adv) > Len(t.chan))
  BY <1>1, <1>2, <1>5
<1> HIDE DEF adv
<1>7. Repaired(p, t, s, n) =
        [t EXCEPT !.held = t.held, !.last = t.last, !.chan = t.chan, !.window = t.window]
  BY <1>2, <1>6 DEF Repaired, adv
<1> QED BY <1>2, <1>7, Zenon DEF Trade
--------------------------------------------------------------------------------
(* The invariant.                                                          *)

\* The clock of the row: it counts bars up to the last one the engine managed.
Clock ==
    /\ seen \in Entry - 1 .. Len(bars)
    /\ repaired <=> seen >= Entry
    /\ row.last <= Len(bars) /\ row.last >= Entry
    /\ row.held <= row.last - Entry
    /\ row.st = "OPEN" => row.last = IF seen >= Entry THEN seen ELSE Entry
    /\ row.st = "OPEN" /\ ~skipped => \/ seen >= Len(bars) - 1
                                      \/ seen = Entry - 1 /\ Len(bars) <= Entry + 1

Ages ==
    /\ plan.timeStop > 0 /\ sim.st = "OPEN" => sim.held < plan.timeStop
    /\ plan.timeStop > 0 /\ row.st = "OPEN" => row.held < plan.timeStop

\* The row is the backtest's trade, or one bar behind it.
Sync ==
    \/ row = sim /\ (row.st = "CLOSED" \/ seen = Len(bars) \/ Len(bars) = Entry)
    \/ /\ row.st = "OPEN" /\ seen < Len(bars) /\ Len(bars) > Entry
       /\ sim = SimulateFill(plan, row, bars[Len(bars)], Len(bars), TRUE)

LInv ==
    /\ plan \in Plans
    /\ bars \in Seq(Bars) /\ Len(bars) \in Entry .. Entry + MaxBars
    /\ repaired \in BOOLEAN /\ skipped \in BOOLEAN /\ forced \in BOOLEAN
    /\ Sound(plan, sim) /\ Sound(plan, row)
    /\ Clock
    /\ Ages
    /\ Comparable => Sync

\* A new trade is sound.
LEMMA NewTradeSound ==
    ASSUME NEW p \in Plans, NEW h \in Histories
    PROVE  Sound(p, NewTrade(p, h))
<1>1. h \in Seq(Bars) /\ Slow \in Nat /\ Entry \in Nat /\ Whole \in Nat \ {0}
  BY LifecycleAssumption, WindowAssumption
<1> DEFINE w == IF p.cross THEN Newest(h, Slow) ELSE <<>>
<1>2. w \in Seq(Bars)
  BY <1>1, NewestType, EmptySeq
<1>3. <<>> \in Seq(Int) /\ p.sl \in Int /\ Whole \in 0 .. Whole /\ 0 \in 0 .. 3
  BY <1>1, EmptySeq, PlanFacts DEF PlanType
<1> HIDE DEF w
<1>4. NewTrade(p, h) =
        [st |-> "OPEN", rem |-> Whole, stop |-> p.sl, hits |-> 0, be |-> FALSE,
         trailing |-> FALSE, held |-> 0, last |-> Entry, chan |-> <<>>,
         window |-> w, pnl |-> 0, reason |-> "none"]
  BY DEF NewTrade, w
<1>5. NewTrade(p, h) \in Trade
  <2>1. 0 \in Nat /\ 0 \in Int
    OBVIOUS
  <2>2. Entry \in Nat /\ <<>> \in Seq(Int)
    BY <1>1, <1>3
  <2> QED BY <1>2, <1>3, <1>4, <2>1, <2>2 DEF Trade
<1>6. TakenBy(p, 0) = 0
  BY DEF TakenBy
<1> QED BY <1>1, <1>4, <1>5, <1>6 DEF Sound, ConservedIn

\* The invariant holds of a trade just opened.
LEMMA InitLInv == Init => LInv
<1> SUFFICES ASSUME Init PROVE LInv
  OBVIOUS
<1>1. plan \in Plans /\ bars \in Histories /\ sim = NewTrade(plan, bars) /\ row = sim
  BY DEF Init
<1>2. bars \in Seq(Bars) /\ Len(bars) = Entry /\ Entry \in Nat \ {0} /\ MaxBars \in Nat
  BY <1>1, LifecycleAssumption
<1>3. Sound(plan, sim)
  BY <1>1, NewTradeSound
<1>4. sim.st = "OPEN" /\ sim.held = 0 /\ sim.last = Entry
  BY <1>1 DEF NewTrade
<1>5. Clock
  BY <1>1, <1>2, <1>4 DEF Init, Clock
<1>6. Ages
  BY <1>1, <1>4 DEF Ages
<1>7. Sync
  BY <1>1, <1>2 DEF Sync
<1>8. repaired \in BOOLEAN /\ skipped \in BOOLEAN /\ forced \in BOOLEAN
  BY DEF Init
<1>9. Len(bars) \in Entry .. Entry + MaxBars
  BY <1>2
<1>10. Sound(plan, row)
  BY <1>1, <1>3
<1> QED BY <1>1, <1>2, <1>3, <1>5, <1>6, <1>7, <1>8, <1>9, <1>10 DEF LInv

\* The invariant is inductive.
LEMMA StepLInv == LInv /\ [Next]_vars => LInv'
<1> SUFFICES ASSUME LInv, [Next]_vars PROVE LInv'
  OBVIOUS
<1>0. /\ plan \in Plans /\ bars \in Seq(Bars) /\ Len(bars) \in Entry .. Entry + MaxBars
      /\ Len(bars) \in Nat /\ Entry \in Nat \ {0} /\ MaxBars \in Nat
      /\ Sound(plan, sim) /\ Sound(plan, row)
      /\ plan.timeStop \in Nat
      /\ skipped \in BOOLEAN /\ forced \in BOOLEAN
  <2>1. Entry \in Nat \ {0} /\ MaxBars \in Nat
    BY LifecycleAssumption
  <2>2. /\ plan \in Plans /\ bars \in Seq(Bars) /\ Len(bars) \in Entry .. Entry + MaxBars
        /\ Sound(plan, sim) /\ Sound(plan, row)
        /\ skipped \in BOOLEAN /\ forced \in BOOLEAN
    BY DEF LInv
  <2>3. plan.timeStop \in Nat
    BY <2>2, PlanFacts DEF PlanType
  <2>4. Len(bars) \in Nat
    BY <2>2, LenProperties
  <2> QED BY <2>1, <2>2, <2>3, <2>4
<1>00. /\ row \in Trade /\ row.held \in Nat /\ row.last \in Nat /\ row.st \in {"OPEN", "CLOSED"}
       /\ seen \in Int
  BY <1>0 DEF LInv, Clock, Sound, Trade
<1>1. CASE UNCHANGED vars
  BY <1>1 DEF LInv, Clock, Ages, Sync, Comparable, vars
<1>2. ASSUME NEW b \in Bars, NewBar(b) PROVE LInv'
  <2>1. /\ bars' = Append(bars, b) /\ plan' = plan /\ row' = row /\ seen' = seen
        /\ repaired' = repaired /\ forced' = forced
        /\ sim' = SimulateFill(plan, sim, b, Len(bars'), TRUE)
        /\ Len(bars) < Entry + MaxBars
        /\ skipped' = (skipped \/ (row.st = "OPEN" /\ seen < Len(bars) /\ Len(bars) > Entry))
    BY <1>2 DEF NewBar
  <2>2. bars' \in Seq(Bars) /\ Len(bars') = Len(bars) + 1 /\ bars'[Len(bars')] = b
    BY <1>0, <2>1, AppendProperties
  <2>3. /\ Sound(plan, sim')
        /\ ~Fresh(sim, Len(bars')) => sim' = sim
        /\ Fresh(sim, Len(bars')) /\ sim'.st = "OPEN" /\ plan.timeStop > 0 =>
             sim'.held < plan.timeStop
    <3>1. Len(bars') \in Nat
      BY <1>0, <2>2
    <3>2. sim' = SimulateFill(plan, sim, b, Len(bars'), TRUE)
      BY <2>1
    <3>3. Filled(plan, sim, Len(bars'), sim')
      BY <1>0, <3>1, <3>2, FillSound, Zenon
    <3> QED BY <3>3 DEF Filled
  <2>4. Clock'
    <3>1. /\ seen \in Entry - 1 .. Len(bars)
          /\ repaired <=> seen >= Entry
          /\ row.last <= Len(bars) /\ row.last >= Entry
          /\ row.held <= row.last - Entry
          /\ row.st = "OPEN" => row.last = IF seen >= Entry THEN seen ELSE Entry
          /\ row.st = "OPEN" /\ ~skipped => \/ seen >= Len(bars) - 1
                                            \/ seen = Entry - 1 /\ Len(bars) <= Entry + 1
      BY DEF LInv, Clock
    <3>2. row.st = "OPEN" /\ ~skipped' => \/ seen >= Len(bars') - 1
                                          \/ seen = Entry - 1 /\ Len(bars') <= Entry + 1
      <4> SUFFICES ASSUME row.st = "OPEN", ~skipped'
                   PROVE  \/ seen >= Len(bars') - 1
                          \/ seen = Entry - 1 /\ Len(bars') <= Entry + 1
        BY Zenon
      <4>1. ~skipped /\ ~(seen < Len(bars) /\ Len(bars) > Entry)
        BY <2>1, Zenon
      <4> QED BY <1>0, <1>00, <2>2, <3>1, <4>1
    <3> QED BY <1>0, <1>00, <2>1, <2>2, <3>1, <3>2 DEF Clock
  <2>5. Ages'
    BY <2>1, <2>3 DEF LInv, Ages
  <2>6. ASSUME Comparable' PROVE Sync'
    <3>1. Comparable /\ ~(row.st = "OPEN" /\ seen < Len(bars) /\ Len(bars) > Entry)
      BY <2>1, <2>6 DEF Comparable
    <3>2. row = sim /\ (row.st = "CLOSED" \/ seen = Len(bars) \/ Len(bars) = Entry)
      BY <3>1 DEF LInv, Sync
    <3>3. CASE row.st = "CLOSED"
      <4>1. sim' = sim
        BY <2>3, <3>2, <3>3 DEF Fresh
      <4> QED BY <2>1, <3>2, <3>3, <4>1 DEF Sync
    <3>4. CASE row.st # "CLOSED"
      <4>1. sim' = SimulateFill(plan', row', bars'[Len(bars')], Len(bars'), TRUE)
        BY <2>1, <2>2, <3>2
      <4>2. row'.st = "OPEN" /\ seen' < Len(bars') /\ Len(bars') > Entry
        BY <1>0, <1>00, <2>1, <2>2, <3>4 DEF LInv, Clock
      <4> QED BY <4>1, <4>2 DEF Sync
    <3> QED BY <3>3, <3>4
  <2>7. Sound(plan', sim') /\ Sound(plan', row')
    BY <1>0, <2>1, <2>3
  <2>8. Len(bars') \in Entry .. Entry + MaxBars
    BY <1>0, <2>1, <2>2
  <2>9. skipped' \in BOOLEAN /\ repaired' \in BOOLEAN /\ forced' \in BOOLEAN /\ plan' \in Plans
    BY <1>0, <2>1, Zenon DEF LInv
  <2> QED BY <2>2, <2>4, <2>5, <2>6, <2>7, <2>8, <2>9 DEF LInv
<1>3. ASSUME Manage PROVE LInv'
  <2> DEFINE n == Len(bars)
             read == IF repaired THEN row ELSE Repaired(plan, row, bars, n)
  <2>1. /\ row.st = "OPEN"
        /\ row' = SimulateFill(plan, read, bars[n], n, FALSE)
        /\ seen' = n /\ repaired' = TRUE
        /\ plan' = plan /\ bars' = bars /\ sim' = sim /\ skipped' = skipped
        /\ forced' = forced
    BY <1>3 DEF Manage, Persisted
  <2>2. bars[n] \in Bars
    BY <1>0, ElementOfSeq
  <2>3. /\ Sound(plan, read) /\ read.st = "OPEN"
        /\ \/ read.held = row.held /\ read.last = row.last
           \/ read.held = n - 1 - Entry /\ read.last = n - 1 /\ n > Entry
    BY <1>0, <2>1, RepairedSound
  <2>4. read.held \in Nat /\ read.last \in Nat
    BY <2>3 DEF Sound, Trade
  <2>5. /\ Sound(plan, row')
        /\ ~Fresh(read, n) => row' = read
        /\ Fresh(read, n) => /\ row'.last = n /\ row'.held = read.held + 1
                             /\ row'.st = "OPEN" /\ plan.timeStop > 0 =>
                                  row'.held < plan.timeStop
    <3>1. row' = SimulateFill(plan, read, bars[n], n, FALSE)
      BY <2>1
    <3> HIDE DEF read
    <3>2. Filled(plan, read, n, row')
      BY <1>0, <2>2, <2>3, <3>1, FillSound, Zenon
    <3> QED BY <3>2 DEF Filled
  <2>6. /\ seen \in Entry - 1 .. n /\ (repaired <=> seen >= Entry)
        /\ row.last <= n /\ row.last >= Entry /\ row.held <= row.last - Entry
        /\ row.last = IF seen >= Entry THEN seen ELSE Entry
    BY <2>1 DEF LInv, Clock
  <2>7. read.last <= n /\ read.last >= Entry /\ read.held <= read.last - Entry
    BY <1>0, <1>00, <2>3, <2>6
  <2>8. row'.last = n /\ row'.held <= n - Entry
    <3>1. CASE Fresh(read, n)
      BY <1>0, <2>4, <2>5, <2>7, <3>1 DEF Fresh
    <3>2. CASE ~Fresh(read, n)
      <4>1. read.last = n
        BY <1>0, <2>3, <2>4, <2>7, <3>2 DEF Fresh
      <4> QED BY <1>0, <2>4, <2>5, <2>7, <3>2, <4>1
    <3> QED BY <3>1, <3>2
  <2>9. Clock'
    <3>1. seen' \in Entry - 1 .. Len(bars') /\ seen' >= Entry
      BY <1>0, <2>1
    <3>2. repaired' <=> seen' >= Entry
      BY <2>1, <3>1, Zenon
    <3>3. /\ row'.last <= Len(bars') /\ row'.last >= Entry /\ row'.held <= row'.last - Entry
          /\ row'.last = seen' /\ seen' >= Len(bars') - 1
      <4>1. Len(bars') = n /\ seen' = n
        BY <2>1
      <4> HIDE DEF read
      <4> QED BY <1>0, <2>8, <4>1
    <3> QED BY <3>1, <3>2, <3>3 DEF Clock
  <2>10. Ages'
    <3>1. CASE Fresh(read, n)
      BY <2>1, <2>5, <3>1 DEF LInv, Ages
    <3>2. CASE ~Fresh(read, n)
      <4>1. read.held = row.held
        BY <1>0, <2>3, <2>4, <3>2 DEF Fresh
      <4> QED BY <2>1, <2>5, <3>2, <4>1 DEF LInv, Ages
    <3> QED BY <3>1, <3>2
  <2>11. ASSUME Comparable' PROVE Sync'
    <3>1. Comparable /\ Sync
      BY <2>1, <2>11 DEF Comparable, LInv
    <3>2. plan \notin WithRunner /\ ~plan.cross /\ ~skipped
      BY <3>1 DEF Comparable
    <3>3. read = row
      <4>1. CASE repaired
        BY <4>1
      <4>2. CASE ~repaired
        <5>1. seen = Entry - 1 /\ row.last = Entry /\ row.held = 0
          BY <1>0, <1>00, <2>6, <4>2
        <5>2. n \in {Entry, Entry + 1}
          BY <1>0, <2>1, <3>2, <5>1 DEF LInv, Clock
        <5> QED BY <1>0, <3>2, <4>2, <5>1, <5>2, RepairedNothing
      <4> QED BY <4>1, <4>2
    <3>4. CASE row = sim /\ (seen = n \/ n = Entry)
      <4>1. row.last = n
        BY <1>0, <2>6, <3>4
      <4>2. row' = row
        BY <1>0, <2>5, <3>3, <4>1 DEF Fresh
      <4> QED BY <2>1, <3>4, <4>2 DEF Sync
    <3>5. CASE sim = SimulateFill(plan, row, bars[n], n, TRUE)
      <4>1. sim = SimulateFill(plan, row, bars[n], n, FALSE)
        BY <1>0, <3>2, <3>5, NoTrailing
      <4> QED BY <2>1, <3>3, <4>1 DEF Sync
    <3> QED BY <2>1, <3>1, <3>4, <3>5 DEF Sync
  <2>12. Sound(plan', sim') /\ Sound(plan', row')
    BY <1>0, <2>1, <2>5
  <2> QED BY <1>0, <2>1, <2>9, <2>10, <2>11, <2>12 DEF LInv
<1>4. ASSUME ForceClose PROVE LInv'
  <2>1. /\ row.st = "OPEN"
        /\ row' = Closed(plan, row, bars[Len(bars)].close, "FORCED")
        /\ forced' = TRUE
        /\ plan' = plan /\ bars' = bars /\ sim' = sim /\ skipped' = skipped
        /\ seen' = seen /\ repaired' = repaired
    BY <1>4 DEF ForceClose
  <2>2. bars[Len(bars)].close \in Int
    BY <1>0, ElementOfSeq, BarFacts
  <2>3. Sound(plan, row') /\ row'.st = "CLOSED" /\ row'.held = row.held /\ row'.last = row.last
    BY <1>0, <2>1, <2>2, ClosedSound DEF Advanced
  <2>4. Clock'
    BY <2>1, <2>3 DEF LInv, Clock
  <2>5. Ages'
    BY <2>1, <2>3 DEF LInv, Ages
  <2>6. ~Comparable'
    BY <2>1 DEF Comparable
  <2>7. Sound(plan', sim') /\ Sound(plan', row')
    BY <1>0, <2>1, <2>3
  <2> QED BY <1>0, <2>1, <2>4, <2>5, <2>6, <2>7 DEF LInv
<1> QED BY <1>1, <1>2, <1>3, <1>4 DEF Next

\* The invariant holds throughout, for every plan and every market.
THEOREM LifecycleInvariant == Spec => []LInv
  BY InitLInv, StepLInv, PTL DEF Spec
\* TypeOK: both trades and the clock of the row hold what they can hold.
THEOREM TypeCorrect == Spec => []TypeOK
<1>1. LInv => TypeOK
  BY DEF LInv, TypeOK, Sound, Clock
<1> QED BY <1>1, LifecycleInvariant, PTL

\* WholeAndOnTime: partial closes account for the whole position, in the backtest and in
\* the database; no open trade is as old as its time stop, and no row counts more bars
\* than there were.
THEOREM PositionConserved == Spec => []WholeAndOnTime
<1>1. LInv => Conserved
  BY DEF LInv, Conserved, Sound
<1>2. LInv => HeldWithinLife
  <2> SUFFICES ASSUME LInv PROVE HeldWithinLife
    OBVIOUS
  <2>1. row \in Trade /\ bars \in Seq(Bars) /\ Entry \in Nat
    BY LifecycleAssumption DEF LInv, Sound
  <2>2. row.held \in Nat /\ row.last \in Nat /\ Len(bars) \in Nat
    BY <2>1, LenProperties DEF Trade
  <2>3. row.held <= Len(bars) - Entry
    BY <2>1, <2>2 DEF LInv, Clock
  <2> QED BY <2>3 DEF LInv, Ages, HeldWithinLife
<1>3. LInv => WholeAndOnTime
  BY <1>1, <1>2 DEF WholeAndOnTime
<1> QED BY <1>3, LifecycleInvariant, PTL

\* Parity: an engine that missed no bar holds the trade the backtest holds.
THEOREM PaperIsBacktest == Spec => []Parity
<1>1. LInv => Parity
  <2> SUFFICES ASSUME LInv, Comparable, row.st = "CLOSED" \/ seen = Len(bars) PROVE row = sim
    BY DEF Parity
  <2>1. row.st = "CLOSED" => row.st # "OPEN"
    OBVIOUS
  <2>2. seen \in Int /\ Len(bars) \in Int
    BY LenProperties, LifecycleAssumption DEF LInv, Clock
  <2>3. Sync
    BY DEF LInv
  <2>4. ~(row.st = "OPEN" /\ seen < Len(bars))
    BY <2>1, <2>2
  <2> QED BY <2>3, <2>4, Zenon DEF Sync
<1> QED BY <1>1, LifecycleInvariant, PTL

\* StopRatchets: no bar, repair or forced close moves a stop away from profit.
THEOREM StopsRatchet == Spec => StopRatchets
<1> DEFINE Tighter == sim'.stop >= sim.stop /\ row'.stop >= row.stop
<1>1. LInv /\ [Next]_vars => [Tighter]_vars
  <2> SUFFICES ASSUME LInv, Next PROVE Tighter
    BY DEF vars
  <2>0. /\ plan \in Plans /\ bars \in Seq(Bars) /\ Len(bars) \in Entry .. Entry + MaxBars
        /\ Len(bars) \in Nat /\ Sound(plan, sim) /\ Sound(plan, row)
        /\ Entry \in Nat \ {0} /\ MaxBars \in Nat
    BY LenProperties, LifecycleAssumption DEF LInv
  <2>1. sim.stop \in Int /\ row.stop \in Int
    BY <2>0 DEF Sound, Trade
  <2>2. ASSUME NEW b \in Bars, NewBar(b) PROVE Tighter
    <3>1. Len(bars') \in Nat
      BY <2>0, <2>2, AppendProperties DEF NewBar
    <3>2. sim' = SimulateFill(plan, sim, b, Len(bars'), TRUE) /\ row' = row
      BY <2>2 DEF NewBar
    <3>3. Filled(plan, sim, Len(bars'), sim')
      BY <2>0, <3>1, <3>2, FillSound, Zenon
    <3>4. sim'.stop >= sim.stop
      BY <3>3, Zenon DEF Filled
    <3>5. row' = row
      BY <3>2
    <3> QED BY <2>1, <3>4, <3>5
  <2>3. ASSUME Manage PROVE Tighter
    <3> DEFINE n == Len(bars)
               read == IF repaired THEN row ELSE Repaired(plan, row, bars, n)
    <3>1. row' = SimulateFill(plan, read, bars[n], n, FALSE) /\ sim' = sim
      BY <2>3 DEF Manage, Persisted
    <3>2. bars[n] \in Bars
      BY <2>0, ElementOfSeq
    <3>3. Sound(plan, read) /\ read.stop = row.stop
      BY <2>0, RepairedSound
    <3> HIDE DEF read
    <3>4. Filled(plan, read, n, row')
      BY <2>0, <3>1, <3>2, <3>3, FillSound, Zenon
    <3>5. row'.stop >= read.stop
      BY <3>4, Zenon DEF Filled
    <3>6. sim' = sim
      BY <3>1
    <3> QED BY <2>1, <3>3, <3>5, <3>6
  <2>4. ASSUME ForceClose PROVE Tighter
    <3>1. bars[Len(bars)].close \in Int
      BY <2>0, ElementOfSeq, BarFacts
    <3>2. row.st = "OPEN" /\ row' = Closed(plan, row, bars[Len(bars)].close, "FORCED") /\ sim' = sim
      BY <2>4 DEF ForceClose
    <3>3. Advanced(plan, row, row')
      BY <2>0, <3>1, <3>2, ClosedSound
    <3> QED BY <2>1, <3>2, <3>3 DEF Advanced
  <2> QED BY <2>2, <2>3, <2>4 DEF Next
<1> QED BY <1>1, LifecycleInvariant, PTL DEF Spec, StopRatchets

\* OneAdvancePerBar: managing a bar again changes nothing.
THEOREM BarsCountOnce == Spec => OneAdvancePerBar
<1> DEFINE Once == seen = Len(bars) /\ ~forced' => row' = row
<1>1. LInv /\ [Next]_vars => [Once]_vars
  <2> SUFFICES ASSUME LInv, Next, seen = Len(bars), ~forced' PROVE row' = row
    BY DEF vars
  <2>0. /\ plan \in Plans /\ bars \in Seq(Bars) /\ Len(bars) \in Nat
        /\ Len(bars) >= Entry /\ Entry \in Nat \ {0} /\ Sound(plan, row)
    BY LenProperties, LifecycleAssumption DEF LInv
  <2>1. ASSUME NEW b \in Bars, NewBar(b) PROVE row' = row
    BY <2>1 DEF NewBar
  <2>2. ASSUME Manage PROVE row' = row
    <3>1. seen >= Entry
      BY <2>0
    <3>2. repaired
      BY <3>1 DEF LInv, Clock
    <3>3. row.st = "OPEN" /\ row' = SimulateFill(plan, row, bars[Len(bars)], Len(bars), FALSE)
      BY <2>2, <3>2 DEF Manage, Persisted
    <3>4. row.last = Len(bars)
      BY <3>1, <3>3 DEF LInv, Clock
    <3>5. ~Fresh(row, Len(bars))
      BY <2>0, <3>4 DEF Fresh
    <3> QED BY <3>3, <3>5 DEF SimulateFill
  <2>3. ASSUME ForceClose PROVE FALSE
    BY <2>3 DEF ForceClose
  <2> QED BY <2>1, <2>2, <2>3 DEF Next
<1> QED BY <1>1, LifecycleInvariant, PTL DEF Spec, OneAdvancePerBar

--------------------------------------------------------------------------------
(* The offline replay.                                                     *)

\* Plans without the exits the offline replay does not know.
Plain(p) == p.timeStop = 0 /\ p.chan = 0 /\ ~p.cross

ReplayRow ==
    [rem : Int, gross : Int, hits : 0 .. 3, be : BOOLEAN, trailing : BOOLEAN, stop : Int,
     outcome : {"EXPIRED", "SL", "BE", "TRAIL", "TP3"}]

\* The row of the replay holds what the open trade holds.
Alike(t, l) ==
    /\ l.rem = t.rem /\ l.gross = t.pnl /\ l.hits = t.hits /\ l.be = t.be
    /\ l.trailing = t.trailing /\ l.stop = t.stop

\* Between two bars: open together and alike, or both over with the same result.
Twin(t, l) ==
    /\ l \in ReplayRow
    /\ t.st = "OPEN" => l.outcome = "EXPIRED" /\ t.reason = "none" /\ Alike(t, l)
    /\ t.st = "CLOSED" => /\ l.outcome # "EXPIRED" /\ l.rem = 0 /\ l.gross = t.pnl
                          /\ t.reason \in {"SL", "BE", "TRAIL"} => l.outcome = t.reason

\* Between two targets: the replay climbs on after the one that left nothing.
Level(p, t, l) ==
    /\ l \in ReplayRow /\ l.outcome = "EXPIRED"
    /\ t.st = "OPEN" => t.reason = "none" /\ Alike(t, l)
    /\ t.st = "CLOSED" => /\ t.reason = "TP" /\ l.gross = t.pnl
                          /\ l.rem = 0 /\ Whole - TakenBy(p, l.hits) = 0

\* What a rung of the replay does.
LEMMA RungFacts ==
    ASSUME NEW p \in Plans, NEW l \in ReplayRow, NEW b \in Bars, NEW i \in 1 .. 3,
           l.hits = i - 1, b.fav >= p.tp[i],
           NEW v, v = Rung(p, l, b, i)
    PROVE  /\ v \in ReplayRow /\ v.outcome = l.outcome /\ v.hits = i
           /\ v.rem = l.rem - p.frac[i]
           /\ v.gross = l.gross + p.frac[i] * (p.tp[i] - p.entry)
           /\ v.trailing = (i = 3 /\ Runs(p) > 0)
           /\ v.be = ((i = 1 /\ p.moveBE) \/ l.be)
           /\ v.stop = IF i = 1 /\ p.moveBE THEN p.be
                       ELSE IF i = 2 THEN Highest({l.stop, p.tp[1]}) ELSE l.stop
<1>1. /\ p.entry \in Int /\ p.tp[i] \in Int /\ p.tp[1] \in Int /\ p.be \in Int
      /\ p.frac[i] \in Nat /\ p.moveBE \in BOOLEAN
  BY PlanFacts DEF PlanType
<1>2. l.rem \in Int /\ l.gross \in Int /\ l.stop \in Int /\ l.be \in BOOLEAN
  BY DEF ReplayRow
<1> DEFINE x == l.rem - p.frac[i]
           y == l.gross + p.frac[i] * (p.tp[i] - p.entry)
           z == i = 3 /\ Runs(p) > 0
           m == [l EXCEPT !.gross = y, !.rem = x, !.hits = i, !.trailing = z]
           h == Highest({l.stop, p.tp[1]})
<1>3. x \in Int /\ y \in Int /\ z \in BOOLEAN /\ i \in 0 .. 3
  BY <1>1, <1>2, SMT
<1>4. h \in Int
  BY <1>1, <1>2, HighestOfTwo
<1>5. v = Moved(p, m, i)
  <2>1. ~(l.hits # i - 1 \/ b.fav < p.tp[i])
    BY <1>1, BarFacts
  <2> QED BY <2>1, Zenon DEF Rung, x, y, z
<1> HIDE DEF x, y, z, h
<1>6. /\ m \in ReplayRow
      /\ m.outcome = l.outcome /\ m.hits = i /\ m.rem = x /\ m.gross = y /\ m.trailing = z
      /\ m.be = l.be /\ m.stop = l.stop
  BY <1>3, Zenon DEF ReplayRow
<1> HIDE DEF m
<1>7. CASE i = 1 /\ p.moveBE
  <2>1. v = [m EXCEPT !.stop = p.be, !.be = TRUE]
    BY <1>5, <1>7, Zenon DEF Moved
  <2>2. /\ v \in ReplayRow /\ v.stop = p.be /\ v.be = TRUE
        /\ v.outcome = m.outcome /\ v.hits = m.hits /\ v.rem = m.rem /\ v.gross = m.gross
        /\ v.trailing = m.trailing
    BY <1>1, <1>6, <2>1, Zenon DEF ReplayRow
  <2> QED BY <1>6, <1>7, <2>2, Zenon DEF x, y, z
<1>8. CASE i = 2
  <2>1. v = [m EXCEPT !.stop = h]
    <3>1. ~(i = 1 /\ p.moveBE)
      BY <1>8
    <3>2. h = Highest({m.stop, p.tp[1]})
      BY <1>6, Zenon DEF h
    <3>3. v = [m EXCEPT !.stop = Highest({m.stop, p.tp[1]})]
      BY <1>5, <1>8, <3>1, Zenon DEF Moved
    <3> QED BY <3>2, <3>3, Zenon
  <2>2. /\ v \in ReplayRow /\ v.stop = h /\ v.be = m.be
        /\ v.outcome = m.outcome /\ v.hits = m.hits /\ v.rem = m.rem /\ v.gross = m.gross
        /\ v.trailing = m.trailing
    BY <1>4, <1>6, <2>1, Zenon DEF ReplayRow
  <2>3. ~(i = 1 /\ p.moveBE)
    BY <1>8
  <2>4. v.be = ((i = 1 /\ p.moveBE) \/ l.be)
    BY <1>2, <1>6, <2>2, <2>3, Zenon
  <2> QED BY <1>6, <1>8, <2>2, <2>3, <2>4, Zenon DEF x, y, z, h
<1>9. CASE ~(i = 1 /\ p.moveBE) /\ i # 2
  <2>1. v = m
    BY <1>5, <1>9, Zenon DEF Moved
  <2>2. v.be = ((i = 1 /\ p.moveBE) \/ l.be)
    BY <1>2, <1>6, <1>9, <2>1, Zenon
  <2> QED BY <1>6, <1>9, <2>1, <2>2, Zenon DEF x, y, z
<1> QED BY <1>7, <1>8, <1>9

\* What a target of simulate_fill does.
LEMMA TargetFacts ==
    ASSUME NEW p \in Plans, NEW t \in Trade, NEW b \in Bars, NEW i \in 1 .. 3,
           t.st = "OPEN", t.hits = i - 1, b.fav >= p.tp[i], t.rem - p.frac[i] \in 0 .. Whole,
           NEW u, u = Target(p, t, b, i)
    PROVE  /\ u.pnl = t.pnl + p.frac[i] * (p.tp[i] - p.entry)
           /\ t.rem - p.frac[i] = 0 => u.st = "CLOSED" /\ u.reason = "TP"
           /\ t.rem - p.frac[i] # 0 =>
                /\ u.st = "OPEN" /\ u.reason = t.reason /\ u.hits = i
                /\ u.rem = t.rem - p.frac[i]
                /\ u.trailing = (i = 3 \/ t.trailing)
                /\ u.be = ((i = 1 /\ p.moveBE) \/ t.be)
                /\ u.stop = IF i = 1 /\ p.moveBE THEN p.be
                            ELSE IF i = 2 THEN Highest({t.stop, p.tp[1]}) ELSE t.stop
<1>1. /\ p.entry \in Int /\ p.tp[i] \in Int /\ p.tp[1] \in Int /\ p.be \in Int
      /\ p.frac[i] \in Nat /\ p.moveBE \in BOOLEAN
  BY PlanFacts DEF PlanType
<1>2. t.rem \in Int /\ t.pnl \in Int /\ t.stop \in Int /\ t.be \in BOOLEAN /\ t.trailing \in BOOLEAN
  BY LifecycleAssumption DEF Trade
<1> DEFINE x == t.rem - p.frac[i]
           y == t.pnl + p.frac[i] * (p.tp[i] - p.entry)
           m == [t EXCEPT !.rem = x, !.pnl = y, !.hits = i]
           h == Highest({t.stop, p.tp[1]})
<1>3. x \in 0 .. Whole /\ y \in Int /\ i \in 0 .. 3
  BY <1>1, <1>2, SMT
<1>4. h \in Int
  BY <1>1, <1>2, HighestOfTwo
<1>5. u = IF m.rem = 0 THEN [m EXCEPT !.st = "CLOSED", !.reason = "TP"] ELSE Secured(p, m, i)
  BY DEF Target, Take, Trade
<1> HIDE DEF x, y, h
<1>6. /\ m \in Trade
      /\ m.st = t.st /\ m.hits = i /\ m.rem = x /\ m.pnl = y /\ m.trailing = t.trailing
      /\ m.be = t.be /\ m.stop = t.stop /\ m.reason = t.reason
  BY <1>3, Zenon DEF Trade
<1> HIDE DEF m
<1>7. CASE x = 0
  <2>1. u = [m EXCEPT !.st = "CLOSED", !.reason = "TP"]
    BY <1>5, <1>6, <1>7, Zenon
  <2>2. u.pnl = m.pnl /\ u.st = "CLOSED" /\ u.reason = "TP"
    BY <1>6, <2>1, Zenon DEF Trade
  <2> QED BY <1>6, <1>7, <2>2, Zenon DEF x, y
<1>8. CASE x # 0
  <2>1. u = Secured(p, m, i)
    BY <1>5, <1>6, <1>8, Zenon
  <2>2. CASE i = 1 /\ p.moveBE
    <3>1. u = [m EXCEPT !.stop = p.be, !.be = TRUE]
      BY <2>1, <2>2, Zenon DEF Secured
    <3>2. /\ u.stop = p.be /\ u.be = TRUE /\ u.st = m.st /\ u.reason = m.reason
          /\ u.hits = m.hits /\ u.rem = m.rem /\ u.pnl = m.pnl /\ u.trailing = m.trailing
      BY <1>6, <3>1, Zenon DEF Trade
    <3>3. u.trailing = (i = 3 \/ t.trailing)
      <4>1. i # 3
        BY <2>2
      <4> QED BY <1>2, <1>6, <3>2, <4>1, Zenon
    <3> QED BY <1>6, <1>8, <2>2, <3>2, <3>3, Zenon DEF x, y
  <2>3. CASE i = 2
    <3>1. ~(i = 1 /\ p.moveBE) /\ i # 3
      BY <2>3
    <3>2. u = [m EXCEPT !.stop = h]
      <4>1. h = Highest({m.stop, p.tp[1]})
        BY <1>6, Zenon DEF h
      <4>2. u = [m EXCEPT !.stop = Highest({m.stop, p.tp[1]})]
        BY <2>1, <2>3, <3>1, Zenon DEF Secured
      <4> QED BY <4>1, <4>2, Zenon
    <3>3. /\ u.stop = h /\ u.be = m.be /\ u.st = m.st /\ u.reason = m.reason
          /\ u.hits = m.hits /\ u.rem = m.rem /\ u.pnl = m.pnl /\ u.trailing = m.trailing
      BY <1>6, <3>2, Zenon DEF Trade
    <3>4. u.trailing = (i = 3 \/ t.trailing) /\ u.be = ((i = 1 /\ p.moveBE) \/ t.be)
      BY <1>2, <1>6, <3>1, <3>3, Zenon
    <3> QED BY <1>6, <1>8, <2>3, <3>1, <3>3, <3>4, Zenon DEF x, y, h
  <2>4. CASE i = 3
    <3>1. ~(i = 1 /\ p.moveBE) /\ i # 2
      BY <2>4
    <3>2. u = [m EXCEPT !.trailing = TRUE]
      BY <2>1, <2>4, <3>1, Zenon DEF Secured
    <3>3. /\ u.trailing = TRUE /\ u.be = m.be /\ u.st = m.st /\ u.reason = m.reason
          /\ u.hits = m.hits /\ u.rem = m.rem /\ u.pnl = m.pnl /\ u.stop = m.stop
      BY <1>6, <3>2, Zenon DEF Trade
    <3>4. u.trailing = (i = 3 \/ t.trailing) /\ u.be = ((i = 1 /\ p.moveBE) \/ t.be)
      BY <1>2, <1>6, <2>4, <3>1, <3>3, Zenon
    <3> QED BY <1>6, <1>8, <2>4, <3>1, <3>3, <3>4, Zenon DEF x, y
  <2>5. CASE ~(i = 1 /\ p.moveBE) /\ i # 2 /\ i # 3
    <3>1. u = m
      BY <2>1, <2>5, Zenon DEF Secured
    <3>2. u.trailing = (i = 3 \/ t.trailing) /\ u.be = ((i = 1 /\ p.moveBE) \/ t.be)
      BY <1>2, <1>6, <2>5, <3>1, Zenon
    <3>3. t.st = "OPEN"
      OBVIOUS
    <3> QED BY <1>6, <1>8, <2>5, <3>1, <3>2, <3>3, Zenon DEF x, y
  <2> QED BY <2>2, <2>3, <2>4, <2>5
<1> QED BY <1>7, <1>8

\* What the taken targets leave of a sound open trade that reaches its next one.
LEMMA LeftAfter ==
    ASSUME NEW p \in Plans, NEW i \in 1 .. 3
    PROVE  /\ TakenBy(p, i - 1) \in Nat /\ p.frac[i] \in Nat
           /\ TakenBy(p, i) = TakenBy(p, i - 1) + p.frac[i] /\ TakenBy(p, i) <= Whole
           /\ i = 3 => Whole - TakenBy(p, i) = Runs(p)
<1>1. /\ p.frac[1] \in Nat /\ p.frac[2] \in Nat /\ p.frac[3] \in Nat /\ p.frac[i] \in Nat
      /\ Plan(p) /\ Whole \in Nat
  BY PlanFacts, LifecycleAssumption DEF PlanType
<1>2. CASE i = 1 BY <1>1, <1>2 DEF TakenBy, Plan
<1>3. CASE i = 2 BY <1>1, <1>3 DEF TakenBy, Plan
<1>4. CASE i = 3 BY <1>1, <1>4 DEF TakenBy, Plan, Runs
<1> QED BY <1>2, <1>3, <1>4

\* A target and its rung keep the trade and the replay level.
LEMMA RungLevel ==
    ASSUME NEW p \in Plans, NEW t, Sound(p, t), NEW l, Level(p, t, l),
           NEW b \in Bars, NEW i \in 1 .. 3
    PROVE  Level(p, Target(p, t, b, i), Rung(p, l, b, i))
<1>1. PICK u : u = Target(p, t, b, i)
  OBVIOUS
<1>2. PICK v : v = Rung(p, l, b, i)
  OBVIOUS
<1> SUFFICES Level(p, u, v)
  BY <1>1, <1>2, Zenon
<1>3. /\ t \in Trade /\ t.st \in {"OPEN", "CLOSED"} /\ t.rem \in Int /\ t.pnl \in Int
      /\ t.hits \in 0 .. 3 /\ t.trailing \in BOOLEAN /\ t.be \in BOOLEAN /\ t.stop \in Int
  BY LifecycleAssumption DEF Sound, Trade
<1>4. /\ l \in ReplayRow /\ l.outcome = "EXPIRED" /\ l.hits \in 0 .. 3 /\ l.rem \in Int
      /\ l.gross \in Int
  BY DEF Level, ReplayRow
<1>5. p.tp[i] \in Int /\ b.fav \in Int /\ p.entry \in Int
  BY PlanFacts, BarFacts DEF PlanType
<1>6. CASE l.hits # i - 1 \/ b.fav < p.tp[i]
  <2>1. v = l
    BY <1>2, <1>6, Zenon DEF Rung
  <2>2. ~(t.st = "OPEN" /\ t.hits = i - 1 /\ b.fav >= p.tp[i])
    <3>1. t.st = "OPEN" => l.hits = t.hits
      BY DEF Level, Alike
    <3> QED BY <1>3, <1>4, <1>5, <1>6, <3>1
  <2>3. u = t
    BY <1>1, <2>2, Zenon DEF Target
  <2> QED BY <2>1, <2>3, Zenon
<1>7. CASE l.hits = i - 1 /\ b.fav >= p.tp[i]
  <2>1. /\ v \in ReplayRow /\ v.outcome = l.outcome /\ v.hits = i
        /\ v.rem = l.rem - p.frac[i]
        /\ v.gross = l.gross + p.frac[i] * (p.tp[i] - p.entry)
        /\ v.trailing = (i = 3 /\ Runs(p) > 0)
        /\ v.be = ((i = 1 /\ p.moveBE) \/ l.be)
        /\ v.stop = IF i = 1 /\ p.moveBE THEN p.be
                    ELSE IF i = 2 THEN Highest({l.stop, p.tp[1]}) ELSE l.stop
    BY <1>2, <1>4, <1>7, RungFacts
  <2>2. /\ TakenBy(p, i - 1) \in Nat /\ p.frac[i] \in Nat /\ Whole \in Nat
        /\ TakenBy(p, i) = TakenBy(p, i - 1) + p.frac[i] /\ TakenBy(p, i) <= Whole
        /\ i = 3 => Whole - TakenBy(p, i) = Runs(p)
    BY LeftAfter, LifecycleAssumption
  <2>3. CASE t.st = "CLOSED"
    <3>1. t.reason = "TP" /\ l.gross = t.pnl /\ l.rem = 0 /\ Whole - TakenBy(p, i - 1) = 0
      BY <1>7, <2>3 DEF Level
    <3>2. u = t
      BY <1>1, <2>3 DEF Target
    <3>3. p.frac[i] = 0
      BY <2>2, <3>1
    <3>4. p.frac[i] * (p.tp[i] - p.entry) = 0
      BY <1>5, <3>3
    <3>5. v.rem = 0 /\ v.gross = l.gross /\ Whole - TakenBy(p, i) = 0
      BY <1>4, <2>1, <2>2, <3>1, <3>3, <3>4
    <3> QED BY <1>4, <2>1, <2>3, <3>1, <3>2, <3>5 DEF Level
  <2>4. CASE t.st = "OPEN"
    <3>1. t.reason = "none" /\ Alike(t, l) /\ t.hits = i - 1
      BY <1>7, <2>4 DEF Level, Alike
    <3>2. t.rem = Whole - TakenBy(p, i - 1) /\ ~t.trailing
      <4>1. t.rem = Whole - TakenBy(p, t.hits)
        BY <2>4 DEF Sound, ConservedIn
      <4>2. t.hits # 3
        BY <3>1
      <4> QED BY <3>1, <4>1, <4>2 DEF Sound
    <3>3. t.rem - p.frac[i] = Whole - TakenBy(p, i) /\ t.rem - p.frac[i] \in 0 .. Whole
      BY <1>3, <2>2, <3>2
    <3>4. /\ u.pnl = t.pnl + p.frac[i] * (p.tp[i] - p.entry)
          /\ t.rem - p.frac[i] = 0 => u.st = "CLOSED" /\ u.reason = "TP"
          /\ t.rem - p.frac[i] # 0 =>
               /\ u.st = "OPEN" /\ u.reason = t.reason /\ u.hits = i
               /\ u.rem = t.rem - p.frac[i]
               /\ u.trailing = (i = 3 \/ t.trailing)
               /\ u.be = ((i = 1 /\ p.moveBE) \/ t.be)
               /\ u.stop = IF i = 1 /\ p.moveBE THEN p.be
                           ELSE IF i = 2 THEN Highest({t.stop, p.tp[1]}) ELSE t.stop
      <4>1. t \in Trade /\ b.fav >= p.tp[i] /\ t.hits = i - 1
        BY <1>3, <1>7, <3>1
      <4> QED BY <1>1, <2>4, <3>3, <4>1, TargetFacts
    <3>5. v.gross = u.pnl /\ v.rem = t.rem - p.frac[i]
      BY <2>1, <3>1, <3>4, Zenon DEF Alike
    <3>6. CASE t.rem - p.frac[i] = 0
      <4>1. u.st = "CLOSED" /\ u.reason = "TP" /\ v.rem = 0 /\ Whole - TakenBy(p, v.hits) = 0
        BY <2>1, <3>3, <3>4, <3>5, <3>6
      <4> QED BY <1>4, <2>1, <3>5, <4>1 DEF Level
    <3>7. CASE t.rem - p.frac[i] # 0
      <4>1. i = 3 => Runs(p) > 0
        BY <2>2, <3>3, <3>7
      <4>2. v.trailing = u.trailing
        BY <1>3, <2>1, <3>2, <3>4, <3>7, <4>1, Zenon
      <4>3. v.stop = u.stop
        BY <2>1, <3>1, <3>4, <3>7, Zenon DEF Alike
      <4>4. v.be = u.be
        BY <2>1, <3>1, <3>4, <3>7, Zenon DEF Alike
      <4>5. u.st = "OPEN" /\ u.reason = "none" /\ v.rem = u.rem /\ v.hits = u.hits
        BY <2>1, <3>1, <3>4, <3>5, <3>7, Zenon
      <4> QED BY <1>4, <2>1, <3>5, <4>2, <4>3, <4>4, <4>5 DEF Level, Alike
    <3> QED BY <3>6, <3>7
  <2> QED BY <1>3, <2>3, <2>4
<1> QED BY <1>3, <1>4, <1>5, <1>6, <1>7

\* After its targets a bar leaves the trade and the replay twins.
LEMMA ClimbTwin ==
    ASSUME NEW p \in Plans, NEW t, Sound(p, t), NEW l, Level(p, t, l), NEW b \in Bars
    PROVE  Twin(Targets(p, t, b), Climbed(p, l, b))
<1>1. PICK t1 : t1 = Target(p, t, b, 1)
  OBVIOUS
<1>2. PICK t2 : t2 = Target(p, t1, b, 2)
  OBVIOUS
<1>3. PICK t3 : t3 = Target(p, t2, b, 3)
  OBVIOUS
<1>4. PICK l1 : l1 = Rung(p, l, b, 1)
  OBVIOUS
<1>5. PICK l2 : l2 = Rung(p, l1, b, 2)
  OBVIOUS
<1>6. PICK l3 : l3 = Rung(p, l2, b, 3)
  OBVIOUS
<1>7. Sound(p, t1) /\ Level(p, t1, l1)
  <2>1. Advanced(p, t, t1)
    BY <1>1, TargetSound
  <2>2. Level(p, t1, l1)
    BY <1>1, <1>4, RungLevel
  <2> QED BY <2>1, <2>2 DEF Advanced
<1>8. Sound(p, t2) /\ Level(p, t2, l2)
  <2>1. Advanced(p, t1, t2)
    BY <1>2, <1>7, TargetSound
  <2>2. Level(p, t2, l2)
    BY <1>2, <1>5, <1>7, RungLevel
  <2> QED BY <2>1, <2>2 DEF Advanced
<1>9. Sound(p, t3) /\ Level(p, t3, l3)
  <2>1. Advanced(p, t2, t3)
    BY <1>3, <1>8, TargetSound
  <2>2. Level(p, t3, l3)
    BY <1>3, <1>6, <1>8, RungLevel
  <2> QED BY <2>1, <2>2 DEF Advanced
<1>10. Targets(p, t, b) = t3
  BY <1>1, <1>2, <1>3, Zenon DEF Targets
<1>11. PICK v : v = Climbed(p, l, b)
  OBVIOUS
<1>12. v = IF l3.rem = 0 THEN [l3 EXCEPT !.outcome = "TP3"] ELSE l3
  BY <1>4, <1>5, <1>6, <1>11, Zenon DEF Climbed
<1>13. l3 \in ReplayRow /\ t3.st \in {"OPEN", "CLOSED"} /\ t3.rem \in Int
  BY <1>9, LifecycleAssumption DEF Level, Sound, Trade
<1>14. CASE t3.st = "OPEN"
  <2>1. t3.reason = "none" /\ Alike(t3, l3) /\ l3.outcome = "EXPIRED"
    BY <1>9, <1>14 DEF Level
  <2>2. t3.rem > 0
    BY <1>9, <1>14 DEF Sound, ConservedIn
  <2>3. l3.rem # 0
    BY <1>13, <2>1, <2>2 DEF Alike
  <2>4. v = l3
    BY <1>12, <2>3
  <2>5. Twin(t3, v)
    BY <1>13, <1>14, <2>1, <2>4, Zenon DEF Twin
  <2> QED BY <1>10, <1>11, <2>5, Zenon
<1>15. CASE t3.st = "CLOSED"
  <2>1. t3.reason = "TP" /\ l3.gross = t3.pnl /\ l3.rem = 0
    BY <1>9, <1>15 DEF Level
  <2>2. v = [l3 EXCEPT !.outcome = "TP3"]
    BY <1>12, <2>1
  <2>3. v \in ReplayRow /\ v.outcome = "TP3" /\ v.rem = l3.rem /\ v.gross = l3.gross
    BY <1>13, <2>2, Zenon DEF ReplayRow
  <2>4. v.outcome # "EXPIRED" /\ t3.reason \notin {"SL", "BE", "TRAIL"}
    BY <2>1, <2>3
  <2>5. Twin(t3, v)
    <3>1. t3.st # "OPEN"
      BY <1>15
    <3> QED BY <2>1, <2>3, <2>4, <3>1, Zenon DEF Twin
  <2> QED BY <1>10, <1>11, <2>5, Zenon
<1> QED BY <1>13, <1>14, <1>15

\* The stop closes both at the same price for the same reason.
LEMMA StopTwin ==
    ASSUME NEW p \in Plans, NEW t \in Trade, t.st = "OPEN", NEW l \in ReplayRow, Alike(t, l)
    PROVE  Twin(Closed(p, t, t.stop, StopReason(t)), StoppedOut(p, l))
<1> DEFINE r == StopReason(t)
           y == t.pnl + t.rem * (t.stop - p.entry)
           x == t.rem - t.rem
<1>1. p.entry \in Int
  BY PlanFacts DEF PlanType
<1>2. t.rem \in Int /\ t.pnl \in Int /\ t.stop \in Int
  BY LifecycleAssumption DEF Trade
<1>3. y \in Int
  BY <1>1, <1>2, SMT
<1>4. r \in {"SL", "BE", "TRAIL"}
  BY DEF StopReason
<1>5. PICK u : u = Closed(p, t, t.stop, r)
  OBVIOUS
<1>6. u = [t EXCEPT !.rem = x, !.pnl = y, !.st = "CLOSED", !.reason = r]
  BY <1>2, <1>5 DEF Closed, Take, Trade
<1>7. PICK v : v = StoppedOut(p, l)
  OBVIOUS
<1>8. v = [l EXCEPT !.gross = y, !.rem = 0, !.outcome = r]
  <2>1. l.gross + l.rem * (l.stop - p.entry) = y
    BY DEF Alike
  <2>2. (IF l.trailing THEN "TRAIL" ELSE IF l.be THEN "BE" ELSE "SL") = r
    BY Zenon DEF Alike, StopReason
  <2> DEFINE g == l.gross + l.rem * (l.stop - p.entry)
             o == IF l.trailing THEN "TRAIL" ELSE IF l.be THEN "BE" ELSE "SL"
  <2>3. v = [l EXCEPT !.gross = g, !.rem = 0, !.outcome = o]
    BY <1>7, Zenon DEF StoppedOut
  <2> HIDE DEF g, o
  <2>4. g = y /\ o = r
    BY <2>1, <2>2, Zenon DEF g, o
  <2> HIDE DEF y, r
  <2> QED BY <2>3, <2>4, Zenon
<1> HIDE DEF x, y, r
<1>9. u.st = "CLOSED" /\ u.reason = r /\ u.pnl = y
  BY <1>6, Zenon DEF Trade
<1>10. 0 \in Int /\ r \in {"EXPIRED", "SL", "BE", "TRAIL", "TP3"} /\ r # "EXPIRED"
  BY <1>4
<1>11. v \in ReplayRow /\ v.gross = y /\ v.rem = 0 /\ v.outcome = r
  BY <1>3, <1>8, <1>10, Zenon DEF ReplayRow
<1>12. Twin(u, v)
  <2>1. u.st # "OPEN"
    BY <1>9
  <2> QED BY <1>9, <1>10, <1>11, <2>1, Zenon DEF Twin
<1> QED BY <1>5, <1>7, <1>12, Zenon DEF r

\* Counting the bar and moving the trailing stop keep the two alike.
LEMMA TrailAlike ==
    ASSUME NEW p \in Plans, NEW t \in Trade, NEW n \in Nat, NEW l \in ReplayRow, Alike(t, l),
           t.st = "OPEN", t.reason = "none", l.outcome = "EXPIRED", NEW b \in Bars
    PROVE  \A u, v : u = Trailed(p, Counted(t, n), b, TRUE) /\ v = Ratcheted(p, l, b) =>
             /\ v \in ReplayRow /\ v.outcome = "EXPIRED" /\ Alike(u, v)
             /\ u.st = "OPEN" /\ u.reason = "none"
<1> SUFFICES ASSUME NEW u, u = Trailed(p, Counted(t, n), b, TRUE),
                    NEW v, v = Ratcheted(p, l, b)
             PROVE  /\ v \in ReplayRow /\ v.outcome = "EXPIRED" /\ Alike(u, v)
                    /\ u.st = "OPEN" /\ u.reason = "none"
  OBVIOUS
<1> DEFINE h == t.held + 1
           c == [t EXCEPT !.last = n, !.held = h]
           x == Highest({t.stop, b.close - p.trail})
<1>1. h \in Nat
  BY DEF Trade
<1>2. x \in Int
  <2>1. t.stop \in Int /\ b.close - p.trail \in Int
    <3>1. t.stop \in Int
      BY Zenon DEF Trade
    <3>2. b.close \in Int
      BY BarFacts, Zenon
    <3>3. p.trail \in Int
      <4>1. p.trail \in Nat
        BY PlanFacts, Zenon DEF PlanType
      <4> QED BY <4>1
    <3> QED BY <3>1, <3>2, <3>3
  <2> QED BY <2>1, HighestOfTwo
<1>3. Counted(t, n) = c
  BY Zenon DEF Counted
<1> HIDE DEF h, x
<1>4. /\ c \in Trade /\ c.st = t.st /\ c.reason = t.reason /\ c.rem = t.rem /\ c.pnl = t.pnl
      /\ c.hits = t.hits /\ c.be = t.be /\ c.trailing = t.trailing /\ c.stop = t.stop
  BY <1>1, Zenon DEF Trade
<1> HIDE DEF c
<1>5. CASE t.trailing
  <2>1. u = [c EXCEPT !.stop = x]
    <3>1. x = Highest({c.stop, b.close - p.trail})
      BY <1>4, Zenon DEF x
    <3>2. u = [c EXCEPT !.stop = Highest({c.stop, b.close - p.trail})]
      BY <1>3, <1>4, <1>5, Zenon DEF Trailed
    <3> QED BY <3>1, <3>2, Zenon
  <2>2. /\ u.stop = x /\ u.st = c.st /\ u.reason = c.reason /\ u.rem = c.rem /\ u.pnl = c.pnl
        /\ u.hits = c.hits /\ u.be = c.be /\ u.trailing = c.trailing
    BY <1>2, <1>4, <2>1, Zenon DEF Trade
  <2>3. v = [l EXCEPT !.stop = x]
    <3>1. x = Highest({l.stop, b.close - p.trail}) /\ l.trailing
      BY <1>5, Zenon DEF x, Alike
    <3> DEFINE g == IF l.trailing THEN Highest({l.stop, b.close - p.trail}) ELSE l.stop
    <3>2. v = [l EXCEPT !.stop = g]
      BY Zenon DEF Ratcheted
    <3>3. g = x
      BY <3>1, Zenon
    <3> QED BY <3>2, <3>3, Zenon
  <2>4. /\ v \in ReplayRow /\ v.stop = x /\ v.outcome = l.outcome /\ v.rem = l.rem
        /\ v.gross = l.gross /\ v.hits = l.hits /\ v.be = l.be /\ v.trailing = l.trailing
    BY <1>2, <2>3, Zenon DEF ReplayRow
  <2> QED BY <1>4, <2>2, <2>4, Zenon DEF Alike
<1>6. CASE ~t.trailing
  <2>1. u = c
    BY <1>3, <1>4, <1>6, Zenon DEF Trailed
  <2>2. v = l
    <3> DEFINE g == IF l.trailing THEN Highest({l.stop, b.close - p.trail}) ELSE l.stop
    <3>1. v = [l EXCEPT !.stop = g]
      BY Zenon DEF Ratcheted
    <3>2. g = l.stop
      BY <1>6, Zenon DEF Alike
    <3> HIDE DEF g
    <3>3. v = [l EXCEPT !.stop = l.stop]
      BY <3>1, <3>2, Zenon
    <3> QED BY <3>3 DEF ReplayRow
  <2> QED BY <1>4, <2>1, <2>2, Zenon DEF Alike
<1> QED BY <1>5, <1>6

\* One bar keeps the backtest's trade and the replay twins.
LEMMA BarTwin ==
    ASSUME NEW p \in Plans, Plain(p), NEW t, Sound(p, t), NEW l, Twin(t, l), NEW b \in Bars,
           NEW n \in Nat, n > Entry, n > t.last
    PROVE  Twin(SimulateFill(p, t, b, n, TRUE), Replayed(p, l, b))
<1>0. t \in Trade /\ t.st \in {"OPEN", "CLOSED"} /\ l \in ReplayRow
  BY DEF Sound, Trade, Twin
<1>1. CASE t.st = "CLOSED"
  <2>1. ~Fresh(t, n) /\ l.outcome # "EXPIRED"
    BY <1>1 DEF Fresh, Twin
  <2>2. SimulateFill(p, t, b, n, TRUE) = t
    BY <2>1, Zenon DEF SimulateFill
  <2>3. Replayed(p, l, b) = l
    BY <2>1, Zenon DEF Replayed, Done
  <2> QED BY <2>2, <2>3, Zenon
<1>2. CASE t.st = "OPEN"
  <2>1. l.outcome = "EXPIRED" /\ t.reason = "none" /\ Alike(t, l)
    BY <1>2 DEF Twin
  <2>2. PICK u : u = Trailed(p, Counted(t, n), b, TRUE)
    OBVIOUS
  <2>3. PICK v : v = Ratcheted(p, l, b)
    OBVIOUS
  <2>4. /\ v \in ReplayRow /\ v.outcome = "EXPIRED" /\ Alike(u, v)
        /\ u.st = "OPEN" /\ u.reason = "none"
    <3>1. t \in Trade /\ l \in ReplayRow /\ t.st = "OPEN" /\ b \in Bars
      BY <1>0, <1>2
    <3>2. \A x, y : x = Trailed(p, Counted(t, n), b, TRUE) /\ y = Ratcheted(p, l, b) =>
            /\ y \in ReplayRow /\ y.outcome = "EXPIRED" /\ Alike(x, y)
            /\ x.st = "OPEN" /\ x.reason = "none"
      BY <2>1, <3>1, TrailAlike, Zenon
    <3> QED BY <2>2, <2>3, <3>2, Zenon
  <2>5. Sound(p, u)
    BY <2>2, CountedSound, TrailedSound, Zenon DEF Advanced
  <2>6. Fresh(t, n)
    BY <1>2 DEF Fresh
  <2>7. SimulateFill(p, t, b, n, TRUE) =
          IF b.adv <= u.stop THEN Closed(p, u, u.stop, StopReason(u))
          ELSE Exits(p, Targets(p, u, b), b)
    BY <2>2, <2>6, Zenon DEF SimulateFill
  <2>8. Replayed(p, l, b) = IF b.adv <= v.stop THEN StoppedOut(p, v) ELSE Climbed(p, v, b)
    BY <2>1, <2>3, Zenon DEF Replayed, Done
  <2>9. v.stop = u.stop
    BY <2>4 DEF Alike
  <2>10. CASE b.adv <= u.stop
    <3>1. Twin(Closed(p, u, u.stop, StopReason(u)), StoppedOut(p, v))
      BY <2>4, <2>5, StopTwin DEF Sound
    <3> QED BY <2>7, <2>8, <2>9, <2>10, <3>1, Zenon
  <2>11. CASE ~(b.adv <= u.stop)
    <3>1. Level(p, u, v)
      BY <2>4 DEF Level
    <3>2. Twin(Targets(p, u, b), Climbed(p, v, b))
      BY <2>5, <3>1, ClimbTwin
    <3>3. PICK w : w = Targets(p, u, b)
      OBVIOUS
    <3>4. TimeExit(p, w, b) = w
      <4>1. ~(p.timeStop > 0)
        BY DEF Plain
      <4> QED BY <4>1, Zenon DEF TimeExit
    <3>5. ChannelExit(p, w, b) = w
      BY Zenon DEF ChannelExit, Plain
    <3>6. CrossExit(p, w, b) = w
      BY Zenon DEF CrossExit, Plain
    <3>7. Exits(p, w, b) = w
      BY <3>4, <3>5, <3>6, Zenon DEF Exits
    <3> QED BY <2>7, <2>8, <2>9, <2>11, <3>2, <3>3, <3>7, Zenon
  <2> QED BY <2>10, <2>11
<1> QED BY <1>0, <1>1, <1>2

\* The replay's rows, bar by bar.
Walk(p, s, w) ==
    w = [n \in Entry .. Len(s) |->
           IF n = Entry THEN NewReplay(p) ELSE Replayed(p, w[n - 1], s[n])]

\* While there is a walk, Replay returns the end of one.
LEMMA ReplayEnds ==
    ASSUME NEW p, NEW s, NEW w, Walk(p, s, w)
    PROVE  \E v : Walk(p, s, v) /\ Replay(p, s) = v[Len(s)]
<1> DEFINE c == CHOOSE v : Walk(p, s, v)
<1>1. Walk(p, s, c)
  BY Zenon
<1>2. Replay(p, s) = c[Len(s)]
  BY Zenon DEF Replay, Walk
<1> HIDE DEF c
<1> QED BY <1>1, <1>2

\* One walk after another bar: the old one and its next row.
LEMMA WalkGrows ==
    ASSUME NEW p, NEW s \in Seq(Bars), Len(s) >= Entry, NEW b \in Bars, NEW w, Walk(p, s, w)
    PROVE  \E v : Walk(p, Append(s, b), v)
<1> DEFINE s1 == Append(s, b)
<1>1. /\ Entry \in Nat /\ Len(s) \in Nat /\ Len(s1) = Len(s) + 1
      /\ s1[Len(s) + 1] = b /\ \A n \in 1 .. Len(s) : s1[n] = s[n]
  BY AppendProperties, LenProperties, LifecycleAssumption
<1> HIDE DEF s1
<1> DEFINE v == [n \in Entry .. Len(s1) |->
                   IF n <= Len(s) THEN w[n] ELSE Replayed(p, w[Len(s)], b)]
<1>2. ASSUME NEW n \in Entry .. Len(s1)
      PROVE  v[n] = IF n = Entry THEN NewReplay(p) ELSE Replayed(p, v[n - 1], s1[n])
  <2>1. CASE n = Entry
    <3>1. n <= Len(s) /\ n \in Entry .. Len(s)
      BY <1>1, <2>1
    <3>2. w[n] = NewReplay(p)
      BY <2>1, <3>1, Zenon DEF Walk
    <3> QED BY <2>1, <3>1, <3>2, Zenon
  <2>2. CASE n # Entry /\ n <= Len(s)
    <3>1. /\ n \in Entry .. Len(s) /\ n \in 1 .. Len(s) /\ n - 1 \in Entry .. Len(s1)
          /\ n - 1 <= Len(s)
      BY <1>1, <2>2, LifecycleAssumption
    <3>2. w[n] = Replayed(p, w[n - 1], s[n])
      BY <2>2, <3>1, Zenon DEF Walk
    <3>3. s1[n] = s[n]
      BY <1>1, <3>1, Zenon
    <3>4. v[n] = w[n] /\ v[n - 1] = w[n - 1]
      BY <3>1, <2>2, Zenon
    <3> QED BY <2>2, <3>2, <3>3, <3>4, Zenon
  <2>3. CASE ~(n <= Len(s))
    <3>1. n = Len(s) + 1 /\ n - 1 = Len(s) /\ n # Entry /\ n - 1 \in Entry .. Len(s1)
          /\ n - 1 <= Len(s)
      BY <1>1, <2>3
    <3>2. v[n] = Replayed(p, w[Len(s)], b)
      BY <2>3, Zenon
    <3>3. v[n - 1] = w[Len(s)]
      BY <3>1, Zenon
    <3>4. s1[n] = b
      BY <1>1, <3>1, Zenon
    <3> QED BY <3>1, <3>2, <3>3, <3>4, Zenon
  <2> QED BY <1>1, <2>1, <2>2, <2>3
<1>3. v = [n \in Entry .. Len(s1) |-> v[n]]
  BY Zenon
<1> HIDE DEF v
<1>4. Walk(p, s1, v)
  BY <1>2, <1>3, Zenon DEF Walk
<1> QED BY <1>4 DEF s1

\* A walk over one more bar begins with a walk and ends with its next row.
LEMMA WalkShrinks ==
    ASSUME NEW p, NEW s \in Seq(Bars), Len(s) >= Entry, NEW b \in Bars,
           NEW v, Walk(p, Append(s, b), v)
    PROVE  \E w : Walk(p, s, w) /\ v[Len(s) + 1] = Replayed(p, w[Len(s)], b)
<1> DEFINE s1 == Append(s, b)
<1>1. /\ Entry \in Nat /\ Len(s) \in Nat /\ Len(s1) = Len(s) + 1
      /\ s1[Len(s) + 1] = b /\ \A n \in 1 .. Len(s) : s1[n] = s[n]
  BY AppendProperties, LenProperties, LifecycleAssumption
<1>0. Walk(p, s1, v)
  OBVIOUS
<1> HIDE DEF s1
<1> DEFINE w == [n \in Entry .. Len(s) |-> v[n]]
<1>2. ASSUME NEW n \in Entry .. Len(s)
      PROVE  w[n] = IF n = Entry THEN NewReplay(p) ELSE Replayed(p, w[n - 1], s[n])
  <2>1. n \in Entry .. Len(s1) /\ n \in 1 .. Len(s)
    BY <1>1, LifecycleAssumption
  <2>2. v[n] = IF n = Entry THEN NewReplay(p) ELSE Replayed(p, v[n - 1], s1[n])
    BY <1>0, <2>1, Zenon DEF Walk
  <2>3. s1[n] = s[n] /\ w[n] = v[n]
    BY <1>1, <2>1, Zenon
  <2>4. CASE n = Entry
    BY <2>2, <2>3, <2>4, Zenon
  <2>5. CASE n # Entry
    <3>1. n - 1 \in Entry .. Len(s)
      BY <1>1, <2>5
    <3>2. w[n - 1] = v[n - 1]
      BY <3>1, Zenon
    <3> QED BY <2>2, <2>3, <2>5, <3>2, Zenon
  <2> QED BY <2>4, <2>5
<1>3. w = [n \in Entry .. Len(s) |-> w[n]]
  BY Zenon
<1>4. w[Len(s)] = v[Len(s)]
  <2>1. Len(s) \in Entry .. Len(s)
    BY <1>1
  <2> QED BY <2>1, Zenon
<1> HIDE DEF w
<1>5. Walk(p, s, w)
  BY <1>2, <1>3, Zenon DEF Walk
<1>6. v[Len(s) + 1] = Replayed(p, v[Len(s)], b)
  <2>1. /\ Len(s) + 1 \in Entry .. Len(s1) /\ Len(s) + 1 # Entry
        /\ (Len(s) + 1) - 1 = Len(s)
    BY <1>1
  <2>2. v[Len(s) + 1] = Replayed(p, v[(Len(s) + 1) - 1], s1[Len(s) + 1])
    BY <1>0, <2>1, Zenon DEF Walk
  <2> QED BY <1>1, <2>1, <2>2, Zenon
<1> QED BY <1>4, <1>5, <1>6, Zenon

\* A trade just opened and a replay not begun are twins.
LEMMA WalkStarts ==
    ASSUME NEW p \in Plans, NEW s, Len(s) = Entry
    PROVE  /\ \E w : Walk(p, s, w)
           /\ \A w : Walk(p, s, w) => Twin(NewTrade(p, s), w[Len(s)])
<1>1. Entry \in Entry .. Entry /\ Entry .. Entry = {Entry}
  BY LifecycleAssumption
<1>2. Twin(NewTrade(p, s), NewReplay(p))
  <2>1. p.sl \in Int /\ Whole \in Int
    BY PlanFacts, LifecycleAssumption DEF PlanType
  <2>2. NewReplay(p) \in ReplayRow
    BY <2>1 DEF NewReplay, ReplayRow
  <2>3. Alike(NewTrade(p, s), NewReplay(p))
    BY DEF Alike, NewTrade, NewReplay
  <2>4. NewTrade(p, s).st = "OPEN" /\ NewTrade(p, s).reason = "none"
        /\ NewReplay(p).outcome = "EXPIRED"
    BY DEF NewTrade, NewReplay
  <2> QED BY <2>2, <2>3, <2>4 DEF Twin
<1>3. ASSUME NEW w, Walk(p, s, w) PROVE w[Entry] = NewReplay(p)
  BY <1>1, <1>3, Zenon DEF Walk
<1> DEFINE o == [n \in Entry .. Len(s) |-> NewReplay(p)]
<1>4. Walk(p, s, o)
  <2>1. \A n \in Entry .. Len(s) : n = Entry
    BY <1>1
  <2> QED BY <2>1, Zenon DEF Walk
<1> HIDE DEF o
<1> QED BY <1>2, <1>3, <1>4, Zenon

\* The replay of a plain plan walks beside the backtest's trade.
Beside ==
    /\ sim.last <= Len(bars)
    /\ Plain(plan) => /\ \E w : Walk(plan, bars, w)
                      /\ \A w : Walk(plan, bars, w) => Twin(sim, w[Len(bars)])

\* It does from the first bar on.
LEMMA BesideInit == Init => Beside
<1> SUFFICES ASSUME Init PROVE Beside
  OBVIOUS
<1>1. plan \in Plans /\ Len(bars) = Entry /\ sim = NewTrade(plan, bars) /\ Entry \in Nat
  BY LifecycleAssumption DEF Init
<1>2. sim.last = Entry
  BY <1>1 DEF NewTrade
<1>3. sim.last <= Len(bars)
  BY <1>1, <1>2
<1>4. /\ \E w : Walk(plan, bars, w)
      /\ \A w : Walk(plan, bars, w) => Twin(sim, w[Len(bars)])
  BY <1>1, WalkStarts, Zenon
<1> QED BY <1>3, <1>4, Zenon DEF Beside

\* And stays there, whatever bar comes.
LEMMA BesideStep == LInv /\ Beside /\ [Next]_vars => Beside'
<1> SUFFICES ASSUME LInv, Beside, [Next]_vars PROVE Beside'
  OBVIOUS
<1>1. CASE plan' = plan /\ bars' = bars /\ sim' = sim
  BY <1>1, Zenon DEF Beside
<1>2. ASSUME NEW b \in Bars, NewBar(b) PROVE Beside'
  <2>1. /\ plan' = plan /\ bars' = Append(bars, b)
        /\ sim' = SimulateFill(plan, sim, b, Len(bars'), TRUE)
    BY <1>2 DEF NewBar
  <2>2. /\ plan \in Plans /\ bars \in Seq(Bars) /\ Len(bars) \in Nat /\ Len(bars) >= Entry
        /\ Sound(plan, sim) /\ Entry \in Nat /\ sim.last \in Int
    BY LenProperties, LifecycleAssumption DEF LInv, Sound, Trade
  <2>3. Len(bars') = Len(bars) + 1 /\ Len(bars') \in Nat
    BY <2>1, <2>2, AppendProperties
  <2>4. Len(bars') > Entry /\ Len(bars') > sim.last
    BY <2>2, <2>3 DEF Beside
  <2>5. sim'.last <= Len(bars')
    <3>1. Filled(plan, sim, Len(bars'), sim')
      BY <2>1, <2>2, <2>3, FillSound
    <3> QED BY <2>2, <2>3, <2>4, <3>1 DEF Filled
  <2>6. ASSUME Plain(plan)
        PROVE  /\ \E w : Walk(plan, bars', w)
               /\ \A w : Walk(plan, bars', w) => Twin(sim', w[Len(bars')])
    <3>1. /\ \E w : Walk(plan, bars, w)
          /\ \A w : Walk(plan, bars, w) => Twin(sim, w[Len(bars)])
      BY <2>6 DEF Beside
    <3>2. \E w : Walk(plan, bars', w)
      BY <2>1, <2>2, <3>1, WalkGrows
    <3>3. ASSUME NEW v, Walk(plan, bars', v) PROVE Twin(sim', v[Len(bars')])
      <4>1. PICK w : Walk(plan, bars, w) /\ v[Len(bars) + 1] = Replayed(plan, w[Len(bars)], b)
        BY <2>1, <2>2, <3>3, WalkShrinks
      <4>2. Twin(sim, w[Len(bars)])
        BY <3>1, <4>1
      <4>3. Twin(SimulateFill(plan, sim, b, Len(bars'), TRUE), Replayed(plan, w[Len(bars)], b))
        BY <2>2, <2>3, <2>4, <2>6, <4>2, BarTwin
      <4> QED BY <2>1, <2>3, <4>1, <4>3, Zenon
    <3> QED BY <3>2, <3>3
  <2> QED BY <2>1, <2>5, <2>6, Zenon DEF Beside
<1>3. CASE Manage
  BY <1>1, <1>3 DEF Manage
<1>4. CASE ForceClose
  BY <1>1, <1>4 DEF ForceClose
<1>5. CASE UNCHANGED vars
  BY <1>1, <1>5 DEF vars
<1> QED BY <1>2, <1>3, <1>4, <1>5 DEF Next

\* ReplayMirrors: the offline replay of the shadow learner closes a plain plan where
\* the backtest does, for the same reason and the same result.
THEOREM LadderIsBacktest == Spec => []ReplayMirrors
<1>1. LInv /\ Beside => ReplayMirrors
  <2> SUFFICES ASSUME LInv, Beside, Plain(plan),
                      NEW l, l = Replay(plan, bars)
               PROVE  /\ Done(l) <=> sim.st = "CLOSED"
                      /\ WorthOf(plan, l, bars) =
                           sim.pnl + sim.rem * (bars[Len(bars)].close - plan.entry)
                      /\ sim.reason \in {"SL", "BE", "TRAIL"} => l.outcome = sim.reason
    BY Zenon DEF ReplayMirrors, Plain
  <2>1. Twin(sim, l)
    BY ReplayEnds, Zenon DEF Beside
  <2>2. sim \in Trade /\ sim.st \in {"OPEN", "CLOSED"} /\ (sim.st = "CLOSED" => sim.rem = 0)
    BY DEF LInv, Sound, ConservedIn, Trade
  <2>3. Done(l) <=> sim.st = "CLOSED"
    BY <2>1, <2>2 DEF Done, Twin
  <2>4. l.gross = sim.pnl /\ l.rem = sim.rem
    BY <2>1, <2>2 DEF Twin, Alike
  <2>5. sim.reason \in {"SL", "BE", "TRAIL"} => l.outcome = sim.reason
    BY <2>1, <2>2 DEF Twin
  <2> QED BY <2>3, <2>4, <2>5, Zenon DEF WorthOf
<1>2. Spec => []Beside
  BY BesideInit, BesideStep, LifecycleInvariant, PTL DEF Spec
<1> QED BY <1>1, <1>2, LifecycleInvariant, PTL
--------------------------------------------------------------------------------
(* The replay with limit orders against the taker baseline (Maker), for    *)
(* every path of bars, time to live and time stop.                         *)

MakerConstants ==
    /\ Ttl \in Nat /\ TimeStop \in Nat /\ Horizon \in Nat
    /\ \A b \in Kinds : b.against \in 0 .. 3 /\ b.with \in 0 .. 2
    /\ NoRecord \notin Int /\ NoRecord \notin {"SL", "TP", "TIME"}
    /\ \A reason, bar, fill : NoRecord # [reason |-> reason, bar |-> bar, fill |-> fill]

\* What a bar does to a position that is in the market and has its target at a level, the
\* time stop aside.
Touched(level, i) ==
    IF path[i].against = 3 THEN "SL" ELSE IF path[i].with >= level THEN "TP" ELSE NoRecord
Untouched(level, from, to) == \A i \in from + 1 .. to : Touched(level, i) = NoRecord

\* A record says where a walk that began on bar f came to its end.
Ended(level, r, f) ==
    /\ f \in 0 .. Len(path) /\ r.fill = f /\ r.bar \in f .. Len(path)
    /\ \/ r.reason = "NONE" /\ f = Len(path)
       \/ r.reason = "FORCE" /\ r.bar = Len(path) /\ Untouched(level, f, Len(path))
       \/ /\ r.reason = "TIME" /\ TimeStop # 0
          /\ Untouched(level, f, r.bar)
       \/ /\ r.reason \in {"SL", "TP"} /\ r.bar > f
          /\ Untouched(level, f, r.bar - 1) /\ Touched(level, r.bar) = r.reason

\* The order rested on every bar so far and none went through it.
Rested(to) == \A i \in 1 .. to : path[i].against < 2

MakerTyped ==
    /\ path \in Seq(Kinds) /\ at \in 0 .. Len(path)
    /\ mode \in {"maker", "taker"} /\ filled \in Nat \cup {NoRecord}
TakerRuns ==
    mode = "taker" =>
        /\ filled = 0
        /\ IF result = NoRecord THEN Untouched(1, 0, at) ELSE Ended(1, result, 0)
MakerRests ==
    mode = "maker" /\ filled = NoRecord =>
        /\ at <= Ttl /\ Rested(at)
        /\ result # NoRecord => /\ result.reason = "UNFILLED" /\ result.fill = NoRecord
                                /\ at = Len(path) \/ at = Ttl
MakerWalks ==
    mode = "maker" /\ filled # NoRecord =>
        /\ filled \in 1 .. at /\ filled <= Ttl /\ path[filled].against >= 2
        /\ IF result = NoRecord THEN Untouched(2, filled, at) ELSE Ended(2, result, filled)
Compared == mode = "maker" => Ended(1, taker, 0)

MakerInv == MakerTyped /\ TakerRuns /\ MakerRests /\ MakerWalks /\ Compared

\* A bar on which the walk holds touches nothing; one it leaves on touches what the record
\* says, or is the one of the time stop.
LEMMA ExitTouches ==
  ASSUME MakerConstants, at + 1 \in 1 .. Len(path)
  PROVE  /\ M!Exit(M!NextBar) = NoRecord => Touched(M!ExitAt, at + 1) = NoRecord
         /\ M!Exit(M!NextBar) # NoRecord =>
               \/ M!Exit(M!NextBar) \in {"SL", "TP"} /\ Touched(M!ExitAt, at + 1) = M!Exit(M!NextBar)
               \/ M!Exit(M!NextBar) = "TIME" /\ TimeStop # 0 /\ Touched(M!ExitAt, at + 1) = NoRecord
BY DEF MakerConstants, M!Exit, M!ReachesTarget, M!ExitAt, M!NextBar, Touched

LEMMA MakerInit == ASSUME MakerConstants, M!Init PROVE MakerInv
<1>1. PICK n \in 0 .. Horizon : path \in [1 .. n -> Kinds]
  BY DEF M!Init
<1>2. path \in Seq(Kinds)
  BY <1>1, SeqDef DEF MakerConstants
<1>3. mode = "taker" /\ at = 0 /\ filled = 0 /\ result = NoRecord
  BY DEF M!Init
<1>4. Len(path) \in Nat
  BY <1>2
<1> QED
  BY <1>2, <1>3, <1>4 DEF MakerInv, MakerTyped, TakerRuns, MakerRests, MakerWalks, Compared,
     Untouched

\* The bars do not change, so a step changes what it says and no fact on the path.
LEMMA PathStays ==
  ASSUME path' = path
  PROVE  /\ \A l, f, t : Untouched(l, f, t)' <=> Untouched(l, f, t)
         /\ \A l, r, f : Ended(l, r, f)' <=> Ended(l, r, f)
         /\ \A t : Rested(t)' <=> Rested(t)
BY DEF Untouched, Touched, Ended, Rested

\* The walk of either run: it goes on, leaves, or is forced out at the end of the data.
LEMMA WalkStep ==
  ASSUME MakerConstants, path \in Seq(Kinds), at \in 0 .. Len(path), filled \in 0 .. at,
         Untouched(M!ExitAt, filled, at), M!Hold \/ M!Leave \/ M!Force
  PROVE  /\ path' = path /\ mode' = mode /\ filled' = filled /\ taker' = taker
         /\ at' \in at .. Len(path)
         /\ result' = NoRecord => Untouched(M!ExitAt, filled, at')
         /\ result' # NoRecord => Ended(M!ExitAt, result', filled)
<1>1. Len(path) \in Nat /\ path' = path /\ mode' = mode /\ filled' = filled /\ taker' = taker
  BY DEF M!Hold, M!Leave, M!Force
<1>2. CASE M!Hold
  <2>1. at' = at + 1 /\ at + 1 \in 1 .. Len(path) /\ M!Exit(M!NextBar) = NoRecord /\ result' = NoRecord
    BY <1>1, <1>2 DEF M!Hold, M!AtEnd, M!Walking
  <2>2. Touched(M!ExitAt, at + 1) = NoRecord
    BY <2>1, ExitTouches
  <2> QED BY <1>1, <2>1, <2>2 DEF Untouched
<1>3. CASE M!Leave
  <2>1. at' = at + 1 /\ at + 1 \in 1 .. Len(path) /\ M!Exit(M!NextBar) # NoRecord
        /\ result' = [reason |-> M!Exit(M!NextBar), bar |-> at + 1, fill |-> filled]
    BY <1>1, <1>3 DEF M!Leave, M!AtEnd, M!Record
  <2>2. \/ M!Exit(M!NextBar) \in {"SL", "TP"} /\ Touched(M!ExitAt, at + 1) = M!Exit(M!NextBar)
        \/ M!Exit(M!NextBar) = "TIME" /\ TimeStop # 0 /\ Touched(M!ExitAt, at + 1) = NoRecord
    BY <2>1, ExitTouches
  <2>3. result'.reason = M!Exit(M!NextBar) /\ result'.bar = at + 1 /\ result'.fill = filled
        /\ result' # NoRecord
    BY <2>1 DEF MakerConstants
  <2> QED BY <1>1, <2>1, <2>2, <2>3 DEF Untouched, Ended
<1>4. CASE M!Force
  <2>1. at = Len(path) /\ at' = at
        /\ result' = [reason |-> IF filled = Len(path) THEN "NONE" ELSE "FORCE",
                      bar |-> at, fill |-> filled]
    BY <1>1, <1>4 DEF M!Force, M!AtEnd, M!Record
  <2>2. result'.reason = (IF filled = Len(path) THEN "NONE" ELSE "FORCE") /\ result'.bar = at
        /\ result'.fill = filled /\ result' # NoRecord
    BY <2>1 DEF MakerConstants
  <2> QED BY <1>1, <2>1, <2>2 DEF Ended
<1> QED BY <1>2, <1>3, <1>4

LEMMA MakerKeeps == ASSUME MakerConstants, MakerInv, [M!Next]_M!mvars PROVE MakerInv'
<1>1. Len(path) \in Nat /\ path \in Seq(Kinds)
  BY DEF MakerInv, MakerTyped
<1>2. CASE M!NoRoom
  <2>1. mode = "taker" /\ filled = 0 /\ path = <<>> /\ UNCHANGED <<path, mode, at, filled, taker>>
        /\ result' = [reason |-> "NONE", bar |-> 0, fill |-> filled]
    BY <1>2 DEF M!NoRoom, M!Record, MakerInv, TakerRuns
  <2>2. result' # NoRecord /\ result'.reason = "NONE" /\ result'.bar = 0 /\ result'.fill = 0
    BY <2>1 DEF MakerConstants
  <2>3. Ended(1, result', 0)
    BY <2>1, <2>2 DEF Ended
  <2> QED BY <2>1, <2>2, <2>3, PathStays
          DEF MakerInv, MakerTyped, TakerRuns, MakerRests, MakerWalks, Compared
<1>3. CASE M!Wait \/ M!Fill \/ M!Expire
  <2>1. mode = "maker" /\ filled = NoRecord /\ result = NoRecord /\ UNCHANGED <<path, mode, taker>>
        /\ at \in 0 .. Len(path) /\ at <= Ttl /\ Rested(at)
    BY <1>3 DEF M!Wait, M!Fill, M!Expire, M!Resting, MakerInv, MakerTyped, MakerRests
  <2>2. CASE M!Wait \/ M!Fill
    <3>1. at' = at + 1 /\ at < Len(path) /\ at < Ttl /\ result' = result
          /\ \/ filled' = at + 1 /\ path[at + 1].against >= 2
             \/ filled' = filled /\ ~(path[at + 1].against >= 2)
      BY <1>1, <2>1, <2>2 DEF M!Wait, M!Fill, M!AtEnd, M!Through, M!NextBar
    <3>2. path[at + 1].against \in 0 .. 3
      BY <1>1, <2>1, <3>1 DEF MakerConstants
    <3>3. CASE filled' = at + 1 /\ path[at + 1].against >= 2
      <4>1. Untouched(2, at + 1, at + 1)
        BY <2>1 DEF Untouched
      <4>2. filled' # NoRecord /\ filled' \in Nat
        BY <2>1, <3>3 DEF MakerConstants
      <4> QED BY <1>1, <2>1, <3>1, <3>3, <4>1, <4>2, PathStays
              DEF MakerInv, MakerTyped, TakerRuns, MakerRests, MakerWalks, Compared, MakerConstants
    <3>4. CASE filled' = filled /\ ~(path[at + 1].against >= 2)
      <4>1. Rested(at + 1)
        BY <2>1, <3>2, <3>4 DEF Rested
      <4> QED BY <1>1, <2>1, <3>1, <3>4, <4>1, PathStays
              DEF MakerInv, MakerTyped, TakerRuns, MakerRests, MakerWalks, Compared, MakerConstants
    <3> QED BY <3>1, <3>3, <3>4
  <2>3. CASE M!Expire
    <3>1. UNCHANGED <<at, filled>> /\ (at = Len(path) \/ at = Ttl)
          /\ result' = [reason |-> "UNFILLED", bar |-> at, fill |-> filled]
      BY <2>3 DEF M!Expire, M!AtEnd, M!Record
    <3>2. result'.reason = "UNFILLED" /\ result'.fill = NoRecord
      BY <2>1, <3>1
    <3> QED BY <1>1, <2>1, <3>1, <3>2, PathStays
            DEF MakerInv, MakerTyped, TakerRuns, MakerRests, MakerWalks, Compared
  <2> QED BY <1>3, <2>2, <2>3
<1>4. CASE M!Hold \/ M!Leave \/ M!Force
  <2>1. filled \in 0 .. at /\ Untouched(M!ExitAt, filled, at) /\ at \in 0 .. Len(path) /\ filled # NoRecord
    BY <1>1, <1>4 DEF M!Hold, M!Leave, M!Force, M!Walking, MakerInv, MakerTyped, TakerRuns, MakerWalks,
           M!ExitAt
  <2>2. /\ path' = path /\ mode' = mode /\ filled' = filled /\ taker' = taker
        /\ at' \in at .. Len(path)
        /\ result' = NoRecord => Untouched(M!ExitAt, filled, at')
        /\ result' # NoRecord => Ended(M!ExitAt, result', filled)
    BY <1>1, <1>4, <2>1, WalkStep
  <2> QED BY <1>1, <2>1, <2>2, PathStays
          DEF MakerInv, MakerTyped, TakerRuns, MakerRests, MakerWalks, Compared, M!ExitAt
<1>5. CASE M!Second
  <2>1. /\ mode = "taker" /\ result # NoRecord /\ taker' = result /\ mode' = "maker" /\ at' = 0
        /\ filled' = NoRecord /\ result' = NoRecord /\ path' = path
    BY <1>5 DEF M!Second
  <2>2. Ended(1, taker', 0)
    BY <2>1 DEF MakerInv, TakerRuns
  <2>3. Rested(0)
    BY DEF Rested
  <2> QED BY <1>1, <2>1, <2>2, <2>3, PathStays
          DEF MakerInv, MakerTyped, TakerRuns, MakerRests, MakerWalks, Compared, MakerConstants
<1>6. CASE UNCHANGED M!mvars
  <2>1. UNCHANGED <<path, mode, at, filled, result, taker>>
    BY <1>6 DEF M!mvars
  <2> QED BY <2>1, PathStays
          DEF MakerInv, MakerTyped, TakerRuns, MakerRests, MakerWalks, Compared
<1> QED BY <1>2, <1>3, <1>4, <1>5, <1>6 DEF M!Next

\* A limit order fills neither on a mere touch nor after its time to live, books no profit
\* on a bar that reached the stop, and is given up only if no bar of its life went through.
LEMMA MakerPessimistic == ASSUME MakerConstants, MakerInv PROVE M!Pessimistic
<1> SUFFICES ASSUME mode = "maker", result # NoRecord
             PROVE  /\ result.fill # NoRecord => path[result.fill].against >= 2 /\ result.fill <= Ttl
                    /\ result.reason = "TP" =>
                          \A i \in result.fill + 1 .. result.bar : path[i].against # 3
                    /\ result.reason = "UNFILLED" =>
                          \A i \in 1 .. Len(path) : i <= Ttl => path[i].against < 2
  BY DEF M!Pessimistic, M!Finished
<1>1. Len(path) \in Nat
  BY DEF MakerInv, MakerTyped
<1>2. CASE filled = NoRecord
  BY <1>1, <1>2 DEF MakerInv, MakerTyped, MakerRests, Rested, MakerConstants
<1>3. CASE filled # NoRecord
  <2>1. Ended(2, result, filled) /\ path[filled].against >= 2 /\ filled <= Ttl
    BY <1>3 DEF MakerInv, MakerWalks
  <2>2. ASSUME result.reason = "TP", NEW i \in result.fill + 1 .. result.bar
        PROVE  path[i].against # 3
    <3>1. Touched(2, i) = "TP" \/ Touched(2, i) = NoRecord
      BY <1>1, <2>1, <2>2 DEF Ended, Untouched
    <3> QED BY <3>1 DEF Touched, MakerConstants
  <2> QED BY <2>1, <2>2 DEF Ended
<1> QED BY <1>2, <1>3

\* A bar that does nothing to the taker does nothing to the maker, and one that stops either
\* stops both.
LEMMA LevelsApart ==
  ASSUME MakerConstants, path \in Seq(Kinds), NEW i \in 1 .. Len(path)
  PROVE  /\ Touched(1, i) = NoRecord => Touched(2, i) = NoRecord
         /\ (Touched(1, i) = "SL") <=> (Touched(2, i) = "SL")
         /\ Touched(1, i) = "TP" => path[i].against # 3
         /\ Touched(1, i) = "TP" => (path[i].with = 1 \/ Touched(2, i) = "TP")
BY DEF MakerConstants, Touched

\* The maker walk that began inside the taker's comes to the same end, but for a touch.
LEMMA MakerLikeTaker == ASSUME MakerConstants, MakerInv PROVE M!SameExit
<1> SUFFICES ASSUME mode = "maker", result # NoRecord, filled # NoRecord, taker.bar > filled, TimeStop = 0
             PROVE  \/ result.reason = taker.reason /\ result.bar = taker.bar
                    \/ /\ taker.reason = "TP" /\ path[taker.bar].with = 1
                       /\ result.bar >= taker.bar /\ path[taker.bar].against # 3
  BY DEF M!SameExit, M!Finished
<1>1. Len(path) \in Nat /\ path \in Seq(Kinds) /\ Ended(2, result, filled) /\ Ended(1, taker, 0)
  BY DEF MakerInv, MakerTyped, MakerWalks, Compared
<1>2. /\ filled \in 0 .. Len(path) /\ taker.bar \in 1 .. Len(path)
      /\ result.bar \in filled .. Len(path) /\ filled < Len(path)
  BY <1>1 DEF Ended
<1>3. \A i \in 1 .. Len(path) :
         /\ Touched(1, i) = NoRecord => Touched(2, i) = NoRecord
         /\ (Touched(1, i) = "SL") <=> (Touched(2, i) = "SL")
         /\ Touched(1, i) = "TP" => path[i].against # 3
         /\ Touched(1, i) = "TP" => (path[i].with = 1 \/ Touched(2, i) = "TP")
  BY <1>1, LevelsApart
<1>4. CASE taker.reason = "FORCE"
  <2>1. taker.bar = Len(path) /\ \A i \in 1 .. Len(path) : Touched(2, i) = NoRecord
    BY <1>1, <1>3, <1>4 DEF Ended, Untouched
  <2> QED BY <1>1, <1>2, <1>4, <2>1 DEF Ended, MakerConstants
<1>5. CASE taker.reason \in {"SL", "TP"}
  <2>1. /\ Touched(1, taker.bar) = taker.reason
        /\ \A i \in 1 .. taker.bar - 1 : Touched(2, i) = NoRecord
    BY <1>1, <1>2, <1>3, <1>5 DEF Ended, Untouched
  <2>2. result.bar >= taker.bar
    BY <1>1, <1>2, <1>5, <2>1 DEF Ended, MakerConstants
  <2>3. CASE Touched(2, taker.bar) = taker.reason
    <3>1. ~Untouched(2, filled, taker.bar)
      BY <1>2, <1>5, <2>3 DEF Untouched, MakerConstants
    <3>2. \A n \in Int : Untouched(2, filled, n) => n < taker.bar
      BY <1>2, <3>1 DEF Untouched
    <3>3. result.reason \in {"SL", "TP"} /\ result.bar - 1 < taker.bar
      BY <1>1, <1>2, <3>2 DEF Ended
    <3>4. result.bar = taker.bar /\ Touched(2, result.bar) = result.reason
      BY <1>1, <1>2, <2>2, <3>3 DEF Ended
    <3> QED BY <2>3, <3>4
  <2>4. CASE Touched(2, taker.bar) # taker.reason
    BY <1>2, <1>3, <1>5, <2>1, <2>2, <2>4
  <2> QED BY <2>3, <2>4
<1> QED BY <1>1, <1>2, <1>4, <1>5 DEF Ended

\* An order that filled while the taker was in leaves on the taker's bar for the taker's
\* reason, unless the taker was content with a touch, and no fill or profit of it is better
\* than the bars allow (SameExit, Pessimistic).
THEOREM MakerReplayIsFair == ASSUME MakerConstants PROVE ResearchSpec => []Pessimistic
<1> DEFINE Inv == MakerRuns => MakerInv
<1>1. ResearchInit => Inv
  BY MakerInit DEF ResearchInit, MakerParked, MakerRuns
<1>2. Inv /\ [ResearchNext]_researchVars => Inv'
  <2> SUFFICES ASSUME Inv, [ResearchNext]_researchVars, MakerRuns' PROVE MakerInv'
    OBVIOUS
  <2>1. CASE MakerStep
    BY <2>1, MakerKeeps DEF MakerStep
  <2>2. CASE ~MakerStep
    <3>1. UNCHANGED M!mvars
      BY <2>2 DEF ResearchNext, ReplayStep, researchVars, makerVars, M!mvars
    <3>2. MakerRuns
      BY <3>1 DEF MakerRuns, M!mvars
    <3> QED BY <3>1, <3>2, MakerKeeps
  <2> QED BY <2>1, <2>2
<1>3. Inv => Pessimistic
  BY MakerPessimistic, MakerLikeTaker DEF Pessimistic
<1> QED BY <1>1, <1>2, <1>3, PTL DEF ResearchSpec

--------------------------------------------------------------------------------
(* Walk-forward validation (Replay), for every history, page size, window  *)
(* and stride no shorter than the window's part out of the sample. First   *)
(* the loader: what it works on has no hole (LoaderInv). Then the windows: *)
(* the balance is what the trades made, and a symbol's trades lie one      *)
(* after another (WindowInv, which needs the order of the bars).           *)

\* The counts of the instance are those of the library.
LEMMA CardIsCard == \A S : W!Cardinality(S) = Cardinality(S)
BY Zenon DEF W!Cardinality, W!IsFiniteSet, Cardinality, IsFiniteSet

\* The elements grow along the sequence.
Climbs(s) == \A i, j \in DOMAIN s : i < j => s[i] < s[j]

\* The elements of S not above t.
UpTo(S, t) == {u \in S : u <= t}

\* The bars of a set are numbered by how many come before.
LEMMA RankGrows ==
  ASSUME NEW S, IsFiniteSet(S), S \subseteq Int, NEW t \in S, NEW v \in S, t < v
  PROVE  Cardinality(UpTo(S, t)) < Cardinality(UpTo(S, v))
<1>0. t \in Int /\ v \in Int
  OBVIOUS
<1>1. UpTo(S, t) \subseteq UpTo(S, v) /\ v \in UpTo(S, v) /\ v \notin UpTo(S, t)
  <2>1. \A u \in S : u \in Int
    OBVIOUS
  <2>2. \A u \in S : u <= t => u <= v
    BY <1>0, <2>1
  <2>3. v <= v /\ ~(v <= t)
    BY <1>0
  <2> QED BY <2>2, <2>3 DEF UpTo
<1>2. IsFiniteSet(UpTo(S, v))
  BY FS_Subset DEF UpTo
<1>3. /\ IsFiniteSet(UpTo(S, t))
      /\ Cardinality(UpTo(S, t)) <= Cardinality(UpTo(S, v))
      /\ Cardinality(UpTo(S, v)) = Cardinality(UpTo(S, t)) => UpTo(S, v) = UpTo(S, t)
  BY <1>1, <1>2, FS_Subset
<1>4. Cardinality(UpTo(S, t)) # Cardinality(UpTo(S, v))
  BY <1>1, <1>3
<1> QED BY <1>2, <1>3, <1>4, FS_CardinalityType

\* The place of an element, counted from the smallest one up.
LEMMA RankIsPlace ==
  ASSUME NEW S, IsFiniteSet(S), S \subseteq Int, NEW t \in S
  PROVE  Cardinality(UpTo(S, t)) \in 1 .. Cardinality(S)
<1>1. UpTo(S, t) \subseteq S /\ t \in UpTo(S, t)
  BY DEF UpTo
<1>2. IsFiniteSet(UpTo(S, t)) /\ Cardinality(UpTo(S, t)) <= Cardinality(S)
  BY <1>1, FS_Subset
<1>3. Cardinality(UpTo(S, t)) # 0
  BY <1>1, <1>2, FS_EmptySet
<1> QED BY <1>2, <1>3, FS_CardinalityType

\* Each place is some element's.
LEMMA RankTaken ==
  ASSUME NEW S, IsFiniteSet(S), S \subseteq Int, NEW i \in 1 .. Cardinality(S)
  PROVE  \E t \in S : Cardinality(UpTo(S, t)) = i
<1> DEFINE N == 1 .. Cardinality(S)
           rank == [t \in S |-> Cardinality(UpTo(S, t))]
<1>1. rank \in [S -> N]
  BY RankIsPlace
<1>2. \A t, v \in S : rank[t] = rank[v] => t = v
  <2> SUFFICES ASSUME NEW t \in S, NEW v \in S, t # v PROVE rank[t] # rank[v]
    OBVIOUS
  <2>1. t < v \/ v < t
    OBVIOUS
  <2>2. rank[t] \in Nat /\ rank[v] \in Nat
    BY <1>1, FS_CardinalityType
  <2>3. rank[t] < rank[v] \/ rank[v] < rank[t]
    BY <2>1, RankGrows
  <2> HIDE DEF rank
  <2> QED BY <2>2, <2>3
<1>3. Cardinality(S) \in Nat
  BY FS_CardinalityType
<1>4. IsFiniteSet(N) /\ Cardinality(N) = Cardinality(S)
  BY <1>3, FS_Interval
<1> HIDE DEF rank, N
<1>5. rank \in Injection(S, N)
  BY <1>1, <1>2 DEF Injection, IsInjective
<1>6. rank \in Surjection(S, N)
  BY <1>4, <1>5, FS_Injection
<1>7. \E t \in S : rank[t] = i
  BY <1>6 DEF Surjection, N
<1> QED BY <1>7 DEF rank

\* Replay.Ordered lists a finite set of bars, each once, upwards.
LEMMA OrderedFacts ==
  ASSUME NEW S, IsFiniteSet(S), S \subseteq Int
  PROVE  /\ W!Ordered(S) \in Seq(S) /\ Len(W!Ordered(S)) = Cardinality(S)
         /\ Climbs(W!Ordered(S))
         /\ \A t \in S : \E i \in DOMAIN W!Ordered(S) : W!Ordered(S)[i] = t
         /\ \A i \in DOMAIN W!Ordered(S) : Cardinality(UpTo(S, W!Ordered(S)[i])) = i
<1> DEFINE s == W!Ordered(S)
<1>0. PICK n \in Nat : n = Cardinality(S)
  BY FS_CardinalityType
<1>1. s = [i \in 1 .. n |-> CHOOSE t \in S : W!Cardinality({u \in S : u <= t}) = i]
  BY Zenon, <1>0, CardIsCard DEF W!Ordered
<1>2. \A t \in S : W!Cardinality({u \in S : u <= t}) = Cardinality(UpTo(S, t))
  BY Zenon, CardIsCard DEF UpTo
<1> HIDE DEF s
<1>3. \A i \in 1 .. n : s[i] \in S /\ Cardinality(UpTo(S, s[i])) = i
  <2> SUFFICES ASSUME NEW i \in 1 .. n
               PROVE  s[i] \in S /\ Cardinality(UpTo(S, s[i])) = i
    OBVIOUS
  <2>1. s[i] = CHOOSE t \in S : W!Cardinality({u \in S : u <= t}) = i
    BY Zenon, <1>1
  <2>2. \E t \in S : Cardinality(UpTo(S, t)) = i
    BY <1>0, RankTaken
  <2>3. \E t \in S : W!Cardinality({u \in S : u <= t}) = i
    BY Zenon, <1>2, <2>2
  <2> QED BY Zenon, <1>2, <2>1, <2>3
<1>4. s \in [1 .. n -> S]
  BY <1>1, <1>3
<1>5. s \in Seq(S) /\ Len(s) = n /\ DOMAIN s = 1 .. n
  BY <1>4
<1>6. Climbs(s)
  <2> SUFFICES ASSUME NEW i \in DOMAIN s, NEW j \in DOMAIN s, i < j PROVE s[i] < s[j]
    BY DEF Climbs
  <2>1. PICK t \in S : t = s[i] /\ Cardinality(UpTo(S, t)) = i
    BY Zenon, <1>3, <1>5
  <2>2. PICK v \in S : v = s[j] /\ Cardinality(UpTo(S, v)) = j
    BY Zenon, <1>3, <1>5
  <2>3. t \in Int /\ v \in Int /\ i \in Int /\ j \in Int
    BY <1>5
  <2>4. v < t => j < i
    BY <2>1, <2>2, RankGrows
  <2> QED BY <2>1, <2>2, <2>3, <2>4
<1>7. ASSUME NEW t \in S PROVE \E i \in DOMAIN s : s[i] = t
  <2>1. PICK i \in 1 .. n : Cardinality(UpTo(S, t)) = i
    BY <1>0, RankIsPlace
  <2>2. PICK v \in S : v = s[i] /\ Cardinality(UpTo(S, v)) = i
    BY Zenon, <1>3
  <2>3. v \in Int /\ t \in Int /\ i \in Int
    OBVIOUS
  <2>4. (v < t => i < i) /\ (t < v => i < i)
    <3>1. v < t => Cardinality(UpTo(S, v)) < Cardinality(UpTo(S, t))
      BY RankGrows
    <3>2. t < v => Cardinality(UpTo(S, t)) < Cardinality(UpTo(S, v))
      BY RankGrows
    <3> QED BY Zenon, <2>1, <2>2, <3>1, <3>2
  <2>5. v = t
    BY <2>3, <2>4
  <2> QED BY Zenon, <1>5, <2>2, <2>5
<1> QED BY <1>0, <1>3, <1>5, <1>6, <1>7 DEF s

\* The first i bars of a history are i.
FirstBars(s, i) == {s[k] : k \in 1 .. i}

\* The first i elements of a climbing sequence are i.
LEMMA FirstAreMany ==
  ASSUME NEW s \in Seq(Int), Climbs(s), NEW i \in 0 .. Len(s)
  PROVE  IsFiniteSet(FirstBars(s, i)) /\ Cardinality(FirstBars(s, i)) = i
<1> DEFINE T == FirstBars(s, i)
           f == [k \in 1 .. i |-> s[k]]
<1>1. f \in Surjection(1 .. i, T)
  BY DEF Surjection, FirstBars
<1>2. \A j, k \in 1 .. i : s[j] = s[k] => j = k
  <2> SUFFICES ASSUME NEW j \in 1 .. i, NEW k \in 1 .. i, j # k PROVE s[j] # s[k]
    OBVIOUS
  <2>1. j \in DOMAIN s /\ k \in DOMAIN s /\ s[j] \in Int /\ s[k] \in Int
    OBVIOUS
  <2>2. j < k \/ k < j
    OBVIOUS
  <2> QED BY <2>1, <2>2 DEF Climbs
<1>3. f \in Injection(1 .. i, T)
  BY <1>1, <1>2 DEF Injection, IsInjective, Surjection
<1>4. IsFiniteSet(1 .. i) /\ Cardinality(1 .. i) = i
  BY FS_Interval
<1> HIDE DEF f, T
<1>5. IsFiniteSet(T) /\ Cardinality(T) = Cardinality(1 .. i)
  BY <1>1, <1>3, <1>4, FS_Surjection
<1> QED BY <1>4, <1>5 DEF T

\* The elements of a sequence.
RowsOf(s) == {s[k] : k \in DOMAIN s}

\* Only one sequence holds the bars of a set in their order.
LEMMA OrderedUnique ==
  ASSUME NEW s \in Seq(Int), Climbs(s)
  PROVE  /\ IsFiniteSet(RowsOf(s)) /\ Cardinality(RowsOf(s)) = Len(s) /\ RowsOf(s) \subseteq Int
         /\ s = W!Ordered(RowsOf(s))
<1> DEFINE S == RowsOf(s)
           o == W!Ordered(S)
<1>1. Len(s) \in Nat /\ DOMAIN s = 1 .. Len(s) /\ \A k \in DOMAIN s : s[k] \in Int
  OBVIOUS
<1>2. S = FirstBars(s, Len(s)) /\ Len(s) \in 0 .. Len(s)
  BY <1>1 DEF RowsOf, FirstBars
<1>3. IsFiniteSet(S) /\ Cardinality(S) = Len(s)
  BY <1>2, FirstAreMany
<1>4. S \subseteq Int /\ \A k \in DOMAIN s : s[k] \in S
  BY <1>1 DEF RowsOf
<1> HIDE DEF S
<1>5. /\ o \in Seq(S) /\ Len(o) = Len(s)
      /\ \A k \in DOMAIN o : Cardinality(UpTo(S, o[k])) = k
  BY <1>3, <1>4, OrderedFacts
<1> HIDE DEF o
<1>6. ASSUME NEW i \in 1 .. Len(s) PROVE Cardinality(UpTo(S, s[i])) = i
  <2>1. UpTo(S, s[i]) = FirstBars(s, i)
    <3>1. ASSUME NEW k \in 1 .. Len(s) PROVE s[k] <= s[i] <=> k <= i
      <4>1. s[k] \in Int /\ s[i] \in Int /\ i \in DOMAIN s /\ k \in DOMAIN s
        BY <1>1
      <4>2. (k < i => s[k] < s[i]) /\ (i < k => s[i] < s[k])
        BY <4>1 DEF Climbs
      <4>3. k = i \/ k < i \/ i < k
        BY <1>1
      <4> QED BY <4>1, <4>2, <4>3
    <3>2. UpTo(S, s[i]) = {s[k] : k \in {m \in 1 .. Len(s) : s[m] <= s[i]}}
      BY Zenon, <1>2 DEF UpTo, FirstBars
    <3>3. {m \in 1 .. Len(s) : s[m] <= s[i]} = 1 .. i
      BY <1>1, <3>1
    <3> QED BY Zenon, <3>2, <3>3 DEF FirstBars
  <2>2. i \in 0 .. Len(s)
    BY <1>1
  <2> QED BY <2>1, <2>2, FirstAreMany
<1>7. ASSUME NEW i \in 1 .. Len(s) PROVE s[i] = o[i]
  <2>1. PICK t \in S : t = s[i] /\ Cardinality(UpTo(S, t)) = i
    BY <1>1, <1>4, <1>6
  <2>2. PICK v \in S : v = o[i] /\ Cardinality(UpTo(S, v)) = i
    BY <1>1, <1>5
  <2>3. v \in Int /\ t \in Int /\ i \in Int
    BY <1>1, <1>4
  <2>4. (v < t => i < i) /\ (t < v => i < i)
    <3>1. v < t => Cardinality(UpTo(S, v)) < Cardinality(UpTo(S, t))
      BY <1>3, <1>4, RankGrows
    <3>2. t < v => Cardinality(UpTo(S, t)) < Cardinality(UpTo(S, v))
      BY <1>3, <1>4, RankGrows
    <3> QED BY Zenon, <2>1, <2>2, <3>1, <3>2
  <2>5. v = t
    BY <2>3, <2>4
  <2> QED BY Zenon, <2>1, <2>2, <2>5
<1>8. s = o
  BY <1>1, <1>5, <1>7
<1> QED BY <1>3, <1>4, <1>8 DEF S, o

\* Hypotheses on the constants: a window is not empty and windows do not overlap, the
\* events of one begin within it, and a symbol pauses after a close.
ReplaySizes ==
    /\ FirstListed \in Int /\ Limit \in Nat \ {0}
    /\ Warmup \in Nat \ {0} /\ Oos \in Nat \ {0} /\ Stride \in Nat /\ Oos <= Stride
    /\ FirstBar \in 0 .. Warmup + Oos /\ Pause \in Nat \ {0}
    /\ TradePnls \subseteq Int /\ Funding \in Int /\ Stake \in Int

\* No symbol is named twice.
ReplayPair ==
    /\ Pair \in Seq(RowsOf(Pair)) /\ Len(Pair) > 0
    /\ \A i, k \in DOMAIN Pair : Pair[i] = Pair[k] => i = k

\* What stands for an absent value is no value.
ReplayAbsence ==
    /\ NoRecord \notin Int
    /\ NoRecord \notin {"INSUFFICIENT DATA", "REJECTED (no OOS trades)", "ACCEPTED",
                        "REJECTED (deflated Sharpe)", "REJECTED (expectancy)"}
    /\ \A x, y : NoRecord # [rows |-> x, upTo |-> y]
    /\ \A x, y, z : NoRecord # [open |-> x, knew |-> y, real |-> z]
ReplayConstants == ReplaySizes /\ ReplayPair /\ ReplayAbsence

\* The hypotheses about numbers, one by one.
LEMMA ReplayNumbers ==
  ASSUME ReplayConstants
  PROVE  /\ FirstListed \in Int /\ Limit \in Nat /\ Limit >= 1 /\ Warmup \in Nat /\ Warmup >= 1
         /\ Oos \in Nat /\ Oos >= 1 /\ Stride \in Nat /\ Oos <= Stride /\ FirstBar \in Nat
         /\ FirstBar <= Warmup + Oos /\ Pause \in Nat /\ Pause >= 1 /\ TradePnls \subseteq Int
         /\ Funding \in Int /\ Stake \in Int
<1>1. ReplaySizes
  BY DEF ReplayConstants
<1> QED BY <1>1 DEF ReplaySizes

\* A history of bars of h in their order, with none left out in between.
NoHole(s, h) ==
    /\ s \in Seq(Int) /\ Climbs(s)
    /\ \A i \in DOMAIN s : s[i] \in h
    /\ \A i, k \in DOMAIN s, t \in h : s[i] <= t /\ t <= s[k] => t \in RowsOf(s)

\* What SubSeq returns.
LEMMA SliceFacts ==
  ASSUME NEW S, NEW s \in Seq(S), NEW a \in 1 .. Len(s) + 1, NEW b \in a - 1 .. Len(s)
  PROVE  /\ SubSeq(s, a, b) \in Seq(S) /\ Len(SubSeq(s, a, b)) = b - a + 1
         /\ DOMAIN SubSeq(s, a, b) = 1 .. b - a + 1
         /\ \A i \in 1 .. b - a + 1 : SubSeq(s, a, b)[i] = s[a + i - 1]
<1>1. /\ SubSeq(s, a, b) \in Seq(S) /\ Len(SubSeq(s, a, b)) = b - a + 1
      /\ \A i \in 1 .. b - a + 1 : SubSeq(s, a, b)[i] = s[a + i - 1]
  BY SubSeqProperties
<1>2. DOMAIN SubSeq(s, a, b) = 1 .. Len(SubSeq(s, a, b))
  BY <1>1, LenProperties
<1> QED BY <1>1, <1>2

\* A piece of a history without a hole has none.
LEMMA SliceWhole ==
  ASSUME NEW h \in SUBSET Int, NEW s, NoHole(s, h),
         NEW a \in 1 .. Len(s) + 1, NEW b \in a - 1 .. Len(s)
  PROVE  NoHole(SubSeq(s, a, b), h)
<1>0. s \in Seq(Int) /\ Len(s) \in Nat /\ DOMAIN s = 1 .. Len(s)
  BY DEF NoHole
<1>1. PICK p : p = SubSeq(s, a, b)
  OBVIOUS
<1>2. /\ p \in Seq(Int) /\ DOMAIN p = 1 .. b - a + 1
      /\ \A i \in DOMAIN p : p[i] = s[a + i - 1] /\ a + i - 1 \in DOMAIN s
  <2>1. \A i \in 1 .. b - a + 1 : a + i - 1 \in 1 .. Len(s)
    BY <1>0
  <2> QED BY <1>0, <1>1, <2>1, SliceFacts
<1>3. Climbs(p)
  <2> SUFFICES ASSUME NEW i \in DOMAIN p, NEW k \in DOMAIN p, i < k PROVE p[i] < p[k]
    BY DEF Climbs
  <2>1. a + i - 1 < a + k - 1
    BY <1>2
  <2> QED BY <1>2, <2>1 DEF NoHole, Climbs
<1>4. \A i \in DOMAIN p : p[i] \in h
  BY <1>2 DEF NoHole
<1>5. ASSUME NEW i \in DOMAIN p, NEW k \in DOMAIN p, NEW t \in h, p[i] <= t, t <= p[k]
      PROVE  t \in RowsOf(p)
  <2>1. t \in RowsOf(s)
    BY <1>2, <1>5 DEF NoHole
  <2>2. PICK m \in DOMAIN s : s[m] = t
    BY <2>1 DEF RowsOf
  <2>3. /\ a + i - 1 \in DOMAIN s /\ a + k - 1 \in DOMAIN s
        /\ s[a + i - 1] <= s[m] /\ s[m] <= s[a + k - 1]
    BY <1>2, <1>5, <2>2
  <2>4. \A x, y \in DOMAIN s : s[x] <= s[y] => x <= y
    <3> SUFFICES ASSUME NEW x \in DOMAIN s, NEW y \in DOMAIN s, y < x PROVE ~(s[x] <= s[y])
      BY <1>0
    <3>1. s[y] < s[x] /\ s[y] \in Int /\ s[x] \in Int
      BY <1>0 DEF NoHole, Climbs
    <3> QED BY <3>1
  <2>5. a + i - 1 <= m /\ m <= a + k - 1
    BY <2>3, <2>4
  <2>6. m - a + 1 \in DOMAIN p /\ a + (m - a + 1) - 1 = m
    <3>1. i \in 1 .. b - a + 1 /\ k \in 1 .. b - a + 1 /\ m \in Int /\ a \in Int /\ b \in Int
      BY <1>0, <1>2
    <3>2. m - a + 1 \in 1 .. b - a + 1 /\ a + (m - a + 1) - 1 = m
      BY <2>5, <3>1
    <3> QED BY <1>2, <3>2
  <2>7. p[m - a + 1] = t
    BY <1>2, <2>2, <2>6
  <2> QED BY <2>6, <2>7 DEF RowsOf
<1> QED BY <1>1, <1>2, <1>3, <1>4, <1>5 DEF NoHole

\* No bars, no hole.
LEMMA EmptyWhole == \A h : NoHole(<<>>, h)
BY DEF NoHole, Climbs

\* Bars that come later leave no hole.
LEMMA LaterWhole ==
  ASSUME NEW g, NEW h, NEW n \in Int, g \subseteq h, h \subseteq Int,
         \A t \in h : t <= n => t \in g,
         NEW s, NoHole(s, g), \A i \in DOMAIN s : s[i] <= n
  PROVE  NoHole(s, h)
<1>1. ASSUME NEW i \in DOMAIN s, NEW k \in DOMAIN s, NEW t \in h, s[i] <= t, t <= s[k]
      PROVE  t \in RowsOf(s)
  <2>1. s[k] \in Int /\ t \in Int /\ s[k] <= n
    BY DEF NoHole
  <2>2. t \in g
    BY <1>1, <2>1
  <2> QED BY <1>1, <2>2 DEF NoHole
<1> QED BY <1>1 DEF NoHole

\* The history is a finite set of bars not newer than now.
LEMMA HistoryFacts ==
  ASSUME ReplayConstants, now \in Int
  PROVE  /\ W!History \in SUBSET Int /\ IsFiniteSet(W!History)
         /\ \A t \in W!History : t <= now
<1>1. IsFiniteSet(FirstListed .. now)
  BY FS_Interval, ReplayNumbers
<1>2. W!History \in SUBSET (FirstListed .. now)
  BY DEF W!History
<1>3. IsFiniteSet(W!History)
  BY <1>1, <1>2, FS_Subset
<1>4. FirstListed \in Int
  BY ReplayNumbers
<1>5. ASSUME NEW t \in W!History PROVE t \in Int /\ t <= now
  <2>1. t \in FirstListed .. now
    BY <1>2
  <2> QED BY <1>4, <2>1
<1> QED BY <1>3, <1>5

\* A fetch under way: every bar from its first on to the cursor has come, and when the
\* exchange has no more, every bar up to the time it began.
Begins(f) == f.upTo - Limit + 1

\* A fetch of the history h.
IsFetch(f, h) ==
    /\ f = [since |-> f.since, rows |-> f.rows, upTo |-> f.upTo, more |-> f.more]
    /\ f.since \in Int /\ f.upTo \in Int /\ f.more \in BOOLEAN /\ Begins(f) <= f.since
    /\ NoHole(f.rows, h)
    /\ \A i \in DOMAIN f.rows : Begins(f) <= f.rows[i] /\ f.rows[i] < f.since
    /\ \A t \in h : Begins(f) <= t /\ t < f.since => t \in RowsOf(f.rows)
    /\ ~f.more => \A t \in h : Begins(f) <= t /\ t <= f.upTo => t \in RowsOf(f.rows)

\* What the analysis works on; a fetch that ended well left nothing out.
IsData(d, h) ==
    /\ d = [rows |-> d.rows, upTo |-> d.upTo] /\ NoHole(d.rows, h)
    /\ d.upTo # NoRecord =>
          d.upTo \in Int /\ \A t \in h : d.upTo - Limit < t /\ t <= d.upTo => t \in RowsOf(d.rows)

\* The invariant of the loader.
LoaderInv ==
    /\ now \in Int /\ NoHole(disk, W!History)
    /\ fetch # NoRecord =>
          /\ IsFetch(fetch, W!History) /\ data = NoRecord
          /\ fetch.upTo <= now /\ fetch.since <= now + 1
    /\ data # NoRecord => IsData(data, W!History)

\* What one page adds.
IsPage(p, f, h) ==
    /\ p \in Seq(Int) /\ Len(p) > 0 /\ Climbs(p)
    /\ \A i \in DOMAIN p : p[i] \in h /\ p[i] >= f.since
    /\ \A t \in h : f.since <= t /\ t <= p[Len(p)] => t \in RowsOf(p)

\* A page is the next bars from the cursor on.
LEMMA PageFacts ==
  ASSUME NEW h \in SUBSET Int, IsFiniteSet(h), NEW f, f.since \in Int,
         NEW o, o = W!Ordered({t \in h : t >= f.since}),
         NEW k \in 1 .. Cardinality({t \in h : t >= f.since})
  PROVE  IsPage(SubSeq(o, 1, k), f, h)
<1>1. PICK S : S = {t \in h : t >= f.since}
  OBVIOUS
<1>2. S \subseteq h /\ S \subseteq Int /\ IsFiniteSet(S)
  BY <1>1, FS_Subset
<1>3. /\ o \in Seq(S) /\ Len(o) = Cardinality(S) /\ Climbs(o)
      /\ \A t \in S : \E i \in DOMAIN o : o[i] = t
  BY <1>1, <1>2, OrderedFacts
<1>4. k \in 1 .. Len(o) /\ Len(o) \in Nat /\ DOMAIN o = 1 .. Len(o)
  BY <1>1, <1>3, LenProperties
<1>5. PICK p : p = SubSeq(o, 1, k)
  OBVIOUS
<1>6. /\ p \in Seq(S) /\ Len(p) = k /\ DOMAIN p = 1 .. k
      /\ \A i \in 1 .. k : p[i] = o[i] /\ i \in DOMAIN o
  <2>1. 1 \in 1 .. Len(o) + 1 /\ k \in 1 - 1 .. Len(o)
    BY <1>4
  <2>2. /\ p \in Seq(S) /\ Len(p) = k - 1 + 1 /\ DOMAIN p = 1 .. k - 1 + 1
        /\ \A i \in 1 .. k - 1 + 1 : p[i] = o[1 + i - 1]
    BY <1>3, <1>5, <2>1, SliceFacts
  <2>0. k \in Int /\ k <= Len(o) /\ Len(o) \in Int /\ DOMAIN o = 1 .. Len(o)
    BY <1>4
  <2>3. k - 1 + 1 = k /\ \A i \in 1 .. k : 1 + i - 1 = i /\ i \in DOMAIN o
    <3>1. k - 1 + 1 = k
      BY <2>0
    <3>2. ASSUME NEW i \in 1 .. k PROVE 1 + i - 1 = i /\ i \in DOMAIN o
      BY <2>0
    <3> QED BY <3>1, <3>2
  <2> QED BY <2>2, <2>3
<1>7. p \in Seq(Int)
  BY <1>2, <1>6, SeqMonotonic
<1>8. Climbs(p)
  BY <1>3, <1>6 DEF Climbs
<1>9. \A i \in DOMAIN p : p[i] \in h /\ p[i] >= f.since
  <2>1. \A i \in DOMAIN p : p[i] \in S
    BY <1>6, ElementOfSeq
  <2> QED BY Zenon, <1>1, <2>1
<1>10. ASSUME NEW t \in h, f.since <= t, t <= p[k] PROVE t \in RowsOf(p)
  <2>1. t \in S
    BY <1>1, <1>10
  <2>2. PICK i \in DOMAIN o : o[i] = t
    BY <1>3, <2>1
  <2>3. i \in Int /\ k \in Int /\ k \in DOMAIN o /\ o[k] = p[k] /\ o[k] \in Int /\ o[i] \in Int
    BY <1>2, <1>4, <1>6, <1>7, <2>1, <2>2
  <2>4. ~(k < i)
    <3>1. k < i => o[k] < o[i]
      BY <1>3, <2>3 DEF Climbs
    <3> QED BY <1>10, <2>2, <2>3, <3>1
  <2>5. i \in 1 .. k
    BY <1>4, <2>3, <2>4
  <2> QED BY <1>6, <2>2, <2>5 DEF RowsOf
<1>11. Len(p) = k /\ k \in Int /\ k >= 1
  BY <1>4, <1>6
<1>12. Len(p) > 0
  BY <1>11
<1>13. \A t \in h : f.since <= t /\ t <= p[Len(p)] => t \in RowsOf(p)
  BY Zenon, <1>10, <1>11
<1>14. IsPage(p, f, h)
  BY Zenon, <1>7, <1>8, <1>9, <1>12, <1>13 DEF IsPage
<1> QED BY Zenon, <1>5, <1>14

\* What a concatenation holds, and where.
LEMMA ConcatFacts ==
  ASSUME NEW S, NEW s \in Seq(S), NEW p \in Seq(S)
  PROVE  /\ s \o p \in Seq(S) /\ Len(s \o p) = Len(s) + Len(p)
         /\ DOMAIN (s \o p) = 1 .. Len(s) + Len(p)
         /\ \A i \in DOMAIN s : i \in DOMAIN (s \o p) /\ (s \o p)[i] = s[i]
         /\ \A i \in DOMAIN p : Len(s) + i \in DOMAIN (s \o p) /\ (s \o p)[Len(s) + i] = p[i]
         /\ \A i \in DOMAIN (s \o p) :
               \/ i \in DOMAIN s
               \/ i - Len(s) \in DOMAIN p /\ i = Len(s) + (i - Len(s))
<1>1. /\ Len(s) \in Nat /\ Len(p) \in Nat
      /\ DOMAIN s = 1 .. Len(s) /\ DOMAIN p = 1 .. Len(p)
  BY LenProperties
<1>2. PICK q : q = s \o p
  OBVIOUS
<1>3. /\ q \in Seq(S) /\ Len(q) = Len(s) + Len(p)
      /\ \A i \in 1 .. Len(s) + Len(p) :
            q[i] = IF i <= Len(s) THEN s[i] ELSE p[i - Len(s)]
  BY <1>2, ConcatProperties
<1>4. DOMAIN q = 1 .. Len(s) + Len(p)
  BY <1>3, LenProperties
<1>5. \A i \in DOMAIN s : i \in DOMAIN q /\ q[i] = s[i]
  BY <1>1, <1>3, <1>4
<1>6. \A i \in DOMAIN p : Len(s) + i \in DOMAIN q /\ q[Len(s) + i] = p[i]
  <2> SUFFICES ASSUME NEW i \in DOMAIN p PROVE Len(s) + i \in DOMAIN q /\ q[Len(s) + i] = p[i]
    OBVIOUS
  <2>1. Len(s) + i \in 1 .. Len(s) + Len(p) /\ ~(Len(s) + i <= Len(s)) /\ Len(s) + i - Len(s) = i
    BY <1>1
  <2> QED BY <1>3, <1>4, <2>1
<1>7. \A i \in DOMAIN q : i \in DOMAIN s \/ (i - Len(s) \in DOMAIN p /\ i = Len(s) + (i - Len(s)))
  BY <1>1, <1>4
<1> QED BY <1>2, <1>3, <1>4, <1>5, <1>6, <1>7

\* The last element of a climbing sequence is its greatest.
LEMMA LastIsLast ==
  ASSUME NEW p \in Seq(Int), Len(p) > 0, Climbs(p)
  PROVE  /\ Len(p) \in DOMAIN p /\ p[Len(p)] \in Int
         /\ \A i \in DOMAIN p : p[i] <= p[Len(p)]
<1>1. Len(p) \in Nat /\ DOMAIN p = 1 .. Len(p) /\ \A i \in DOMAIN p : p[i] \in Int
  BY LenProperties, ElementOfSeq
<1>2. Len(p) \in DOMAIN p
  BY <1>1
<1>3. ASSUME NEW i \in DOMAIN p PROVE p[i] <= p[Len(p)]
  <2>1. i = Len(p) \/ i < Len(p)
    BY <1>1
  <2>2. i < Len(p) => p[i] < p[Len(p)]
    BY <1>2 DEF Climbs
  <2> QED BY <1>1, <1>2, <2>1, <2>2
<1> QED BY <1>1, <1>2, <1>3

\* A page goes on where the rows end.
LEMMA PageExtends ==
  ASSUME ReplayConstants, NEW h \in SUBSET Int, NEW f, IsFetch(f, h), NEW p, IsPage(p, f, h)
  PROVE  IsFetch([f EXCEPT !.rows = f.rows \o p, !.since = p[Len(p)] + 1,
                           !.more = p[Len(p)] < f.upTo], h)
<1>1. PICK r : r = f.rows
  OBVIOUS
<1>2. PICK q : q = r \o p
  OBVIOUS
<1>3. PICK b : b = Begins(f)
  OBVIOUS
<1>4. PICK n : n = p[Len(p)]
  OBVIOUS
<1>5. PICK c : c = f.since
  OBVIOUS
<1>6. b \in Int /\ c \in Int /\ b <= c /\ f.upTo \in Int
  <2>1. f.upTo \in Int /\ Begins(f) <= f.since /\ f.since \in Int
    BY Zenon DEF IsFetch
  <2>2. Limit \in Int
    BY ReplayNumbers
  <2> QED BY <1>3, <1>5, <2>1, <2>2 DEF Begins
<1>7. /\ NoHole(r, h) /\ \A i \in DOMAIN r : b <= r[i] /\ r[i] < c
      /\ \A t \in h : b <= t /\ t < c => t \in RowsOf(r)
  BY Zenon, <1>1, <1>3, <1>5 DEF IsFetch
<1>8. /\ p \in Seq(Int) /\ Len(p) > 0 /\ Climbs(p) /\ \A i \in DOMAIN p : p[i] \in h /\ p[i] >= c
      /\ \A t \in h : c <= t /\ t <= n => t \in RowsOf(p)
  BY Zenon, <1>4, <1>5 DEF IsPage
<1>9. Len(p) \in DOMAIN p /\ n \in Int /\ n >= c /\ \A i \in DOMAIN p : p[i] <= n
  BY <1>4, <1>8, LastIsLast
<1>10. r \in Seq(Int) /\ Climbs(r) /\ \A i \in DOMAIN r : r[i] \in h
  BY <1>7 DEF NoHole
<1>11. /\ q \in Seq(Int)
       /\ \A i \in DOMAIN r : i \in DOMAIN q /\ q[i] = r[i]
       /\ \A i \in DOMAIN p : Len(r) + i \in DOMAIN q /\ q[Len(r) + i] = p[i]
       /\ \A i \in DOMAIN q : \/ i \in DOMAIN r
                              \/ i - Len(r) \in DOMAIN p /\ i = Len(r) + (i - Len(r))
  BY <1>2, <1>8, <1>10, ConcatFacts
<1>12. /\ Len(r) \in Nat /\ DOMAIN r = 1 .. Len(r) /\ DOMAIN q = 1 .. Len(q) /\ Len(q) \in Nat
       /\ DOMAIN p = 1 .. Len(p) /\ Len(p) \in Nat
  BY <1>8, <1>10, <1>11, LenProperties
<1>13. \A i \in DOMAIN q :
         \/ i \in DOMAIN r /\ q[i] = r[i]
         \/ \E k \in DOMAIN p : i = Len(r) + k /\ q[i] = p[k]
  BY <1>11
<1>14. Climbs(q)
  <2> SUFFICES ASSUME NEW i \in DOMAIN q, NEW k \in DOMAIN q, i < k PROVE q[i] < q[k]
    BY DEF Climbs
  <2>1. CASE i \in DOMAIN r /\ k \in DOMAIN r
    BY <1>10, <1>11, <2>1 DEF Climbs
  <2>2. CASE i \in DOMAIN r /\ ~(k \in DOMAIN r)
    <3>1. PICK m \in DOMAIN p : q[k] = p[m]
      BY <1>13, <2>2
    <3>2. q[i] = r[i] /\ r[i] < c /\ p[m] >= c /\ r[i] \in Int /\ p[m] \in Int
      BY <1>7, <1>8, <1>10, <1>11, <2>2, ElementOfSeq
    <3> QED BY <1>6, <3>1, <3>2
  <2>3. CASE ~(i \in DOMAIN r)
    <3>1. PICK m \in DOMAIN p : i = Len(r) + m /\ q[i] = p[m]
      BY <1>13, <2>3
    <3>2. ~(k \in DOMAIN r)
      BY <1>12, <3>1
    <3>3. PICK l \in DOMAIN p : k = Len(r) + l /\ q[k] = p[l]
      BY <1>13, <3>2
    <3>4. m < l
      BY <1>12, <3>1, <3>3
    <3> QED BY <1>8, <3>1, <3>3, <3>4 DEF Climbs
  <2> QED BY <2>1, <2>2, <2>3
<1>15. \A i \in DOMAIN q : q[i] \in h /\ q[i] \in Int /\ b <= q[i] /\ q[i] <= n
  <2> SUFFICES ASSUME NEW i \in DOMAIN q
               PROVE  q[i] \in h /\ q[i] \in Int /\ b <= q[i] /\ q[i] <= n
    OBVIOUS
  <2>0. q[i] \in Int
    BY <1>11, ElementOfSeq
  <2>1. CASE i \in DOMAIN r
    <3>1. q[i] = r[i] /\ r[i] \in h /\ b <= r[i] /\ r[i] < c
      BY <1>7, <1>10, <1>11, <2>1
    <3> QED BY <1>6, <1>9, <2>0, <3>1
  <2>2. CASE ~(i \in DOMAIN r)
    <3>1. PICK m \in DOMAIN p : q[i] = p[m]
      BY <1>13, <2>2
    <3>2. p[m] \in h /\ p[m] >= c /\ p[m] <= n
      BY <1>8, <1>9
    <3> QED BY <1>6, <2>0, <3>1, <3>2
  <2> QED BY <2>1, <2>2
<1>16. RowsOf(r) \subseteq RowsOf(q) /\ RowsOf(p) \subseteq RowsOf(q)
  <2>1. \A i \in DOMAIN r : r[i] \in RowsOf(q)
    BY Zenon, <1>11 DEF RowsOf
  <2>2. \A i \in DOMAIN p : p[i] \in RowsOf(q)
    BY Zenon, <1>11 DEF RowsOf
  <2> QED BY <2>1, <2>2 DEF RowsOf
<1>17. \A t \in h : b <= t /\ t <= n => t \in RowsOf(q)
  <2> SUFFICES ASSUME NEW t \in h, b <= t, t <= n PROVE t \in RowsOf(q)
    OBVIOUS
  <2>1. t < c \/ c <= t
    BY <1>6
  <2> QED BY <1>7, <1>8, <1>16, <2>1
<1>18. NoHole(q, h)
  <2>1. ASSUME NEW i \in DOMAIN q, NEW k \in DOMAIN q, NEW t \in h, q[i] <= t, t <= q[k]
        PROVE  t \in RowsOf(q)
    <3>1. b <= t /\ t <= n
      BY <1>6, <1>9, <1>15, <2>1
    <3> QED BY <1>17, <3>1
  <2> QED BY <1>11, <1>14, <1>15, <2>1 DEF NoHole
<1> DEFINE g == [f EXCEPT !.rows = f.rows \o p, !.since = p[Len(p)] + 1,
                          !.more = p[Len(p)] < f.upTo]
<1>19. /\ g = [since |-> n + 1, rows |-> q, upTo |-> f.upTo, more |-> n < f.upTo]
  <2>1. f = [since |-> f.since, rows |-> f.rows, upTo |-> f.upTo, more |-> f.more]
    BY Zenon DEF IsFetch
  <2>2. PICK m : m = (n < f.upTo)
    OBVIOUS
  <2>3. g = [f EXCEPT !.rows = q, !.since = n + 1, !.more = m]
    BY Zenon, <1>1, <1>2, <1>4, <2>2
  <2>4. PICK k : k = [f EXCEPT !.rows = q]
    OBVIOUS
  <2>5. PICK l : l = [k EXCEPT !.since = n + 1]
    OBVIOUS
  <2>6. PICK j : j = [l EXCEPT !.more = m]
    OBVIOUS
  <2>7. k = [since |-> f.since, rows |-> q, upTo |-> f.upTo, more |-> f.more]
    BY <2>1, <2>4
  <2>8. l = [since |-> n + 1, rows |-> q, upTo |-> f.upTo, more |-> f.more]
    BY <2>5, <2>7
  <2>9. j = [since |-> n + 1, rows |-> q, upTo |-> f.upTo, more |-> m]
    BY <2>6, <2>8
  <2>10. j = [f EXCEPT !.rows = q, !.since = n + 1, !.more = m]
    BY Zenon, <2>4, <2>5, <2>6
  <2> QED BY Zenon, <2>2, <2>3, <2>9, <2>10
<1> HIDE DEF g
<1>20. g.since = n + 1 /\ g.rows = q /\ g.upTo = f.upTo /\ g.more = (n < f.upTo)
  BY Zenon, <1>19
<1>21. g = [since |-> g.since, rows |-> g.rows, upTo |-> g.upTo, more |-> g.more]
  BY Zenon, <1>19, <1>20
<1>22. g.since \in Int /\ g.upTo \in Int /\ g.more \in BOOLEAN
  BY <1>6, <1>9, <1>20
<1>23. Begins(g) = b
  BY Zenon, <1>3, <1>20 DEF Begins
<1>24. b <= g.since
  BY <1>6, <1>9, <1>20
<1>25. \A i \in DOMAIN q : b <= q[i] /\ q[i] < g.since
  BY <1>9, <1>15, <1>20
<1>26. \A t \in h : b <= t /\ t < g.since => t \in RowsOf(q)
  <2>1. \A t \in h : t < g.since => t <= n
    BY <1>9, <1>20
  <2> QED BY <1>17, <2>1
<1>27. ~g.more => \A t \in h : b <= t /\ t <= g.upTo => t \in RowsOf(q)
  <2> SUFFICES ASSUME ~(n < f.upTo), NEW t \in h, b <= t, t <= f.upTo PROVE t \in RowsOf(q)
    BY Zenon, <1>20
  <2>1. t <= n
    BY <1>6, <1>9
  <2> QED BY <1>17, <2>1
<1>28. IsFetch(g, h)
  BY Zenon, <1>18, <1>20, <1>21, <1>22, <1>23, <1>24, <1>25, <1>26, <1>27 DEF IsFetch
<1> QED BY Zenon, <1>28 DEF g

\* The exchange has no bar from the cursor on.
LEMMA NoMoreBars ==
  ASSUME NEW h \in SUBSET Int, NEW f, IsFetch(f, h), \A t \in h : ~(t >= f.since)
  PROVE  IsFetch([f EXCEPT !.more = FALSE], h)
<1>1. f = [since |-> f.since, rows |-> f.rows, upTo |-> f.upTo, more |-> f.more]
  BY DEF IsFetch
<1>2. PICK g : g = [f EXCEPT !.more = FALSE]
  OBVIOUS
<1>3. g = [since |-> f.since, rows |-> f.rows, upTo |-> f.upTo, more |-> FALSE]
  BY <1>1, <1>2
<1>4. g.since = f.since /\ g.rows = f.rows /\ g.upTo = f.upTo /\ ~g.more /\ g.more \in BOOLEAN
  BY Zenon, <1>3
<1>5. Begins(g) = Begins(f)
  BY Zenon, <1>4 DEF Begins
<1>6. \A t \in h : t < f.since
  BY DEF IsFetch
<1>7. IsFetch(g, h)
  BY Zenon, <1>3, <1>4, <1>5, <1>6 DEF IsFetch
<1> QED BY Zenon, <1>2, <1>7

\* A fetch that began with a bar and ended well has every bar that was asked for.
LEMMA FetchedWhole ==
  ASSUME ReplayConstants, NEW h \in SUBSET Int, NEW f, IsFetch(f, h),
         ~f.more \/ Len(f.rows) = Limit
  PROVE  \A t \in h : f.upTo - Limit < t /\ t <= f.upTo => t \in RowsOf(f.rows)
<1>1. PICK r : r = f.rows
  OBVIOUS
<1>2. PICK b : b = Begins(f)
  OBVIOUS
<1>3. Limit \in Nat /\ f.upTo \in Int /\ f.since \in Int /\ b = f.upTo - Limit + 1 /\ b \in Int
      /\ b <= f.since
  <2>1. f.upTo \in Int /\ f.since \in Int /\ Begins(f) <= f.since
    BY Zenon DEF IsFetch
  <2> QED BY <1>2, <2>1, ReplayNumbers DEF Begins
<1>4. /\ r \in Seq(Int) /\ Climbs(r) /\ \A i \in DOMAIN r : b <= r[i] /\ r[i] < f.since
      /\ \A t \in h : b <= t /\ t < f.since => t \in RowsOf(r)
      /\ ~f.more => \A t \in h : b <= t /\ t <= f.upTo => t \in RowsOf(r)
  BY Zenon, <1>1, <1>2 DEF IsFetch, NoHole
<1>5. CASE ~f.more
  <2> SUFFICES ASSUME NEW t \in h, f.upTo - Limit < t, t <= f.upTo PROVE t \in RowsOf(r)
    BY <1>1
  <2>1. b <= t
    BY <1>3
  <2> QED BY <1>4, <1>5, <2>1
<1>6. CASE Len(r) = Limit
  <2>1. /\ IsFiniteSet(RowsOf(r)) /\ Cardinality(RowsOf(r)) = Limit
    BY <1>4, <1>6, OrderedUnique
  <2>2. RowsOf(r) \subseteq b .. f.since - 1
    <3>1. \A i \in DOMAIN r : r[i] \in Int
      BY <1>4, ElementOfSeq
    <3>2. \A i \in DOMAIN r : r[i] \in b .. f.since - 1
      BY <1>3, <1>4, <3>1
    <3> QED BY <3>2 DEF RowsOf
  <2>3. IsFiniteSet(b .. f.since - 1) /\ Cardinality(b .. f.since - 1) = f.since - b
    <3>1. PICK e \in Int : e = f.since - 1
      BY <1>3
    <3>2. IsFiniteSet(b .. e) /\ Cardinality(b .. e) = IF b > e THEN 0 ELSE e - b + 1
      BY <1>3, FS_Interval
    <3>3. (IF b > e THEN 0 ELSE e - b + 1) = f.since - b
      BY <1>3, <3>1
    <3> QED BY Zenon, <3>1, <3>2, <3>3
  <2>4. Limit <= f.since - b
    BY <2>1, <2>2, <2>3, FS_Subset
  <2>5. f.since > f.upTo
    BY <1>3, <2>4
  <2>6. ASSUME NEW t \in h, f.upTo - Limit < t, t <= f.upTo PROVE t \in RowsOf(r)
    <3>1. b <= t /\ t < f.since
      BY <1>3, <2>5, <2>6
    <3> QED BY <1>4, <3>1
  <2> QED BY <1>1, <2>6
<1> QED BY <1>1, <1>5, <1>6

\* LoaderInv holds at the start.
LEMMA LoaderStart == ASSUME ReplayConstants, W!Init PROVE LoaderInv
<1>1. now \in Int
  BY ReplayNumbers DEF W!Init
<1>2. disk = <<>> /\ fetch = NoRecord /\ data = NoRecord
  BY Zenon DEF W!Init
<1> QED BY Zenon, <1>1, <1>2, EmptyWhole DEF LoaderInv

\* The rows of the cache, whole or its end, as data.
LEMMA CachedIsData ==
  ASSUME NEW h, NEW r, NoHole(r, h) PROVE IsData([rows |-> r, upTo |-> NoRecord], h)
<1>1. PICK d : d = [rows |-> r, upTo |-> NoRecord]
  OBVIOUS
<1>2. d.rows = r /\ d.upTo = NoRecord
  BY <1>1
<1>3. IsData(d, h)
  BY Zenon, <1>1, <1>2 DEF IsData
<1> QED BY Zenon, <1>1, <1>3

\* The newest rows of the cache have no hole.
LEMMA SuffixWhole ==
  ASSUME ReplayConstants, NEW h \in SUBSET Int, NEW s, NoHole(s, h)
  PROVE  NoHole(W!Suffix(s, Limit), h)
<1>1. s \in Seq(Int)
  BY DEF NoHole
<1>2. Len(s) \in Nat /\ Limit \in Nat /\ Limit >= 1
  BY <1>1, LenProperties, ReplayNumbers
<1>3. PICK a : a = IF Len(s) > Limit THEN Len(s) - Limit + 1 ELSE 1
  OBVIOUS
<1>4. a \in 1 .. Len(s) + 1 /\ Len(s) \in a - 1 .. Len(s)
  BY <1>2, <1>3
<1>5. NoHole(SubSeq(s, a, Len(s)), h)
  BY <1>4, SliceWhole
<1> QED BY Zenon, <1>3, <1>5 DEF W!Suffix

\* The clock moves on.
LEMMA LoaderNewBar == ASSUME ReplayConstants, LoaderInv, W!NewBar PROVE LoaderInv'
<1>1. PICK g : g = W!History
  OBVIOUS
<1>2. PICK h : h = W!History'
  OBVIOUS
<1>3. now \in Int /\ now' = now + 1 /\ now' \in Int /\ disk' = disk /\ fetch' = fetch /\ data' = data
  BY DEF W!NewBar, LoaderInv
<1>4. g \subseteq h /\ h \subseteq Int /\ \A t \in h : t <= now => t \in g
  <2>1. g = (FirstListed .. now) \ BarHoles /\ h = (FirstListed .. now') \ BarHoles
    BY Zenon, <1>1, <1>2 DEF W!History
  <2> QED BY <1>3, <2>1, ReplayNumbers
<1>5. \A t \in g : t <= now
  BY <1>1, <1>3, HistoryFacts
<1>6. \A s : NoHole(s, g) => NoHole(s, h)
  <2> SUFFICES ASSUME NEW s, NoHole(s, g) PROVE NoHole(s, h)
    OBVIOUS
  <2>1. \A i \in DOMAIN s : s[i] <= now
    BY <1>5 DEF NoHole
  <2> QED BY <1>3, <1>4, <2>1, LaterWhole
<1>7. NoHole(disk, h)
  BY Zenon, <1>1, <1>6 DEF LoaderInv
<1>8. data = NoRecord
  BY DEF W!NewBar
<1>9. CASE fetch = NoRecord
  BY Zenon, <1>2, <1>3, <1>7, <1>8, <1>9 DEF LoaderInv
<1>10. CASE fetch # NoRecord
  <2>1. IsFetch(fetch, g) /\ fetch.upTo <= now /\ fetch.since <= now + 1
    BY Zenon, <1>1, <1>10 DEF LoaderInv
  <2>2. /\ fetch = [since |-> fetch.since, rows |-> fetch.rows, upTo |-> fetch.upTo, more |-> fetch.more]
        /\ fetch.more \in BOOLEAN /\ NoHole(fetch.rows, g)
        /\ \A i \in DOMAIN fetch.rows : Begins(fetch) <= fetch.rows[i] /\ fetch.rows[i] < fetch.since
    BY Zenon, <2>1 DEF IsFetch
  <2>3. fetch.since \in Int /\ fetch.upTo \in Int /\ Begins(fetch) <= fetch.since
    BY Zenon, <2>1 DEF IsFetch
  <2>4. /\ \A t \in g : Begins(fetch) <= t /\ t < fetch.since => t \in RowsOf(fetch.rows)
        /\ ~fetch.more => \A t \in g : Begins(fetch) <= t /\ t <= fetch.upTo => t \in RowsOf(fetch.rows)
    BY Zenon, <2>1 DEF IsFetch
  <2>5. \A t \in h : (t < fetch.since => t \in g) /\ (t <= fetch.upTo => t \in g)
    <3>1. \A t \in h : t < fetch.since => t <= now
      BY <1>3, <1>4, <2>1, <2>3
    <3>2. \A t \in h : t <= fetch.upTo => t <= now
      BY <1>3, <1>4, <2>1, <2>3
    <3> QED BY Zenon, <1>4, <3>1, <3>2
  <2>6. IsFetch(fetch, h)
    BY Zenon, <1>6, <2>2, <2>3, <2>4, <2>5 DEF IsFetch
  <2>7. fetch.upTo <= now + 1 /\ fetch.since <= now + 1 + 1
    BY <1>3, <2>1, <2>3
  <2>8. LoaderInv'
    BY Zenon, <1>2, <1>3, <1>7, <1>8, <2>6, <2>7 DEF LoaderInv
  <2> QED BY <2>8
<1> QED BY <1>9, <1>10

\* A fetch begins, goes on, or falls back to the cache.
LEMMA LoaderFetch ==
  ASSUME ReplayConstants, LoaderInv,
         \/ W!LoadCached \/ W!StartFetch \/ W!PageEmpty \/ W!PageRaises
         \/ \E k \in 1 .. PerCall : W!Page(k)
  PROVE  LoaderInv'
<1>1. PICK h : h = W!History
  OBVIOUS
<1>2. now' = now /\ disk' = disk
  BY Zenon DEF W!LoadCached, W!StartFetch, W!PageEmpty, W!PageRaises, W!Page
<1>3. W!History' = h
  BY Zenon, <1>1, <1>2 DEF W!History
<1>4. h \in SUBSET Int /\ IsFiniteSet(h) /\ \A t \in h : t <= now
  BY <1>1, HistoryFacts DEF LoaderInv
<1>5. now \in Int /\ NoHole(disk, h)
  BY Zenon, <1>1 DEF LoaderInv
<1>6. fetch # NoRecord => /\ IsFetch(fetch, h) /\ data = NoRecord
                          /\ fetch.upTo <= now /\ fetch.since <= now + 1
  BY Zenon, <1>1 DEF LoaderInv
<1>7. now' \in Int /\ NoHole(disk', W!History')
  BY Zenon, <1>2, <1>3, <1>5
<1>8. CASE W!LoadCached
  <2>1. fetch' = NoRecord /\ data' = [rows |-> W!Suffix(disk, Limit), upTo |-> NoRecord]
    BY Zenon, <1>8 DEF W!LoadCached
  <2>2. IsData(data', h)
    <3>1. NoHole(W!Suffix(disk, Limit), h)
      BY <1>4, <1>5, SuffixWhole
    <3>2. PICK r : r = W!Suffix(disk, Limit)
      OBVIOUS
    <3>3. IsData([rows |-> r, upTo |-> NoRecord], h)
      BY <3>1, <3>2, CachedIsData
    <3> QED BY Zenon, <2>1, <3>2, <3>3
  <2> QED BY Zenon, <1>3, <1>7, <2>1, <2>2 DEF LoaderInv
<1>9. CASE W!StartFetch
  <2>1. /\ data' = NoRecord
        /\ fetch' = [since |-> now - Limit + 1, rows |-> <<>>, upTo |-> now, more |-> TRUE]
    BY Zenon, <1>9 DEF W!StartFetch
  <2>2. PICK f : f = fetch'
    OBVIOUS
  <2>3. f.since = now - Limit + 1 /\ f.rows = <<>> /\ f.upTo = now /\ f.more = TRUE
    BY Zenon, <2>1, <2>2
  <2>4. f = [since |-> f.since, rows |-> f.rows, upTo |-> f.upTo, more |-> f.more]
    BY Zenon, <2>1, <2>2, <2>3
  <2>5. f.since \in Int /\ f.upTo \in Int /\ f.since <= now + 1 /\ f.upTo <= now
    BY <1>5, <2>3, ReplayNumbers
  <2>6. Begins(f) = f.since
    BY <2>3 DEF Begins
  <2>7. Begins(f) <= f.since /\ \A t \in h : ~(Begins(f) <= t /\ t < f.since)
    BY <1>4, <2>5, <2>6
  <2>8. NoHole(f.rows, h) /\ \A i \in DOMAIN f.rows : Begins(f) <= f.rows[i] /\ f.rows[i] < f.since
    BY <2>3, EmptyWhole
  <2>9. IsFetch(f, h)
    BY Zenon, <2>3, <2>4, <2>5, <2>7, <2>8 DEF IsFetch
  <2>10. LoaderInv'
    BY Zenon, <1>2, <1>3, <1>7, <2>1, <2>2, <2>5, <2>9 DEF LoaderInv
  <2> QED BY <2>10
<1>10. CASE W!PageEmpty
  <2>1. fetch # NoRecord /\ fetch' = [fetch EXCEPT !.more = FALSE] /\ data' = data
    BY Zenon, <1>10 DEF W!PageEmpty
  <2>2. \A t \in h : ~(t >= fetch.since)
    BY Zenon, <1>1, <1>10 DEF W!PageEmpty, W!Offered
  <2>3. IsFetch(fetch', h)
    BY <1>4, <1>6, <2>1, <2>2, NoMoreBars
  <2>4. fetch'.upTo = fetch.upTo /\ fetch'.since = fetch.since
    <3>1. fetch = [since |-> fetch.since, rows |-> fetch.rows, upTo |-> fetch.upTo, more |-> fetch.more]
      BY Zenon, <1>6, <2>1 DEF IsFetch
    <3> QED BY <2>1, <3>1
  <2> QED BY Zenon, <1>2, <1>3, <1>6, <1>7, <2>1, <2>3, <2>4 DEF LoaderInv
<1>11. CASE W!PageRaises
  <2>1. fetch' = NoRecord /\ data' = [rows |-> disk, upTo |-> NoRecord]
    BY Zenon, <1>11 DEF W!PageRaises
  <2>2. IsData(data', h)
    <3>1. IsData([rows |-> disk, upTo |-> NoRecord], h)
      BY <1>5, CachedIsData
    <3> QED BY Zenon, <2>1, <3>1
  <2> QED BY Zenon, <1>3, <1>7, <2>1, <2>2 DEF LoaderInv
<1>12. ASSUME NEW k \in 1 .. PerCall, W!Page(k) PROVE LoaderInv'
  <2>1. fetch # NoRecord /\ data' = data
    BY Zenon, <1>12 DEF W!Page
  <2>2. PICK S : S = {t \in h : t >= fetch.since}
    OBVIOUS
  <2>3. W!Offered = S
    BY Zenon, <1>1, <2>2 DEF W!Offered
  <2>4. PICK o : o = W!Ordered(S)
    OBVIOUS
  <2>5. PICK p : p = SubSeq(o, 1, k)
    OBVIOUS
  <2>6. k \in 1 .. Cardinality(S)
    <3>1. k <= W!Cardinality(S)
      BY Zenon, <1>12, <2>3 DEF W!Page
    <3>2. k <= Cardinality(S)
      BY Zenon, <3>1, CardIsCard
    <3>3. Cardinality(S) \in Nat
      BY <1>4, <2>2, FS_Subset, FS_CardinalityType
    <3>4. k \in Int /\ 1 <= k
      OBVIOUS
    <3> QED BY <3>2, <3>3, <3>4
  <2>7. IsPage(p, fetch, h)
    <3>1. fetch.since \in Int
      BY Zenon, <1>6, <2>1 DEF IsFetch
    <3> QED BY <1>4, <2>2, <2>4, <2>5, <2>6, <3>1, PageFacts
  <2>8. fetch' = [fetch EXCEPT !.rows = fetch.rows \o p, !.since = p[Len(p)] + 1,
                               !.more = p[Len(p)] < fetch.upTo]
    BY Zenon, <1>12, <2>3, <2>4, <2>5 DEF W!Page, W!Continues, W!Last
  <2>9. IsFetch(fetch', h)
    <3>1. IsFetch([fetch EXCEPT !.rows = fetch.rows \o p, !.since = p[Len(p)] + 1,
                               !.more = p[Len(p)] < fetch.upTo], h)
      BY <1>4, <1>6, <2>1, <2>7, PageExtends
    <3> QED BY Zenon, <2>8, <3>1
  <2>10. fetch'.upTo = fetch.upTo /\ fetch'.since = p[Len(p)] + 1
    <3>1. fetch = [since |-> fetch.since, rows |-> fetch.rows, upTo |-> fetch.upTo, more |-> fetch.more]
      BY Zenon, <1>6, <2>1 DEF IsFetch
    <3> QED BY <2>8, <3>1
  <2>11. p[Len(p)] \in h
    <3>1. p \in Seq(Int) /\ Len(p) > 0 /\ Climbs(p) /\ \A i \in DOMAIN p : p[i] \in h
      BY Zenon, <2>7 DEF IsPage
    <3> QED BY <3>1, LastIsLast
  <2>12. fetch'.since <= now + 1
    <3>1. p[Len(p)] <= now /\ p[Len(p)] \in Int
      BY <1>4, <2>11
    <3> QED BY <1>5, <2>10, <3>1
  <2>13. LoaderInv'
    BY Zenon, <1>2, <1>3, <1>6, <1>7, <2>1, <2>9, <2>10, <2>12 DEF LoaderInv
  <2> QED BY <2>13
<1> QED BY Zenon, <1>8, <1>9, <1>10, <1>11, <1>12

\* A fetch ends, or a crash cuts its file.
LEMMA LoaderEnds ==
  ASSUME ReplayConstants, LoaderInv, W!Finish \/ W!CrashWriting PROVE LoaderInv'
<1>1. PICK h : h = W!History
  OBVIOUS
<1>2. now' = now /\ fetch # NoRecord /\ fetch' = NoRecord
  BY Zenon DEF W!Finish, W!CrashWriting, W!Fetched
<1>3. W!History' = h
  BY Zenon, <1>1, <1>2 DEF W!History
<1>4. h \in SUBSET Int
  BY <1>1, HistoryFacts DEF LoaderInv
<1>5. now' \in Int /\ NoHole(disk, h) /\ IsFetch(fetch, h) /\ data = NoRecord
  BY Zenon, <1>1, <1>2 DEF LoaderInv
<1>6. PICK r : r = fetch.rows
  OBVIOUS
<1>7. NoHole(r, h) /\ fetch.upTo \in Int
  BY Zenon, <1>5, <1>6 DEF IsFetch
<1>8. CASE W!Finish /\ fetch.rows = <<>>
  <2>1. data' = [rows |-> disk, upTo |-> NoRecord] /\ disk' = disk
    BY Zenon, <1>8 DEF W!Finish
  <2>2. IsData([rows |-> disk, upTo |-> NoRecord], h)
    BY <1>5, CachedIsData
  <2> QED BY Zenon, <1>2, <1>3, <1>5, <2>1, <2>2 DEF LoaderInv
<1>9. CASE W!Finish /\ fetch.rows # <<>>
  <2>1. data' = [rows |-> r, upTo |-> fetch.upTo] /\ disk' = r
    BY Zenon, <1>6, <1>9 DEF W!Finish
  <2>2. ~fetch.more \/ Len(fetch.rows) = Limit
    BY Zenon, <1>9 DEF W!Finish, W!Fetched
  <2>3. \A t \in h : fetch.upTo - Limit < t /\ t <= fetch.upTo => t \in RowsOf(fetch.rows)
    BY <1>4, <1>5, <2>2, FetchedWhole
  <2>4. PICK d : d = data'
    OBVIOUS
  <2>5. d.rows = r /\ d.upTo = fetch.upTo /\ d = [rows |-> d.rows, upTo |-> d.upTo]
    <3>1. d = [rows |-> r, upTo |-> fetch.upTo]
      BY <2>1, <2>4
    <3>2. d.rows = r /\ d.upTo = fetch.upTo
      BY Zenon, <3>1
    <3> QED BY Zenon, <3>1, <3>2
  <2>6. IsData(d, h)
    BY Zenon, <1>6, <1>7, <2>3, <2>5 DEF IsData
  <2>7. LoaderInv'
    BY Zenon, <1>2, <1>3, <1>5, <1>7, <2>1, <2>4, <2>6 DEF LoaderInv
  <2> QED BY <2>7
<1>10. CASE W!CrashWriting
  <2>1. data' = NoRecord
    BY Zenon, <1>5, <1>10 DEF W!CrashWriting
  <2>2. PICK n \in 0 .. Len(r) - 1 : disk' = SubSeq(r, 1, n)
    BY Zenon, <1>6, <1>10 DEF W!CrashWriting
  <2>3. NoHole(SubSeq(r, 1, n), h)
    <3>1. Len(r) \in Nat
      BY <1>7, LenProperties DEF NoHole
    <3>2. 1 \in 1 .. Len(r) + 1 /\ n \in 1 - 1 .. Len(r)
      BY <3>1
    <3> QED BY <1>4, <1>7, <3>2, SliceWhole
  <2>4. LoaderInv'
    BY Zenon, <1>2, <1>3, <1>5, <2>1, <2>2, <2>3 DEF LoaderInv
  <2> QED BY <2>4
<1> QED BY Zenon, <1>8, <1>9, <1>10

\* The windows leave the history alone.
LEMMA LoaderRests ==
  ASSUME LoaderInv, now' = now, disk' = disk, fetch' = fetch,
         data' = data \/ data' = NoRecord
  PROVE  LoaderInv'
<1>1. W!History' = W!History
  BY Zenon DEF W!History
<1>2. CASE data' = data
  BY Zenon, <1>1, <1>2 DEF LoaderInv
<1>3. CASE data' = NoRecord
  BY Zenon, <1>1, <1>3 DEF LoaderInv
<1> QED BY Zenon, <1>2, <1>3

\* LoaderInv is inductive.
LEMMA LoaderStep == ASSUME ReplayConstants, LoaderInv, W!Next PROVE LoaderInv'
<1>1. CASE W!NewBar
  BY <1>1, LoaderNewBar
<1>2. CASE \/ W!LoadCached \/ W!StartFetch \/ W!PageEmpty \/ W!PageRaises
           \/ \E k \in 1 .. PerCall : W!Page(k)
  BY <1>2, LoaderFetch
<1>3. CASE W!Finish \/ W!CrashWriting
  BY <1>3, LoaderEnds
<1>4. CASE \/ W!Begin \/ W!Insufficient \/ W!NextWindow \/ W!Judge \/ W!Again
           \/ \E o \in [kind : {"none", "hold", "partial", "close"}, pnl : TradePnls \cup {0}],
                 enter \in BOOLEAN : W!Event(o, enter)
           \/ \E s \in W!Range(Pair), pnl \in TradePnls : W!ForceClose(s, pnl)
  <2>1. now' = now /\ disk' = disk /\ fetch' = fetch /\ (data' = data \/ data' = NoRecord)
    BY Zenon, <1>4 DEF W!Begin, W!Insufficient, W!NextWindow, W!Judge, W!Again, W!Event,
       W!ForceClose, W!loading, W!Fresh
  <2> QED BY <2>1, LoaderRests
<1> QED BY Zenon, <1>1, <1>2, <1>3, <1>4 DEF W!Next

\* Replay.HistoryWhole
LEMMA HistoryIsWhole == ASSUME ReplayConstants, LoaderInv PROVE W!HistoryWhole
<1> SUFFICES ASSUME data # NoRecord
             PROVE  LET rows == W!Range(data.rows)
                    IN  /\ data.rows = W!Ordered(rows)
                        /\ \A t \in W!History :
                              (rows # {} /\ W!Min(rows) <= t /\ t <= W!Max(rows)) => t \in rows
                        /\ data.upTo # NoRecord =>
                              {t \in W!History : data.upTo - Limit < t /\ t <= data.upTo} \subseteq rows
  BY Zenon DEF W!HistoryWhole, W!Rows
<1>1. PICK h : h = W!History
  OBVIOUS
<1>2. PICK s : s = data.rows
  OBVIOUS
<1>3. /\ NoHole(s, h)
      /\ data.upTo # NoRecord =>
           data.upTo \in Int /\ \A t \in h : data.upTo - Limit < t /\ t <= data.upTo => t \in RowsOf(s)
  BY Zenon, <1>1, <1>2 DEF LoaderInv, IsData
<1>4. s \in Seq(Int) /\ Climbs(s)
  BY <1>3 DEF NoHole
<1>5. PICK R : R = RowsOf(s)
  OBVIOUS
<1>6. W!Range(s) = R
  BY Zenon, <1>5 DEF W!Range, RowsOf
<1>7. s = W!Ordered(R) /\ IsFiniteSet(R) /\ R \subseteq Int
  BY <1>4, <1>5, OrderedUnique
<1>8. ASSUME NEW t \in h, R # {}, W!Min(R) <= t, t <= W!Max(R) PROVE t \in R
  <2>1. PICK m \in R : \A k \in R : m >= k
    BY <1>7, <1>8, GreatestElement
  <2>2. W!Max(R) \in R
    <3>1. W!Max(R) = CHOOSE x \in R : \A y \in R : x >= y
      BY Zenon DEF W!Max
    <3> QED BY Zenon, <2>1, <3>1
  <2>3. PICK l \in R : \A k \in R : l <= k
    <3>1. PICK i \in DOMAIN s : s[i] \in R
      BY Zenon, <1>5, <1>8 DEF RowsOf
    <3>2. 1 \in DOMAIN s /\ DOMAIN s = 1 .. Len(s) /\ Len(s) \in Nat
      <4>1. Len(s) \in Nat /\ DOMAIN s = 1 .. Len(s)
        BY <1>4, LenProperties
      <4> QED BY <3>1, <4>1
    <3>3. ASSUME NEW k \in DOMAIN s PROVE s[1] <= s[k]
      <4>1. s[1] \in Int /\ s[k] \in Int
        BY <1>4, <3>2, ElementOfSeq
      <4>2. k = 1 \/ 1 < k
        BY <3>2
      <4>3. 1 < k => s[1] < s[k]
        BY <1>4, <3>2 DEF Climbs
      <4> QED BY <4>1, <4>2, <4>3
    <3>4. s[1] \in R /\ \A k \in R : s[1] <= k
      BY Zenon, <1>5, <3>2, <3>3 DEF RowsOf
    <3> QED BY <3>4
  <2>4. W!Min(R) \in R
    <3>1. W!Min(R) = CHOOSE x \in R : \A y \in R : x <= y
      BY Zenon DEF W!Min
    <3> QED BY Zenon, <2>3, <3>1
  <2>5. PICK i \in DOMAIN s : s[i] = W!Min(R)
    BY Zenon, <1>5, <2>4 DEF RowsOf
  <2>6. PICK k \in DOMAIN s : s[k] = W!Max(R)
    BY Zenon, <1>5, <2>2 DEF RowsOf
  <2>7. s[i] <= t /\ t <= s[k]
    BY Zenon, <1>8, <2>5, <2>6
  <2> QED BY Zenon, <1>3, <1>5, <2>7 DEF NoHole
<1>9. data.upTo # NoRecord => {t \in h : data.upTo - Limit < t /\ t <= data.upTo} \subseteq R
  BY Zenon, <1>3, <1>5
<1> QED BY Zenon, <1>1, <1>2, <1>6, <1>7, <1>8, <1>9

\* A sequence of whatever it holds.
IsList(s) == \E S : s \in Seq(S)

\* The positions of a sequence.
LEMMA ListFacts ==
  ASSUME NEW s, IsList(s) PROVE Len(s) \in Nat /\ DOMAIN s = 1 .. Len(s)
BY LenProperties DEF IsList

\* The empty sequence.
LEMMA EmptyList == IsList(<<>>) /\ DOMAIN <<>> = {}
<1>1. <<>> \in Seq(Int)
  OBVIOUS
<1> QED BY <1>1 DEF IsList

\* One element more.
LEMMA AppendList ==
  ASSUME NEW s, IsList(s), NEW e
  PROVE  /\ IsList(Append(s, e)) /\ DOMAIN Append(s, e) = DOMAIN s \cup {Len(s) + 1}
         /\ Len(s) + 1 \notin DOMAIN s
         /\ Append(s, e)[Len(s) + 1] = e /\ \A i \in DOMAIN s : Append(s, e)[i] = s[i]
<1>0. PICK q : q = Append(s, e)
  OBVIOUS
<1>1. PICK S : s \in Seq(S)
  BY DEF IsList
<1>2. PICK T : T = S \cup {e}
  OBVIOUS
<1>3. s \in Seq(T) /\ e \in T
  BY <1>1, <1>2, SeqMonotonic
<1>4. /\ q \in Seq(T) /\ Len(q) = Len(s) + 1
      /\ \A i \in 1 .. Len(s) : q[i] = s[i]
      /\ q[Len(s) + 1] = e
  BY <1>0, <1>3, AppendProperties
<1>5. Len(s) \in Nat /\ DOMAIN s = 1 .. Len(s) /\ DOMAIN q = 1 .. Len(q)
  BY <1>3, <1>4, LenProperties
<1>6. DOMAIN q = DOMAIN s \cup {Len(s) + 1} /\ Len(s) + 1 \notin DOMAIN s
  BY <1>4, <1>5
<1>7. IsList(q)
  BY <1>4 DEF IsList
<1> QED BY <1>0, <1>4, <1>5, <1>6, <1>7

\* One sequence after another.
LEMMA JoinList ==
  ASSUME NEW s, IsList(s), NEW p, IsList(p), NEW q, q = s \o p
  PROVE  /\ IsList(q)
         /\ \A i \in DOMAIN s : i \in DOMAIN q /\ q[i] = s[i]
         /\ \A i \in DOMAIN q :
               \/ i \in DOMAIN s
               \/ i - Len(s) \in DOMAIN p /\ q[i] = p[i - Len(s)]
<1>1. PICK S : s \in Seq(S)
  BY DEF IsList
<1>2. PICK U : p \in Seq(U)
  BY DEF IsList
<1>3. PICK T : T = S \cup U
  OBVIOUS
<1>4. s \in Seq(T) /\ p \in Seq(T)
  BY <1>1, <1>2, <1>3, SeqMonotonic
<1>5. /\ q \in Seq(T)
      /\ \A i \in DOMAIN s : i \in DOMAIN q /\ q[i] = s[i]
      /\ \A i \in DOMAIN p : q[Len(s) + i] = p[i]
      /\ \A i \in DOMAIN q : \/ i \in DOMAIN s
                             \/ i - Len(s) \in DOMAIN p /\ i = Len(s) + (i - Len(s))
  BY <1>4, ConcatFacts
<1>6. IsList(q)
  BY <1>5 DEF IsList
<1> QED BY <1>5, <1>6

\* Quotient and remainder.
LEMMA DivisionFacts ==
  ASSUME NEW e \in Nat, NEW p \in Nat \ {0}
  PROVE  e \div p \in Nat /\ e % p \in 0 .. p - 1 /\ e = p * (e \div p) + (e % p)
OBVIOUS

\* Fewer than k * n events are on the first k bars.
LEMMA QuotientBelow ==
  ASSUME NEW e \in Nat, NEW p \in Nat \ {0}, NEW k \in Nat, e < k * p
  PROVE  e \div p < k
<1>1. PICK q \in Nat, r \in 0 .. p - 1 : q = e \div p /\ e = p * q + r
  BY DivisionFacts
<1>2. ASSUME q >= k PROVE FALSE
  <2>1. PICK d \in Nat : q = k + d
    BY <1>2
  <2>2. e = k * p + d * p + r
    BY <1>1, <2>1
  <2>3. d * p >= 0
    OBVIOUS
  <2> QED BY <2>2, <2>3
<1> QED BY <1>1, <1>2

\* The bar of the next event is not an earlier one.
LEMMA QuotientGrows ==
  ASSUME NEW e \in Nat, NEW p \in Nat \ {0} PROVE e \div p <= (e + 1) \div p
<1>1. PICK q \in Nat, r \in 0 .. p - 1 : q = e \div p /\ e = p * q + r
  BY DivisionFacts
<1>2. PICK v \in Nat, w \in 0 .. p - 1 : v = (e + 1) \div p /\ e + 1 = p * v + w
  BY DivisionFacts
<1>3. ASSUME q > v PROVE FALSE
  <2>1. PICK d \in Nat : q = v + 1 + d
    BY <1>3
  <2>2. p * q = p * v + p + d * p
    BY <2>1
  <2>3. d * p >= 0
    OBVIOUS
  <2> QED BY <1>1, <1>2, <2>2, <2>3
<1> QED BY <1>1, <1>2, <1>3

\* The sums of the instance are those of the library.
LEMMA SumIsTotal == \A f : W!SumFunction(f) = Total(f, DOMAIN f)
BY Zenon DEF W!SumFunction, W!SumFunctionOnSet, W!FoldFunctionOnSet, W!MapThenFoldSet,
             Total, SumFunctionOnSet, FoldFunctionOnSet, MapThenFoldSet

\* The net of a list of results is their total.
LEMMA NetFacts ==
  ASSUME NEW s, IsList(s), \A i \in DOMAIN s : s[i].net \in Int
  PROVE  W!Net(s) \in Int /\ W!Net(s) = Total([i \in DOMAIN s |-> s[i].net], DOMAIN s)
<1>1. PICK f : f = [i \in DOMAIN s |-> s[i].net]
  OBVIOUS
<1>2. W!Net(s) = W!SumFunction(f)
  BY Zenon, <1>1 DEF W!Net
<1>3. DOMAIN f = DOMAIN s /\ \A i \in DOMAIN s : f[i] \in Int
  BY <1>1
<1>4. W!Net(s) = Total(f, DOMAIN s)
  BY Zenon, <1>2, <1>3, SumIsTotal
<1>5. IsFiniteSet(DOMAIN s)
  <2>1. Len(s) \in Nat /\ DOMAIN s = 1 .. Len(s)
    BY ListFacts
  <2>2. IsFiniteSet(1 .. Len(s))
    BY <2>1, FS_Interval
  <2> QED BY <2>1, <2>2
<1>6. Total(f, DOMAIN s) \in Int
  BY <1>3, <1>5, TotalIsInt
<1> QED BY <1>1, <1>4, <1>6

\* Nothing closed, nothing made.
LEMMA NetOfNone == W!Net(<<>>) = 0
<1>1. W!Net(<<>>) = Total([i \in DOMAIN <<>> |-> <<>>[i].net], DOMAIN <<>>)
  BY NetFacts, EmptyList
<1> QED BY <1>1, EmptyList, TotalEmpty

\* One result more adds its net.
LEMMA NetOfMore ==
  ASSUME NEW s, IsList(s), \A i \in DOMAIN s : s[i].net \in Int, NEW e, e.net \in Int,
         NEW q, q = Append(s, e)
  PROVE  W!Net(q) = W!Net(s) + e.net
<1>1. PICK D : D = DOMAIN s
  OBVIOUS
<1>2. PICK n : n = Len(s) + 1
  OBVIOUS
<1>3. /\ IsList(q) /\ DOMAIN q = D \cup {n} /\ n \notin D
      /\ q[n] = e /\ \A i \in D : q[i] = s[i]
  <2>1. /\ IsList(q) /\ DOMAIN q = DOMAIN s \cup {Len(s) + 1} /\ Len(s) + 1 \notin DOMAIN s
        /\ q[Len(s) + 1] = e /\ \A i \in DOMAIN s : q[i] = s[i]
    <3>1. /\ IsList(Append(s, e)) /\ DOMAIN Append(s, e) = DOMAIN s \cup {Len(s) + 1}
          /\ Len(s) + 1 \notin DOMAIN s
          /\ Append(s, e)[Len(s) + 1] = e /\ \A i \in DOMAIN s : Append(s, e)[i] = s[i]
      BY AppendList
    <3> QED BY Zenon, <3>1
  <2> QED BY Zenon, <1>1, <1>2, <2>1
<1>4. PICK f : f = [i \in D |-> s[i].net]
  OBVIOUS
<1>5. PICK g : g = [i \in D \cup {n} |-> q[i].net]
  OBVIOUS
<1>6. /\ \A i \in D : f[i] \in Int /\ g[i] = f[i]
      /\ g[n] = e.net /\ \A i \in D \cup {n} : g[i] \in Int
  BY <1>1, <1>3, <1>4, <1>5
<1>7. IsFiniteSet(D)
  <2>1. Len(s) \in Nat /\ D = 1 .. Len(s)
    BY <1>1, ListFacts
  <2>2. PICK k \in Nat : k = Len(s)
    BY <2>1
  <2>3. 1 \in Int /\ k \in Int
    OBVIOUS
  <2>4. IsFiniteSet(1 .. k)
    BY Zenon, <2>3, FS_Interval
  <2> QED BY Zenon, <2>1, <2>2, <2>4
<1>8. Total(g, D \cup {n}) = Total(g, D) + g[n]
  BY <1>3, <1>6, <1>7, TotalAdd
<1>9. Total(g, D) = Total(f, D)
  BY <1>6, <1>7, TotalSame
<1>10. \A i \in DOMAIN q : q[i].net \in Int
  BY <1>3, <1>6, <1>5
<1>11. W!Net(q) = Total(g, D \cup {n})
  <2>1. W!Net(q) = Total([i \in DOMAIN q |-> q[i].net], DOMAIN q)
    BY <1>3, <1>10, NetFacts
  <2> QED BY Zenon, <1>3, <1>5, <2>1
<1>12. W!Net(s) = Total(f, D)
  <2>1. W!Net(s) = Total([i \in DOMAIN s |-> s[i].net], DOMAIN s)
    BY NetFacts
  <2> QED BY Zenon, <1>1, <1>4, <2>1
<1> QED BY <1>6, <1>8, <1>9, <1>11, <1>12

\* Two sums that differ in what they say of one element.
LEMMA SumsApart ==
  ASSUME NEW f, NEW g, NEW S, IsFiniteSet(S), NEW T, IsFiniteSet(T), NEW x,
         S \ {x} = T \ {x}, \A y \in S : f[y] \in Int, \A y \in T : g[y] \in Int,
         \A y \in S \ {x} : f[y] = g[y]
  PROVE  /\ Total(f, S) \in Int /\ Total(g, T) \in Int
         /\ Total(g, T) - (IF x \in T THEN g[x] ELSE 0)
              = Total(f, S) - (IF x \in S THEN f[x] ELSE 0)
<1>1. PICK R : R = S \ {x}
  OBVIOUS
<1>2. IsFiniteSet(R) /\ R = T \ {x}
  BY <1>1, FS_Subset
<1>3. \A y \in R : f[y] \in Int /\ f[y] = g[y]
  BY <1>1
<1>4. Total(f, R) = Total(g, R) /\ Total(f, R) \in Int
  BY <1>2, <1>3, TotalSame, TotalIsInt
<1>5. Total(f, S) \in Int /\ Total(g, T) \in Int
  BY TotalIsInt
<1>6. Total(f, S) - (IF x \in S THEN f[x] ELSE 0) = Total(f, R)
  <2>1. CASE x \in S
    <3>1. Total(f, S) = f[x] + Total(f, S \ {x})
      BY <2>1, TotalRemove
    <3>2. f[x] \in Int
      BY <2>1
    <3> QED BY <1>1, <1>4, <1>5, <2>1, <3>1, <3>2
  <2>2. CASE x \notin S
    <3>1. R = S
      BY <1>1, <2>2
    <3> QED BY <1>5, <2>2, <3>1
  <2> QED BY <2>1, <2>2
<1>7. Total(g, T) - (IF x \in T THEN g[x] ELSE 0) = Total(g, R)
  <2>1. CASE x \in T
    <3>1. Total(g, T) = g[x] + Total(g, T \ {x})
      BY <2>1, TotalRemove
    <3>2. g[x] \in Int
      BY <2>1
    <3> QED BY <1>2, <1>4, <1>5, <2>1, <3>1, <3>2
  <2>2. CASE x \notin T
    <3>1. R = T
      BY <1>2, <2>2
    <3> QED BY <1>5, <2>2, <3>1
  <2> QED BY <2>1, <2>2
<1> QED BY <1>4, <1>5, <1>6, <1>7

\* The place in the data of the bar the next event is at; when the window's events are
\* over, of its last bar.
Place(e) == IF e < W!Events THEN start - Warmup + FirstBar + (e \div Len(Pair)) + 1
            ELSE start + Oos
BarAt(e) == data.rows[Place(e)]

\* A closed trade.
IsDeal(d) ==
    /\ d.symbol \in RowsOf(Pair)
    /\ d.open \in Int /\ d.close \in Int /\ d.net \in Int /\ d.since \in Int

\* The running window lies in the data, after its context bars.
InWindow ==
    /\ data # NoRecord /\ verdict = NoRecord
    /\ start \in Int /\ Warmup <= start /\ start + Oos <= Len(data.rows)
    /\ event \in Nat /\ event <= W!Events

\* What is open was opened at a bar already seen.
Positions ==
    /\ DOMAIN open = RowsOf(Pair) /\ DOMAIN lastClose = RowsOf(Pair)
    /\ open = [s \in RowsOf(Pair) |-> open[s]]
    /\ lastClose = [s \in RowsOf(Pair) |-> lastClose[s]]
    /\ \A s \in RowsOf(Pair) :
         /\ open[s] # NoRecord =>
              /\ open[s] = [open |-> open[s].open, knew |-> open[s].knew, real |-> open[s].real]
              /\ open[s].open \in Int /\ open[s].real \in Int /\ open[s].open <= BarAt(event)
         /\ lastClose[s] # NoRecord => lastClose[s] \in Int

\* A result is over before the position of its symbol, and before the next result of it,
\* was opened; while events come, its symbol remembers a close no earlier.
Results ==
    /\ IsList(closed)
    /\ \A i \in DOMAIN closed :
         /\ IsDeal(closed[i])
         /\ closed[i].since = data.rows[start + 1] /\ closed[i].close <= BarAt(event)
         /\ event < W!Events => /\ lastClose[closed[i].symbol] # NoRecord
                                /\ closed[i].close <= lastClose[closed[i].symbol]
         /\ open[closed[i].symbol] # NoRecord => closed[i].close < open[closed[i].symbol].open
    /\ \A i, k \in DOMAIN closed :
         i < k /\ closed[i].symbol = closed[k].symbol => closed[i].close < closed[k].open

\* The results of the windows before.
Apart(s) ==
    \A i, k \in DOMAIN s :
        (i < k /\ s[i].symbol = s[k].symbol /\ s[k].open >= s[k].since) => s[i].close < s[k].open
Collected ==
    /\ IsList(collected) /\ Apart(collected)
    /\ \A i \in DOMAIN collected : IsDeal(collected[i])

\* They were over when the window began.
Earlier == \A i \in DOMAIN collected : collected[i].close <= data.rows[start]

\* What the open positions have realised so far.
HeldSum == W!SumFunction([s \in W!Held |-> open[s].real])

\* The balance: what was closed and what the open positions have realised.
Money == purse = Stake + W!Net(closed) + HeldSum

\* The invariant of the windows.
WindowInv ==
    /\ Collected
    /\ start # NoRecord => InWindow /\ Positions /\ Results /\ Earlier /\ Money
    /\ start = NoRecord => closed = <<>> /\ (verdict = NoRecord => collected = <<>>)

\* The symbols are finitely many, and at least one.
LEMMA PairFacts ==
  ASSUME ReplayConstants
  PROVE  /\ Len(Pair) \in Nat \ {0} /\ DOMAIN Pair = 1 .. Len(Pair)
         /\ W!Range(Pair) = RowsOf(Pair) /\ IsFiniteSet(RowsOf(Pair))
<1>1. ReplayPair
  BY DEF ReplayConstants
<1>2. Pair \in Seq(RowsOf(Pair)) /\ Len(Pair) > 0
  BY Zenon, <1>1 DEF ReplayPair
<1>3. Len(Pair) \in Nat /\ DOMAIN Pair = 1 .. Len(Pair)
  BY <1>2, LenProperties
<1>4. W!Range(Pair) = RowsOf(Pair)
  BY Zenon DEF W!Range, RowsOf
<1>5. IsFiniteSet(RowsOf(Pair))
  <2>1. PICK D : D = DOMAIN Pair
    OBVIOUS
  <2>2. IsFiniteSet(D)
    BY <1>3, <2>1, FS_Interval
  <2>3. IsFiniteSet({Pair[k] : k \in D})
    BY <2>2, ImageFinite
  <2> QED BY Zenon, <2>1, <2>3 DEF RowsOf
<1> QED BY <1>2, <1>3, <1>4, <1>5

\* The rows of a window that starts at s0, and how many events it has.
LEMMA SliceWindow ==
  ASSUME ReplayConstants, NEW r \in Seq(Int), NEW s0 \in Int, Warmup <= s0, s0 + Oos <= Len(r)
  PROVE  /\ Len(SubSeq(r, s0 - Warmup + 1, s0 + Oos)) = Warmup + Oos
         /\ \A i \in 1 .. Warmup + Oos :
               SubSeq(r, s0 - Warmup + 1, s0 + Oos)[i] = r[s0 - Warmup + i]
         /\ ((Warmup + Oos) - FirstBar) * Len(Pair) \in Nat
<1>1. Warmup \in Nat /\ Oos \in Nat /\ FirstBar \in Nat /\ FirstBar <= Warmup + Oos
  BY Zenon, ReplayNumbers
<1>4. Len(r) \in Nat
  BY LenProperties
<1>6. PICK a \in Int, b \in Int : a = s0 - Warmup + 1 /\ b = s0 + Oos
  BY <1>1
<1>7. a \in 1 .. Len(r) + 1 /\ b \in a - 1 .. Len(r) /\ b - a + 1 = Warmup + Oos
  <2>1. a >= 1 /\ a <= Len(r) + 1 /\ a - 1 <= b /\ b <= Len(r) /\ b - a + 1 = Warmup + Oos
    BY <1>1, <1>4, <1>6
  <2> QED BY <1>1, <1>4, <2>1
<1>8. PICK w : w = SubSeq(r, a, b)
  OBVIOUS
<1>9. /\ Len(w) = b - a + 1 /\ \A i \in 1 .. b - a + 1 : w[i] = r[a + i - 1]
  BY <1>7, <1>8, SliceFacts
<1>12. ASSUME NEW i \in 1 .. Warmup + Oos PROVE w[i] = r[s0 - Warmup + i]
  <2>1. i \in Int
    BY <1>1
  <2>2. a + i - 1 = s0 - Warmup + i
    BY <1>1, <1>6, <2>1
  <2> QED BY <1>7, <1>9, <2>2
<1>13. ((Warmup + Oos) - FirstBar) * Len(Pair) \in Nat
  <2>1. PICK n \in Nat \ {0} : n = Len(Pair)
    BY Zenon, PairFacts
  <2>2. PICK k \in Nat : k = (Warmup + Oos) - FirstBar
    <3>1. (Warmup + Oos) - FirstBar \in Nat
      BY <1>1
    <3> QED BY Zenon, <3>1
  <2>3. k * n \in Nat
    OBVIOUS
  <2> QED BY Zenon, <2>1, <2>2, <2>3
<1>14. Len(w) = Warmup + Oos
  BY <1>7, <1>9
<1> QED BY Zenon, <1>6, <1>8, <1>12, <1>13, <1>14

\* The rows of the running window and its events.
LEMMA WindowFacts ==
  ASSUME ReplayConstants, LoaderInv, InWindow
  PROVE  /\ data.rows \in Seq(Int) /\ Climbs(data.rows) /\ Len(data.rows) \in Nat
         /\ DOMAIN data.rows = 1 .. Len(data.rows)
         /\ \A i \in 1 .. Warmup + Oos : W!Window[i] = data.rows[start - Warmup + i]
         /\ W!Events = ((Warmup + Oos) - FirstBar) * Len(Pair) /\ W!Events \in Nat
         /\ W!Last(W!Window) = data.rows[start + Oos]
<1>1. NoHole(data.rows, W!History)
  BY Zenon DEF LoaderInv, IsData, InWindow
<1>2. PICK r : r = data.rows
  OBVIOUS
<1>3. r \in Seq(Int) /\ Climbs(r)
  BY <1>1, <1>2 DEF NoHole
<1>4. Len(r) \in Nat /\ DOMAIN r = 1 .. Len(r)
  BY <1>3, LenProperties
<1>5. start \in Int /\ Warmup <= start /\ start + Oos <= Len(r)
  BY Zenon, <1>2 DEF InWindow
<1>6. PICK w : w = SubSeq(r, start - Warmup + 1, start + Oos)
  OBVIOUS
<1>7. W!Window = w
  BY Zenon, <1>2, <1>6 DEF W!Window, W!Rows
<1>8. PICK s0 \in Int : s0 = start
  BY <1>5
<1>9. /\ Len(SubSeq(r, s0 - Warmup + 1, s0 + Oos)) = Warmup + Oos
      /\ \A i \in 1 .. Warmup + Oos :
            SubSeq(r, s0 - Warmup + 1, s0 + Oos)[i] = r[s0 - Warmup + i]
      /\ ((Warmup + Oos) - FirstBar) * Len(Pair) \in Nat
  BY <1>3, <1>5, <1>8, SliceWindow
<1>10. /\ Len(w) = Warmup + Oos /\ \A i \in 1 .. Warmup + Oos : w[i] = r[start - Warmup + i]
  BY Zenon, <1>6, <1>8, <1>9
<1>11. W!Events = ((Warmup + Oos) - FirstBar) * Len(Pair)
  <2>1. Len(W!Window) = Warmup + Oos
    BY Zenon, <1>7, <1>10
  <2> QED BY Zenon, <2>1 DEF W!Events
<1>12. W!Last(w) = r[start + Oos]
  <2>1. W!Last(w) = w[Len(w)]
    BY Zenon DEF W!Last
  <2>2. Len(w) \in 1 .. Warmup + Oos /\ start - Warmup + Len(w) = start + Oos
    BY <1>5, <1>10, ReplayNumbers
  <2> QED BY <1>10, <2>1, <2>2
<1> QED BY Zenon, <1>2, <1>3, <1>4, <1>7, <1>9, <1>10, <1>11, <1>12

\* Where the events are.
LEMMA PlaceFacts ==
  ASSUME ReplayConstants, LoaderInv, InWindow, event < W!Events
  PROVE  /\ W!Symbol \in RowsOf(Pair)
         /\ Place(event) \in DOMAIN data.rows /\ W!Ts = BarAt(event) /\ W!Ts \in Int
         /\ Place(event) <= start + Oos
<1>1. PICK n \in Nat \ {0} : n = Len(Pair) /\ DOMAIN Pair = 1 .. n
  BY PairFacts
<1>2. PICK k \in Nat : k = (Warmup + Oos) - FirstBar
  BY ReplayNumbers
<1>3. W!Events = k * n
  BY Zenon, <1>1, <1>2, WindowFacts
<1>4. event \in Nat
  BY DEF InWindow
<1>5. PICK q \in Nat : q = event \div n
  BY <1>4, DivisionFacts
<1>6. q < k
  BY <1>3, <1>4, <1>5, QuotientBelow
<1>7. start \in Int /\ Warmup <= start /\ start + Oos <= Len(data.rows)
  BY Zenon DEF InWindow
<1>8. PICK i \in Int : i = FirstBar + q + 1
  BY ReplayNumbers
<1>9. i \in 1 .. Warmup + Oos
  BY <1>2, <1>6, <1>8, ReplayNumbers
<1>10. W!Index = i
  BY Zenon, <1>1, <1>5, <1>8 DEF W!Index
<1>11. Place(event) = start - Warmup + i
  <2>1. Place(event) = start - Warmup + FirstBar + q + 1
    BY Zenon, <1>1, <1>5 DEF Place
  <2> QED BY <1>7, <1>8, <2>1, ReplayNumbers
<1>12. Place(event) \in DOMAIN data.rows /\ Place(event) <= start + Oos
  <2>1. DOMAIN data.rows = 1 .. Len(data.rows) /\ Len(data.rows) \in Nat
    BY Zenon, WindowFacts
  <2>2. Warmup \in Nat /\ Oos \in Nat /\ 1 <= i /\ i <= Warmup + Oos
    BY <1>9, ReplayNumbers
  <2>3. 1 <= Place(event) /\ Place(event) <= start + Oos /\ Place(event) \in Int
    BY <1>7, <1>8, <1>11, <2>2
  <2> QED BY <1>7, <2>1, <2>2, <2>3
<1>13. W!Ts = BarAt(event)
  <2>1. W!Window[i] = data.rows[start - Warmup + i]
    BY <1>9, WindowFacts
  <2> QED BY Zenon, <1>10, <1>11, <2>1 DEF W!Ts, BarAt
<1>14. W!Ts \in Int
  <2>1. data.rows \in Seq(Int)
    BY WindowFacts
  <2>2. data.rows[Place(event)] \in Int
    BY <1>12, <2>1, ElementOfSeq
  <2> QED BY Zenon, <1>13, <2>2 DEF BarAt
<1>15. W!Symbol \in RowsOf(Pair)
  <2>1. (event % n) + 1 \in DOMAIN Pair
    <3>1. event % n \in 0 .. n - 1
      BY <1>4, DivisionFacts
    <3> QED BY <1>1, <3>1
  <2>2. W!Symbol = Pair[(event % n) + 1]
    BY Zenon, <1>1 DEF W!Symbol
  <2> QED BY Zenon, <2>1, <2>2 DEF RowsOf
<1> QED BY <1>12, <1>13, <1>14, <1>15

\* The bars are met in their order.
LEMMA PlaceGrows ==
  ASSUME ReplayConstants, LoaderInv, InWindow, event < W!Events
  PROVE  BarAt(event) <= BarAt(event + 1) /\ BarAt(event + 1) \in Int
<1>1. PICK n \in Nat \ {0} : n = Len(Pair)
  BY PairFacts
<1>2. event \in Nat /\ start \in Int /\ Warmup <= start /\ start + Oos <= Len(data.rows)
  BY Zenon DEF InWindow
<1>3. Place(event) \in DOMAIN data.rows /\ Place(event) <= start + Oos
  BY PlaceFacts
<1>4. PICK k \in Nat : k = (Warmup + Oos) - FirstBar
  BY ReplayNumbers
<1>5. W!Events = k * n
  BY Zenon, <1>1, <1>4, WindowFacts
<1>6. PICK q \in Nat, v \in Nat : q = event \div n /\ v = (event + 1) \div n
  <2>1. event + 1 \in Nat
    BY <1>2
  <2> QED BY <1>2, <2>1, DivisionFacts
<1>7. q <= v
  BY <1>2, <1>6, QuotientGrows
<1>8. Place(event) = start - Warmup + FirstBar + q + 1
  BY Zenon, <1>1, <1>6 DEF Place
<1>9. Place(event + 1) \in DOMAIN data.rows /\ Place(event) <= Place(event + 1)
  <2>1. CASE event + 1 < W!Events
    <3>1. Place(event + 1) = start - Warmup + FirstBar + v + 1
      BY Zenon, <1>1, <1>6, <2>1 DEF Place
    <3>2. v < k
      <4>1. event + 1 \in Nat
        BY <1>2
      <4> QED BY <1>5, <1>6, <2>1, <4>1, QuotientBelow
    <3>3. DOMAIN data.rows = 1 .. Len(data.rows) /\ Len(data.rows) \in Nat
      BY Zenon, WindowFacts
    <3>4. Warmup \in Nat /\ Oos \in Nat /\ FirstBar \in Nat
      BY ReplayNumbers
    <3>5. /\ 1 <= Place(event + 1) /\ Place(event + 1) <= start + Oos
          /\ Place(event + 1) \in Int /\ Place(event) <= Place(event + 1)
      BY <1>2, <1>4, <1>7, <1>8, <3>1, <3>2, <3>4
    <3> QED BY <1>2, <3>3, <3>4, <3>5
  <2>2. CASE ~(event + 1 < W!Events)
    <3>1. Place(event + 1) = start + Oos
      BY Zenon, <2>2 DEF Place
    <3> QED BY <1>2, <1>3, <3>1, WindowFacts, ReplayNumbers
  <2> QED BY <2>1, <2>2
<1>10. PICK r : r = data.rows
  OBVIOUS
<1>11. PICK a, b : a = Place(event) /\ b = Place(event + 1)
  OBVIOUS
<1>12. r \in Seq(Int) /\ Climbs(r) /\ a \in DOMAIN r /\ b \in DOMAIN r /\ a <= b
  BY Zenon, <1>3, <1>9, <1>10, <1>11, WindowFacts
<1>13. r[a] <= r[b] /\ r[b] \in Int
  <2>1. a \in Int /\ b \in Int /\ r[a] \in Int /\ r[b] \in Int
    BY <1>12, LenProperties, ElementOfSeq
  <2>2. a = b \/ a < b
    BY <1>12, <2>1
  <2>3. a < b => r[a] < r[b]
    BY <1>12 DEF Climbs
  <2> QED BY <2>1, <2>2, <2>3
<1> QED BY Zenon, <1>10, <1>11, <1>13 DEF BarAt

\* The open positions are finitely many, and what they have realised is a total.
LEMMA HeldFacts ==
  ASSUME ReplayConstants, Positions
  PROVE  /\ W!Held = {s \in RowsOf(Pair) : open[s] # NoRecord} /\ IsFiniteSet(W!Held)
         /\ HeldSum = Total([s \in W!Held |-> open[s].real], W!Held) /\ HeldSum \in Int
<1>1. W!Held = {s \in RowsOf(Pair) : open[s] # NoRecord}
  BY Zenon, PairFacts DEF W!Held
<1>2. PICK H : H = W!Held
  OBVIOUS
<1>3. IsFiniteSet(H)
  <2>1. H \subseteq RowsOf(Pair)
    BY <1>1, <1>2
  <2> QED BY <2>1, PairFacts, FS_Subset
<1>4. PICK f : f = [s \in H |-> open[s].real]
  OBVIOUS
<1>5. DOMAIN f = H /\ \A s \in H : f[s] \in Int
  <2>1. \A s \in H : open[s].real \in Int
    BY Zenon, <1>1, <1>2 DEF Positions
  <2> QED BY <1>4, <2>1
<1>6. HeldSum = W!SumFunction(f)
  BY Zenon, <1>2, <1>4 DEF HeldSum
<1>7. W!SumFunction(f) = Total(f, H)
  BY Zenon, <1>5, SumIsTotal
<1>8. Total(f, H) \in Int
  BY <1>3, <1>5, TotalIsInt
<1> QED BY Zenon, <1>1, <1>2, <1>3, <1>4, <1>6, <1>7, <1>8

\* What the open positions have made moves with the one that changes.
LEMMA MoneyMoves ==
  ASSUME ReplayConstants, Positions, NEW x \in RowsOf(Pair), NEW v,
         v # NoRecord => v.real \in Int, open' = [open EXCEPT ![x] = v]
  PROVE  /\ HeldSum \in Int /\ HeldSum' \in Int
         /\ HeldSum' - (IF v # NoRecord THEN v.real ELSE 0)
               = HeldSum - (IF open[x] # NoRecord THEN open[x].real ELSE 0)
<1>1. PICK H : H = W!Held
  OBVIOUS
<1>2. PICK K : K = W!Held'
  OBVIOUS
<1>3. PICK f : f = [s \in H |-> open[s].real]
  OBVIOUS
<1>4. PICK g : g = [s \in K |-> open'[s].real]
  OBVIOUS
<1>5. /\ H = {s \in RowsOf(Pair) : open[s] # NoRecord} /\ IsFiniteSet(H)
      /\ HeldSum = Total(f, H) /\ HeldSum \in Int
  BY Zenon, <1>1, <1>3, HeldFacts
<1>6. /\ DOMAIN open = RowsOf(Pair) /\ open'[x] = v
      /\ \A s \in RowsOf(Pair) : s # x => open'[s] = open[s]
  <2>1. DOMAIN open = RowsOf(Pair)
    BY Zenon DEF Positions
  <2> QED BY <2>1
<1>7. K = {s \in RowsOf(Pair) : open'[s] # NoRecord}
  BY Zenon, <1>2, PairFacts DEF W!Held
<1>8. IsFiniteSet(K)
  <2>1. K \subseteq RowsOf(Pair)
    BY <1>7
  <2> QED BY <2>1, PairFacts, FS_Subset
<1>9. \A s \in RowsOf(Pair) : open[s] # NoRecord => open[s].real \in Int
  BY Zenon DEF Positions
<1>10. \A s \in H : f[s] = open[s].real /\ f[s] \in Int
  BY Zenon, <1>3, <1>5, <1>9
<1>11. \A s \in K : g[s] = open'[s].real /\ g[s] \in Int
  <2>1. \A s \in K : open'[s].real \in Int
    BY Zenon, <1>6, <1>7, <1>9
  <2> QED BY Zenon, <1>4, <2>1
<1>12. H \ {x} = K \ {x}
  BY Zenon, <1>5, <1>6, <1>7
<1>13. \A s \in H \ {x} : f[s] = g[s]
  <2>1. \A s \in H \ {x} : s \in K /\ open'[s] = open[s]
    BY Zenon, <1>5, <1>6, <1>7
  <2> QED BY Zenon, <1>10, <1>11, <2>1
<1>14. /\ Total(f, H) \in Int /\ Total(g, K) \in Int
       /\ Total(g, K) - (IF x \in K THEN g[x] ELSE 0) = Total(f, H) - (IF x \in H THEN f[x] ELSE 0)
  <2>1. \A y \in H : f[y] \in Int
    BY Zenon, <1>10
  <2>2. \A y \in K : g[y] \in Int
    BY Zenon, <1>11
  <2> QED BY <1>5, <1>8, <1>12, <1>13, <2>1, <2>2, SumsApart
<1>15. (IF x \in H THEN f[x] ELSE 0) = (IF open[x] # NoRecord THEN open[x].real ELSE 0)
  BY Zenon, <1>5, <1>10
<1>16. (IF x \in K THEN g[x] ELSE 0) = (IF v # NoRecord THEN v.real ELSE 0)
  BY Zenon, <1>6, <1>7, <1>11
<1>17. HeldSum' = Total(g, K)
  <2>1. HeldSum' = W!SumFunction(g)
    BY Zenon, <1>2, <1>4 DEF HeldSum
  <2>2. DOMAIN g = K
    BY <1>4
  <2> QED BY Zenon, <2>1, <2>2, SumIsTotal
<1> QED BY Zenon, <1>5, <1>14, <1>15, <1>16, <1>17

\* Between two windows.
LEMMA WindowRests ==
  ASSUME WindowInv, start = NoRecord, UNCHANGED <<start, closed, collected, verdict>>
  PROVE  WindowInv'
<1>1. Collected /\ closed = <<>> /\ (verdict = NoRecord => collected = <<>>)
  BY Zenon DEF WindowInv
<1>2. start' = NoRecord /\ closed' = closed /\ collected' = collected /\ verdict' = verdict
  BY Zenon
<1>3. Collected'
  BY Zenon, <1>1, <1>2 DEF Collected
<1> QED BY Zenon, <1>1, <1>2, <1>3 DEF WindowInv

\* A window begins.
LEMMA FreshWindow ==
  ASSUME ReplayConstants, NEW h \in SUBSET Int, data' # NoRecord, IsData(data', h), verdict' = NoRecord,
         NEW s0 \in Int, Warmup <= s0, s0 + Oos <= Len(data'.rows), W!Fresh(s0)
  PROVE  InWindow' /\ Positions' /\ Results' /\ Money'
<1>1. /\ start' = s0 /\ event' = 0 /\ purse' = Stake /\ closed' = <<>>
      /\ open' = [s \in RowsOf(Pair) |-> NoRecord] /\ lastClose' = [s \in RowsOf(Pair) |-> NoRecord]
  BY Zenon, PairFacts DEF W!Fresh
<1>2. PICK r : r = data'.rows
  OBVIOUS
<1>3. r \in Seq(Int)
  BY Zenon, <1>2 DEF IsData, NoHole
<1>4. W!Events' \in Nat
  <2>1. /\ Len(SubSeq(r, s0 - Warmup + 1, s0 + Oos)) = Warmup + Oos
        /\ ((Warmup + Oos) - FirstBar) * Len(Pair) \in Nat
    BY <1>2, <1>3, SliceWindow
  <2>2. W!Events' = (Len(SubSeq(r, s0 - Warmup + 1, s0 + Oos)) - FirstBar) * Len(Pair)
    BY Zenon, <1>1, <1>2 DEF W!Events, W!Window, W!Rows
  <2> QED BY Zenon, <2>1, <2>2
<1>5. event' \in Nat /\ event' <= W!Events'
  BY <1>1, <1>4
<1>6. InWindow'
  BY Zenon, <1>1, <1>5 DEF InWindow
<1>7. /\ DOMAIN open' = RowsOf(Pair) /\ DOMAIN lastClose' = RowsOf(Pair)
      /\ \A s \in RowsOf(Pair) : open'[s] = NoRecord /\ lastClose'[s] = NoRecord
  BY <1>1
<1>8. /\ open' = [s \in RowsOf(Pair) |-> open'[s]]
      /\ lastClose' = [s \in RowsOf(Pair) |-> lastClose'[s]]
  BY <1>1, <1>7
<1>9. Positions'
  BY Zenon, <1>7, <1>8 DEF Positions
<1>10. IsList(closed') /\ DOMAIN closed' = {}
  BY Zenon, <1>1, EmptyList
<1>11. Results'
  BY Zenon, <1>10 DEF Results
<1>12. Money'
  <2>1. W!Held' = {}
    BY Zenon, <1>7, PairFacts DEF W!Held
  <2>2. PICK g : g = [s \in W!Held' |-> open'[s].real]
    OBVIOUS
  <2>3. DOMAIN g = {}
    BY <2>1, <2>2
  <2>4. W!SumFunction(g) = 0
    BY Zenon, <2>3, SumIsTotal, TotalEmpty
  <2>5. W!Net(closed') = 0
    BY Zenon, <1>1, NetOfNone
  <2>6. purse' = Stake + W!Net(closed') + W!SumFunction(g)
    BY <1>1, <2>4, <2>5, ReplayNumbers
  <2> QED BY Zenon, <2>2, <2>6 DEF Money, HeldSum
<1> QED BY <1>6, <1>9, <1>11, <1>12

\* What one event does to the position of its symbol x at the bar ts: it stays away,
\* enters, holds, takes a part of the profit, or ends.
Away(x, ts) ==
    /\ open[x] = NoRecord /\ purse' = purse /\ closed' = closed
    /\ open' = [open EXCEPT ![x] = NoRecord] /\ lastClose' = [lastClose EXCEPT ![x] = lastClose[x]]
Enters(x, ts) ==
    /\ open[x] = NoRecord /\ purse' = purse /\ closed' = closed
    /\ \E k : open' = [open EXCEPT ![x] = [open |-> ts, knew |-> k, real |-> 0]]
    /\ lastClose' = [lastClose EXCEPT ![x] = lastClose[x]]
    /\ lastClose[x] # NoRecord => ts - lastClose[x] >= Pause
Holds(x, ts) ==
    /\ open[x] # NoRecord /\ purse' = purse /\ closed' = closed
    /\ open' = [open EXCEPT ![x] = open[x]] /\ lastClose' = [lastClose EXCEPT ![x] = lastClose[x]]
Takes(x, ts, pnl) ==
    /\ open[x] # NoRecord /\ purse' = purse + pnl /\ closed' = closed
    /\ open' = [open EXCEPT ![x] = [open[x] EXCEPT !.real = open[x].real + pnl]]
    /\ lastClose' = [lastClose EXCEPT ![x] = lastClose[x]]
Ends(x, ts, pnl, c) ==
    /\ open[x] # NoRecord /\ purse' = purse + (pnl - Funding * (ts - open[x].open))
    /\ closed' = Append(closed, W!Final(x, open[x], pnl, ts))
    /\ open' = [open EXCEPT ![x] = NoRecord] /\ lastClose' = [lastClose EXCEPT ![x] = c]

\* Every event is one of the five.
LEMMA EventCases ==
  ASSUME ReplayConstants, InWindow, Positions, Money, purse \in Int, NEW o, NEW enter \in BOOLEAN, W!Event(o, enter),
         event < W!Events, W!Symbol \in RowsOf(Pair), W!Ts \in Int
  PROVE  \/ Away(W!Symbol, W!Ts) \/ Enters(W!Symbol, W!Ts) \/ Holds(W!Symbol, W!Ts)
         \/ \E pnl \in TradePnls : Takes(W!Symbol, W!Ts, pnl) \/ Ends(W!Symbol, W!Ts, pnl, W!Ts)
<1>1. PICK x : x = W!Symbol
  OBVIOUS
<1>2. PICK ts : ts = W!Ts
  OBVIOUS
<1>3. x \in RowsOf(Pair) /\ ts \in Int
  BY <1>1, <1>2
<1>4. o \in W!Outcomes /\ W!Replayed(o, enter)
  BY Zenon DEF W!Event
<1>5. PICK busy, c, kept :
        /\ c = IF o.kind = "close" THEN ts ELSE lastClose[x]
        /\ kept = CASE o.kind = "partial" -> [open[x] EXCEPT !.real = open[x].real + o.pnl]
                    [] o.kind = "hold" -> open[x]
                    [] OTHER -> NoRecord
        /\ busy = IF kept = NoRecord THEN W!Held \ {x} ELSE W!Held
        /\ enter => W!MayEnter(busy, c)
        /\ open' = [open EXCEPT ![x] = IF enter THEN [open |-> ts, knew |-> W!Knows, real |-> 0] ELSE kept]
        /\ purse' = purse + (o.pnl - (IF o.kind = "close" THEN W!Cost(open[x], ts) ELSE 0))
        /\ closed' = IF o.kind = "close" THEN Append(closed, W!Final(x, open[x], o.pnl, ts)) ELSE closed
        /\ lastClose' = [lastClose EXCEPT ![x] = c]
  BY Zenon, <1>1, <1>2, <1>4 DEF W!Replayed
<1>6. enter => x \notin busy /\ (c # NoRecord => ts - c >= Pause)
  BY Zenon, <1>1, <1>2, <1>5 DEF W!MayEnter
<1>7. W!Held = {s \in RowsOf(Pair) : open[s] # NoRecord}
  BY Zenon, HeldFacts
<1>8. CASE open[x] = NoRecord
  <2>1. o = [kind |-> "none", pnl |-> 0]
    BY Zenon, <1>1, <1>4, <1>8 DEF W!Outcomes
  <2>2. o.kind = "none" /\ o.pnl = 0
    BY <2>1
  <2>3. kept = NoRecord /\ c = lastClose[x] /\ closed' = closed /\ lastClose' = [lastClose EXCEPT ![x] = lastClose[x]]
    BY Zenon, <1>5, <2>2
  <2>4. purse' = purse + (0 - 0)
    BY Zenon, <1>5, <2>2
  <2>5. purse' = purse
    BY <2>4
  <2>6. CASE enter
    <3>1. open' = [open EXCEPT ![x] = [open |-> ts, knew |-> W!Knows, real |-> 0]]
      BY Zenon, <1>5, <2>6
    <3>2. Enters(x, ts)
      BY Zenon, <1>6, <1>8, <2>3, <2>5, <2>6, <3>1 DEF Enters
    <3> QED BY Zenon, <1>1, <1>2, <3>2
  <2>7. CASE ~enter
    <3>1. open' = [open EXCEPT ![x] = NoRecord]
      BY Zenon, <1>5, <2>3, <2>7
    <3>2. Away(x, ts)
      BY Zenon, <1>8, <2>3, <2>5, <3>1 DEF Away
    <3> QED BY Zenon, <1>1, <1>2, <3>2
  <2> QED BY <2>6, <2>7
<1>9. CASE open[x] # NoRecord
  <2>1. x \in W!Held
    BY Zenon, <1>3, <1>7, <1>9
  <2>2. o \in {[kind |-> "hold", pnl |-> 0]} \cup [kind : {"partial", "close"}, pnl : TradePnls]
    BY Zenon, <1>1, <1>4, <1>9 DEF W!Outcomes
  <2>3. CASE o = [kind |-> "hold", pnl |-> 0]
    <3>1. o.kind = "hold" /\ o.pnl = 0
      BY <2>3
    <3>2. kept = open[x] /\ c = lastClose[x] /\ closed' = closed
      BY Zenon, <1>5, <3>1
    <3>3. ~enter
      BY Zenon, <1>5, <1>6, <1>9, <2>1, <3>2
    <3>4. purse' = purse + (0 - 0)
      BY Zenon, <1>5, <3>1
    <3>5. purse' = purse
      BY <3>4
    <3>6. open' = [open EXCEPT ![x] = open[x]]
      BY Zenon, <1>5, <3>2, <3>3
    <3>7. Holds(x, ts)
      BY Zenon, <1>5, <1>9, <3>2, <3>5, <3>6 DEF Holds
    <3> QED BY Zenon, <1>1, <1>2, <3>7
  <2>4. CASE o \in [kind : {"partial", "close"}, pnl : TradePnls]
    <3>1. o.kind \in {"partial", "close"} /\ o.pnl \in TradePnls /\ o.pnl \in Int
      BY <2>4, ReplayNumbers
    <3>2. CASE o.kind = "partial"
      <4>1. /\ kept = [open[x] EXCEPT !.real = open[x].real + o.pnl]
            /\ c = lastClose[x] /\ closed' = closed
        BY Zenon, <1>5, <3>2
      <4>2. kept # NoRecord
        <5>1. open[x] = [open |-> open[x].open, knew |-> open[x].knew, real |-> open[x].real]
          BY Zenon, <1>3, <1>9 DEF Positions
        <5>2. PICK t : t = open[x]
          OBVIOUS
        <5>3. PICK m : m = t.real + o.pnl
          OBVIOUS
        <5>4. t = [open |-> t.open, knew |-> t.knew, real |-> t.real]
          BY Zenon, <5>1, <5>2
        <5>5. kept = [t EXCEPT !.real = m]
          BY Zenon, <4>1, <5>2, <5>3
        <5>6. kept = [open |-> t.open, knew |-> t.knew, real |-> m]
          BY <5>4, <5>5
        <5>7. \A k, l, j : NoRecord # [open |-> k, knew |-> l, real |-> j]
          BY Zenon DEF ReplayConstants, ReplayAbsence
        <5> QED BY Zenon, <5>6, <5>7
      <4>3. ~enter
        BY Zenon, <1>5, <1>6, <2>1, <4>2
      <4>4. purse' = purse + (o.pnl - 0)
        BY Zenon, <1>5, <3>2
      <4>5. purse' = purse + o.pnl
        BY <3>1, <4>4
      <4>6. open' = [open EXCEPT ![x] = [open[x] EXCEPT !.real = open[x].real + o.pnl]]
        BY Zenon, <1>5, <4>1, <4>3
      <4>7. Takes(x, ts, o.pnl)
        BY Zenon, <1>5, <1>9, <4>1, <4>5, <4>6 DEF Takes
      <4> QED BY Zenon, <1>1, <1>2, <3>1, <4>7
    <3>3. CASE o.kind = "close"
      <4>1. /\ kept = NoRecord /\ c = ts
            /\ closed' = Append(closed, W!Final(x, open[x], o.pnl, ts))
        BY Zenon, <1>5, <3>3
      <4>2. ~enter
        <5>1. c # NoRecord
          BY Zenon, <1>3, <4>1 DEF ReplayConstants, ReplayAbsence
        <5>2. enter => ts - ts >= Pause
          BY Zenon, <1>6, <4>1, <5>1
        <5>3. ~(ts - ts >= Pause)
          BY <1>3, ReplayNumbers
        <5> QED BY Zenon, <5>2, <5>3
      <4>3. purse' = purse + (o.pnl - Funding * (ts - open[x].open))
        BY Zenon, <1>5, <3>3 DEF W!Cost
      <4>4. open' = [open EXCEPT ![x] = NoRecord]
        BY Zenon, <1>5, <4>1, <4>2
      <4>5. Ends(x, ts, o.pnl, ts)
        BY Zenon, <1>5, <1>9, <4>1, <4>3, <4>4 DEF Ends
      <4> QED BY Zenon, <1>1, <1>2, <3>1, <4>5
    <3> QED BY Zenon, <3>1, <3>2, <3>3
  <2> QED BY Zenon, <2>2, <2>3, <2>4
<1> QED BY Zenon, <1>8, <1>9

\* One event on, in the same window.
LEMMA EventMoves ==
  ASSUME ReplayConstants, LoaderInv, InWindow, event < W!Events,
         start' = start, data' = data, verdict' = verdict, event' = event + 1
  PROVE  /\ InWindow' /\ W!Events' = W!Events
         /\ BarAt(event) \in Int /\ BarAt(event)' \in Int /\ BarAt(event) <= BarAt(event)'
<1>1. W!Events' = W!Events
  BY Zenon DEF W!Events, W!Window, W!Rows
<1>2. BarAt(event)' = BarAt(event + 1)
  BY Zenon, <1>1 DEF BarAt, Place
<1>3. BarAt(event) \in Int /\ BarAt(event + 1) \in Int /\ BarAt(event) <= BarAt(event + 1)
  <2>1. BarAt(event) \in Int
    BY Zenon, PlaceFacts
  <2>2. BarAt(event + 1) \in Int /\ BarAt(event) <= BarAt(event + 1)
    BY PlaceGrows
  <2> QED BY <2>1, <2>2
<1>4. event' \in Nat /\ event' <= W!Events'
  <2>1. event \in Nat /\ W!Events \in Nat
    BY Zenon, WindowFacts DEF InWindow
  <2> QED BY <1>1, <2>1
<1>5. InWindow'
  BY Zenon, <1>4 DEF InWindow
<1> QED BY Zenon, <1>1, <1>2, <1>3, <1>5

\* An event changes the position of its symbol only.
LEMMA PositionsMove ==
  ASSUME Positions, NEW x \in RowsOf(Pair), NEW v, NEW c,
         open' = [open EXCEPT ![x] = v], lastClose' = [lastClose EXCEPT ![x] = c],
         BarAt(event) \in Int, BarAt(event)' \in Int, BarAt(event) <= BarAt(event)',
         v # NoRecord => /\ v = [open |-> v.open, knew |-> v.knew, real |-> v.real]
                         /\ v.open \in Int /\ v.real \in Int /\ v.open <= BarAt(event)',
         c # NoRecord => c \in Int
  PROVE  /\ Positions'
         /\ open'[x] = v /\ \A s \in RowsOf(Pair) : s # x => open'[s] = open[s]
         /\ lastClose'[x] = c /\ \A s \in RowsOf(Pair) : s # x => lastClose'[s] = lastClose[s]
<1>1. /\ DOMAIN open = RowsOf(Pair) /\ DOMAIN lastClose = RowsOf(Pair)
      /\ open = [s \in RowsOf(Pair) |-> open[s]] /\ lastClose = [s \in RowsOf(Pair) |-> lastClose[s]]
  BY Zenon DEF Positions
<1>2. /\ open'[x] = v /\ \A s \in RowsOf(Pair) : s # x => open'[s] = open[s]
      /\ lastClose'[x] = c /\ \A s \in RowsOf(Pair) : s # x => lastClose'[s] = lastClose[s]
  BY <1>1
<1>3. /\ DOMAIN open' = RowsOf(Pair) /\ DOMAIN lastClose' = RowsOf(Pair)
  BY <1>1
<1>4. open' = [s \in RowsOf(Pair) |-> open'[s]] /\ lastClose' = [s \in RowsOf(Pair) |-> lastClose'[s]]
  BY <1>1, <1>3
<1>5. ASSUME NEW s \in RowsOf(Pair), open'[s] # NoRecord
      PROVE  /\ open'[s] = [open |-> open'[s].open, knew |-> open'[s].knew, real |-> open'[s].real]
             /\ open'[s].open \in Int /\ open'[s].real \in Int /\ open'[s].open <= BarAt(event)'
  <2>1. CASE s = x
    BY Zenon, <1>2, <1>5, <2>1
  <2>2. CASE s # x
    <3>1. open'[s] = open[s]
      BY <1>2, <2>2
    <3>2. /\ open[s] = [open |-> open[s].open, knew |-> open[s].knew, real |-> open[s].real]
          /\ open[s].open \in Int /\ open[s].real \in Int /\ open[s].open <= BarAt(event)
      BY Zenon, <1>5, <3>1 DEF Positions
    <3>3. open[s].open <= BarAt(event)'
      BY <3>2
    <3> QED BY Zenon, <3>1, <3>2, <3>3
  <2> QED BY <2>1, <2>2
<1>6. \A s \in RowsOf(Pair) : lastClose'[s] # NoRecord => lastClose'[s] \in Int
  <2>1. \A s \in RowsOf(Pair) : lastClose[s] # NoRecord => lastClose[s] \in Int
    BY Zenon DEF Positions
  <2> QED BY Zenon, <1>2, <2>1
<1>7. Positions'
  BY Zenon, <1>3, <1>4, <1>5, <1>6 DEF Positions
<1> QED BY Zenon, <1>2, <1>7

\* An event that ends no position.
LEMMA ResultsStay ==
  ASSUME Results, Positions, event < W!Events, NEW x \in RowsOf(Pair), NEW v,
         start' = start, data' = data, closed' = closed,
         open'[x] = v, \A s \in RowsOf(Pair) : s # x => open'[s] = open[s],
         \A s \in RowsOf(Pair) : lastClose'[s] = lastClose[s],
         BarAt(event) \in Int, BarAt(event)' \in Int, BarAt(event) <= BarAt(event)',
         v # NoRecord =>
            \A i \in DOMAIN closed : closed[i].symbol = x => closed[i].close < v.open
  PROVE  Results'
<1>1. ASSUME NEW i \in DOMAIN closed
      PROVE  /\ IsDeal(closed[i])
             /\ closed[i].since = data.rows[start + 1] /\ closed[i].close <= BarAt(event)'
             /\ lastClose'[closed[i].symbol] # NoRecord
             /\ closed[i].close <= lastClose'[closed[i].symbol]
             /\ open'[closed[i].symbol] # NoRecord => closed[i].close < open'[closed[i].symbol].open
  <2>1. /\ IsDeal(closed[i])
        /\ closed[i].since = data.rows[start + 1] /\ closed[i].close <= BarAt(event)
        /\ lastClose[closed[i].symbol] # NoRecord
        /\ closed[i].close <= lastClose[closed[i].symbol]
        /\ open[closed[i].symbol] # NoRecord => closed[i].close < open[closed[i].symbol].open
    BY Zenon DEF Results
  <2>2. closed[i].symbol \in RowsOf(Pair) /\ closed[i].close \in Int
    BY Zenon, <2>1 DEF IsDeal
  <2>3. closed[i].close <= BarAt(event)'
    BY <2>1, <2>2
  <2>4. lastClose'[closed[i].symbol] = lastClose[closed[i].symbol]
    BY Zenon, <2>2
  <2>5. open'[closed[i].symbol] # NoRecord => closed[i].close < open'[closed[i].symbol].open
    BY Zenon, <2>1, <2>2
  <2> QED BY Zenon, <2>1, <2>3, <2>4, <2>5
<1>2. /\ IsList(closed)
      /\ \A i, k \in DOMAIN closed :
           i < k /\ closed[i].symbol = closed[k].symbol => closed[i].close < closed[k].open
  BY Zenon DEF Results
<1> QED BY Zenon, <1>1, <1>2 DEF Results

\* A position ends at the bar ts with the result d.
LEMMA ResultsGrow ==
  ASSUME Results, Positions, NEW x \in RowsOf(Pair), NEW d,
         IsDeal(d), d.symbol = x, open[x] # NoRecord, d.open = open[x].open,
         d.close = BarAt(event), d.since = data.rows[start + 1],
         start' = start, data' = data, closed' = Append(closed, d),
         open'[x] = NoRecord, \A s \in RowsOf(Pair) : s # x => open'[s] = open[s],
         BarAt(event) \in Int, BarAt(event)' \in Int, BarAt(event) <= BarAt(event)', NoRecord \notin Int,
         event' < W!Events' =>
            /\ event < W!Events /\ lastClose'[x] = BarAt(event)
            /\ \A s \in RowsOf(Pair) : s # x => lastClose'[s] = lastClose[s]
  PROVE  Results'
<1>1. PICK n : n = Len(closed) + 1
  OBVIOUS
<1>2. /\ IsList(closed)
      /\ \A i, k \in DOMAIN closed :
           i < k /\ closed[i].symbol = closed[k].symbol => closed[i].close < closed[k].open
  BY Zenon DEF Results
<1>3. /\ IsList(closed') /\ DOMAIN closed' = DOMAIN closed \cup {n}
      /\ closed'[n] = d /\ \A i \in DOMAIN closed : closed'[i] = closed[i]
  <2>1. /\ IsList(Append(closed, d)) /\ DOMAIN Append(closed, d) = DOMAIN closed \cup {Len(closed) + 1}
        /\ Append(closed, d)[Len(closed) + 1] = d
        /\ \A i \in DOMAIN closed : Append(closed, d)[i] = closed[i]
    BY <1>2, AppendList
  <2> QED BY Zenon, <1>1, <2>1
<1>4. n \in Int /\ \A i \in DOMAIN closed : i < n /\ i \in Int
  <2>1. Len(closed) \in Nat /\ DOMAIN closed = 1 .. Len(closed)
    BY <1>2, ListFacts
  <2> QED BY <1>1, <2>1
<1>5. ASSUME NEW i \in DOMAIN closed
      PROVE  /\ IsDeal(closed[i]) /\ closed[i].symbol \in RowsOf(Pair)
             /\ closed[i].since = data.rows[start + 1] /\ closed[i].close <= BarAt(event)'
             /\ event' < W!Events' =>
                  /\ lastClose'[closed[i].symbol] # NoRecord
                  /\ closed[i].close <= lastClose'[closed[i].symbol]
             /\ open'[closed[i].symbol] # NoRecord => closed[i].close < open'[closed[i].symbol].open
             /\ closed[i].symbol = x => closed[i].close < d.open
  <2>1. /\ IsDeal(closed[i])
        /\ closed[i].since = data.rows[start + 1] /\ closed[i].close <= BarAt(event)
        /\ event < W!Events => /\ lastClose[closed[i].symbol] # NoRecord
                               /\ closed[i].close <= lastClose[closed[i].symbol]
        /\ open[closed[i].symbol] # NoRecord => closed[i].close < open[closed[i].symbol].open
    BY Zenon DEF Results
  <2>2. closed[i].symbol \in RowsOf(Pair) /\ closed[i].close \in Int
    BY Zenon, <2>1 DEF IsDeal
  <2>3. closed[i].close <= BarAt(event)'
    BY <2>1, <2>2
  <2>4. open'[closed[i].symbol] # NoRecord => closed[i].close < open'[closed[i].symbol].open
    BY Zenon, <2>1, <2>2
  <2>5. closed[i].symbol = x => closed[i].close < d.open
    BY Zenon, <2>1
  <2>6. event' < W!Events' => /\ lastClose'[closed[i].symbol] # NoRecord
                              /\ closed[i].close <= lastClose'[closed[i].symbol]
    BY Zenon, <2>1, <2>2
  <2> QED BY Zenon, <2>1, <2>2, <2>3, <2>4, <2>5, <2>6
<1>6. /\ d.close <= BarAt(event)' /\ d.close <= BarAt(event) /\ BarAt(event) # NoRecord
  <2>1. BarAt(event) <= BarAt(event)
    OBVIOUS
  <2> QED BY Zenon, <2>1
<1>7. ASSUME NEW i \in DOMAIN closed'
      PROVE  /\ IsDeal(closed'[i])
             /\ closed'[i].since = data.rows[start + 1] /\ closed'[i].close <= BarAt(event)'
             /\ event' < W!Events' =>
                  /\ lastClose'[closed'[i].symbol] # NoRecord
                  /\ closed'[i].close <= lastClose'[closed'[i].symbol]
             /\ open'[closed'[i].symbol] # NoRecord => closed'[i].close < open'[closed'[i].symbol].open
  <2>1. CASE i \in DOMAIN closed
    BY Zenon, <1>3, <1>5, <2>1
  <2>2. CASE i = n
    BY Zenon, <1>3, <1>6, <2>2
  <2> QED BY Zenon, <1>3, <2>1, <2>2
<1>8. ASSUME NEW i \in DOMAIN closed', NEW k \in DOMAIN closed', i < k,
             closed'[i].symbol = closed'[k].symbol
      PROVE  closed'[i].close < closed'[k].open
  <2>1. CASE i \in DOMAIN closed /\ k \in DOMAIN closed
    BY Zenon, <1>2, <1>3, <1>8, <2>1
  <2>2. CASE i \in DOMAIN closed /\ k = n
    BY Zenon, <1>3, <1>5, <1>8, <2>2
  <2>3. CASE i = n
    <3>1. k \in DOMAIN closed \/ k = n
      BY <1>3
    <3> QED BY <1>4, <1>8, <2>3, <3>1
  <2> QED BY Zenon, <1>3, <2>1, <2>2, <2>3
<1> QED BY Zenon, <1>3, <1>7, <1>8 DEF Results

\* A position ends at the bar ts.
LEMMA EndStep ==
  ASSUME ReplayConstants, LoaderInv, WindowInv, start # NoRecord,
         start' = start, data' = data, collected' = collected, InWindow',
         NEW x \in RowsOf(Pair), NEW pnl \in TradePnls, NEW ts \in Int, NEW c,
         ts = BarAt(event), BarAt(event)' \in Int, BarAt(event) <= BarAt(event)',
         Ends(x, ts, pnl, c), c # NoRecord => c \in Int,
         event' < W!Events' => event < W!Events /\ c = ts
  PROVE  WindowInv'
<1>1. Collected /\ InWindow /\ Positions /\ Results /\ Earlier /\ Money
  BY Zenon DEF WindowInv
<1>0. /\ open[x] # NoRecord /\ purse' = purse + (pnl - Funding * (ts - open[x].open))
      /\ closed' = Append(closed, W!Final(x, open[x], pnl, ts))
      /\ open' = [open EXCEPT ![x] = NoRecord] /\ lastClose' = [lastClose EXCEPT ![x] = c]
  BY Zenon DEF Ends
<1>2. PICK d : d = W!Final(x, open[x], pnl, ts)
  OBVIOUS
<1>3. pnl \in Int /\ open[x].real \in Int /\ open[x].open \in Int
  <2>1. open[x].real \in Int /\ open[x].open \in Int
    BY Zenon, <1>0, <1>1 DEF Positions
  <2> QED BY <2>1, ReplayNumbers
<1>4. PICK cost \in Int : cost = Funding * (ts - open[x].open)
  BY <1>3, ReplayNumbers
<1>5. PICK net \in Int : net = open[x].real + (pnl - cost)
  BY <1>3
<1>6. d = [symbol |-> x, open |-> open[x].open, knew |-> open[x].knew, close |-> ts,
           net |-> net, since |-> data.rows[start + 1]]
  BY Zenon, <1>2, <1>4, <1>5 DEF W!Final, W!Rows
<1>7. /\ d.symbol = x /\ d.open = open[x].open /\ d.close = ts /\ d.net = net
      /\ d.since = data.rows[start + 1]
  BY <1>6
<1>8. data.rows[start + 1] \in Int
  <2>1. /\ data.rows \in Seq(Int) /\ DOMAIN data.rows = 1 .. Len(data.rows) /\ Len(data.rows) \in Nat
    BY Zenon, <1>1, WindowFacts
  <2>2. start \in Int /\ Warmup <= start /\ start + Oos <= Len(data.rows)
    BY Zenon, <1>1 DEF InWindow
  <2>3. Warmup \in Nat /\ Oos \in Nat /\ Oos >= 1
    BY ReplayNumbers
  <2>4. start + 1 \in DOMAIN data.rows
    BY <2>1, <2>2, <2>3
  <2> QED BY <2>1, <2>4, ElementOfSeq
<1>9. IsDeal(d)
  BY Zenon, <1>3, <1>5, <1>7, <1>8 DEF IsDeal
<1>10. NoRecord \notin Int
  BY Zenon DEF ReplayConstants, ReplayAbsence
<1>11. /\ Positions'
       /\ open'[x] = NoRecord /\ \A s \in RowsOf(Pair) : s # x => open'[s] = open[s]
       /\ lastClose'[x] = c
       /\ \A s \in RowsOf(Pair) : s # x => lastClose'[s] = lastClose[s]
  BY <1>0, <1>1, PositionsMove
<1>12. Results'
  <2>1. closed' = Append(closed, d) /\ d.close = BarAt(event)
    BY Zenon, <1>0, <1>2, <1>7
  <2>2. event' < W!Events' =>
            /\ event < W!Events /\ lastClose'[x] = BarAt(event)
            /\ \A s \in RowsOf(Pair) : s # x => lastClose'[s] = lastClose[s]
    BY Zenon, <1>0, <1>11
  <2> QED BY <1>0, <1>1, <1>7, <1>9, <1>10, <1>11, <2>1, <2>2, ResultsGrow
<1>13. /\ \A i \in DOMAIN closed : closed[i].net \in Int
       /\ IsList(closed) /\ W!Net(closed) \in Int
  <2>1. IsList(closed) /\ \A i \in DOMAIN closed : closed[i].net \in Int
    BY Zenon, <1>1 DEF Results, IsDeal
  <2> QED BY <2>1, NetFacts
<1>14. HeldSum \in Int /\ purse = Stake + W!Net(closed) + HeldSum
  BY Zenon, <1>1, HeldFacts DEF Money
<1>15. HeldSum' \in Int /\ HeldSum' = HeldSum - open[x].real
  <2>1. /\ HeldSum \in Int /\ HeldSum' \in Int
        /\ HeldSum' - (IF NoRecord # NoRecord THEN NoRecord.real ELSE 0)
             = HeldSum - (IF open[x] # NoRecord THEN open[x].real ELSE 0)
    BY <1>0, <1>1, MoneyMoves
  <2>2. HeldSum' - 0 = HeldSum - open[x].real
    BY Zenon, <1>0, <2>1
  <2> QED BY <1>3, <2>1, <2>2
<1>16. W!Net(closed') = W!Net(closed) + net
  <2>1. d.net \in Int
    BY <1>7
  <2>2. W!Net(closed') = W!Net(closed) + d.net
    BY <1>0, <1>2, <1>13, <2>1, NetOfMore
  <2> QED BY Zenon, <1>7, <2>2
<1>17. purse' = purse + (pnl - cost)
  BY Zenon, <1>0, <1>4
<1>18. purse' = Stake + W!Net(closed') + HeldSum'
  BY <1>3, <1>5, <1>13, <1>14, <1>15, <1>16, <1>17, ReplayNumbers
<1>19. Money'
  BY Zenon, <1>18 DEF Money
<1>20. Collected' /\ Earlier'
  BY Zenon, <1>1 DEF Collected, Earlier
<1> QED BY Zenon, <1>11, <1>12, <1>19, <1>20 DEF WindowInv

\* Backtester.run, one event: WindowInv is kept.
LEMMA EventStep ==
  ASSUME ReplayConstants, LoaderInv, WindowInv, NEW o, NEW enter \in BOOLEAN, W!Event(o, enter)
  PROVE  WindowInv'
<1>1. /\ start # NoRecord /\ event < W!Events /\ event' = event + 1
      /\ start' = start /\ data' = data /\ collected' = collected /\ verdict' = verdict
  BY Zenon DEF W!Event, W!loading
<1>2. Collected /\ InWindow /\ Positions /\ Results /\ Earlier /\ Money
  BY Zenon, <1>1 DEF WindowInv
<1>3. PICK x : x = W!Symbol
  OBVIOUS
<1>4. PICK ts : ts = W!Ts
  OBVIOUS
<1>5. x \in RowsOf(Pair) /\ ts \in Int /\ ts = BarAt(event)
  <2>1. W!Symbol \in RowsOf(Pair) /\ W!Ts = BarAt(event) /\ W!Ts \in Int
    BY <1>1, <1>2, PlaceFacts
  <2> QED BY Zenon, <1>3, <1>4, <2>1
<1>6. /\ InWindow' /\ W!Events' = W!Events
      /\ BarAt(event) \in Int /\ BarAt(event)' \in Int /\ BarAt(event) <= BarAt(event)'
  BY <1>1, <1>2, EventMoves
<1>7. /\ \A i \in DOMAIN closed : closed[i].net \in Int
      /\ IsList(closed) /\ W!Net(closed) \in Int
  <2>1. IsList(closed) /\ \A i \in DOMAIN closed : closed[i].net \in Int
    BY Zenon, <1>2 DEF Results, IsDeal
  <2> QED BY <2>1, NetFacts
<1>8. HeldSum \in Int /\ purse = Stake + W!Net(closed) + HeldSum
  BY Zenon, <1>2, HeldFacts DEF Money
<1>9. purse \in Int
  BY <1>7, <1>8, ReplayNumbers
<1>10. /\ DOMAIN open = RowsOf(Pair) /\ DOMAIN lastClose = RowsOf(Pair)
       /\ lastClose[x] # NoRecord => lastClose[x] \in Int
       /\ open[x] # NoRecord =>
            /\ open[x] = [open |-> open[x].open, knew |-> open[x].knew, real |-> open[x].real]
            /\ open[x].open \in Int /\ open[x].real \in Int /\ open[x].open <= BarAt(event)
  BY Zenon, <1>2, <1>5 DEF Positions
<1>11. /\ open[x] # NoRecord => open[x].open <= BarAt(event)'
       /\ open[x] # NoRecord =>
             \A i \in DOMAIN closed : closed[i].symbol = x => closed[i].close < open[x].open
  <2>1. open[x] # NoRecord => open[x].open <= BarAt(event)'
    BY <1>6, <1>10
  <2>2. open[x] # NoRecord =>
             \A i \in DOMAIN closed : closed[i].symbol = x => closed[i].close < open[x].open
    BY Zenon, <1>2 DEF Results
  <2> QED BY <2>1, <2>2
<1>12. Collected' /\ Earlier'
  BY Zenon, <1>1, <1>2 DEF Collected, Earlier
\* What is left to show when no position ends.
<1>13. ASSUME NEW v, v # NoRecord =>
                /\ v = [open |-> v.open, knew |-> v.knew, real |-> v.real]
                /\ v.open \in Int /\ v.real \in Int /\ v.open <= BarAt(event)'
                /\ \A i \in DOMAIN closed : closed[i].symbol = x => closed[i].close < v.open,
              NEW p \in Int, purse' = purse + p, closed' = closed,
              (IF v # NoRecord THEN v.real ELSE 0)
                 = (IF open[x] # NoRecord THEN open[x].real ELSE 0) + p,
              open' = [open EXCEPT ![x] = v], lastClose' = [lastClose EXCEPT ![x] = lastClose[x]]
       PROVE  WindowInv'
  <2>1. /\ Positions'
        /\ open'[x] = v /\ \A s \in RowsOf(Pair) : s # x => open'[s] = open[s]
        /\ lastClose'[x] = lastClose[x]
        /\ \A s \in RowsOf(Pair) : s # x => lastClose'[s] = lastClose[s]
    BY <1>2, <1>5, <1>6, <1>10, <1>13, PositionsMove
  <2>2. \A s \in RowsOf(Pair) : lastClose'[s] = lastClose[s]
    BY Zenon, <2>1
  <2>3. Results'
    BY <1>1, <1>2, <1>5, <1>6, <1>13, <2>1, <2>2, ResultsStay
  <2>4. /\ HeldSum \in Int /\ HeldSum' \in Int
        /\ HeldSum' - (IF v # NoRecord THEN v.real ELSE 0)
             = HeldSum - (IF open[x] # NoRecord THEN open[x].real ELSE 0)
    BY <1>2, <1>5, <1>13, MoneyMoves
  <2>5. PICK a, b : /\ a = (IF v # NoRecord THEN v.real ELSE 0)
                    /\ b = (IF open[x] # NoRecord THEN open[x].real ELSE 0)
    OBVIOUS
  <2>6. a \in Int /\ b \in Int
    <3>1. 0 \in Int
      OBVIOUS
    <3> QED BY Zenon, <1>10, <1>13, <2>5, <3>1
  <2>7. a = b + p /\ HeldSum' - a = HeldSum - b
    BY Zenon, <1>13, <2>4, <2>5
  <2>8. HeldSum' = HeldSum + p
    <3>1. HeldSum \in Int /\ HeldSum' \in Int
      BY Zenon, <2>4
    <3>2. PICK g \in Int : g = HeldSum
      BY <3>1
    <3>3. PICK k \in Int : k = HeldSum'
      BY <3>1
    <3>4. k - a = g - b /\ a = b + p
      BY Zenon, <2>7, <3>2, <3>3
    <3>5. k = g + p
      BY <2>6, <3>4
    <3> QED BY Zenon, <3>2, <3>3, <3>5
  <2>9. purse' = Stake + W!Net(closed) + HeldSum'
    BY <1>7, <1>8, <1>13, <2>4, <2>8, ReplayNumbers
  <2>10. Money'
    BY Zenon, <1>13, <2>9 DEF Money
  <2> QED BY Zenon, <1>1, <1>6, <1>12, <2>1, <2>3, <2>10 DEF WindowInv
<1>14. CASE Away(x, ts)
  <2>1. /\ open[x] = NoRecord /\ purse' = purse /\ closed' = closed
        /\ open' = [open EXCEPT ![x] = NoRecord] /\ lastClose' = [lastClose EXCEPT ![x] = lastClose[x]]
    BY Zenon, <1>14 DEF Away
  <2>2. purse' = purse + 0 /\ 0 \in Int /\ 0 = 0 + 0
    BY <1>9, <2>1
  <2> QED BY Zenon, <1>13, <2>1, <2>2
<1>15. CASE Enters(x, ts)
  <2>1. /\ open[x] = NoRecord /\ purse' = purse /\ closed' = closed
        /\ lastClose' = [lastClose EXCEPT ![x] = lastClose[x]]
        /\ lastClose[x] # NoRecord => ts - lastClose[x] >= Pause
    BY Zenon, <1>15 DEF Enters
  <2>2. PICK k : open' = [open EXCEPT ![x] = [open |-> ts, knew |-> k, real |-> 0]]
    BY Zenon, <1>15 DEF Enters
  <2>3. PICK v : v = [open |-> ts, knew |-> k, real |-> 0]
    OBVIOUS
  <2>4. v.open = ts /\ v.knew = k /\ v.real = 0
    BY <2>3
  <2>5. v = [open |-> v.open, knew |-> v.knew, real |-> v.real]
    BY Zenon, <2>3, <2>4
  <2>6. ASSUME NEW i \in DOMAIN closed, closed[i].symbol = x PROVE closed[i].close < v.open
    <3>1. lastClose[x] # NoRecord /\ closed[i].close <= lastClose[x] /\ closed[i].close \in Int
      BY Zenon, <1>1, <1>2, <2>6 DEF Results, IsDeal
    <3>2. PICK l \in Int : l = lastClose[x]
      BY <1>10, <3>1
    <3>3. ts - l >= Pause /\ closed[i].close <= l
      BY Zenon, <2>1, <3>1, <3>2
    <3>4. closed[i].close < ts
      BY <1>5, <3>1, <3>3, ReplayNumbers
    <3> QED BY Zenon, <2>4, <3>4
  <2>7. v.open \in Int /\ v.real \in Int /\ v.open <= BarAt(event)'
    BY <1>5, <1>6, <2>4
  <2>8. v # NoRecord
    BY Zenon, <2>3 DEF ReplayConstants, ReplayAbsence
  <2>9. purse' = purse + 0 /\ 0 \in Int /\ 0 = 0 + 0
    BY <1>9, <2>1
  <2>10. (IF v # NoRecord THEN v.real ELSE 0) = (IF open[x] # NoRecord THEN open[x].real ELSE 0) + 0
    BY Zenon, <2>1, <2>4, <2>8, <2>9
  <2>11. open' = [open EXCEPT ![x] = v]
    BY Zenon, <2>2, <2>3
  <2> QED BY Zenon, <1>13, <2>1, <2>5, <2>6, <2>7, <2>9, <2>10, <2>11
<1>16. CASE Holds(x, ts)
  <2>1. /\ open[x] # NoRecord /\ purse' = purse /\ closed' = closed
        /\ open' = [open EXCEPT ![x] = open[x]] /\ lastClose' = [lastClose EXCEPT ![x] = lastClose[x]]
    BY Zenon, <1>16 DEF Holds
  <2>2. purse' = purse + 0 /\ 0 \in Int
    BY <1>9, <2>1
  <2>3. PICK b \in Int : b = (IF open[x] # NoRecord THEN open[x].real ELSE 0)
    BY Zenon, <1>10, <2>1
  <2>4. b = b + 0
    OBVIOUS
  <2>5. (IF open[x] # NoRecord THEN open[x].real ELSE 0)
          = (IF open[x] # NoRecord THEN open[x].real ELSE 0) + 0
    BY Zenon, <2>3, <2>4
  <2> QED BY Zenon, <1>10, <1>11, <1>13, <2>1, <2>2, <2>5
<1>17. ASSUME NEW pnl \in TradePnls, Takes(x, ts, pnl) PROVE WindowInv'
  <2>1. /\ open[x] # NoRecord /\ purse' = purse + pnl /\ closed' = closed
        /\ open' = [open EXCEPT ![x] = [open[x] EXCEPT !.real = open[x].real + pnl]]
        /\ lastClose' = [lastClose EXCEPT ![x] = lastClose[x]]
    BY Zenon, <1>17 DEF Takes
  <2>2. PICK t : t = open[x]
    OBVIOUS
  <2>3. PICK m : m = t.real + pnl
    OBVIOUS
  <2>4. PICK v : v = [t EXCEPT !.real = m]
    OBVIOUS
  <2>5. t = [open |-> t.open, knew |-> t.knew, real |-> t.real]
    BY Zenon, <1>10, <2>1, <2>2
  <2>6. v = [open |-> t.open, knew |-> t.knew, real |-> m]
    BY <2>4, <2>5
  <2>7. v.open = t.open /\ v.knew = t.knew /\ v.real = m
    BY <2>6
  <2>8. v = [open |-> v.open, knew |-> v.knew, real |-> v.real]
    BY Zenon, <2>6, <2>7
  <2>9. v # NoRecord
    BY Zenon, <2>6 DEF ReplayConstants, ReplayAbsence
  <2>10. pnl \in Int /\ t.real \in Int
    BY <1>10, <2>1, <2>2, ReplayNumbers
  <2>11. m \in Int
    BY <2>3, <2>10
  <2>12. v.open \in Int /\ v.real \in Int /\ v.open <= BarAt(event)'
    BY Zenon, <1>10, <1>11, <2>1, <2>2, <2>7, <2>11
  <2>13. \A i \in DOMAIN closed : closed[i].symbol = x => closed[i].close < v.open
    BY Zenon, <1>11, <2>1, <2>2, <2>7
  <2>14. (IF v # NoRecord THEN v.real ELSE 0) = (IF open[x] # NoRecord THEN open[x].real ELSE 0) + pnl
    BY Zenon, <2>1, <2>2, <2>3, <2>7, <2>9
  <2>15. open' = [open EXCEPT ![x] = v]
    BY Zenon, <2>1, <2>2, <2>3, <2>4
  <2> QED BY Zenon, <1>13, <2>1, <2>8, <2>10, <2>12, <2>13, <2>14, <2>15
<1>18. ASSUME NEW pnl \in TradePnls, Ends(x, ts, pnl, ts) PROVE WindowInv'
  BY <1>1, <1>5, <1>6, <1>18, EndStep
<1>19. \/ Away(x, ts) \/ Enters(x, ts) \/ Holds(x, ts)
       \/ \E pnl \in TradePnls : Takes(x, ts, pnl) \/ Ends(x, ts, pnl, ts)
  <2>1. W!Symbol \in RowsOf(Pair) /\ W!Ts \in Int
    BY Zenon, <1>3, <1>4, <1>5
  <2>2. \/ Away(W!Symbol, W!Ts) \/ Enters(W!Symbol, W!Ts) \/ Holds(W!Symbol, W!Ts)
        \/ \E pnl \in TradePnls : Takes(W!Symbol, W!Ts, pnl) \/ Ends(W!Symbol, W!Ts, pnl, W!Ts)
    BY <1>1, <1>2, <1>9, <2>1, EventCases
  <2> QED BY Zenon, <1>3, <1>4, <2>2
<1> QED BY Zenon, <1>14, <1>15, <1>16, <1>17, <1>18, <1>19

\* After the events of a window, and outside one.
LEMMA LastBarFacts ==
  ASSUME ReplayConstants, LoaderInv, InWindow, event = W!Events
  PROVE  /\ Place(event) = start + Oos /\ BarAt(event) = W!Last(W!Window)
         /\ BarAt(event) \in Int
<1>1. Place(event) = start + Oos
  <2>1. event \in Nat
    BY DEF InWindow
  <2>2. ~(event < W!Events)
    BY <2>1
  <2> QED BY Zenon, <2>2 DEF Place
<1>2. BarAt(event) = W!Last(W!Window)
  <2>1. W!Last(W!Window) = data.rows[start + Oos]
    BY Zenon, WindowFacts
  <2> QED BY Zenon, <1>1, <2>1 DEF BarAt
<1>3. BarAt(event) \in Int
  <2>1. /\ data.rows \in Seq(Int) /\ DOMAIN data.rows = 1 .. Len(data.rows) /\ Len(data.rows) \in Nat
    BY Zenon, WindowFacts
  <2>2. start \in Int /\ Warmup <= start /\ start + Oos <= Len(data.rows)
    BY Zenon DEF InWindow
  <2>3. Warmup \in Nat /\ Oos \in Nat /\ Oos >= 1
    BY ReplayNumbers
  <2>4. start + Oos \in DOMAIN data.rows
    BY <2>1, <2>2, <2>3
  <2>5. data.rows[start + Oos] \in Int
    BY <2>1, <2>4, ElementOfSeq
  <2> QED BY Zenon, <1>1, <2>5 DEF BarAt
<1> QED BY <1>1, <1>2, <1>3

\* The close of what is open after the last bar: WindowInv is kept.
LEMMA ForceStep ==
  ASSUME ReplayConstants, LoaderInv, WindowInv, NEW x \in RowsOf(Pair), NEW pnl \in TradePnls,
         W!ForceClose(x, pnl)
  PROVE  WindowInv'
<1>1. /\ start # NoRecord /\ event = W!Events /\ open[x] # NoRecord
      /\ open' = [open EXCEPT ![x] = NoRecord]
      /\ purse' = purse + (pnl - W!Cost(open[x], W!Last(W!Window)))
      /\ closed' = Append(closed, W!Final(x, open[x], pnl, W!Last(W!Window)))
      /\ data' = data /\ start' = start /\ event' = event /\ lastClose' = lastClose
      /\ collected' = collected /\ verdict' = verdict
  BY Zenon DEF W!ForceClose, W!loading
<1>2. InWindow /\ Positions
  BY Zenon, <1>1 DEF WindowInv
<1>3. PICK ts : ts = W!Last(W!Window)
  OBVIOUS
<1>4. ts = BarAt(event) /\ ts \in Int
  BY Zenon, <1>1, <1>2, <1>3, LastBarFacts
<1>5. W!Events' = W!Events
  BY Zenon, <1>1 DEF W!Events, W!Window, W!Rows
<1>6. BarAt(event)' = BarAt(event)
  BY Zenon, <1>1, <1>5 DEF BarAt, Place
<1>7. InWindow'
  BY Zenon, <1>1, <1>2, <1>5 DEF InWindow
<1>8. BarAt(event)' \in Int /\ BarAt(event) <= BarAt(event)'
  BY <1>4, <1>6
<1>9. lastClose' = [lastClose EXCEPT ![x] = lastClose[x]]
  <2>1. lastClose = [s \in RowsOf(Pair) |-> lastClose[s]]
    BY Zenon, <1>2 DEF Positions
  <2> QED BY <1>1, <2>1
<1>10. PICK c : c = lastClose[x]
  OBVIOUS
<1>11. c # NoRecord => c \in Int
  BY Zenon, <1>2, <1>10 DEF Positions
<1>12. Ends(x, ts, pnl, c)
  <2>1. purse' = purse + (pnl - Funding * (ts - open[x].open))
    BY Zenon, <1>1, <1>3 DEF W!Cost
  <2>2. closed' = Append(closed, W!Final(x, open[x], pnl, ts))
    BY Zenon, <1>1, <1>3
  <2>3. lastClose' = [lastClose EXCEPT ![x] = c]
    BY Zenon, <1>9, <1>10
  <2> QED BY Zenon, <1>1, <2>1, <2>2, <2>3 DEF Ends
<1>13. ~(event' < W!Events')
  <2>1. event \in Nat
    BY <1>2 DEF InWindow
  <2>2. ~(event < event)
    BY <2>1
  <2> QED BY Zenon, <1>1, <1>5, <2>2
<1>14. event' < W!Events' => event < W!Events /\ c = ts
  BY Zenon, <1>13
<1> QED BY Zenon, <1>1, <1>4, <1>7, <1>8, <1>11, <1>12, <1>14, EndStep

\* The results of the running window are apart from those before it, and over by the bar
\* the window is at.
LEMMA JoinApart ==
  ASSUME ReplayConstants, LoaderInv, WindowInv, start # NoRecord, NEW q, q = collected \o closed
  PROVE  /\ IsList(q) /\ Apart(q) /\ \A i \in DOMAIN q : IsDeal(q[i])
         /\ event = W!Events => \A i \in DOMAIN q : q[i].close <= data.rows[start + Oos]
<1>1. Collected /\ InWindow /\ Results /\ Earlier
  BY Zenon DEF WindowInv
<1>2. /\ IsList(collected) /\ Apart(collected) /\ \A i \in DOMAIN collected : IsDeal(collected[i])
      /\ \A i \in DOMAIN collected : collected[i].close <= data.rows[start]
  BY Zenon, <1>1 DEF Collected, Earlier
<1>3. /\ IsList(closed)
      /\ \A i \in DOMAIN closed : IsDeal(closed[i]) /\ closed[i].since = data.rows[start + 1]
                                  /\ closed[i].close <= BarAt(event)
      /\ \A i, k \in DOMAIN closed :
           i < k /\ closed[i].symbol = closed[k].symbol => closed[i].close < closed[k].open
  BY Zenon, <1>1 DEF Results
<1>4. /\ IsList(q)
      /\ \A i \in DOMAIN collected : i \in DOMAIN q /\ q[i] = collected[i]
      /\ \A i \in DOMAIN q :
            \/ i \in DOMAIN collected
            \/ i - Len(collected) \in DOMAIN closed /\ q[i] = closed[i - Len(collected)]
  <2>1. IsList(collected) /\ IsList(closed)
    BY Zenon, <1>2, <1>3
  <2>2. PICK c, l : c = collected /\ l = closed
    OBVIOUS
  <2>3. IsList(c) /\ IsList(l) /\ q = c \o l
    BY Zenon, <2>1, <2>2
  <2>4. /\ IsList(q)
        /\ \A i \in DOMAIN c : i \in DOMAIN q /\ q[i] = c[i]
        /\ \A i \in DOMAIN q :
              \/ i \in DOMAIN c
              \/ i - Len(c) \in DOMAIN l /\ q[i] = l[i - Len(c)]
    BY <2>3, JoinList
  <2> QED BY Zenon, <2>2, <2>4
<1>5. PICK n \in Nat : n = Len(collected) /\ DOMAIN collected = 1 .. n
  BY <1>2, ListFacts
<1>6. DOMAIN closed \subseteq Nat /\ DOMAIN q \subseteq Nat /\ \A i \in DOMAIN closed : i >= 1
  <2>1. Len(closed) \in Nat /\ DOMAIN closed = 1 .. Len(closed)
    BY <1>3, ListFacts
  <2>2. Len(q) \in Nat /\ DOMAIN q = 1 .. Len(q)
    BY <1>4, ListFacts
  <2> QED BY <2>1, <2>2
<1>7. PICK a, b, z \in Int : a = data.rows[start] /\ b = data.rows[start + 1] /\ z = data.rows[start + Oos]
                       /\ a < b /\ a <= z
  <2>1. /\ data.rows \in Seq(Int) /\ Climbs(data.rows)
        /\ DOMAIN data.rows = 1 .. Len(data.rows) /\ Len(data.rows) \in Nat
    BY Zenon, <1>1, WindowFacts
  <2>2. start \in Int /\ Warmup <= start /\ start + Oos <= Len(data.rows)
    BY Zenon, <1>1 DEF InWindow
  <2>3. Warmup \in Nat /\ Warmup >= 1 /\ Oos \in Nat /\ Oos >= 1
    BY ReplayNumbers
  <2>4. PICK r : r = data.rows
    OBVIOUS
  <2>5. r \in Seq(Int) /\ Climbs(r) /\ DOMAIN r = 1 .. Len(r)
    BY Zenon, <2>1, <2>4
  <2>6. start \in DOMAIN r /\ start + 1 \in DOMAIN r /\ start + Oos \in DOMAIN r
    BY <2>1, <2>2, <2>3, <2>4
  <2>7. r[start] \in Int /\ r[start + 1] \in Int /\ r[start + Oos] \in Int
    BY <2>5, <2>6, ElementOfSeq
  <2>8. start < start + 1 /\ start < start + Oos
    BY <2>2, <2>3
  <2>9. r[start] < r[start + 1] /\ r[start] < r[start + Oos]
    BY <2>5, <2>6, <2>8 DEF Climbs
  <2>10. r[start] <= r[start + Oos]
    BY <2>7, <2>9
  <2> QED BY Zenon, <2>4, <2>7, <2>9, <2>10
<1>8. \A i \in DOMAIN q : IsDeal(q[i])
  BY Zenon, <1>2, <1>3, <1>4
<1>9. Apart(q)
  <2> SUFFICES ASSUME NEW i \in DOMAIN q, NEW k \in DOMAIN q, i < k, q[i].symbol = q[k].symbol,
                      q[k].open >= q[k].since
               PROVE  q[i].close < q[k].open
    BY Zenon DEF Apart
  <2>1. CASE k \in DOMAIN collected
    <3>1. i \in DOMAIN collected
      BY <1>5, <1>6, <2>1, <1>4
    <3>2. q[i] = collected[i] /\ q[k] = collected[k]
      BY Zenon, <1>4, <2>1, <3>1
    <3> QED BY Zenon, <1>2, <2>1, <3>1, <3>2 DEF Apart
  <2>2. CASE ~(k \in DOMAIN collected)
    <3>1. PICK m \in DOMAIN closed : m = k - Len(collected) /\ q[k] = closed[m]
      BY Zenon, <1>4, <2>2
    <3>2. q[k].since = b /\ q[k].open \in Int
      BY Zenon, <1>3, <1>7, <3>1 DEF IsDeal
    <3>3. CASE i \in DOMAIN collected
      <4>1. q[i] = collected[i]
        BY Zenon, <1>4, <3>3
      <4>2. q[i].close <= a /\ q[i].close \in Int
        BY Zenon, <1>2, <1>7, <3>3, <4>1 DEF IsDeal
      <4>3. q[k].open >= b
        BY Zenon, <3>2
      <4> QED BY <1>7, <3>2, <4>2, <4>3
    <3>4. CASE ~(i \in DOMAIN collected)
      <4>1. PICK l \in DOMAIN closed : l = i - Len(collected) /\ q[i] = closed[l]
        BY Zenon, <1>4, <3>4
      <4>2. l < m
        BY <1>5, <1>6, <3>1, <4>1
      <4>3. closed[l].symbol = closed[m].symbol
        BY Zenon, <3>1, <4>1
      <4> QED BY Zenon, <1>3, <3>1, <4>1, <4>2, <4>3
    <3> QED BY Zenon, <3>3, <3>4
  <2> QED BY Zenon, <2>1, <2>2
<1>10. ASSUME event = W!Events, NEW i \in DOMAIN q PROVE q[i].close <= data.rows[start + Oos]
  <2>1. BarAt(event) = z
    <3>1. Place(event) = start + Oos
      BY Zenon, <1>1, <1>10, LastBarFacts
    <3> QED BY Zenon, <1>7, <3>1 DEF BarAt
  <2>2. CASE i \in DOMAIN collected
    <3>1. q[i] = collected[i]
      BY Zenon, <1>4, <2>2
    <3>2. q[i].close <= a /\ q[i].close \in Int
      BY Zenon, <1>2, <1>7, <2>2, <3>1 DEF IsDeal
    <3>3. q[i].close <= z
      BY <1>7, <3>2
    <3> QED BY Zenon, <1>7, <3>3
  <2>3. CASE ~(i \in DOMAIN collected)
    <3>1. PICK l \in DOMAIN closed : l = i - Len(collected) /\ q[i] = closed[l]
      BY Zenon, <1>4, <2>3
    <3> QED BY Zenon, <1>3, <1>7, <2>1, <3>1
  <2> QED BY Zenon, <2>2, <2>3
<1> QED BY Zenon, <1>4, <1>8, <1>9, <1>10

\* A window follows another.
LEMMA NextStep ==
  ASSUME ReplayConstants, LoaderInv, WindowInv, W!NextWindow
  PROVE  WindowInv'
<1>1. /\ start # NoRecord /\ event = W!Events
      /\ start + Stride + Oos <= Len(data.rows)
      /\ collected' = collected \o closed /\ W!Fresh(start + Stride)
      /\ data' = data /\ verdict' = verdict
  BY Zenon DEF W!NextWindow, W!WindowDone, W!After, W!Rows, W!loading
<1>2. InWindow
  BY Zenon, <1>1 DEF WindowInv
<1>3. /\ data # NoRecord /\ verdict = NoRecord /\ start \in Int /\ Warmup <= start
      /\ start + Oos <= Len(data.rows)
  BY Zenon, <1>2 DEF InWindow
<1>4. PICK s0 \in Int : s0 = start + Stride /\ Warmup <= s0 /\ start + Oos <= s0
  BY <1>3, ReplayNumbers
<1>5. IsData(data, W!History) /\ W!History \in SUBSET Int
  <2>1. now \in Int /\ IsData(data, W!History)
    BY Zenon, <1>3 DEF LoaderInv
  <2> QED BY <2>1, HistoryFacts
<1>6. s0 + Oos <= Len(data.rows) /\ W!Fresh(s0)
  BY Zenon, <1>1, <1>4
<1>7. InWindow' /\ Positions' /\ Results' /\ Money'
  <2>1. PICK h \in SUBSET Int : IsData(data, h)
    BY Zenon, <1>5
  <2>2. data' # NoRecord /\ IsData(data', h) /\ verdict' = NoRecord /\ s0 + Oos <= Len(data'.rows)
    BY Zenon, <1>1, <1>3, <1>6, <2>1
  <2> QED BY Zenon, <1>4, <1>6, <2>2, FreshWindow
<1>8. PICK q : q = collected \o closed
  OBVIOUS
<1>9. /\ IsList(q) /\ Apart(q) /\ \A i \in DOMAIN q : IsDeal(q[i])
      /\ \A i \in DOMAIN q : q[i].close <= data.rows[start + Oos]
  BY Zenon, <1>1, <1>8, JoinApart
<1>10. Collected'
  BY Zenon, <1>1, <1>8, <1>9 DEF Collected, Apart, IsDeal
<1>11. Earlier'
  <2>1. /\ data.rows \in Seq(Int) /\ Climbs(data.rows)
        /\ DOMAIN data.rows = 1 .. Len(data.rows) /\ Len(data.rows) \in Nat
    BY Zenon, <1>2, WindowFacts
  <2>2. PICK r : r = data.rows
    OBVIOUS
  <2>3. PICK a \in Int : a = start + Oos /\ a \in DOMAIN r /\ s0 \in DOMAIN r /\ a <= s0
    <3>1. Warmup \in Nat /\ Warmup >= 1 /\ Oos \in Nat /\ Oos >= 1
      BY ReplayNumbers
    <3> QED BY <1>3, <1>4, <1>6, <2>1, <2>2, <3>1
  <2>4. r \in Seq(Int) /\ Climbs(r)
    BY Zenon, <2>1, <2>2
  <2>5. r[a] \in Int /\ r[s0] \in Int /\ r[a] <= r[s0]
    <3>1. r[a] \in Int /\ r[s0] \in Int
      BY <2>3, <2>4, ElementOfSeq
    <3>2. a = s0 \/ a < s0
      BY <1>4, <2>3
    <3>3. a < s0 => r[a] < r[s0]
      BY <2>3, <2>4 DEF Climbs
    <3> QED BY <3>1, <3>2, <3>3
  <2>6. ASSUME NEW i \in DOMAIN q PROVE q[i].close <= r[s0]
    <3>1. q[i].close <= r[a]
      BY Zenon, <1>9, <2>2, <2>3, <2>6
    <3>2. q[i].close \in Int
      BY Zenon, <1>9, <2>6 DEF IsDeal
    <3> QED BY <2>5, <3>1, <3>2
  <2>7. start' = s0 /\ data'.rows = r /\ collected' = q
    BY Zenon, <1>1, <1>6, <1>8, <2>2 DEF W!Fresh
  <2> QED BY Zenon, <2>6, <2>7 DEF Earlier
<1>12. start' # NoRecord
  <2>1. start' = s0
    BY Zenon, <1>6 DEF W!Fresh
  <2> QED BY Zenon, <1>4, <2>1 DEF ReplayConstants, ReplayAbsence
<1> QED BY Zenon, <1>7, <1>10, <1>11, <1>12 DEF WindowInv

\* The first window of an analysis.
LEMMA BeginStep ==
  ASSUME ReplayConstants, LoaderInv, WindowInv, W!Begin
  PROVE  WindowInv'
<1>1. /\ data # NoRecord /\ start = NoRecord /\ verdict = NoRecord
      /\ Len(data.rows) >= Warmup + Oos /\ W!Fresh(Warmup)
      /\ data' = data /\ verdict' = verdict /\ collected' = collected
  BY Zenon DEF W!Begin, W!Enough, W!Rows, W!loading
<1>2. Collected /\ collected = <<>>
  BY Zenon, <1>1 DEF WindowInv
<1>3. PICK h \in SUBSET Int : IsData(data, h)
  <2>1. now \in Int /\ IsData(data, W!History)
    BY Zenon, <1>1 DEF LoaderInv
  <2>2. W!History \in SUBSET Int
    BY <2>1, HistoryFacts
  <2> QED BY Zenon, <2>1, <2>2
<1>4. Warmup \in Int /\ Warmup <= Warmup /\ Warmup + Oos <= Len(data.rows)
  <2>1. Len(data.rows) \in Nat
    <3>1. data.rows \in Seq(Int)
      BY Zenon, <1>3 DEF IsData, NoHole
    <3> QED BY <3>1, LenProperties
  <2> QED BY <1>1, <2>1, ReplayNumbers
<1>5. InWindow' /\ Positions' /\ Results' /\ Money'
  <2>1. data' # NoRecord /\ IsData(data', h) /\ verdict' = NoRecord /\ Warmup + Oos <= Len(data'.rows)
    BY Zenon, <1>1, <1>3, <1>4
  <2> QED BY Zenon, <1>1, <1>4, <2>1, FreshWindow
<1>6. Collected'
  BY Zenon, <1>1, <1>2 DEF Collected, Apart, IsDeal
<1>7. Earlier'
  <2>1. DOMAIN collected' = {}
    BY Zenon, <1>1, <1>2, EmptyList
  <2> QED BY Zenon, <2>1 DEF Earlier
<1>8. start' # NoRecord
  <2>1. start' = Warmup
    BY Zenon, <1>1 DEF W!Fresh
  <2> QED BY Zenon, <1>4, <2>1 DEF ReplayConstants, ReplayAbsence
<1> QED BY Zenon, <1>5, <1>6, <1>7, <1>8 DEF WindowInv

\* Nothing is collected yet.
LEMMA NothingCollected == ASSUME collected = <<>> PROVE Collected
<1>1. IsList(collected) /\ DOMAIN collected = {}
  BY Zenon, EmptyList
<1> QED BY Zenon, <1>1 DEF Collected, Apart

\* An analysis ends, and the next one loads.
LEMMA VerdictStep ==
  ASSUME ReplayConstants, LoaderInv, WindowInv, W!Insufficient \/ W!Judge \/ W!Again
  PROVE  WindowInv'
<1>1. CASE W!Insufficient
  <2>1. /\ start = NoRecord /\ verdict = NoRecord /\ verdict' = "INSUFFICIENT DATA"
        /\ start' = start /\ closed' = closed /\ collected' = collected
    BY Zenon, <1>1 DEF W!Insufficient
  <2>2. Collected /\ closed = <<>>
    BY Zenon, <2>1 DEF WindowInv
  <2>3. verdict' # NoRecord
    BY Zenon, <2>1 DEF ReplayConstants, ReplayAbsence
  <2>4. Collected'
    BY Zenon, <2>1, <2>2 DEF Collected, Apart, IsDeal
  <2> QED BY Zenon, <2>1, <2>2, <2>3, <2>4 DEF WindowInv
<1>2. CASE W!Judge
  <2>1. /\ start # NoRecord /\ event = W!Events /\ collected' = collected \o closed
        /\ verdict' = W!Judged(collected \o closed) /\ start' = NoRecord /\ closed' = <<>>
    BY Zenon, <1>2 DEF W!Judge, W!WindowDone
  <2>2. PICK q : q = collected \o closed
    OBVIOUS
  <2>3. IsList(q) /\ Apart(q) /\ \A i \in DOMAIN q : IsDeal(q[i])
    BY Zenon, <2>1, <2>2, JoinApart
  <2>4. Collected'
    BY Zenon, <2>1, <2>2, <2>3 DEF Collected, Apart, IsDeal
  <2>5. verdict' # NoRecord
    <3>1. W!Judged(q) \in {"REJECTED (no OOS trades)", "ACCEPTED",
                           "REJECTED (deflated Sharpe)", "REJECTED (expectancy)"}
      BY Zenon DEF W!Judged
    <3> QED BY Zenon, <2>1, <2>2, <3>1 DEF ReplayConstants, ReplayAbsence
  <2> QED BY Zenon, <2>1, <2>4, <2>5 DEF WindowInv
<1>3. CASE W!Again
  <2>1. /\ verdict # NoRecord /\ collected' = <<>> /\ start' = start /\ closed' = closed
    BY Zenon, <1>3 DEF W!Again
  <2>2. start = NoRecord /\ closed = <<>>
    BY Zenon, <2>1 DEF WindowInv, InWindow
  <2>3. Collected'
    <3>1. IsList(<<>>) /\ DOMAIN <<>> = {}
      BY Zenon, EmptyList
    <3> QED BY Zenon, <2>1, <3>1 DEF Collected, Apart
  <2> QED BY Zenon, <2>1, <2>2, <2>3 DEF WindowInv
<1> QED BY Zenon, <1>1, <1>2, <1>3

\* WindowInv is inductive, with LoaderInv.
LEMMA WindowStep == ASSUME ReplayConstants, LoaderInv, WindowInv, W!Next PROVE WindowInv'
<1>1. CASE \/ W!NewBar \/ W!LoadCached \/ W!StartFetch \/ W!PageEmpty \/ W!PageRaises
           \/ W!Finish \/ W!CrashWriting \/ \E k \in 1 .. PerCall : W!Page(k)
  <2>1. start' = start /\ closed' = closed /\ collected' = collected /\ verdict' = verdict
    BY Zenon, <1>1 DEF W!NewBar, W!LoadCached, W!StartFetch, W!PageEmpty, W!PageRaises,
       W!Finish, W!CrashWriting, W!Page, W!replaying
  <2>2. data = NoRecord
    BY Zenon, <1>1 DEF W!NewBar, W!LoadCached, W!StartFetch, W!PageEmpty, W!PageRaises,
       W!Finish, W!Fetched, W!CrashWriting, W!Page, LoaderInv
  <2>3. start = NoRecord
    BY Zenon, <2>2 DEF WindowInv, InWindow
  <2> QED BY Zenon, <2>1, <2>3, WindowRests
<1>2. CASE W!Begin
  BY <1>2, BeginStep
<1>3. CASE W!NextWindow
  BY <1>3, NextStep
<1>4. CASE W!Insufficient \/ W!Judge \/ W!Again
  BY <1>4, VerdictStep
<1>5. CASE \E o \in [kind : {"none", "hold", "partial", "close"}, pnl : TradePnls \cup {0}],
              enter \in BOOLEAN : W!Event(o, enter)
  BY Zenon, <1>5, EventStep
<1>6. CASE \E s \in W!Range(Pair), pnl \in TradePnls : W!ForceClose(s, pnl)
  BY Zenon, <1>6, PairFacts, ForceStep
<1> QED BY Zenon, <1>1, <1>2, <1>3, <1>4, <1>5, <1>6 DEF W!Next

\* WindowInv holds at the start.
LEMMA WindowStart == ASSUME W!Init PROVE WindowInv
<1>1. start = NoRecord /\ closed = <<>> /\ collected = <<>>
  BY Zenon DEF W!Init
<1>2. Collected
  BY Zenon, <1>1, NothingCollected
<1> QED BY Zenon, <1>1, <1>2 DEF WindowInv

\* Replay.BalanceIsNet and Replay.CountedOnce
LEMMA WindowCounts ==
  ASSUME ReplayConstants, LoaderInv, WindowInv
  PROVE  W!BalanceIsNet /\ W!CountedOnce
<1>1. W!BalanceIsNet
  BY Zenon DEF W!BalanceIsNet, WindowInv, Money, HeldSum
<1>2. W!CountedOnce
  <2>1. PICK q : q = collected \o closed
    OBVIOUS
  <2>2. Apart(q)
    <3>1. CASE start # NoRecord
      BY Zenon, <2>1, <3>1, JoinApart
    <3>2. CASE start = NoRecord
      <4>1. IsList(collected) /\ Apart(collected) /\ closed = <<>>
        BY Zenon, <3>2 DEF WindowInv, Collected
      <4>2. PICK S : collected \in Seq(S)
        BY Zenon, <4>1 DEF IsList
      <4>3. q = collected
        BY <2>1, <4>1, <4>2
      <4> QED BY Zenon, <4>1, <4>3
    <3> QED BY Zenon, <3>1, <3>2
  <2> QED BY Zenon, <2>1, <2>2 DEF Apart, W!CountedOnce, W!AllTrades
<1> QED BY <1>1, <1>2

\* The balance of a replay is what its trades made, the history it works on has no hole,
\* and no position is counted twice (Replay: BalanceIsNet, HistoryWhole, CountedOnce).
THEOREM ReplayIsCoherent == ASSUME ReplayConstants PROVE ResearchSpec => []BalanceIsNet
<1> DEFINE Inv == ReplayRuns => LoaderInv /\ WindowInv
<1>1. ResearchInit => Inv
  BY Zenon, LoaderStart, WindowStart DEF ResearchInit, ReplayParked, ReplayRuns
<1>2. Inv /\ [ResearchNext]_researchVars => Inv'
  <2> SUFFICES ASSUME Inv, [ResearchNext]_researchVars, ReplayRuns' PROVE (LoaderInv /\ WindowInv)'
    BY Zenon
  <2>1. CASE ReplayStep
    <3>1. LoaderInv /\ WindowInv /\ W!Next
      BY Zenon, <2>1 DEF ReplayStep
    <3>2. LoaderInv'
      BY Zenon, <3>1, LoaderStep
    <3>3. WindowInv'
      BY Zenon, <3>1, WindowStep
    <3> QED BY Zenon, <3>2, <3>3
  <2>2. CASE ~ReplayStep
    <3>1. UNCHANGED replayVars
      BY Zenon, <2>2 DEF ResearchNext, MakerStep, researchVars
    <3>2. ReplayRuns
      BY Zenon, <3>1 DEF ReplayRuns, replayVars
    <3>3. LoaderInv /\ WindowInv
      BY Zenon, <3>2
    <3>4. LoaderInv'
      <4>1. now' = now /\ disk' = disk /\ fetch' = fetch /\ data' = data
        BY Zenon, <3>1 DEF replayVars
      <4> QED BY Zenon, <3>3, <4>1, LoaderRests
    <3>5. WindowInv'
      <4>1. /\ data' = data /\ start' = start /\ event' = event /\ open' = open
            /\ lastClose' = lastClose /\ purse' = purse /\ closed' = closed
            /\ collected' = collected /\ verdict' = verdict
        BY Zenon, <3>1 DEF replayVars
      <4> QED BY Zenon, <3>3, <4>1 DEF WindowInv, Collected, Apart, IsDeal, InWindow, Positions,
                 Results, Earlier, Money, HeldSum, BarAt, Place, W!Events, W!Window, W!Rows, W!Held
    <3> QED BY Zenon, <3>4, <3>5
  <2> QED BY Zenon, <2>1, <2>2
<1>3. Inv => BalanceIsNet
  BY Zenon, HistoryIsWhole, WindowCounts DEF BalanceIsNet
<1> QED BY <1>1, <1>2, <1>3, PTL DEF ResearchSpec

================================================================================
