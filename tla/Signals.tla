-------------------------------- MODULE Signals --------------------------------
(***************************************************************************)
(* From the candles of one symbol to a position of one leg: the cache of   *)
(* closed candles, the indicators, the seven detectors, the legs of        *)
(* STRATEGIES with their keys and universes, the routing of a signal to    *)
(* its leg and the streaming exit of an Ichimoku position                  *)
(* (market_data.py, indicators.py, setups.py, decision.py, engine.py).     *)
(*                                                                         *)
(* Prices are whole multiples of Unit, chosen so that every mean and every *)
(* smoothing of a history within MaxBars is a whole number; the periods    *)
(* written in the code (9, 26, 52, 14, 200...) are fields of Cfg.  ADX     *)
(* alone is rounded down, to a hundredth.  The factors, confidence and     *)
(* notes of a signal are left out; what is decided from them, and sizing,  *)
(* is the choice of a candidate that Scan makes.                           *)
(***************************************************************************)
EXTENDS Integers, Sequences, FiniteSets

CONSTANTS
    None,
    Unit,      \* one step of price
    Cfg,       \* the periods and thresholds
    Shapes,    \* what a bar may do: [move, up, down], in units
    Openings,  \* the histories a behaviour starts from
    HtfViews,  \* of a profile: readings of the higher timeframe, [fast, slow, adx]
    Settings,  \* [strategies, profile, ltf, htf, gate, ...]: what is configured
    Base,      \* the base asset of the symbol
    MaxBars    \* bound

VARIABLES
    setting,   \* the configuration of the process
    legs,      \* the legs parsed from it, or None when it was refused
    htf,       \* the higher timeframe
    series,    \* the bars that are over, as the exchange has them
    forming,   \* the bar in progress
    wire,      \* an answer with candles on its way, or None
    cached,    \* the candles the process holds for closed
    late,      \* the bars that ended while the answer holding them was on its way
    position,  \* the open position, or None
    left       \* why the last position was left

vars == <<setting, legs, htf, series, forming, wire, cached, late, position, left>>

MaxOf(S) == CHOOSE x \in S : \A y \in S : y <= x
MinOf(S) == CHOOSE x \in S : \A y \in S : x <= y
Abs(x) == IF x < 0 THEN -x ELSE x
Clamp(x, lo, hi) == MaxOf({lo, MinOf({x, hi})})
Sum(f, from, to) ==
    LET s[i \in (from - 1)..to] == IF i < from THEN 0 ELSE s[i - 1] + f[i] IN s[to]

(***************************************************************************)
(* Indicators, of a history b (setups.TFView).                             *)
(***************************************************************************)
High(b, p, i) == MaxOf({b[k].high : k \in (i - p + 1)..i})
Low(b, p, i)  == MinOf({b[k].low  : k \in (i - p + 1)..i})

TrueRange(b) ==
    [i \in DOMAIN b |->
       IF i = 1 THEN b[i].high - b[i].low
       ELSE MaxOf({b[i].high - b[i].low, Abs(b[i].high - b[i - 1].close),
                   Abs(b[i].low - b[i - 1].close)})]

\* Wilder's average: the mean of the first p values from the second on, then smoothed.
Wilder(v, p) ==
    LET a[i \in (p + 1)..Len(v)] ==
            IF i = p + 1 THEN Sum(v, 2, p + 1) \div p
            ELSE (a[i - 1] * (p - 1) + v[i]) \div p
    IN  a
Atr(b) == Wilder(TrueRange(b), Cfg.atr)[Len(b)]

Ema(b, p) ==
    LET close == [i \in DOMAIN b |-> b[i].close]
        e[i \in p..Len(b)] == IF i = p THEN Sum(close, 1, p) \div p
                              ELSE (close[i] * 2 + e[i - 1] * (p - 1)) \div (p + 1)
    IN  e[Len(b)]

Rise(b, i) == IF i = 1 THEN 0 ELSE b[i].high - b[i - 1].high
Fall(b, i) == IF i = 1 THEN 0 ELSE b[i - 1].low - b[i].low
PlusDM(b)  == [i \in DOMAIN b |-> IF Rise(b, i) > Fall(b, i) /\ Rise(b, i) > 0
                                  THEN Rise(b, i) ELSE 0]
MinusDM(b) == [i \in DOMAIN b |-> IF Fall(b, i) > Rise(b, i) /\ Fall(b, i) > 0
                                  THEN Fall(b, i) ELSE 0]

\* +DI, -DI and ADX: running sums of the two movements, and the average of their relative
\* difference, in hundredths, whole from bar 2 * Cfg.atr on.  The true range divides both
\* sums and drops out of every comparison.
Directional(b) ==
    LET p  == Cfg.atr
        d[i \in (p + 1)..Len(b)] ==
          LET q    == d[i - 1]
              up   == IF i = p + 1 THEN Sum(PlusDM(b), 2, i)
                      ELSE q.up - (q.up \div p) + PlusDM(b)[i]
              down == IF i = p + 1 THEN Sum(MinusDM(b), 2, i)
                      ELSE q.down - (q.down \div p) + MinusDM(b)[i]
              dx   == IF up + down = 0 THEN 0
                      ELSE (10000 * Abs(up - down)) \div (up + down)
          IN  [up |-> up, down |-> down,
               adx |-> IF i = p + 1 THEN dx
                       ELSE IF i < 2 * p THEN q.adx + dx
                       ELSE IF i = 2 * p THEN (q.adx + dx) \div p
                       ELSE (q.adx * (p - 1) + dx) \div p]
    IN  d[Len(b)]
Adx(b) == Directional(b).adx

\* Sums of gains and losses, smoothed alike; RSI is their share.
Gains(b)  == [i \in DOMAIN b |-> IF i = 1 THEN 0
                                 ELSE MaxOf({0, b[i].close - b[i - 1].close})]
Losses(b) == [i \in DOMAIN b |-> IF i = 1 THEN 0
                                 ELSE MaxOf({0, b[i - 1].close - b[i].close})]
RsiBelow(b, level) ==
    LET g == Wilder(Gains(b), Cfg.rsi)[Len(b)]
        l == Wilder(Losses(b), Cfg.rsi)[Len(b)]
    IN  l # 0 /\ 100 * g < level * (g + l)
RsiAbove(b, level) ==
    LET g == Wilder(Gains(b), Cfg.rsi)[Len(b)]
        l == Wilder(Losses(b), Cfg.rsi)[Len(b)]
    IN  l = 0 \/ 100 * g > level * (g + l)

\* The mean of the last n closes, times n, and n squares of the deviation, times n^3.
Bands(b, n) ==
    LET c == [k \in 1..n |-> b[Len(b) - n + k].close \div Unit]
        s == Sum(c, 1, n)
        d == [k \in 1..n |-> (n * c[k] - s) * (n * c[k] - s)]
    IN  [sum |-> s, spread |-> Sum(d, 1, n), last |-> n * c[n] - s]
\* The last close beyond the mean by more than k deviations.
AboveBand(b, n, k) == LET x == Bands(b, n) IN
                      x.last > 0 /\ n * x.last * x.last > k * k * x.spread
BelowBand(b, n, k) == LET x == Bands(b, n) IN
                      x.last < 0 /\ n * x.last * x.last > k * k * x.spread

\* bbw_percentile: the share of the earlier bars whose relative band width is smaller.
Contracted(b) ==
    LET n     == Cfg.bbN
        first == MaxOf({n, Len(b) - Cfg.bbLook})
        now   == Bands(b, n)
        less  == {i \in first..(Len(b) - 1) :
                    LET x == Bands(SubSeq(b, 1, i), n)
                    IN  x.spread * now.sum * now.sum < now.spread * x.sum * x.sum}
    IN  /\ Len(b) >= n /\ Len(b) - first >= Cfg.bbHistory
        /\ 100 * Cardinality(less) < setting.gate * (Len(b) - first)

\* The bands only tighten until a close passes them; the direction flips on a close
\* beyond the band that carries it.
Supertrend(b) ==
    LET a == Wilder(TrueRange(b), Cfg.st)
        mid(i) == (b[i].high + b[i].low) \div 2
        t[i \in (Cfg.st + 1)..Len(b)] ==
          LET up == mid(i) + Cfg.stMult * a[i]
              dn == mid(i) - Cfg.stMult * a[i]
          IN  IF i = Cfg.st + 1
              THEN [upper |-> up, lower |-> dn, bull |-> b[i].close > mid(i)]
              ELSE LET q  == t[i - 1]
                       fu == IF b[i - 1].close <= q.upper THEN MinOf({up, q.upper}) ELSE up
                       fl == IF b[i - 1].close >= q.lower THEN MaxOf({dn, q.lower}) ELSE dn
                   IN  [upper |-> fu, lower |-> fl,
                        bull  |-> IF q.bull THEN b[i].close >= fl ELSE b[i].close > fu]
    IN  t[Len(b)]

\* Twice the middle of the p bars that end at i.
Middle(b, p, i) == High(b, p, i) + Low(b, p, i)

\* The cloud projected Cfg.shift bars ago, times four.
Cloud(b) ==
    LET j == Len(b) - Cfg.shift
    IN  [a |-> Middle(b, Cfg.tenkan, j) + Middle(b, Cfg.kijun, j),
         b |-> 2 * Middle(b, Cfg.senkou, j)]
AboveCloud(b) == LET c == Cloud(b) IN 4 * b[Len(b)].close > MaxOf({c.a, c.b})
BelowCloudTop(b) == LET c == Cloud(b) IN 4 * b[Len(b)].close < MaxOf({c.a, c.b}) \* mutant
BelowCloud(b) == LET c == Cloud(b) IN 4 * b[Len(b)].close < MinOf({c.a, c.b})

(***************************************************************************)
(* Detectors: the side of the signal on the last bar of b, or None.        *)
(***************************************************************************)
SideOf(long, short) == IF long THEN "LONG" ELSE IF short THEN "SHORT" ELSE None
Close(b) == b[Len(b)].close
Before(b, p) == SubSeq(b, Len(b) - p, Len(b) - 1)

\* The bars a detector waits for, beside those of build_context.
Waits == [bugra_replica    |-> Cfg.cloudBars,
          aurvex_enhanced  |-> Cfg.cloudBars,
          reversion_v1     |-> MaxOf({Cfg.bbN, 2 * Cfg.atr + 1}),
          squeeze_breakout |-> Cfg.sqzN + Cfg.sqzHistory + 1,
          donchian_trend   |-> Cfg.donN + 1,
          ichimoku_trend   |-> Cfg.shift + Cfg.senkou + 3,
          band_walk        |-> MaxOf({Cfg.bwN + 2, 2 * Cfg.atr + 1 + Cfg.bwLook})]

\* Five conditions that must agree, in both of the first two profiles.
FiveAgree(b) ==
    LET st == Supertrend(b)
        cl == Cloud(b)
        di == Directional(b)
    IN  IF di.adx < Cfg.adxMin THEN None
        ELSE SideOf(/\ Ema(b, Cfg.fast) > Ema(b, Cfg.slow) /\ st.bull
                    /\ AboveCloud(b) /\ cl.a > cl.b /\ di.up > di.down,
                    /\ Ema(b, Cfg.fast) < Ema(b, Cfg.slow) /\ ~st.bull
                    /\ BelowCloud(b) /\ cl.a <= cl.b /\ di.down > di.up)

\* A close outside the band of a ranging market, unless the higher timeframe trends
\* the other way.
Reversion(b, h) ==
    LET calm == h.adx # None => h.adx < Cfg.revHtfAdx
        known == h.fast # None /\ h.slow # None
    IN  IF Adx(b) >= Cfg.revAdx THEN None
        ELSE SideOf(/\ BelowBand(b, Cfg.bbN, Cfg.bbK) /\ RsiBelow(b, Cfg.revLong)
                    /\ calm \/ (known /\ h.fast >= h.slow),
                    /\ AboveBand(b, Cfg.bbN, Cfg.bbK) /\ RsiAbove(b, Cfg.revShort)
                    /\ calm \/ (known /\ h.fast <= h.slow))

\* The close leaves the range of the n bars before it.
Breakout(b, n) == SideOf(Close(b) > High(b, n, Len(b) - 1), Close(b) < Low(b, n, Len(b) - 1))

\* Ranges of the n bars before a bar, as shares of its close, compared crosswise.
Range(b, n, i) == High(b, n, i - 1) - Low(b, n, i - 1)
Squeezed(b) ==
    LET n     == Cfg.sqzN
        past  == MaxOf({n + 1, Len(b) - Cfg.sqzBase})..(Len(b) - 1)
        less  == {j \in past : Range(b, n, j) * Close(b) < Range(b, n, Len(b)) * b[j].close}
    IN  /\ Cardinality(past) >= Cfg.sqzHistory
        /\ Cardinality(less) <= (Cardinality(past) * Cfg.sqzPctile) \div 100
WithTrend(b, side) ==
    Cfg.sqzTrend /\ Len(b) > Cfg.sma =>
        (side = "LONG") =
        (Cfg.sma * Close(b) > Sum([i \in DOMAIN b |-> b[i].close], Len(b) - Cfg.sma,
                                  Len(b) - 1))
Squeeze(b) ==
    LET side == Breakout(b, Cfg.sqzN) IN
    IF side # None /\ Squeezed(b) /\ WithTrend(b, side) /\ Range(b, Cfg.sqzN, Len(b)) > 0
    THEN side ELSE None

Donchian(b) ==
    LET side == Breakout(b, Cfg.donN) IN
    IF side # None /\ Atr(b) > 0
       /\ (setting.gate > 0 => Contracted(SubSeq(b, 1, Len(b) - 1)))
    THEN side ELSE None

\* Tenkan against kijun at bar i.
TkAbove(b, i) == Middle(b, Cfg.tenkan, i) > Middle(b, Cfg.kijun, i)
TkBelow(b, i) == Middle(b, Cfg.tenkan, i) < Middle(b, Cfg.kijun, i)
Ichimoku(b) ==
    LET n == Len(b) IN
    IF Atr(b) <= 0 THEN None
    ELSE SideOf(AboveCloud(b) /\ TkAbove(b, n) /\ ~TkAbove(b, n - 1),
                BelowCloud(b) /\ TkBelow(b, n) /\ ~TkBelow(b, n - 1))

BandWalk(b) ==
    LET prev == SubSeq(b, 1, Len(b) - 1)
        out(P(_, _, _)) == P(b, Cfg.bwN, Cfg.bwK) /\ P(prev, Cfg.bwN, Cfg.bwK)
    IN  IF Atr(b) <= 0 \/ Adx(b) <= Adx(SubSeq(b, 1, Len(b) - Cfg.bwLook)) THEN None
        ELSE SideOf(out(AboveBand), out(BelowBand))

\* build_context and the detector of the profile; the distance of its stop.
Detect(profile, b, h) ==
    IF Len(b) < MaxOf({Cfg.minBars, Waits[profile]}) THEN None
    ELSE CASE profile \in {"bugra_replica", "aurvex_enhanced"} -> FiveAgree(b)
           [] profile = "reversion_v1"     -> Reversion(b, h)
           [] profile = "squeeze_breakout" -> Squeeze(b)
           [] profile = "donchian_trend"   -> Donchian(b)
           [] profile = "ichimoku_trend"   -> Ichimoku(b)
           [] profile = "band_walk"        -> BandWalk(b)
StopDistance(profile, b) ==
    CASE profile = "bugra_replica"    -> (Close(b) * Cfg.bugraStop) \div 1000
      [] profile = "aurvex_enhanced"  -> Clamp(2 * Atr(b), (Close(b) * Cfg.minStop) \div 1000,
                                               (Close(b) * Cfg.maxStop) \div 1000)
      [] profile = "reversion_v1"     -> (Close(b) * Cfg.revStop) \div 1000
      [] profile = "squeeze_breakout" -> Range(b, Cfg.sqzN, Len(b)) * Cfg.sqzMult
      [] profile = "donchian_trend"   -> Atr(b) * Cfg.donMult
      [] profile = "ichimoku_trend"   -> Atr(b) * Cfg.ichMult
      [] profile = "band_walk"        -> Atr(b) * Cfg.bwMult

(***************************************************************************)
(* The legs of STRATEGIES.                                                 *)
(***************************************************************************)
\* A profile at a second timeframe gets a key of its own; the first keeps the bare one.
Key(raws, i) == IF \E j \in 1..(i - 1) : raws[j].profile = raws[i].profile
                THEN <<raws[i].profile, raws[i].ltf>> ELSE <<raws[i].profile>>
ProfileOf(key) == key[1]

\* _parse_one_spec: the leg's own risk stays within the band of the account.
LegOf(s, raws, i) ==
    LET r == raws[i] IN
    [profile |-> r.profile, ltf |-> r.ltf, htf |-> r.htf, key |-> Key(raws, i),
     universe |-> r.universe,
     risk |-> IF r.risk = None THEN s.risk ELSE Clamp(r.risk, s.minRisk, s.maxRisk),
     exit |-> [ltf |-> r.ltf, timeStop |-> IF r.ts = None THEN s.timeStop ELSE r.ts,
               channel |-> IF r.profile # "donchian_trend" THEN 0
                           ELSE IF r.ch = None THEN s.channel ELSE r.ch]]
Plain(s) == [profile |-> s.profile, ltf |-> s.ltf, htf |-> s.htf, universe |-> {},
             risk |-> None, ts |-> None, ch |-> None]

\* parse_strategies: refused are a leg given twice and two legs with one key.
Refused(raws) == \E i, j \in DOMAIN raws :
                    /\ i # j
                    /\ \/ raws[i].profile = raws[j].profile /\ raws[i].ltf = raws[j].ltf
                          /\ raws[i].htf = raws[j].htf
                       \/ Key(raws, i) = Key(raws, j)
Parsed(s) == LET raws == IF s.strategies = <<>> THEN <<Plain(s)>> ELSE s.strategies
             IN  IF Refused(raws) THEN None
                 ELSE [i \in DOMAIN raws |-> LegOf(s, raws, i)]
Multi == Len(legs) > 1

(***************************************************************************)
(* Candles.                                                                *)
(***************************************************************************)
Shaped(o, s) ==
    LET c == o + s.move * Unit
    IN  [open |-> o, close |-> c, high |-> MaxOf({o, c}) + s.up * Unit,
         low |-> MinOf({o, c}) - s.down * Unit]
Opened(o) == [open |-> o, close |-> o, high |-> o, low |-> o]

\* closed_view: a candle counts as closed once the clock has passed its end.
ClosedViewAll(rows) == rows                                             \* mutant
ClosedView(rows) == IF Len(rows) <= Len(series) THEN rows
                    ELSE SubSeq(rows, 1, Len(rows) - 1)

(***************************************************************************)
(* Signals and the position.                                               *)
(***************************************************************************)
\* A leg whose candles are those of this history; the others see candles of their own.
Seen(leg, b) == (IF leg.ltf = setting.frame THEN {Detect(leg.profile, b, htf)}
                 ELSE {"LONG", "SHORT"}) \ {None}
SignalsOf(leg, key, b) ==
    {[key |-> key, side |-> side, profile |-> leg.profile, ltf |-> leg.ltf,
      htf |-> leg.htf] : side \in Seen(leg, b)}

\* _detect_candidates: with one leg, the detector of the base configuration.
Candidates(b) ==
    IF ~Multi THEN SignalsOf(Plain(setting), <<setting.profile>>, b)
    ELSE UNION {SignalsOf(legs[i], legs[i].key, b) :
                  i \in {k \in DOMAIN legs : legs[k].universe # {} => Base \in legs[k].universe}}

\* _decide: risk, exit rules and the window of an Ichimoku exit, of the leg whose key
\* the signal carries; without such a leg those of the base configuration.
RoutedByProfile(sig) == {i \in DOMAIN legs : legs[i].profile = ProfileOf(sig.key)}  \* mutant
Routed(sig) == {i \in DOMAIN legs : legs[i].key = sig.key}
Newest(w, n) == SubSeq(w, MaxOf({1, Len(w) - n + 1}), Len(w))
Extremes(b) == [i \in DOMAIN b |-> <<b[i].high, b[i].low>>]
SeedNone(b) == <<>>                                                     \* mutant
Seed(b) == Newest(Extremes(b), Cfg.kijun)
Position(sig, b) ==
    LET i == IF Routed(sig) = {} THEN None ELSE MaxOf(Routed(sig))
    IN  [sig |-> sig, at |-> Len(b), last |-> Len(b),
         risk |-> IF Multi /\ i # None THEN legs[i].risk ELSE setting.risk,
         exit |-> IF i = None THEN None ELSE legs[i].exit,
         window |-> IF ProfileOf(sig.key) # "ichimoku_trend" THEN <<>> ELSE Seed(b)]

Follows(p) == /\ ProfileOf(p.sig.key) = "ichimoku_trend"
              /\ p.sig.ltf = setting.frame
\* simulate_fill, the TK cross: from the newest extremes kept with the trade.
Grown(p, b) == Newest(Append(p.window, <<b[Len(b)].high, b[Len(b)].low>>), Cfg.kijun)
Twice(w) == MaxOf({w[i][1] : i \in DOMAIN w}) + MinOf({w[i][2] : i \in DOMAIN w})
CrossedIn(w, side) ==
    /\ Len(w) >= Cfg.kijun
    /\ LET t == Twice(Newest(w, Cfg.tenkan))
           k == Twice(w)
       IN  IF side = "LONG" THEN t < k ELSE t > k

(***************************************************************************)
(* Steps.                                                                  *)
(***************************************************************************)
Init ==
    /\ setting \in Settings
    /\ legs = Parsed(setting)
    /\ htf \in HtfViews[setting.profile]
    /\ series \in Openings
    /\ forming = Opened(Close(series))
    /\ wire = None /\ cached = <<>> /\ late = {} /\ position = None /\ left = None

\* The bar in progress trades.
Trade ==
    /\ Len(series) < MaxBars
    /\ forming = Opened(Close(series))
    /\ \E s \in Shapes : forming' = Shaped(forming.open, s)
    /\ UNCHANGED <<setting, legs, htf, series, wire, cached, late, position, left>>

\* It ends, an answer on its way or not; no bar is missed (those are of TradeLifecycle).
BarEnds ==
    /\ forming # Opened(Close(series))
    /\ IF wire = None THEN Len(cached) = Len(series) ELSE Len(wire) > Len(series)
    /\ position # None => position.last = Len(cached)
    /\ series' = Append(series, forming)
    /\ forming' = Opened(forming.close)
    /\ UNCHANGED <<setting, legs, htf, wire, cached, late, position, left>>

\* _fetch_klines: asked for once another bar must have closed, the exchange answers with
\* the candle in progress as the last.
Ask ==
    /\ legs # None
    /\ wire = None
    /\ Len(cached) < Len(series)
    /\ wire' = Append(series, forming)
    /\ UNCHANGED <<setting, legs, htf, series, forming, cached, late, position, left>>

\* The answer arrives, at once or after the end of its last candle.
Receive ==
    /\ wire # None
    /\ cached' = ClosedView(wire)
    /\ late' = IF Len(wire) <= Len(series) THEN late \cup {Len(wire)} ELSE late
    /\ wire' = None
    /\ UNCHANGED <<setting, legs, htf, series, forming, position, left>>

\* What a cycle changes: without a position one of the candidates of the symbol may be
\* taken; an older one is managed on the newest closed bar it has not seen.
Cycle ==
    /\ cached # <<>>
    /\ wire = None
    /\ \/ /\ position = None
          /\ \E sig \in Candidates(cached) : position' = Position(sig, cached)
          /\ left' = left
       \/ /\ position # None
          /\ Len(cached) > position.last
          /\ LET w == Grown(position, cached) IN
             IF Follows(position) /\ CrossedIn(w, position.sig.side)
             THEN position' = None /\ left' = "TKCROSS"
             ELSE /\ position' = [position EXCEPT !.last = Len(cached),
                                    !.window = IF Follows(position) THEN w ELSE @]
                  /\ left' = left
    /\ UNCHANGED <<setting, legs, htf, series, forming, wire, cached, late>>

\* The stop, a target, the channel or the time stop (TradeLifecycle).
Leave ==
    /\ position # None
    /\ position' = None
    /\ left' = "other"
    /\ UNCHANGED <<setting, legs, htf, series, forming, wire, cached, late>>

Next == Trade \/ BarEnds \/ Ask \/ Receive \/ Cycle \/ Leave
Spec == Init /\ [][Next]_vars

(***************************************************************************)
(* Properties.                                                             *)
(***************************************************************************)
\* A candle held for closed is the final one.  The one exception is the newest, when it
\* ended while the answer that holds it was on its way: it then stands until the next.
FinalUnlessLate ==
    \A i \in DOMAIN cached :
        \/ i \in DOMAIN series /\ cached[i] = series[i]
        \/ i = Len(cached) /\ i \in late

\* SHORT mirrors LONG: the history turned upside down, about 20 units, signals the other
\* side, with the stop as far away.  A flat cloud counts as bearish, and a squeeze and the
\* gate on the band width are measured in shares of the price, which turning changes.
Mirror(b) == [i \in DOMAIN b |->
                [open |-> 40 * Unit - b[i].open, close |-> 40 * Unit - b[i].close,
                 high |-> 40 * Unit - b[i].low, low |-> 40 * Unit - b[i].high]]
MirrorHtf == [fast |-> htf.slow, slow |-> htf.fast, adx |-> htf.adx]
Turned(b) ==
    LET p == setting.profile
        side == Detect(p, b, htf)
        turned == Detect(p, Mirror(b), MirrorHtf)
    IN  side # None /\ p # "squeeze_breakout" /\ setting.gate = 0 =>
          \/ /\ turned = (IF side = "LONG" THEN "SHORT" ELSE "LONG")
             /\ p \in {"donchian_trend", "ichimoku_trend", "band_walk"} =>
                    StopDistance(p, b) = StopDistance(p, Mirror(b))
          \/ /\ p \in {"bugra_replica", "aurvex_enhanced"} /\ side = "SHORT"
             /\ LET c == Cloud(b) IN c.a = c.b
Mirrored == [][Turned(cached')]_cached

\* The executor leaves an Ichimoku position on the bar on which the detector's own lines
\* stand against it, and on no other, though it computes them from what it kept.
ExitByOwnLines ==
    [][(/\ position # None /\ Follows(position) /\ Len(cached) > position.last
        /\ late \cap (position.at - Cfg.kijun)..Len(cached) = {}
        /\ position' # position /\ ~(position' = None /\ left' = "other"))
       => (position' = None) =
            (IF position.sig.side = "LONG" THEN TkBelow(cached, Len(cached))
             ELSE TkAbove(cached, Len(cached)))]_vars

\* What is open was signalled by a leg of STRATEGIES, on a base it may trade, and carries
\* the risk and the exit rules of that leg.  Not so with a list of one: the engine is then
\* not in multi mode and trades STRATEGY_PROFILE.
OwnLeg ==
    position # None /\ Len(setting.strategies) # 1 =>
        \E i \in DOMAIN legs :
            /\ <<legs[i].profile, legs[i].ltf, legs[i].htf>> =
                  <<position.sig.profile, position.sig.ltf, position.sig.htf>>
            /\ legs[i].universe # {} => Base \in legs[i].universe
            /\ position.exit = legs[i].exit
            /\ position.risk = legs[i].risk

================================================================================
