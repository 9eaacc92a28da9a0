------------------------------- MODULE MCMachines -------------------------------
(***************************************************************************)
(* The machines around a decision, and those of Operator and Research,     *)
(* checked in one run. They share no variable: the initial state says      *)
(* which machine the behaviour is of, and the variables of the others stay *)
(* parked, at None or empty.                                               *)
(***************************************************************************)
EXTENDS Operator, Research, Decisions, Opening, Evidence, Screening, Outlook

CONSTANTS Machines,  \* those a behaviour may be of
          None, NoData

(***************************************************************************)
(* Sizing: four configurations, two markets, nine signals.                 *)
(***************************************************************************)
Efficient ==
    [policy |-> "efficient", risk |-> 100, cost |-> 13, minStop |-> 30,
     maxStop |-> [standard |-> 250, reversion |-> 250, trend |-> 500, bugra |-> 500],
     exposure |-> 300, minNotional |-> 5000, maxOpen |-> 3, reserve |-> 2000,
     maxLeverage |-> 25, buffer |-> 20, maint |-> 50, tiers |-> <<>>,
     tpR |-> <<15, 25, 40>>, parts |-> <<50, 30, 20>>, bugraPct |-> <<100, 200, 300>>,
     revR |-> 12, trendR |-> 10000]
Conservative == [Efficient EXCEPT !.policy = "conservative", !.risk = 300,
                                  !.maxLeverage = 4]
Unlevered == [Efficient EXCEPT !.maxLeverage = 2, !.risk = 300, !.minNotional = 20000]
Tiered == [Efficient EXCEPT !.tiers = <<[upTo |-> 60000, rate |-> 40],
                                        [upTo |-> 150000, rate |-> 200]>>,
                            !.maxLeverage = 10, !.risk = 300]

Fine   == [tick |-> 1, step |-> 1, minNotional |-> 5000, brackets |-> <<>>, maxLeverage |-> 50]
Coarse == [tick |-> 40, step |-> 3, minNotional |-> 20000, maxLeverage |-> 25,
           brackets |-> <<[from |-> 0, upTo |-> 100000, leverage |-> 25],
                          [from |-> 100000, upTo |-> 1000000, leverage |-> 15]>>]

Sig(side, profile, stop, edge, score, tilt) ==
    [side |-> side, profile |-> profile, entry |-> 10000, stop |-> stop,
     edge |-> edge, score |-> score, regime |-> tilt]
MCSignals ==
    {Sig("LONG", "standard", 9995, NoData, NoData, 100),
     Sig("LONG", "standard", 9850, 200, 100, 130),
     Sig("LONG", "standard", 9700, NoData, NoData, 100),
     Sig("SHORT", "standard", 10120, -200, NoData, 100),
     Sig("SHORT", "standard", 9990, NoData, NoData, 100),
     Sig("LONG", "reversion", 9900, NoData, -150, 70),
     Sig("SHORT", "bugra", 10450, NoData, NoData, 160),
     Sig("LONG", "trend", 9600, NoData, NoData, 100),
     Sig("SHORT", "trend", 10300, NoData, NoData, 100)}
MCConfigs == {Efficient, Conservative, Unlevered, Tiered}
MCMarkets == {Fine, Coarse}

(***************************************************************************)
(* Regime: six readings of four symbols.                                   *)
(***************************************************************************)
Reading(adx, width, ups, known, linked, high) ==
    [bars |-> 250, adx |-> adx, widths |-> <<width, None>>, ups |-> ups, total |-> 3,
     series |-> known, linked |-> linked, high |-> high, low |-> 10,
     depths |-> <<80, 60>>]
All == {"a", "b", "c", "d"}
Chain == {{"a", "b"}, {"a", "d"}, {"c", "d"}}
Every == {{x, y} : x \in All, y \in All} \ {{x} : x \in All}

Calm    == Reading(22, 50, 1, All, {{"a", "d"}}, 75)
Strong  == Reading(38, 50, 2, All, Chain, 75)
Crowded == Reading(38, 50, 2, All, Every, 90)
Panicky == Reading(30, 95, 0, All, Every, 95)
Squeeze == Reading(18, 10, 2, {"a", "b"}, {{"a", "b"}}, 80)
Gap     == [Reading(None, None, 0, {"c"}, {}, 75) EXCEPT !.bars = 12]
AllReadings == {Calm, Strong, Crowded, Panicky, Squeeze, Gap}

RegimeLabels == {"STRONG_TREND", "WEAK_TREND", "CHOP", "VOL_EXPANSION", "VOL_COMPRESSION",
                 "PANIC", "TREND_WITH_CORR_RISK", "UNCERTAIN"}

MCSample == <<"a", "b", "c", "d">>
MCPriors == [ichimoku |-> 217, squeeze |-> 62]
MCCells == [ichimoku |-> [l \in RegimeLabels |-> [n |-> 0, sharpe |-> 0]],
            squeeze |-> [l \in RegimeLabels |-> [n |-> 300, sharpe |-> 300]]]

(***************************************************************************)
(* Shadow: a leg of the base timeframe and one of two base bars, which is  *)
(* below the score floor.                                                  *)
(***************************************************************************)
MCBarsOf  == [fast |-> 1, slow |-> 2]
MCTouches == {{}, {"stop", "tp"}}

(***************************************************************************)
(* Replay: six bars with a hole, two symbols, windows of two and two bars, *)
(* with the first event before the end of the context.                     *)
(***************************************************************************)
MCMissing == {3}
MCLoaders == {"candles", "any"}
MCPair == <<"a", "b">>
MCGains == {-1, 2}

(***************************************************************************)
(* Maker: every path of up to four bars of seven kinds.                    *)
(***************************************************************************)
Move(against, with) == [against |-> against, with |-> with]
MCKinds == {Move(0, 0), Move(1, 0), Move(2, 0), Move(3, 0), Move(0, 2), Move(3, 2), Move(2, 1)}

(***************************************************************************)
(* EnvFile: an old file with assignments made twice, one like .env.example *)
(* and none. Percentages are in hundredths of a percent.                   *)
(***************************************************************************)
Assign(k, v) == [key |-> k, value |-> v]
Old == <<Assign("RISK_PCT", 200), Assign("AX_MODE", "live"), Assign("LIVE_ENABLED", "true"),
         Assign("LIVE_SEND_ORDERS", "true"), Assign("LIVE_HUMAN_CONFIRM", "token"),
         Assign("BINANCE_API_KEY", "key"), Assign("LIVE_ENABLED", "true"),
         Assign("LIVE_SEND_ORDERS", "true")>>
ExampleFile ==
    <<Assign("RISK_PCT", Blank), Assign("MIN_RISK_PCT", 100), Assign("MAX_RISK_PCT", 300),
      Assign("DAILY_GIVEBACK_FRAC", 33), Assign("FETCH_RETRIES", 1),
      Assign("AX_MODE", "paper"), Assign("LIVE_ENABLED", "false"),
      Assign("LIVE_SEND_ORDERS", "false"), Assign("LIVE_HUMAN_CONFIRM", Blank),
      Assign("BINANCE_API_KEY", Blank)>>
Balanced == [RISK_PCT |-> 200, MIN_RISK_PCT |-> 100, MAX_RISK_PCT |-> 300,
             DAILY_GIVEBACK_FRAC |-> 33, FETCH_RETRIES |-> 2, AX_MODE |-> "paper",
             LIVE_ENABLED |-> "false", LIVE_SEND_ORDERS |-> "false",
             LIVE_HUMAN_CONFIRM |-> Blank, BINANCE_API_KEY |-> Blank]

MCFound == {Old, ExampleFile}
MCRequests == {[RISK_PCT |-> 200], [RISK_PCT |-> 50, DAILY_GIVEBACK_FRAC |-> 33],
               [RISK_PCT |-> 600], [DAILY_GIVEBACK_FRAC |-> 100], [MIN_RISK_PCT |-> 25]}
MCFastBlock == [RISK_PCT |-> 50, MIN_RISK_PCT |-> 25, MAX_RISK_PCT |-> 75,
                DAILY_GIVEBACK_FRAC |-> 33, AX_MODE |-> "paper",
                LIVE_ENABLED |-> "false", LIVE_SEND_ORDERS |-> "false"]
MCSessionBlock == [FETCH_RETRIES |-> 2]
MCAllowedKeys == {"RISK_PCT", "DAILY_GIVEBACK_FRAC"}

(***************************************************************************)
(* Signals: each profile alone, a list of one leg, and two lists of three  *)
(* legs, one of which is refused; two openings of five and seven bars, up  *)
(* to eight in all. Only the reversion reads the higher timeframe.         *)
(***************************************************************************)
Bar(change, up, down) == [move |-> change, up |-> up, down |-> down]
Rise == Bar(1, 0, 0)
Drop == Bar(-1, 0, 0)
Spike == Bar(0, 1, 0)
Dip == Bar(0, 0, 1)
Leg(profile, ltf, htfOf) == [profile |-> profile, ltf |-> ltf, htf |-> htfOf,
                             universe |-> {}, risk |-> None, ts |-> None, ch |-> None]
With(profile, strategies) ==
    [strategies |-> strategies, profile |-> profile, ltf |-> "4h", htf |-> "1d",
     frame |-> "4h", risk |-> 100, minRisk |-> 50, maxRisk |-> 200, timeStop |-> 48,
     channel |-> 20, gate |-> 0]
AllProfiles == {"bugra_replica", "aurvex_enhanced", "reversion_v1", "squeeze_breakout",
                "donchian_trend", "ichimoku_trend", "band_walk"}
Several == {With("aurvex_enhanced",
              <<[Leg("donchian_trend", "1h", "4h") EXCEPT !.ch = 10],
                [Leg("donchian_trend", "4h", "1d") EXCEPT !.risk = 20],
                [Leg("squeeze_breakout", "1h", "1d") EXCEPT !.universe = {"ETH"}]>>),
            With("aurvex_enhanced",
              <<Leg("donchian_trend", "1h", "4h"), Leg("donchian_trend", "4h", "1d"),
                Leg("donchian_trend", "4h", "3d")>>)}
Alone == With("aurvex_enhanced", <<Leg("donchian_trend", "4h", "1d")>>)

MCPeriods ==
    [minBars |-> 4, atr |-> 2, rsi |-> 2, fast |-> 1, slow |-> 3, st |-> 2, stMult |-> 1,
     cloudBars |-> 5, adxMin |-> 2000, tenkan |-> 1, kijun |-> 2, senkou |-> 3, shift |-> 1,
     bbN |-> 3, bbK |-> 1, bbLook |-> 3, bbHistory |-> 1,
     revAdx |-> 9000, revHtfAdx |-> 3000, revLong |-> 40, revShort |-> 60,
     sqzN |-> 2, sqzHistory |-> 2, sqzBase |-> 3, sqzPctile |-> 50, sqzTrend |-> TRUE,
     sma |-> 3, sqzMult |-> 1, donN |-> 2, donMult |-> 2, ichMult |-> 2, bwN |-> 3,
     bwK |-> 1, bwLook |-> 1, bwMult |-> 2, bugraStop |-> 45, minStop |-> 3, maxStop |-> 25,
     revStop |-> 15]
NoView == [fast |-> None, slow |-> None, adx |-> None]

\* The bars of the shapes, from 20 units on, each opening at the close of the one before.
MCHistory(shapes) ==
    LET upTo[n \in 0 .. Len(shapes)] ==
            IF n = 0 THEN <<>>
            ELSE LET s == shapes[n]
                     o == IF n = 1 THEN 20 * PriceUnit ELSE upTo[n - 1][n - 1].close
                     c == o + s.move * PriceUnit
                 IN  Append(upTo[n - 1],
                            [open |-> o, close |-> c,
                             high |-> (IF c > o THEN c ELSE o) + s.up * PriceUnit,
                             low  |-> (IF c < o THEN c ELSE o) - s.down * PriceUnit])
    IN  upTo[Len(shapes)]
MCHistories == {MCHistory(<<Rise, Rise, Spike, Drop, Drop>>),
                MCHistory(<<Drop, Dip, Drop, Rise, Rise, Dip, Spike>>)}
MCShapes == {Rise, Drop, Spike, Dip}
MCHtfViews == [p \in AllProfiles |->
                 IF p # "reversion_v1" THEN {NoView}
                 ELSE {NoView, [fast |-> 1, slow |-> 2, adx |-> 4000],
                       [fast |-> 2, slow |-> 1, adx |-> 4000]}]
MCSettings == {With(p, <<>>) : p \in AllProfiles} \cup Several \cup {Alone}
                  \cup {[With("donchian_trend", <<>>) EXCEPT !.gate = 60]}

(***************************************************************************)
(* Alerts: days of two ticks, the logical day begins one tick earlier, the *)
(* quiet hours wrap midnight.                                              *)
(***************************************************************************)
Cond(feed, over, high, stale) == [feed |-> feed, over |-> over, high |-> high, stale |-> stale]
MCQuiet == [from |-> 1, to |-> 0]
MCWorlds == {Cond("OK", FALSE, FALSE, FALSE), Cond("HALT", FALSE, FALSE, FALSE),
             Cond("ALERT", TRUE, FALSE, TRUE)}
MCRows == {[mark |-> Absent, stop |-> 96], [mark |-> 97, stop |-> 96]}
MCPnls == {-2, 2}

(***************************************************************************)
(* Evidence: two setups the weights know and one they do not; the buckets  *)
(* 45-55, 55-65 and above 75, and an executed row below the first. Of the  *)
(* trades a good one, a bad one, one nobody priced, and one that lost      *)
(* money with a positive R.                                                *)
(***************************************************************************)
Shade(setup, score, win, r) == [setup |-> setup, score |-> score, win |-> win, r |-> r]
Cand(setup, factors, lean, spread) ==
    [symbol |-> "a", setup |-> setup, factors |-> factors, base |-> 60, lean |-> lean,
     spread |-> spread]
MCShades ==
    {Shade("bugra", 5000, TRUE, 140), Shade("bugra", 5000, FALSE, -110),
     Shade("bugra", 6000, TRUE, 90), Shade("bugra", 6000, FALSE, -110),
     Shade("bugra", 4000, TRUE, 140),
     Shade("other", 8000, TRUE, 140), Shade("other", 8000, FALSE, -110)}
MCCandidates ==
    {Cand("bugra", 30, None, None), Cand("bugra", 45, 50, 40), Cand("bugra", 90, None, 40),
     Cand("squeeze", 90, -100, 40), Cand("other", 90, None, None)}
MCLabelViews ==
    {[setup |-> "bugra", align |-> a, stop |-> 100, spread |-> sp, score |-> sc] :
        a \in {30, 80}, sp \in {None, 20, 90}, sc \in {0, 4500, 7500}}
MCCoinResults == {-100, 200}
MCKnownSetups == {"bugra", "other"}
Tr(pnl, r, reason, grade) == [pnl |-> pnl, r |-> r, reason |-> reason, grade |-> grade]
MCCloses == {Tr(6, 150, "TP1", 1), Tr(-5, -105, "SL", 2),
             Tr(None, 0, "EXCHANGE_RECONCILE", 2), Tr(-2, 20, "SL", 1)}

(***************************************************************************)
(* Database: a file from before every column, one with a stamp already,    *)
(* and a new one.                                                          *)
(***************************************************************************)
OldTrade == [at |-> 0, pnl |-> 5, margin |-> Absent, clip |-> Absent]
OldRow(t) == [at |-> t, bar |-> Absent, label |-> Absent]
Ancient == [cols |-> {}, trades |-> {OldTrade}, shadows |-> <<OldRow(0), OldRow(0)>>,
            index |-> FALSE, balance |-> 105, stamp |-> Absent]
Stamped == [Ancient EXCEPT !.shadows = <<OldRow(0), OldRow(1)>>,
                           !.stamp = [label |-> 1, since |-> 1]]
Empty == [cols |-> {"margin", "clip", "bar", "epoch"}, trades |-> {}, shadows |-> <<>>,
          index |-> FALSE, balance |-> Absent, stamp |-> Absent]
MCFiles == {Ancient, Stamped, Empty}
MCOutcomes == {-2, 3}

(***************************************************************************)
(* Account: one symbol in the universe, two on the exchange.               *)
(***************************************************************************)
MCUniverse == {"a"}
MCListings == {"a", "c"}
MCEnvGates == {{"enabled", "confirm", "send"}, {"enabled", "confirm"}}

(***************************************************************************)
(* Gates: three symbols, one of them excluded and one forced to the front; *)
(* a deep book, one that slips, and a market too thin to trade.            *)
(***************************************************************************)
Level(price, qty) == [price |-> price, qty |-> qty]
Mkt(side, liquid, spread, levels) ==
    [side |-> side, liquid |-> liquid, spread |-> spread, book |-> levels]
Find(kind, sc, o) == [kind |-> kind, score |-> sc, other |-> o]
MCListed == <<"a", "b", "c">>
MCForced == <<"b">>
MCScanFinds == {Find("stale", 0, 0), Find("signal", 1, 0), Find("signal", 2, 0),
                Find("signal", 3, 2)}
MCBooks == {Mkt("LONG", TRUE, "tight", <<Level(20, 1), Level(21, 1), Level(22, 2)>>),
            Mkt("LONG", TRUE, "tight", <<Level(20, 1), Level(30, 2)>>),
            Mkt("SHORT", FALSE, None, <<Level(20, 9)>>)}
MCStyles == {[ranked |-> TRUE, floor |-> "min", day |-> "open"],
             [ranked |-> FALSE, floor |-> "gate", day |-> "open"],
             [ranked |-> TRUE, floor |-> "min", day |-> "loss"],
             [ranked |-> FALSE, floor |-> "gate", day |-> "profit"]}

(***************************************************************************)
(* One machine runs.                                                       *)
(***************************************************************************)
Starts(which) ==
    /\ IF which = "sizing" THEN S!Init ELSE SizingParked
    /\ IF which = "regime" THEN O!Init ELSE RegimeParked
    /\ IF which = "shadow" THEN H!Init ELSE ShadowParked
    /\ IF which = "signals" THEN G!Init ELSE SignalsParked
    /\ IF which = "ranking" THEN RankingInit
       ELSE IF which = "reports" THEN P!ReportInit ELSE EvidenceParked
    /\ IF which = "gates" THEN F!Init ELSE GatesParked
    /\ IF which = "replay" THEN W!Init ELSE ReplayParked
    /\ IF which = "maker"  THEN M!Init ELSE MakerParked
    /\ IF which = "env"    THEN E!Init ELSE EnvParked
    /\ IF which = "alerts" THEN A!Init ELSE AlertsParked
    /\ IF which = "database" THEN D!Init ELSE DatabaseParked
    /\ IF which = "account" THEN B!Init ELSE AccountParked
Init == \E which \in Machines : Starts(which)

Next ==
    \/ /\ OutlookNext
       /\ UNCHANGED <<gateVars, sizingVars, evidenceVars, decisionVars, operatorVars, researchVars>>
    \/ /\ ScreeningNext
       /\ UNCHANGED <<regimeVars, sizingVars, evidenceVars, decisionVars, operatorVars,
                      researchVars>>
    \/ /\ OpeningNext
       /\ UNCHANGED <<regimeVars, gateVars, evidenceVars, decisionVars, operatorVars, researchVars>>
    \/ /\ EvidenceNext
       /\ UNCHANGED <<regimeVars, gateVars, sizingVars, decisionVars, operatorVars, researchVars>>
    \/ /\ DecisionNext
       /\ UNCHANGED <<regimeVars, gateVars, sizingVars, evidenceVars, operatorVars, researchVars>>
    \/ /\ OperatorNext
       /\ UNCHANGED <<regimeVars, gateVars, sizingVars, evidenceVars, decisionVars, researchVars>>
    \/ /\ ResearchNext
       /\ UNCHANGED <<regimeVars, gateVars, sizingVars, evidenceVars, decisionVars, operatorVars>>
vars == <<regimeVars, gateVars, sizingVars, evidenceVars, decisionVars, researchVars, operatorVars>>
Spec == Init /\ [][Next]_vars
================================================================================
