--------------------------------- MODULE Sizing ---------------------------------
(***************************************************************************)
(* From a signal to exchange orders: the risk manager (risk.py) with the   *)
(* multiplier the engine hands it, and the payloads, their validation and  *)
(* the cancel/replace replay of order_payload.py.                          *)
(*                                                                         *)
(* Fractions are in basis points (10000 = 1), multipliers in hundredths,   *)
(* the buffer and the R multiples in tenths; a quotient the code keeps as  *)
(* a float is rounded toward the smaller position.                         *)
(***************************************************************************)
EXTENDS Integers, Sequences, SequencesExt

CONSTANTS
    Configs,     \* validated configurations: records of the fields used below
    Markets,     \* exchange filters: [tick, step, minNotional, brackets, maxLeverage]
    Signals,     \* [side, profile, entry, stop, edge, score, regime]
    Fractions,   \* parts of an order, in hundredths, one fill can bring
    Balances,    \* balances the account can start from
    NoData,      \* shadow edge or score bucket without enough resolved rows
    None,
    MaxTrades,   \* bound: decisions carried out in a behaviour
    MaxGens      \* bound: generations of one entry order

VARIABLES
    cfg, market,  \* of this process and symbol: they never change
    balance,
    book,         \* open trades: [notional, margin, loss]
    opened,       \* trades opened so far (bounded by MaxTrades)
    decision,     \* what decide() allowed, or None
    refused,      \* reason of the last refusal
    group,        \* its exchange payloads: [entry, stop, targets]
    gens          \* dry run: generations of the entry order

vars == <<cfg, market, balance, book, opened, decision, refused, group, gens>>

Clamp(x, lo, hi) == IF x < lo THEN lo ELSE IF x > hi THEN hi ELSE x
Abs(x) == IF x < 0 THEN -x ELSE x
Least(x, y) == IF x < y THEN x ELSE y
Most(x, y) == IF x > y THEN x ELSE y
Ceiling(x, y) == (x + y - 1) \div y

(***************************************************************************)
(* The risk multiplier.                                                    *)
(***************************************************************************)
\* Measured average R (hundredths) of the setup and of the score bucket.
ShadowMultiplier(edge) == IF edge = NoData THEN 100
                          ELSE Clamp(100 + (edge * 30) \div 100, 70, 130)
ScoreMultiplier(edge)  == IF edge = NoData THEN 100
                          ELSE Clamp(100 + (edge * 20) \div 100, 80, 120)

Multiplier(sig) ==
    Clamp((ShadowMultiplier(sig.edge) * ScoreMultiplier(sig.score) * sig.regime) \div 10000,
          50, 150)

(***************************************************************************)
(* RiskManager.evaluate.                                                   *)
(***************************************************************************)
\* normalize_stop: the distance, widened to the minimum.
StopDist(sig) == Most(Ceiling(Abs(sig.entry - sig.stop) * 10000, sig.entry), cfg.minStop)
Toward(sig, dist) == IF sig.side = "LONG" THEN sig.entry - dist ELSE sig.entry + dist
NormalStop(sig) == IF (Abs(sig.entry - sig.stop) * 10000) \div sig.entry < cfg.minStop
                   THEN Toward(sig, (sig.entry * cfg.minStop) \div 10000)
                   ELSE sig.stop
StopRefused(sig) == \/ sig.side = "LONG" /\ sig.stop >= sig.entry
                    \/ sig.side = "SHORT" /\ sig.stop <= sig.entry
                    \/ StopDist(sig) > cfg.maxStop[sig.profile]

Budget(sig) == (((balance * cfg.risk) \div 100) * Multiplier(sig)) \div 10000
PriceOnly(sig) == (Budget(sig) * 10000) \div StopDist(sig)                       \* mutant
TargetNotional(sig) == (Budget(sig) * 10000) \div (StopDist(sig) + cfg.cost)

OpenNotional == SumFunction([i \in DOMAIN book |-> book[i].notional])
OpenMargin   == SumFunction([i \in DOMAIN book |-> book[i].margin])
Room == (balance * cfg.exposure) \div 100 - OpenNotional
Sized(sig) == Least(TargetNotional(sig), Room)

\* mm_rate_for: the first tier that covers the notional, never below the flat rate.
MaintRate(notional) ==
    LET covering == {i \in DOMAIN cfg.tiers : notional <= cfg.tiers[i].upTo}
        tier == IF covering = {} THEN Len(cfg.tiers)
                ELSE CHOOSE i \in covering : \A j \in covering : i <= j
    IN  IF cfg.tiers = <<>> THEN cfg.maint ELSE Most(cfg.tiers[tier].rate, cfg.maint)

FlatCeiling(sig) ==                                                             \* mutant
    Most(1, Least(cfg.maxLeverage, 100000 \div (20 * MaintRate(Sized(sig)))))
\* The largest leverage whose liquidation stays the buffer away from the stop.
SafeLeverage(sig) ==
    Most(1, Least(cfg.maxLeverage,
                  100000 \div (cfg.buffer * StopDist(sig) + 10 * MaintRate(Sized(sig)))))

Available == balance - OpenMargin
SlotMargin == ((balance * (10000 - cfg.reserve)) \div 10000 - OpenMargin)
                  \div Most(1, cfg.maxOpen - Len(book))
ChosenLeverage(sig) == IF cfg.policy = "efficient" THEN SafeLeverage(sig)
                  ELSE Least(Most(1, Ceiling(Sized(sig), SlotMargin)), SafeLeverage(sig))

UncappedMargin(sig) ==                                                          \* mutant
    [notional |-> Sized(sig), leverage |-> ChosenLeverage(sig),
     margin |-> Ceiling(Sized(sig), ChosenLeverage(sig))]
\* _solve_leverage: the margin never exceeds what is free; the notional shrinks instead.
Solved(sig) ==
    IF Ceiling(Sized(sig), ChosenLeverage(sig)) > Available
    THEN [notional |-> Available * SafeLeverage(sig), leverage |-> SafeLeverage(sig),
          margin |-> Available]
    ELSE [notional |-> Sized(sig), leverage |-> ChosenLeverage(sig),
          margin |-> Ceiling(Sized(sig), ChosenLeverage(sig))]

Liquidation(sig, leverage, rate) ==
    Toward(sig, (sig.entry * Most(0, 10000 \div leverage - rate)) \div 10000)
Inside(side, stop, liq) == IF side = "LONG" THEN stop > liq ELSE stop < liq

\* _build_targets: three prices with the part (hundredths) each closes.
Targets(sig) ==
    LET r == Abs(sig.entry - NormalStop(sig))
        At(tenths) == Toward(sig, -((r * tenths) \div 10))
        Single(tenths) == [i \in 1 .. 3 |-> [price |-> At(tenths),
                                             part |-> IF i = 1 THEN 100 ELSE 0]]
    IN  CASE sig.profile = "reversion" -> Single(cfg.revR)
          [] sig.profile = "trend" -> Single(cfg.trendR)
          [] sig.profile = "bugra" ->
                [i \in 1 .. 3 |-> [price |-> Toward(sig, -((sig.entry * cfg.bugraPct[i]) \div 10000)),
                                   part |-> cfg.parts[i]]]
          [] OTHER -> [i \in 1 .. 3 |-> [price |-> At(cfg.tpR[i]), part |-> cfg.parts[i]]]

\* The first check that refuses the signal, in the order of the code.
Refusal(sig) ==
    IF StopRefused(sig) THEN "stop"
    ELSE IF Room <= 0 THEN "exposure"
    ELSE IF Sized(sig) < cfg.minNotional THEN "minimum"
    ELSE IF Available <= 0 \/ (cfg.policy = "conservative" /\ SlotMargin <= 0) THEN "margin"
    ELSE IF ~Inside(sig.side, NormalStop(sig),
                    Liquidation(sig, Solved(sig).leverage, MaintRate(Sized(sig))))
         THEN "liquidation"
    ELSE None

Idle == decision = None /\ opened < MaxTrades

Refuse(sig) ==
    /\ Idle /\ Refusal(sig) # None
    /\ refused' = Refusal(sig)
    /\ UNCHANGED <<cfg, market, balance, book, opened, decision, group, gens>>

Allow(sig) ==
    /\ Idle /\ Refusal(sig) = None
    /\ LET s == Solved(sig)
       IN  decision' = [sig |-> sig, stop |-> NormalStop(sig), dist |-> StopDist(sig),
                        notional |-> s.notional, leverage |-> s.leverage,
                        margin |-> s.margin, targets |-> Targets(sig),
                        loss |-> (s.notional * (StopDist(sig) + cfg.cost)) \div 10000]
    /\ refused' = None
    /\ UNCHANGED <<cfg, market, balance, book, opened, group, gens>>

\* The engine opens what was allowed: paper fills the whole of it.
Open ==
    /\ decision # None /\ group = None
    /\ book' = Append(book, [notional |-> decision.notional, margin |-> decision.margin,
                             loss |-> decision.loss])
    /\ opened' = opened + 1
    /\ decision' = None
    /\ UNCHANGED <<cfg, market, balance, refused, group, gens>>

\* A trade ends at its stop, or with as much profit.
Close(i, gain) ==
    /\ decision = None
    /\ balance' = balance + (IF gain THEN book[i].loss ELSE -book[i].loss)
    /\ book' = RemoveAt(book, i)
    /\ UNCHANGED <<cfg, market, opened, decision, refused, group, gens>>

(***************************************************************************)
(* The exchange payloads of an allowed decision.                           *)
(***************************************************************************)
StepDown(qty) == (qty \div market.step) * market.step

\* The nearest tick, half away from zero.
ToTick(p) == LET t == market.tick
             IN  IF p >= 0 THEN ((2 * p + t) \div (2 * t)) * t
                 ELSE -(((t - 2 * p) \div (2 * t)) * t)

BracketLeverage(notional) ==
    LET holding == SelectSeq(market.brackets,
                             LAMBDA b : b.from <= notional /\ notional <= b.upTo)
    IN  IF holding = <<>> THEN market.maxLeverage ELSE holding[1].leverage

EntryQty(d) == StepDown(d.notional \div d.sig.entry)
EntryOrder(d) == [intent |-> "entry", qty |-> EntryQty(d), trigger |-> None,
                  notional |-> EntryQty(d) * ToTick(d.sig.entry)]
StopOrder(d) == [intent |-> "stop_loss", qty |-> 0, trigger |-> ToTick(d.stop), notional |-> 0]
TargetOrder(d, i) ==
    LET qty == StepDown((EntryQty(d) * d.targets[i].part) \div 100)
    IN  [intent |-> "take_profit", qty |-> qty, trigger |-> ToTick(d.targets[i].price),
         notional |-> qty * ToTick(d.targets[i].price)]
\* A target without a part, or with none left after rounding, is not sent.
TargetOrders(d) ==
    [i \in {j \in 1 .. 3 : TargetOrder(d, j).qty > 0} |-> TargetOrder(d, i)]

Beyond(side, p, entry) == IF side = "LONG" THEN p > entry ELSE p < entry
\* validate(): every price is on the tick grid by construction.
Valid(d, p) ==
    /\ p.intent = "entry" => p.qty > 0
    /\ (p.qty > 0 /\ p.notional > 0) => p.notional >= market.minNotional
    /\ d.leverage <= BracketLeverage(p.notional)
    /\ p.intent = "stop_loss" => ~Beyond(d.sig.side, p.trigger, ToTick(d.sig.entry))
                                 /\ p.trigger # ToTick(d.sig.entry)
    /\ p.intent = "take_profit" => Beyond(d.sig.side, p.trigger, ToTick(d.sig.entry))

Orders(d) == [entry |-> EntryOrder(d), stop |-> StopOrder(d), targets |-> TargetOrders(d)]
Accepted(d) ==
    /\ Valid(d, EntryOrder(d)) /\ Valid(d, StopOrder(d))
    /\ \A i \in DOMAIN TargetOrders(d) : Valid(d, TargetOrder(d, i))

\* Dry run of the same decision: nothing is sent unless every payload is valid.
Build ==
    /\ decision # None /\ group = None /\ Accepted(decision)
    /\ group' = Orders(decision)
    /\ gens' = <<[qty |-> EntryQty(decision), filled |-> 0, status |-> "NEW"]>>
    /\ UNCHANGED <<cfg, market, balance, book, opened, decision, refused>>

Reject ==
    /\ decision # None /\ group = None /\ ~Accepted(decision)
    /\ decision' = None /\ refused' = "payload"
    /\ opened' = opened + 1
    /\ UNCHANGED <<cfg, market, balance, book, group, gens>>

(***************************************************************************)
(* simulate_cancel_replace: fills, cancels and replacements of the entry.  *)
(***************************************************************************)
Current == Last(gens)
Remaining(g) == g.qty - g.filled
Active(g) == g.status \in {"NEW", "PARTIALLY_FILLED"}
SetCurrent(g) == [gens EXCEPT ![Len(gens)] = g]

\* apply_fill: a part of this generation's quantity, never more than remains.
Filled(part) ==
    LET f == Least((Current.qty * part) \div 100, Remaining(Current))
    IN  [Current EXCEPT !.filled = @ + f,
                        !.status = IF Remaining(Current) = f THEN "FILLED"
                                   ELSE "PARTIALLY_FILLED"]

Fill(part) ==
    /\ gens # <<>> /\ Active(Current)
    /\ Least((Current.qty * part) \div 100, Remaining(Current)) > 0
    /\ gens' = SetCurrent(Filled(part))
    /\ UNCHANGED <<cfg, market, balance, book, opened, decision, refused, group>>

ReplaceWhole ==                                                                 \* mutant
    Append(SetCurrent([Current EXCEPT !.status = "CANCELED"]),
           [qty |-> Current.qty, filled |-> 0, status |-> "NEW"])
\* The rest of a canceled generation is placed again; what filled stays with it.
Replaced ==
    Append(SetCurrent([Current EXCEPT !.status = IF Active(Current) THEN "CANCELED" ELSE @]),
           [qty |-> Remaining(Current), filled |-> 0, status |-> "NEW"])

CancelReplace ==
    /\ gens # <<>> /\ Current.status # "FILLED" /\ Len(gens) < MaxGens
    /\ gens' = Replaced
    /\ UNCHANGED <<cfg, market, balance, book, opened, decision, refused, group>>

Cancel ==
    /\ gens # <<>> /\ Active(Current)
    /\ gens' = SetCurrent([Current EXCEPT !.status = "CANCELED"])
    /\ UNCHANGED <<cfg, market, balance, book, opened, decision, refused, group>>

EndDryRun ==
    /\ gens # <<>> /\ ~Active(Current)
    /\ group' = None /\ gens' = <<>>
    /\ decision' = None /\ opened' = opened + 1
    /\ UNCHANGED <<cfg, market, balance, book, refused>>

Init ==
    /\ cfg \in Configs /\ market \in Markets /\ balance \in Balances
    /\ book = <<>> /\ opened = 0
    /\ decision = None /\ refused = None /\ group = None /\ gens = <<>>

Next ==
    \/ \E sig \in Signals : Refuse(sig) \/ Allow(sig)
    \/ Open \/ Build \/ Reject
    \/ \E i \in DOMAIN book, gain \in BOOLEAN : Close(i, gain)
    \/ \E part \in Fractions : Fill(part)
    \/ CancelReplace \/ Cancel \/ EndDryRun

Spec == Init /\ [][Next]_vars

(***************************************************************************)
(* Properties.                                                             *)
(***************************************************************************)
\* The state stays within its types.
TypeOK ==
    /\ cfg \in Configs /\ market \in Markets /\ balance \in Int
    /\ opened \in 0 .. MaxTrades /\ Len(book) <= opened
    /\ decision # None => decision.leverage \in 1 .. cfg.maxLeverage
    /\ \A i \in DOMAIN gens :
           gens[i].status \in {"NEW", "PARTIALLY_FILLED", "FILLED", "CANCELED"}

\* What the orders lose if the position is stopped out, fees and slippage included,
\* is the configured share of the balance, at most half again as much as the
\* multiplier allows, up to the rounding of entry and stop to the tick grid: neither
\* the widening of a tight stop, nor a cap, nor the order rounding adds to it
\* (risk.py: "hitting the stop loses ~risk_pct of balance").
LossWithinBudget ==
    group # None =>
        LET qty   == group.entry.qty
            entry == decision.sig.entry
        IN  qty * Abs(entry - group.stop.trigger) * 10 + (qty * entry * cfg.cost) \div 1000
                <= (((balance * cfg.risk) \div 100) * 15) \div 100 + qty * market.tick * 5

\* No opening commits more margin than the balance, or more notional than the
\* exposure cap, together with everything already open.
CapsAtEntry ==
    [][Len(book') > Len(book) =>
          /\ OpenMargin' <= balance'
          /\ OpenNotional' * 100 <= balance' * cfg.exposure]_vars

\* The stop fires before the liquidation of the position: the one sent, rounded to
\* the tick grid, still lies between the entry and the liquidation price at the
\* leverage sent, and the fail-closed refusal is never needed (risk.py: "Should be
\* unreachable given the leverage ceiling").
StopFiresFirst ==
    /\ refused # "liquidation"
    /\ group # None =>
          Inside(decision.sig.side, group.stop.trigger,
                 Liquidation(decision.sig, decision.leverage, MaintRate(decision.notional)))

\* The targets close no more than the entry opens, and the generations of the entry
\* together fill, or may still fill, no more than was decided: a replacement
\* resurrects nothing.
NeverOverfilled ==
    group # None =>
        /\ SumFunction([i \in DOMAIN group.targets |-> group.targets[i].qty]) <= group.entry.qty
        /\ group.entry.qty * decision.sig.entry <= decision.notional
        /\ SumFunction([i \in DOMAIN gens |->
               IF Active(gens[i]) THEN gens[i].qty ELSE gens[i].filled]) <= group.entry.qty

================================================================================
