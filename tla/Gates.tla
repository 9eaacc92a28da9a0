---------------------------------- MODULE Gates ----------------------------------
(***************************************************************************)
(* What happens to the signals of one engine cycle, and what is remembered  *)
(* of it: the universe (scanner.py), the filters (filters.py), decide()     *)
(* (decision.py), the cycle's counts (funnel.py), and the reason kept with  *)
(* a shadow row for the report on missed trades (shadow.py:38-73, 628-693). *)
(*                                                                         *)
(* The caps themselves are EntryCycle's, the size and its refusals Sizing's *)
(* and the life of a row Shadow's: here a cap binds or not, risk refuses or *)
(* not, and a row resolves at some time. A reason is kept as the words      *)
(* that missed_reason_bucket would find in its text.                       *)
(***************************************************************************)
EXTENDS Integers, Sequences, FiniteSets, FiniteSetsExt, Functions

CONSTANTS
    Listed, Include, Exclude, Size,  \* exchange's symbols by volume, UNIVERSE_*
    PerCycle,    \* MAX_SYMBOLS_PER_CYCLE
    Finds,       \* what the scan finds of a symbol: its kind ("none": no snapshot or no
                 \* signal, "stale" bars, or a "signal", the best of the symbol's) with its
                 \* score and that of another one, 0 if there is none
    Markets,     \* what the filters read of a symbol: side, liquid, spread, book
    Reference,   \* notional the slippage is estimated for
    SlipPct,     \* MAX_SLIPPAGE_PCT
    Hours,       \* times of the clock at which trading is allowed
    Cooldown,    \* COIN_COOLDOWN_MINUTES
    Refusals,    \* what risk may refuse for: the texts of Sizing's refusals
    MaxOpen,     \* MAX_OPEN_TRADES
    Caps,        \* those of the ranked cycle that may bind (EntryCycle): their texts
    SlotCaps,    \* the plan's slots, at most MaxOpen
    Styles,      \* configuration: ranked, floor; and what the day allows all along: "open",
                 \* "loss" or "profit" (its turns are DailyGuard's and EntryCycle's)
    BarLen,      \* length of a signal bar
    MaxNow, MaxTrades, MaxRows,  \* bounds
    None

VARIABLES
    style,      \* the configuration
    minute,     \* the clock, in units of the sleep between two cycles
    trades,     \* rows of the trades table: symbol, at, open
    phase,      \* "idle", "deciding" or "counted"
    queue,      \* candidates still to be decided, in order
    slots,      \* open_count and live_open_symbols of the cycle
    funnel,     \* FunnelStats
    table,      \* the reasons of the shadow rows, by symbol, setup and bar
    turned      \* the rule that turned the signal of a row away in the cycle that made it

vars == <<style, minute, trades, phase, queue, slots, funnel, table, turned>>

Low2(a, b) == IF a < b THEN a ELSE b
(***************************************************************************)
(* UniverseScanner.scan.                                                   *)
(***************************************************************************)
Working ==
    LET head == SelectSeq(Include, LAMBDA s : s \in Range(Listed))
        tail == SelectSeq(Listed, LAMBDA s : s \notin Exclude \cup Range(Include))
        all  == head \o tail
    IN SubSeq(all, 1, Low2(Size, Len(all)))
Scanned == [i \in DOMAIN Working \cap (1 .. PerCycle) |-> Working[i]]

(***************************************************************************)
(* Filters. The book is walked level by level up to the reference size;    *)
(* the average weighs a price by the money spent at it.                    *)
(***************************************************************************)
Worth(book, i) == book[i].price * book[i].qty
Before(book, i) == SumFunctionOnSet([j \in DOMAIN book |-> Worth(book, j)], 1 .. i - 1)
Take(book, i) ==
    LET rest == Reference - Before(book, i)
    IN IF rest <= 0 THEN 0 ELSE Low2(Worth(book, i), rest)
Filled(book) == SumFunctionOnSet([i \in DOMAIN book |-> Take(book, i)], DOMAIN book)
Gap(book) ==
    LET off == SumFunctionOnSet([i \in DOMAIN book |->
                                    Take(book, i) * (book[i].price - book[1].price)], DOMAIN book)
    IN IF off < 0 THEN -off ELSE off
\* mutant: only the first level is looked at
SlipsFirst(book) == FALSE
Slips(book) == Gap(book) * 100 > SlipPct * book[1].price * Filled(book)

\* mutant: a coin rests only while its trade is open
OpenTimes(symbol) == {t.at : t \in {u \in trades : u.symbol = symbol /\ u.open}}
\* last_trade_times: MAX(open_time) over every row, of every mode
Times(symbol) == {t.at : t \in {u \in trades : u.symbol = symbol}}
Rests(symbol) == Times(symbol) # {} /\ minute - Max(Times(symbol)) < Cooldown

Gate(stage, text, fails) == [stage |-> stage, text |-> text, fails |-> fails]
FiltersOf(symbol, m) ==
    <<Gate("daily_loss_kill_switch", "kill_switch", style.day = "loss"),
      Gate("daily_profit_lock", "profit_lock", style.day = "profit"),
      Gate("max_open_trades", "open_at_max", slots.count >= MaxOpen),
      Gate("duplicate", "already_open", symbol \in slots.symbols),
      Gate("cooldown", "cooldown", Rests(symbol)),
      Gate("trade_hours", "hour", minute \notin Hours),
      Gate("liquidity", "volume_below_min", ~m.liquid),
      Gate("spread", "no_spread", m.spread = None),
      Gate("spread", "spread_above_max", m.spread = "wide"),
      Gate("slippage", "empty_book", m.book = <<>>),
      Gate("slippage", "slippage_above_max", m.book # <<>> /\ Slips(m.book))>>

(***************************************************************************)
(* decide(): the filters, the setups only observed, the score, the risk.   *)
(* Scores: 1 below the watch list and the floors, 2 watched, 3 tradeable.  *)
(***************************************************************************)
\* `observed`: the setup is in SHADOW_ONLY_SETUPS; `risk`: None or the refusal
Later(c, observed, risk) ==
    <<Gate("shadow_only", "shadow_only", observed),
      Gate("watch", "score_below_trade", style.floor = "gate" /\ c.score = 2),
      Gate("score_threshold", "score_below_watch", style.floor = "gate" /\ c.score = 1),
      Gate("min_score_floor", "score_below_floor", style.floor = "min" /\ c.score = 1),
      Gate("risk", risk, risk # None)>>
Failing(gates) == {i \in DOMAIN gates : gates[i].fails}
First(gates) == gates[Min(Failing(gates))]

(***************************************************************************)
(* FunnelLogger.                                                           *)
(***************************************************************************)
Capacity == {"daily_loss_kill_switch", "daily_profit_lock", "max_open_trades", "duplicate",
             "cooldown"}
NoCounts == [detected |-> 0, scored |-> 0, risked |-> 0, allow |-> 0, executed |-> 0,
             watch |-> 0, rejected |-> 0, quality |-> 0, capacity |-> 0, ranked |-> 0,
             refused |-> 0, stale |-> 0]
Plus(f, names) == [k \in DOMAIN f |-> IF k \in names THEN f[k] + 1 ELSE f[k]]
Recorded(f, stage) ==
    CASE stage = None -> Plus(f, {"scored", "risked", "allow"})
      [] stage = "watch" -> Plus(f, {"watch"})
      [] stage = "risk" -> Plus(f, {"scored", "rejected", "quality"})
      [] stage \in Capacity -> Plus(f, {"rejected", "capacity"})
      [] OTHER -> Plus(f, {"rejected", "quality"})
\* mutant: the lost slot is counted, its reason is not
RankedOutSilently(f) == Plus(f, {"ranked", "capacity"})
RankedOut(f) == Plus(f, {"ranked", "rejected", "capacity"})
\* mark_live_send_refused
Refused(f) == Plus(f, {"refused", "rejected", "capacity"})

(***************************************************************************)
(* missed_reason_bucket: the first test that finds its words.              *)
(***************************************************************************)
Words(text) ==
    CASE text = "slots" -> {"max_open_trades"}
      [] text = "cluster" -> {"cluster_cap"}
      [] text = "side" -> {"same_side_cap"}
      [] text = "exposure_cap" -> {"exposure_cap"}
      [] text \in {"volume_below_min", "notional_below_min"} -> {"below_min"}
      [] text = "score_below_floor" -> {"below_min", "score_"}
      [] text \in {"score_below_trade", "score_below_watch"} -> {"score_"}
      [] text = "no_free_margin" -> {"no_free_margin"}
      [] text = "collapses" -> {"collapses_under_margin"}
      [] text = "not_selected" -> {"lower_score"}
      [] text \in {"no_spread", "spread_above_max"} -> {"spread"}
      [] text = "slippage_above_max" -> {"slippage"}
      [] text = "stop_dist" -> {"stop_dist"}
      [] OTHER -> {}
Test(word, bucket) == [word |-> word, bucket |-> bucket]
Tests == <<Test("max_open_trades", "max_open_trades"), Test("cluster_cap", "cluster_cap"),
           Test("same_side_cap", "same_side_cap"), Test("exposure_cap", "exposure_cap"),
           Test("below_min", "min_notional"), Test("no_free_margin", "no_free_margin"),
           Test("collapses_under_margin", "margin_collapse"),
           Test("lower_score", "not_selected"),
           Test("score_", "score_threshold"), Test("spread", "spread"),
           Test("slippage", "slippage"), Test("stop_dist", "stop_distance")>>
\* mutant: a margin that is too small is called a lack of slots
BucketMerged(words) == IF "no_free_margin" \in words THEN "max_open_trades" ELSE "other"
Bucket(words) ==
    LET hits == {i \in DOMAIN Tests : Tests[i].word \in words}
    IN IF hits = {} THEN "other" ELSE Tests[Min(hits)].bucket

\* missed_opportunity_outcomes: the rows of a bucket. It reads the resolved ones, and
\* every row may have been by the time of the report
Missed(bucket) == {k \in DOMAIN table : table[k] # None /\ Bucket(table[k]) = bucket}
\* those the report always cites and the caps; quality_C_D is of the label
Cited == {"max_open_trades", "no_free_margin", "spread", "not_selected", "exposure_cap",
          "margin_collapse", "cluster_cap", "same_side_cap", "slippage"}
\* the rule that turned a signal away, by the name of the bucket that is about it
RuleOf(stage, text) ==
    CASE stage \in {"max_open_trades", "spread", "slippage"} -> stage
      [] text = "slots" -> "max_open_trades"
      [] text = "exposure_cap" -> "exposure_cap"
      [] text = "no_free_margin" -> "no_free_margin"
      [] text = "collapses" -> "margin_collapse"
      [] text = "cluster" -> "cluster_cap"
      [] text = "side" -> "same_side_cap"
      [] OTHER -> None

(***************************************************************************)
(* track_signal: at most one row per signalled bar; a rejected one only    *)
(* with a fair score and a stop that normalises.                           *)
(***************************************************************************)
Key(symbol, setup) == <<symbol, setup, minute \div BarLen>>
Inserted(rows, key, source, score, text) ==
    IF key \in DOMAIN rows \/ (source = "rejected" /\ (score < 2 \/ text = "stop_dist"))
    THEN rows
    ELSE [k \in DOMAIN rows \cup {key} |->
            IF k \in DOMAIN rows THEN rows[k] ELSE IF text = None THEN None ELSE Words(text)]
\* the other signals of a symbol are kept as rejected ones
WithOther(rows, c) ==
    IF c.other = 0 THEN rows
    ELSE Inserted(rows, Key(c.symbol, "other"), "rejected", c.other, "not_selected")
\* set_shadow_reject_reason, with the id that the insert returned
Stamp(before, after, key, text) ==
    IF key \in DOMAIN before THEN after ELSE [after EXCEPT ![key] = Words(text)]

(***************************************************************************)
(* A cycle.                                                                *)
(***************************************************************************)
\* the ranked cycle decides in the order of its ranking, the other in that of the scan
Orders(places) ==
    {o \in Bijection(1 .. Cardinality(places), places) :
        style.ranked \/ \A i, j \in DOMAIN o : i < j => o[i] < o[j]}
Having(found, kind) == {i \in DOMAIN found : found[i].kind = kind}
Begin ==
    /\ phase = "idle"
    /\ \E found \in [DOMAIN Scanned -> Finds], cap \in SlotCaps :
          /\ \E o \in Orders(Having(found, "signal")) :
                queue' = [j \in DOMAIN o |-> [symbol |-> Scanned[o[j]], score |-> found[o[j]].score,
                                             other |-> found[o[j]].other]]
          /\ slots' = [cap |-> IF style.ranked THEN cap ELSE MaxOpen,
                       symbols |-> {t.symbol : t \in {u \in trades : u.open}},
                       count |-> Cardinality({t \in trades : t.open})]
          /\ funnel' = [NoCounts EXCEPT
                !.detected = Cardinality(Having(found, "signal")),
                !.stale = Cardinality(Having(found, "stale")),
                !.rejected = Cardinality(Having(found, "stale"))]
    /\ phase' = "deciding"
    /\ UNCHANGED <<style, minute, trades, table, turned>>

\* the next candidate and what becomes of it before an order is sent
Now == Head(queue)
MainKey == Key(Now.symbol, "main")
Tracked(source, text) == WithOther(Inserted(table, MainKey, source, Now.score, text), Now)
Counts(f) == funnel' = f
Leaves(rows, rule) ==
    /\ table' = rows /\ Cardinality(DOMAIN rows) <= MaxRows
    /\ turned' = [k \in DOMAIN rows |-> IF k \in DOMAIN turned THEN turned[k]
                                        ELSE IF k = MainKey THEN rule ELSE "not_selected"]
    /\ queue' = Tail(queue) /\ phase' = phase
    /\ UNCHANGED <<style, minute>>
Deciding == phase = "deciding" /\ queue # <<>>

\* the gates at which a signal may fail, given the market it is in
Turns(m) ==
    LET first == FiltersOf(Now.symbol, m)
        late  == {Later(Now, observed, risk) : observed \in BOOLEAN, risk \in Refusals \cup {None}}
    IN IF Failing(first) # {} THEN {First(first)}
       ELSE {First(gates) : gates \in {g \in late : Failing(g) # {}}}
\* decide() allows it
Passes(m) == Failing(FiltersOf(Now.symbol, m)) = {} /\ Failing(Later(Now, FALSE, None)) = {}

Reject(m) ==
    /\ Deciding
    /\ \E g \in Turns(m) : /\ Counts(Recorded(funnel, g.stage))
                           /\ Leaves(Tracked("rejected", g.text), RuleOf(g.stage, g.text))
    /\ UNCHANGED <<trades, slots>>

\* what binds an allowed signal, None if nothing does; caps are of the ranked cycle
Bound == IF slots.count >= slots.cap THEN {"slots"}
         ELSE IF style.ranked THEN Caps \cup {None} ELSE {None}

\* a good signal for which there was no room
LosesSlot(m) ==
    /\ Deciding /\ Passes(m) /\ Now.symbol \notin slots.symbols
    /\ \E text \in Bound \ {None} :
          /\ Counts(IF style.ranked THEN RankedOut(Recorded(funnel, None))
                    ELSE Recorded(funnel, None))
          /\ LET rows == Tracked("paper", None)
             IN Leaves(Stamp(table, rows, MainKey, text), RuleOf("cap", text))
    /\ UNCHANGED <<trades, slots>>

\* the executor opens the trade, or refuses to send
Opens(m) ==
    /\ Deciding /\ Passes(m) /\ Now.symbol \notin slots.symbols
    /\ None \in Bound /\ Cardinality(trades) < MaxTrades
    /\ trades' = trades \cup {[symbol |-> Now.symbol, at |-> minute, open |-> TRUE]}
    /\ Counts(Plus(Recorded(funnel, None), {"executed"}))
    /\ slots' = [slots EXCEPT !.symbols = @ \cup {Now.symbol}, !.count = @ + 1]
    /\ Leaves(Tracked("paper", None), None)
SendRefused(m) ==
    /\ Deciding /\ Passes(m) /\ Now.symbol \notin slots.symbols
    /\ None \in Bound
    /\ Counts(Refused(Recorded(funnel, None)))
    /\ Leaves(Tracked("paper", None), None)
    /\ UNCHANGED <<trades, slots>>

\* finalize and insert_funnel; then the next cycle may begin
EndCycle ==
    /\ phase = "deciding" /\ queue = <<>>
    /\ phase' = "counted" /\ slots' = None
    /\ UNCHANGED <<style, minute, trades, queue, funnel, table, turned>>
Sleep ==
    /\ phase = "counted" /\ minute < MaxNow
    /\ phase' = "idle" /\ funnel' = NoCounts /\ minute' = minute + 1
    /\ UNCHANGED <<style, trades, queue, slots, table, turned>>
\* the process ends and starts again: the counts of the cycle are lost
Restart ==
    /\ phase = "deciding"
    /\ phase' = "idle" /\ queue' = <<>> /\ funnel' = NoCounts
    /\ minute' \in minute .. Low2(minute + 1, MaxNow)
    /\ slots' = None
    /\ UNCHANGED <<style, trades, table, turned>>

\* an exit, by the engine or the exchange: also in the middle of a cycle
Exit(t) ==
    /\ t \in trades /\ t.open
    /\ trades' = (trades \ {t}) \cup {[t EXCEPT !.open = FALSE]}
    /\ UNCHANGED <<style, minute, phase, queue, slots, funnel, table, turned>>

Init ==
    /\ style \in Styles /\ minute = 0 /\ trades = {} /\ phase = "idle"
    /\ queue = <<>> /\ slots = None
    /\ funnel = NoCounts /\ table = <<>> /\ turned = <<>>

Next ==
    \/ Begin \/ EndCycle \/ Sleep \/ Restart
    \/ \E m \in Markets :
          \/ Reject(m) \/ LosesSlot(m) \/ Opens(m) \/ SendRefused(m)
    \/ \E t \in trades : Exit(t)

(***************************************************************************)
(* Properties.                                                             *)
(***************************************************************************)
\* funnel.py:4-6: "when no trade opens the system can state EXACTLY where every candidate
\* dropped out". At the end of a cycle every signal is opened, watched or under a reason,
\* also in the cycles in which some trades open; the reasons split into quality, capacity
\* and stale bars; every allowed signal was opened, ranked out or refused by the executor.
FunnelExplains ==
    phase = "counted" =>
        /\ funnel.rejected + funnel.watch + funnel.executed = funnel.detected + funnel.stale
        /\ funnel.rejected = funnel.quality + funnel.capacity + funnel.stale
        /\ funnel.allow = funnel.executed + funnel.ranked + funnel.refused

\* shadow.py:637-648: the report is "the evidence required BEFORE anyone considers raising
\* slots or leverage". Every row is counted under the rule that turned its signal away in the
\* cycle that made the row, whatever the later cycles of the same bar did with the signal.
EvidenceIsSound ==
    \A bucket \in Cited : \A k \in Missed(bucket) : turned[k] = bucket

\* filters.py:107-115 with storage.py:780-783: a coin is not entered again within the
\* cooldown, whatever closed the trade, and across restarts in the middle of a cycle.
RestsBetween ==
    \A t, u \in trades : t # u /\ t.symbol = u.symbol /\ t.at <= u.at => u.at - t.at >= Cooldown

\* filters.py:69-75: "If even that fills within cap, good": when a long passes, an order of
\* the reference size pays on average no more than the cap above the best ask. The price
\* paid is money over coins, not the estimate's mean of prices. Coins are counted in units
\* of one over the last price that is paid: the levels before are bought whole.
Last(book) == Max({i \in DOMAIN book : Take(book, i) > 0})
Coins(book) ==
    SumFunctionOnSet([i \in DOMAIN book |-> IF i < Last(book) THEN book[i].qty * book[Last(book)].price
                                           ELSE Take(book, i)], DOMAIN book)
AffordableFill ==
    \A m \in Markets : Deciding /\ m.side = "LONG" /\ Passes(m) =>
        LET book == m.book
        IN Filled(book) * 100 * book[Last(book)].price
              <= book[1].price * (100 + SlipPct) * Coins(book)
================================================================================
