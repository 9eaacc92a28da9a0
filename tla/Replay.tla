--------------------------------- MODULE Replay ---------------------------------
(***************************************************************************)
(* Walk-forward validation: the history loader with its cache and its      *)
(* forward paginator (walkforward.py), the windows, the backtest of each   *)
(* (backtest.py, run) and the verdict on the trades collected from them.   *)
(*                                                                         *)
(* A bar is named by its open time, counted in bars; the clock stands      *)
(* inside bar `now`, the newest the exchange has. Money and R are whole    *)
(* numbers; a trade's risk is one R.                                       *)
(***************************************************************************)
EXTENDS Integers, Sequences, FiniteSets, FiniteSetsExt, SequencesExt, Functions

CONSTANTS
    Listed,     \* first bar of the market
    Missing,    \* bars the exchange never had (downtime)
    Limit,      \* bars asked for
    Loaders,    \* "candles", and "any": funding and spot take whatever is cached
    PerCall,    \* rows of one request at most
    Symbols,    \* as a sequence: the order of events on one bar
    Warmup, Oos, Step,  \* of the WalkForwardConfig, in bars
    FirstBar,   \* max(45, htf_limit): bars of a window before its first event
    Ratio,      \* bars in a bar of the higher timeframe
    MinHtf,     \* higher bars a snapshot needs
    MaxOpen, Cooldown,
    Results,    \* PnL one fill can realise
    Funding,    \* cost of holding a position for one bar
    Start,      \* initial_paper_balance
    Bar2,       \* square of the Sharpe the best of the profiles reaches by luck
    None,
    MaxNow      \* bound: bars

VARIABLES
    now,
    loader,     \* which of them this behaviour loads with
    disk,       \* the CSV cache: bars in order
    fetch,      \* [since, rows, upTo] of the running fetch, or None
    data,       \* what the analysis works on: [rows, upTo], or None
    start,      \* s0 of the running window, or None outside one
    event,      \* next event of the window
    open,       \* [symbol -> [open, knew, real] or None]
    last,       \* [symbol -> bar of its last close, or None]
    purse,      \* balance of the backtest
    closed,     \* its closed trades
    collected,  \* of the windows before
    verdict

bvars == <<now, loader, disk, fetch, data, start, event, open, last, purse, closed, collected, verdict>>
loading == <<now, loader, disk, fetch, data>>
replaying == <<start, event, open, last, purse, closed, collected, verdict>>

History == (Listed .. now) \ Missing
\* A set of bars in the order of their times: the i-th has i of them up to itself.
Ordered(bars) ==
    [i \in 1 .. Cardinality(bars) |->
        CHOOSE t \in bars : Cardinality({u \in bars : u <= t}) = i]
Suffix(s, n) == SubSeq(s, IF Len(s) > n THEN Len(s) - n + 1 ELSE 1, Len(s))

(***************************************************************************)
(* load_or_fetch_candles.                                                  *)
(***************************************************************************)
NewBar ==
    /\ data = None /\ now < MaxNow
    /\ now' = now + 1
    /\ UNCHANGED <<loader, disk, fetch, data, replaying>>

Trusted == IF loader = "any" THEN disk # <<>>
           ELSE Len(disk) >= Limit /\ now - Last(disk) <= 2
LoadCached ==
    /\ fetch = None /\ data = None /\ Trusted
    /\ data' = [rows |-> Suffix(disk, Limit), upTo |-> None]
    /\ UNCHANGED <<now, loader, disk, fetch, replaying>>

StartFetch ==
    /\ fetch = None /\ data = None /\ ~Trusted
    /\ fetch' = [since |-> now - Limit + 1, rows |-> <<>>, upTo |-> now, more |-> TRUE]
    /\ UNCHANGED <<now, loader, disk, data, replaying>>

\* _paginate_since: a page brings the next rows, any number of them up to what was
\* asked for; the cursor moves past the last one.
Offered == {t \in History : t >= fetch.since}
StopOnShort(page) == Last(page) < fetch.upTo /\ Len(page) = PerCall               \* mutant
Continues(page) == Last(page) < fetch.upTo

Page(k) ==
    /\ fetch # None /\ fetch.more /\ Len(fetch.rows) < Limit
    /\ k <= Limit - Len(fetch.rows) /\ k <= Cardinality(Offered)
    /\ LET page == SubSeq(Ordered(Offered), 1, k)
       IN  fetch' = [fetch EXCEPT !.rows = @ \o page, !.since = Last(page) + 1,
                                  !.more = Continues(page)]
    /\ UNCHANGED <<now, loader, disk, data, replaying>>

PageEmpty ==
    /\ fetch # None /\ fetch.more /\ Offered = {}
    /\ fetch' = [fetch EXCEPT !.more = FALSE]
    /\ UNCHANGED <<now, loader, disk, data, replaying>>

\* Any error falls back to the rows of the cache.
PageRaises ==
    /\ fetch # None
    /\ data' = [rows |-> disk, upTo |-> None]
    /\ fetch' = None
    /\ UNCHANGED <<now, loader, disk, replaying>>

Fetched == fetch # None /\ (~fetch.more \/ Len(fetch.rows) = Limit)
Finish ==
    /\ Fetched
    /\ IF fetch.rows = <<>>
       THEN data' = [rows |-> disk, upTo |-> None] /\ disk' = disk
       ELSE data' = [rows |-> fetch.rows, upTo |-> fetch.upTo] /\ disk' = fetch.rows
    /\ fetch' = None
    /\ UNCHANGED <<now, loader, replaying>>

\* The file is written in place: a crash leaves the rows written so far.
CrashWriting ==
    /\ Fetched /\ fetch.rows # <<>>
    /\ \E n \in 0 .. Len(fetch.rows) - 1 : disk' = SubSeq(fetch.rows, 1, n)
    /\ fetch' = None
    /\ UNCHANGED <<now, loader, data, replaying>>

(***************************************************************************)
(* The windows of run_walkforward_analysis.                                *)
(***************************************************************************)
Rows == data.rows
Enough == Len(Rows) >= Warmup + Oos
Fresh(s0) ==
    /\ start' = s0 /\ event' = 0 /\ purse' = Start /\ closed' = <<>>
    /\ open' = [s \in Range(Symbols) |-> None] /\ last' = [s \in Range(Symbols) |-> None]

Begin ==
    /\ data # None /\ start = None /\ verdict = None /\ Enough
    /\ Fresh(Warmup)
    /\ UNCHANGED <<loading, collected, verdict>>
Insufficient ==
    /\ data # None /\ start = None /\ verdict = None /\ ~Enough
    /\ verdict' = "INSUFFICIENT DATA"
    /\ UNCHANGED <<loading, start, event, open, last, purse, closed, collected>>

(***************************************************************************)
(* Backtester.run on one window, event by event.                           *)
(***************************************************************************)
Window == SubSeq(Rows, start - Warmup + 1, start + Oos)
Events == (Len(Window) - FirstBar) * Len(Symbols)
Index == FirstBar + event \div Len(Symbols) + 1
Symbol == Symbols[(event % Len(Symbols)) + 1]
Ts == Window[Index]

\* resample: the higher bars are made of the whole window before the first event; one
\* is exposed from its open time on.
Bucket(ts) == ts \div Ratio
HtfBars == {Bucket(Window[i]) : i \in 1 .. Index}
Knows == LET of == {Window[i] : i \in DOMAIN Window}
         IN  Max({t \in of : Bucket(t) = Bucket(Ts)})

Held == {s \in Range(Symbols) : open[s] # None}
MayEnter(busy, closedAt) ==
    /\ Symbol \notin busy /\ Cardinality(busy) < MaxOpen
    /\ Cardinality(HtfBars) >= MinHtf
    /\ closedAt # None => Ts - closedAt >= Cooldown

PaidByTrade(trade, ts) == 0                                                      \* mutant
\* _apply_funding: charged to the trade and to the balance.
Cost(trade, ts) == Funding * (ts - trade.open)
Final(s, trade, pnl, ts) ==
    [symbol |-> s, open |-> trade.open, knew |-> trade.knew, close |-> ts,
     net |-> trade.real + pnl - Funding * (ts - trade.open), since |-> Rows[start + 1]]

\* What the bar does to the position of its symbol.
Outcomes == IF open[Symbol] = None THEN {[kind |-> "none", pnl |-> 0]}
            ELSE {[kind |-> "hold", pnl |-> 0]} \cup
                 [kind : {"partial", "close"}, pnl : Results]

Replayed(o, enter) ==
    LET trade == open[Symbol]
        ends == o.kind = "close"
        kept == CASE o.kind = "partial" -> [trade EXCEPT !.real = @ + o.pnl]
                  [] o.kind = "hold" -> trade
                  [] OTHER -> None
        busy == IF kept = None THEN Held \ {Symbol} ELSE Held
        closedAt == IF ends THEN Ts ELSE last[Symbol]
    IN  /\ enter => MayEnter(busy, closedAt)
        /\ open' = [open EXCEPT ![Symbol] =
                       IF enter THEN [open |-> Ts, knew |-> Knows, real |-> 0] ELSE kept]
        /\ purse' = purse + o.pnl - (IF ends THEN Cost(trade, Ts) ELSE 0)
        /\ closed' = IF ends THEN Append(closed, Final(Symbol, trade, o.pnl, Ts)) ELSE closed
        /\ last' = [last EXCEPT ![Symbol] = closedAt]

Event(o, enter) ==
    /\ start # None /\ event < Events
    /\ o \in Outcomes /\ Replayed(o, enter)
    /\ event' = event + 1
    /\ UNCHANGED <<loading, start, collected, verdict>>

\* Whatever is open after the last bar is closed at its close.
ForceClose(s, pnl) ==
    /\ start # None /\ event = Events /\ open[s] # None
    /\ open' = [open EXCEPT ![s] = None]
    /\ purse' = purse + pnl - Cost(open[s], Last(Window))
    /\ closed' = Append(closed, Final(s, open[s], pnl, Last(Window)))
    /\ UNCHANGED <<loading, start, event, last, collected, verdict>>

WindowDone == start # None /\ event = Events /\ Held = {}
After == start + Step

NextWindow ==
    /\ WindowDone /\ After + Oos <= Len(Rows)
    /\ collected' = collected \o closed
    /\ Fresh(After)
    /\ UNCHANGED <<loading, verdict>>

(***************************************************************************)
(* run_walk_forward: the verdict on the collected trades.                  *)
(***************************************************************************)
Net(s) == SumFunction([i \in DOMAIN s |-> s[i].net])
\* Deflated Sharpe > 0: the sum of R above the Sharpe luck brings, times the deviation.
\* One trade has Sharpe 0.
Deflated(s) ==
    LET n == Len(s)
        sum == Net(s)
        squares == SumFunction([i \in DOMAIN s |-> s[i].net * s[i].net])
    IN  n > 1 /\ sum > 0 /\ sum * sum * n * (n - 1) > Bar2 * (n * squares - sum * sum)
Judged(s) == IF s = <<>> THEN "REJECTED (no OOS trades)"
             ELSE IF ~Deflated(s) THEN "REJECTED (deflated Sharpe)"
             ELSE IF Net(s) <= 0 THEN "REJECTED (expectancy)"
             ELSE "ACCEPTED"

Judge ==
    /\ WindowDone /\ After + Oos > Len(Rows)
    /\ collected' = collected \o closed
    /\ verdict' = Judged(collected \o closed)
    /\ start' = None /\ closed' = <<>>
    /\ UNCHANGED <<loading, event, open, last, purse>>

\* The next analysis loads again.
Again ==
    /\ verdict # None
    /\ data' = None /\ verdict' = None /\ collected' = <<>>
    /\ event' = 0 /\ purse' = Start
    /\ open' = [s \in Range(Symbols) |-> None] /\ last' = [s \in Range(Symbols) |-> None]
    /\ UNCHANGED <<now, loader, disk, fetch, start, closed>>

Init ==
    /\ now = Limit + 1 /\ loader \in Loaders /\ disk = <<>> /\ fetch = None /\ data = None
    /\ start = None /\ event = 0 /\ purse = Start /\ closed = <<>> /\ collected = <<>>
    /\ open = [s \in Range(Symbols) |-> None] /\ last = [s \in Range(Symbols) |-> None]
    /\ verdict = None

Next ==
    \/ NewBar \/ LoadCached \/ StartFetch \/ PageEmpty \/ PageRaises \/ Finish
    \/ CrashWriting \/ Begin \/ Insufficient \/ NextWindow \/ Judge \/ Again
    \/ \E k \in 1 .. PerCall : Page(k)
    \/ \E o \in [kind : {"none", "hold", "partial", "close"}, pnl : Results \cup {0}],
          enter \in BOOLEAN : Event(o, enter)
    \/ \E s \in Range(Symbols), pnl \in Results : ForceClose(s, pnl)

Spec == Init /\ [][Next]_bvars

(***************************************************************************)
(* Properties.                                                             *)
(***************************************************************************)
\* However short the pages, however long a fetch takes and wherever a crash cuts the
\* cache file: the rows worked on have no hole, and a fetch that ended well brought
\* every bar that was asked for (walkforward.py: "A short-but-non-empty batch is normal
\* and must NOT terminate the loop").
HistoryWhole ==
    data # None =>
        LET rows == Range(Rows)
        IN  /\ Rows = Ordered(rows)
            /\ \A t \in History : (rows # {} /\ Min(rows) <= t /\ t <= Max(rows)) => t \in rows
            /\ data.upTo # None =>
                   {t \in History : data.upTo - Limit < t /\ t <= data.upTo} \subseteq rows

AllTrades == collected \o closed
\* No position is counted twice: a trade opened out of the sample of its own window holds
\* no bar that an earlier trade of the symbol holds, whichever windows they come from.
CountedOnce ==
    \A i, j \in DOMAIN AllTrades :
        (/\ i < j /\ AllTrades[i].symbol = AllTrades[j].symbol
         /\ AllTrades[j].open >= AllTrades[j].since)
        => AllTrades[i].close < AllTrades[j].open

\* Every trade collected was opened out of the sample of its window, after its context
\* bars (walkforward.py: "every trade collected from a window is out-of-sample by
\* construction").
OutOfSample == \A i \in DOMAIN AllTrades : AllTrades[i].open >= AllTrades[i].since

\* The balance of the replay is what its trades made, fees of every fill and funding
\* included (backtest.py: "so end_balance stays coherent with net_pnl").
BalanceIsNet ==
    start # None =>
        purse = Start + Net(closed) + SumFunction([s \in Held |-> open[s].real])

\* A decision knows no bar after its own (backtest.py: "at decision time the snapshot
\* only contains candles up to and including the just-closed bar").
KnowsNoFuture == start # None => \A s \in Held : open[s].knew <= open[s].open
================================================================================
