# AurvexAI in TLA+

A verification project for the trading engine in `src/aurvex` (paths below are
relative to the repository, file names to `src/aurvex` or `scripts`): TLA+ modules of
the parts whose correctness depends on order, failure, stale state or a careful
computation, TLC configurations that check them on small instances, and theorems
that TLAPS proves for every value of the constants.

- [What the system is](#what-the-system-is)
- [Modules and how they correspond to the code](#modules-and-how-they-correspond-to-the-code)
- [Runs](#runs)
- [Bounds](#bounds)
- [Fairness](#fairness)
- [Proofs](#proofs)
- [Where code and comments disagree](#where-code-and-comments-disagree)
- [Seen while modelling](#seen-while-modelling)
- [What is not modelled](#what-is-not-modelled)

Run a configuration with `tlc -workers 2 -config X.cfg M`, check a proof module
with `tlapm M.tla`. `PROJECT.json` lists the components, the hazards with the
properties that would catch each, and the source lines of every definition.

## What the system is

One Python process trades perpetual futures, on paper or live. Every
`cycle_interval_sec` the engine scans a universe of symbols, turns signals into
decisions, opens trades, manages the open ones on their last closed bar, and writes
everything to SQLite. Other actors touch the same state: a reconcile pass in a worker
thread, the Telegram command loop in the same event loop, the account refresh in a
thread of its own, the owner with scripts and an editor on `.env`, and the exchange,
which fills, cancels and closes on its own time.

| Component | Code | State | What is hard | Modules |
|---|---|---|---|---|
| Live order adapter | `live_orders.py`, `order_payload.py` | entry order per retry generation, fills so far, `tripped` | fills race fetches and cancels; any API call may raise or lose its answer | `LiveEntry`, `EntryContract` |
| Live book | `engine.py`, `journal.py`, `storage.py`, `reconcile.py` | `trades` rows, exchange positions and stops | two threads write the same rows; positions, rows and orders are read at three different times; restarts | `LiveBook` |
| Trade lifecycle | `executors.py`, `engine.py`, `backtest.py` | a `Trade` with stop, targets, clocks, windows | a bar is seen many times or never; the state must survive the re-read of every cycle; the offline replay must agree | `TradeLifecycle`, `Ladder` |
| Feed freshness | `market_data.py`, `watchdog.py`, `engine.py` | kline cache, newest close per timeframe, feed state | a dead feed that keeps answering, caches, failing links, empty books | `FeedWatchdog` |
| Entry cycle | `engine.py`, `filters.py`, `risk.py`, `portfolio.py`, `correlation.py` | portfolio view, running totals, caps, cycle plan | the view is copied once while a thread closes rows and syncs the balance | `EntryCycle` |
| Gates of a cycle | `scanner.py`, `filters.py`, `decision.py`, `funnel.py`, `shadow.py` | universe, counts, reasons | one signal is judged in several cycles; the counts must explain all of them | `Gates` |
| Ledger | `journal.py`, `storage.py`, `reconcile.py`, `main.py` | balance, ledger rows | several commits per fill, a second writer, crashes, resets | `Ledger` |
| Daily profit guard | `engine.py`, `filters.py`, `commander.py` | opening equity, peak, lock day | day boundary, missing marks, failed closes, a crash in the middle of a flatten | `DailyGuard` |
| Mode switching, panic | `commander.py`, `engine.py`, `live_orders.py` | mode, decision, request file, pause, trip | commands redelivered after a crash, an environment edited between starts | `Control` |
| Sizing and payloads | `risk.py`, `order_payload.py` | open margin and notional, order generations | caps, rounding to grids, leverage and liquidation interact | `Sizing` |
| Regime | `regime*.py`, `portfolio.py`, `correlation.py` | label, counts, live clusters, cycle plan | hysteresis over data gaps, errors, restarts; a plan older than the reading | `Regime` |
| Signals | `setups.py`, `indicators.py`, `decision.py`, `engine.py`, `market_data.py` | candle cache, legs, an open position | late candles, warm-ups, two legs of one profile, exits recomputed from less history | `Signals` |
| Scoring and ranking | `scoring.py`, `allocation.py`, `risk.py`, `quality.py`, `shadow.py` | shadow statistics of the epoch | evidence that is too thin, or points the other way | `Ranking` |
| Reports | `metrics.py`, `diagnosis.py`, `governor.py`, `quality.py`, `shadow.py` | none of their own | computed apart from what acts on the same rows | `Reports` |
| Shadow learner | `shadow.py`, `storage.py`, `engine.py` | shadow rows, A/B log | slow legs, restarts between two writes, episodes counted twice | `Shadow`, `Ladder`, `Ranking` |
| Backtest | `backtest.py`, `walkforward.py` | cached history, window, book | short pages, torn cache files, overlapping windows, lookahead | `Replay` |
| Maker replay | `maker_replay.py` | resting order, records | fills on a touch, two walks compared | `Maker` |
| Environment file | `update_env.py`, `arm_live_env.py`, `apply_*_env.py`, `config.py` | `.env`, its backups | duplicates, crashes, scripts that must not arm | `EnvFile` |
| Account view | `binance_account.py`, `engine.py` | last status, heartbeat, filters | two refreshes cross; an audit reads at different moments | `Account` |
| Operator alerts | `telegram.py`, `engine.py` | latches | a latch is set before a send that may be lost; quiet hours; restarts; midnights | `Alerts` |
| Database file | `storage.py`, `main.py` | columns, epoch stamp, artifacts | a crash after any commit of a migration or a reset | `Database` |
| Dashboard, CLI, research scripts | `dashboard/`, `main.py`, `scripts/` | read-only | | not modelled |

How they interact: the entry cycle asks the live executor to open, which calls
`send_entry` and books a row on `LIVE_SENT`; the manage step advances each row by
`simulate_fill`; the reconcile pass compares rows with the exchange and closes rows;
the watchdog decides at the start of a cycle whether it may enter and judges at its end
what it fetched; the guard runs last. Rows resolve into the shadow statistics, which
score, rank and size the next signals and which the reports describe. `EntryContract`
is the interface between the adapter and the book: `LiveEntry` implements it, and the
one-step send of `LiveBook` takes its outcomes from it.

## Modules and how they correspond to the code

### LiveEntry, EntryContract: one call of `send_entry`

State: the adapter's program counter and locals (`attempt`, `elapsed`, `genQty`,
`prevFilled`, `seen`), its `tripped` flag, the report; and on the exchange the entry
order of each generation, the quantity executed, the position, the stop and the
targets. One action per API call and its outcome: the call answers, or raises
(`Faults` lists which calls may), and a lost `create_order` answer leaves an order the
adapter does not know. `Fill`, `StopTriggers` and `TargetHit` come between any two
calls. Quantities are multiples of `step_size`, time is counted in polls.
`EntryContract` is the abstract promise: it may work, execute and trip, and returns
once, `LIVE_SENT` only over executed quantity with a stop. `ContractSpec` is the
refinement, with `Phase`, the report and "a stop reached the exchange" as mapping.
Building and rounding of the payload are `Sizing`'s.

### LiveBook: rows, positions and the reconcile pass

State: the `trades` table, positions and stops per symbol, the engine's step and the
`Trade` objects it has read and not yet written, the pass's step and what it has read.
An action is the code between two points where another actor can come in. The engine
opens (through the contract), records, reads the open rows, manages them one at a time,
flattens and panics, row first and exchange second; the pass fetches positions, reads
rows, fetches orders, closes ghosts one at a time, alerts unknown positions and places
stops. Positions close, stops vanish, order fetches fail, passes fail and the process
restarts. Left out: the comparison of quantities (it only alerts).

### TradeLifecycle, Ladder: `simulate_fill` in the engine, the backtest and the replay

Prices are measured in the direction of the trade, so one model serves both sides.
`SimulateFill` is the whole function: the entry-bar and repeated-bar guards, the stop
before the targets, the three targets with break-even and ratchet, the trailing runner,
the time, channel and cross exits. `NewBar` advances the backtest's trade; `Manage` is
the engine's read, one-time repair, advance on the last bar and write; bars may pass
unmanaged and a forced close may come. `Ladder` is the replay of `shadow.py` that
repeats the exits on the bars of a row. Left out: fees and slippage, which scale the
result, and JSON round trips of the metadata.

### FeedWatchdog: freshness and the entry gate

Time is counted in ticks and timestamps are ages, cut off at `Cap`, above every
threshold. `Cycle` is one whole cycle: what is scanned (nothing on HALT, pause or
exposure breach), what is fetched and answered, which snapshots are complete and young
enough, what enters, what is managed, what the watchdog observes and reports.
`CycleRaises` is a cycle before the markets were ever loaded. The exchange freezes and
revives, the link fails and recovers, entries are paused and resumed, the process
restarts. Left out: retries inside one fetch (an answer is its final outcome), the
per-timeframe threshold overrides, the synthetic provider.

### EntryCycle: the entry side of a cycle

`BeginCycle` copies the portfolio view and scans; `Rank` reads the side counts, the open
rows and the cycle plan; `Open` takes one candidate through the filters, the exposure
clip and the caps, books it and updates the running totals; `ManageCloses` and
`ManageKeeps` are the manage step; `EndCycle` ends a cycle anywhere, because any step
may raise, and is a restart as well. `ReconcileCloses` and `WalletSync` are the other
thread, at any point. With `ranking` false it is the legacy first-come loop without the
structural caps. A cap of 0 in the code (off) is a cap no smaller than the slots.

### Ledger, DailyGuard, Control

`Ledger` has one action per commit of `journal.py`: the row, then per fill read, write
and log the balance; the ghost close and the wallet sync of the reconcile thread; crash,
start, mode switch, and both resets of `main.py`. `DailyGuard` runs the guard at the end
of a cycle whose entries and exits are free, with marks that may be missing, closes that
may raise, `/resumeday`, midnight, wallet syncs and crashes. `Control` is the boot
sequence, `switch_mode`, the persisted decision, the request file with its age, and the
Telegram queue, which delivers at least once.

### The machines: thirteen parts that share no state

`Sizing`, `Regime`, `Shadow`, `Signals`, `Ranking`, `Reports` (which extends `Ranking`),
`Gates`, `Replay`, `Maker`, `EnvFile`, `Alerts`, `Database` and `Account` are
specifications of their own; the head of each module says what one step is and what is
left out. They share no variable, so they are checked in one run: `Operator` composes
the four between the process and its owner (`Account`, `Alerts`, `EnvFile`,
`Database`), `Research` the two research programs (`Replay`, `Maker`), `Decisions` what
decides and what learns from it (`Signals`, `Shadow`), `Opening` is what becomes of a
signal the engine acts on (`Sizing`), `Evidence` what the measured past decides and what
the owner is told of it (`Ranking` alone, or `Reports`), `Screening` what becomes of the
signals of a scan before one is sized (`Gates`), `Outlook` what the engine makes of the
market meanwhile (`Regime`), and `MCMachines` composes them all. In each behaviour of the
run one machine runs and the variables of the others are parked at `None`; a property reads "if this machine runs, then ...", and no
parked machine takes a step. `Operator`, `Research` and `Decisions` are specifications in
which any of theirs may run side by side; the theorems are about these, `Opening`,
`Evidence`, `Screening` and `Outlook`.

## Runs

| Run | Configuration | Expect | What it shows |
|---|---|---|---|
| `entry_all_faults` | `LiveEntry.cfg` | pass | one send under every API fault implements `EntryContract`, and returns |
| `entry_naked` | `LiveEntry_NoNakedPosition.cfg` | violation | a fill that completes before the cancel leaves a position without a stop |
| `book` | `LiveBook.cfg` | pass | engine and pass in every order, with failing fetches and a restart: ghosts are closed, unknown positions alerted (`NothingGoesUnnoticed`), naked ones given a stop or alerted |
| `trade_life` | `TradeLifecycle.cfg` | pass | six plans over every sequence of four out of seven bars, repeated and missed cycles, forced closes: conservation and the time stop (`WholeAndOnTime`), engine = backtest, replay = backtest |
| `feed` | `FeedWatchdog.cfg` | pass | two timeframes, a feed that freezes and revives behind a failing link: no entry on a dead feed, it is reported, and it recovers while a position is managed |
| `cycle` | `EntryCycle.cfg` | pass | `EntryCycle`: day loss, cluster and exposure caps against a thread that changes the book. `DailyGuard`, which shares no variable with it, in behaviours of its own: a locked day stays flat but for closes that raised, and a flatten banks what the guard measured |
| `ledger` | `Ledger.cfg` | pass | fills commit by commit against a wallet sync, ghost closes, crashes, resets: the books agree, and the balance keeps coming back to the wallet |
| `control` | `Control.cfg` | pass | no command leaves a row in the mode that does not run; the owner's decision survives a restart |
| `machines` | `Machines.cfg` | pass | the thirteen machines, each alone with its own inputs |
| `replay_future` | `Machines_KnowsNoFuture.cfg` | violation | an entry of the backtest is decided with a higher bar that is still open |
| `replay_in_sample` | `Machines_OutOfSample.cfg` | violation | a window of the walk-forward collects trades of its context bars |
| `shadow_slow_leg` | `Machines_OnlyLaterBars.cfg` | violation | the row of a slow leg is advanced on a base bar inside its own signal bar |

The properties of `machines`, by module (a name of the run may bundle several of them):

| Module | Property of the run | What it says |
|---|---|---|
| `Sizing` | `StopFiresFirst` | the stop that is sent lies between entry and liquidation at the leverage sent, and the fail-closed refusal is never needed |
| | `LossWithinBudget` | a stopped-out position loses its share of the balance at most, rounding aside; the orders never close or refill more than was decided; the caps hold at entry |
| `Regime` | `RegimeIsEarned` | a label changes only after `Confirm` readings in a row; live clusters are chains of correlated pairs; an unmeasured weight is only softened; a trade that joins a bet is sized below what it would get alone |
| `Signals` | `FinalUnlessLate`, `Mirrored`, `ExitByOwnLines`, `OwnLeg` | closed candles are final; SHORT mirrors LONG; a streaming exit falls on the bar the detector's own lines say; a position belongs to its leg |
| `Ranking` | `RankedByEvidence`, `BetterIsNotWorse` | a measured edge decides, a losing bucket is never rewarded; a candidate that is better in one known thing is not labelled worse |
| `Reports` | `ReportsAgree`, `UnpricedSkewNothing` | what the owner is told is what ranking and sizing do, panel and diagnosis agree; a close nobody priced changes no metric |
| `Shadow` | `ShadowIsHonest` | a row moves once on a base bar, and one of a base leg under its own key never before that bar's close; none is logged twice, executed signals are tracked, advice waits for its sample |
| `Gates` | `MissesExplained` | the funnel counts every signal once, the cited evidence is sound, the cooldown holds across restarts, a filter that passes means an affordable fill |
| `Replay` | `BalanceIsNet` | the balance is what the trades made, the history has no hole, no out-of-sample bar is counted twice |
| `Maker` | `Pessimistic` | no fill on a touch, no profit on a bar that reached the stop; the maker leaves as the taker does, but for a target that was only touched, which the taker takes (buffer 0) and the maker does not |
| `EnvFile` | `EnvFileIsSafe` | no script but the arming one arms; what was replaced is in a backup, unless a later run of the same second copied over it; a run repeated changes nothing |
| `Alerts` | `SaidOnce`, `Informed` | once-a-day messages are said once; after a cycle the last word on feed and exposure is true |
| `Database` | `EpochsApart`, `FileIsWhole` | the learner counts the rows of its epoch; wherever a reset dies the next engine finds a whole file, and trades are gone from file and artifacts only if a copy failed; migrations fill old rows once |
| `Account` | `AccountIsTrue` | every transition is told once although refreshes cross; a READY was true but for a trip |

`CHECK_DEADLOCK FALSE` stands where the system stops: `LiveEntry` after the call
returned; `TradeLifecycle`, `EntryCycle` with `DailyGuard`, `Ledger`, `Control` and `Machines` when the
bars, the trades, the days, the commands or the clock of the instance are used up.

## Bounds

- `LiveEntry`: `Qty = 3` and targets `1, 1, 0`: the smallest entry that fills in three
  parts, has a partial fill in which a target still fits, one that rounds to nothing and
  a target that is zero from the start. `MaxRetries = 2`: a replacement of a
  replacement. `Timeout = 1` poll.
- `LiveBook`: one symbol, two trades, one crash: a second entry over the leftovers of the
  first is what the properties are about; rows of different symbols meet in no step.
- `TradeLifecycle`: `Entry = 3`, four bars, windows 1 and 2: the windows fill and slide,
  every exit kind and every pair of targets on one bar occurs; the bars span the levels
  of the plan, so that one bar touches nothing, one level, or all of them.
- `FeedWatchdog`: one symbol on two timeframes of 1 and 3 ticks, `Cap = 5`, graces 0 and 1,
  `GuardBars = 3` (its default), one restart: every threshold is crossed on both
  timeframes and the cut-off is above all of them.
- `EntryCycle`: three symbols, two slots, `LossPct = 25`, `Risk = 1`, balance up to 4, no gains:
  the kill switch fires after one loss at the lowest balance; gains only move it away.
- `Ledger`: one trade of up to two bars, two starts, a balance of 5, wallets of 0 and 6.
- `DailyGuard`: two interchangeable coins, profits -2, 0 and 3, targets of 10 and 20 %, two days,
  three cycles, one wallet sync.
- `Control`: three commands, five starts: a decision, its redelivery and the start after both.
- `Sizing`: four configurations, two markets, nine signals, three trades, two generations.
  `Regime`: six readings of four symbols, two in a row to confirm, labels held for three
  bars. `Shadow`: three bars, two rows, a base leg and one of two base bars. `Signals`: two openings
  of up to eight bars, seven profiles, a list of one leg and two of three. `Ranking`, `Reports`: seven
  kinds of rows, one of them below the first bucket, and three rows in all, which is the
  stage at which risk is scaled; in `Reports` closed trades and rows together are three. `Gates`: three listed symbols of which two are scanned, four finds,
  three markets. `Replay`: a market of six bars with a hole, two symbols, windows of
  2 + 2 bars. `Maker`: seven kinds of bars, one of which only touches the
  target, four bars, a life of two. `EnvFile`: two found files, two runs, in one second or in
  two, so that a run meets the backup of the one before. `Alerts`: days of two ticks, three hours. `Database`: three old
  files, four ticks, checkpoints at any step, every set of copies of an artifact. `Account`: one symbol in the universe, two listed.

## Fairness

- `LiveEntry`: weak fairness of the adapter's answered calls and of time. The client has
  request timeouts, so every call ends; no fault is owed. None for the exchange: it
  need not fill anything.
- `LiveBook`: weak fairness of the pass, which the engine starts every
  `reconcile_interval_sec`, and of the engine going on with what it began; strong
  fairness of the two reads that a failing exchange may interrupt again and again, as an
  exchange that is asked for ever answers at some time. Nothing is assumed of restarts,
  stops or positions.
- `FeedWatchdog`: weak fairness of time and of the cycle, which the run loop starts every
  `cycle_interval_sec` whatever the last one raised (`engine.py:555-575`). Recovery
  assumes that the feed and the link stay up; nothing makes them come back.
- `Ledger`: weak fairness of the engine's next commit, of the sync's, and of the start of
  a pass; strong fairness of the balance fetch, which may fail again and again.
- Everything else is safety only.

## Proofs

Eight modules hold the theorems; each is about the specification of its component, for
every value of the constants that satisfies the assumption named in the component's
module, or about a composition, under the hypotheses named below. A component's proofs
include its type invariant, which is not checked again by a run.

| Module | Theorems | Argument |
|---|---|---|
| `LiveEntryProofs` | `TypeCorrect`, `ReportIsBacked`, `SentCovered`, `OneLive`, `BoundedExposure`, `TripsAreReported`, `Implements` (the run's `ContractSpec`) | `IInv` relates the adapter's locals to the exchange: only the current generation may be open, `seen` is at most what it filled, `prevFilled` plus `genQty` is `Qty` while the loop runs, and `Exposure` bounds what was executed plus what may still be, so that no sum over generations is needed. `Implements` maps each step to a step of `EntryContract` or a stutter |
| | `MissesAlwaysExplained` (`MissesExplained`, which states `FunnelExplains`, `EvidenceIsSound`, `RestsBetween` and `AffordableFill`), over `Screening` | `ScreeningInv`: what is still in the queue makes up for what is not counted yet, and every way a signal leaves it moves the counts in balance (`Tallied`, by `PlusBalanced`); a row has the bucket of the rule that turned it away (`Explained`), because the tables of rules and of texts agree (`BucketOfText`, `TextsTold`, `TurnsTold`) and a stamp reaches only a row of the same cycle (`StampExtends`); without a ranking no signal is lost at the cap, as the filter has looked at the same one (`Roomy`); a coin is entered when its last entry, whatever closed it, is a cooldown ago (`Rested`, `RestedCoin`). `AffordableFill` needs no state: the estimate averages prices by money, the fill by coins, and level by level the coins are on or above a tangent of one over the price (`Tangent`), so that a sum over the book (`TotalLinear`, `TotalMonotone`) bounds the second mean by the first (`FairFill`) |
| `LiveBookProofs` | `TypeCorrect`, `OneOpen`, `CloseIsFinal` | uniqueness of open rows is not inductive, because a stale copy can be written back over a row the pass closed. `IInv` states it for every trade that is open or may yet be written open (`OneHeld`), and that the engine holds no copy of a row it closed itself (`Fresh`) |
| | `RankingFollowsEvidence` (`RankedByEvidence`, which states `EdgeDecides` and `NoRewardForLoss`), `BetterNeverWorse` (`BetterIsNotWorse`), over `Evidence` | the invariant is only that rows are counts (`EvidenceInv`); the work is in what is computed of them. Sums over kinds of rows are integers and monotone (`EvidenceSums`, `RowFacts`, by `SetSums`); the order of two floored means is the order of the fractions, and the order of two fractions that of their floors (`QuotientsOrder`, `QuotientsFollow`); a higher score is in no lower bucket (`BucketFacts`); a nudge or a size above neutral needs a positive sum (`RewardFacts`). For the label: two candidates that differ in one known thing have the same known parts and weights, and only one part differs, which is larger (`BetterParts`), so the weighted sum is (`TotalMonotone`) |
| | `ReportsAlwaysAgree` (`ReportsAgree`, which states `ToldAsDone` and `PanelAgrees`), `UnpricedNeverSkews` (`UnpricedSkewNothing`), over `Evidence` | the findings are a table of twelve (`TwelveFindings`), the headline is the first of the most severe ones that were made (`HeadlineFacts`), and without a priced close there is no profit factor (`MetricFacts`). The metrics are a function of the priced trades (`MetricsAre`), and a close nobody priced leaves what these made as it was (`MetricsSame`), so that the findings but three are the same (`ToldTheSame`) |
| `TradeLifecycleProofs` | `TypeCorrect`, `PositionConserved` (`WholeAndOnTime`), `PaperIsBacktest` (`Parity`), `StopsRatchet`, `BarsCountOnce` | `LInv` says of both trades which targets were taken and where the stop is; one soundness lemma per exit, composed in `FillSound`. Parity needs that the repair changes nothing on an up-to-date row (`RepairedNothing`) |
| | `LadderIsBacktest` (`ReplayMirrors`), of `Ladder` | the replay is a function over the bars that are there; that it is computed bar by bar needs no induction over data, because the invariant (`Beside`) carries the walk: the row after the bars so far stands beside the backtest's trade (`Twin`; `Level` between two targets of one bar), with the same remainder, stop and gross result. `BarTwin` moves both over one bar, composed of the rungs (`ClimbTwin`), the stop (`StopTwin`) and the ratchet (`TrailAlike`) |
| | `MakerReplayIsFair` (`Pessimistic`), over `Research` | `MakerInv` says what the bars walked so far did not touch (`Untouched`), where a walk ended and why (`Ended`), and that the taker's walk, which came first, ended on the same path (`Compared`). The two walks have target levels of their own, and what reaches the maker's reaches the taker's (`LevelsApart`) |
| | `ReplayIsCoherent` (`BalanceIsNet`, which states `Replay`'s `BalanceIsNet`, `HistoryWhole` and `CountedOnce`), over `Research` | two invariants. `LoaderInv`: the cache and the rows of a fetch have no hole, a fetch has every bar from its first up to the cursor (`IsFetch`), and a climbing sequence is determined by its elements, so that the rows are `Ordered` (`OrderedUnique`). `WindowInv`: the balance is the net of what was closed and what the open positions have realised (`Money`, by `SetSums`); an open position was opened at a bar already met and after every close of its symbol (`Positions`, `Results`); what was collected was over when the window began (`Earlier`), so that a window's trades out of the sample come after it |
| `FeedWatchdogProofs` | `TypeCorrect`, `FreshnessHolds`, `EntriesNeedALiveFeed` (`NoEntryOnDeadFeed`) | `IInv` adds that the exchange serves nothing younger than its schedule, which a feed that revives needs; `CycleEffect` states once what both outcomes of a cycle guarantee |
| | `CandlesAreFinal` (`FinalUnlessLate`), `PositionsHaveTheirLeg` (`OwnLeg`), `ExitsByTheDetectorsLines` (`ExitByOwnLines`), of `Signals` over `Decisions` | an answer on its way agrees with the history on every bar but its last (`AnswerInTime`), so what is held does (`HeldIsOver`); the legs have distinct keys (`LegFacts`), so a signal is routed to the one that made it. For the exit: unless a bar ends on the way of its answer none passes unseen (`BarByBar`), so the window holds the last `kijun` bars that are over (`WindowOf`, through `EntryFollowed` and `GrownFollowed`), and the set of its extremes is the set the detector takes its lines from (`MiddleFromWindow`); at the entry the window is full because the detector has waited for longer than it (`IchimokuWaited`) |
| | `ShadowStaysHonest` (`ShadowIsHonest`: `NoLookahead`, `LoggedAtMostOnce`, `ExecutedTracked`, `AdviceIsEarned`), of `Shadow` over `Decisions` | a row was last moved on or after its key and no more often than bars went by since (`RowsPaced`); what an update has not reached is open, and what it has just stored has no entry in the log (`UpdateKnows`), which a restart keeps true by dropping both |
| | `RegimeAlwaysEarned` (`RegimeIsEarned`, which states `FlipsAreConfirmed`, `ClustersAreChains`, `PileUpShrinks` and `UnmeasuredSoftens`), over `Outlook` | the invariant is that the last raw labels are as many of the pending one as are counted for it (`Confirming`, kept because one more of it extends the run and another starts at one: `OneMore`, `HysteresisCounts`, `EvaluatedIsEarned`), and that book and plan are within the slots (`Slotted`, by `SlotsWithinCap`, `JoinsTheBook`), so that one trade is at least its share of the book. The clusters need no state, but an induction over the pairs the two loops meet: the walk exists, and what it keeps is kept to its end, each by the smallest counterexample (`WalkExists`, `WalkKeeps`). Every step keeps that symbols of one root are joined by a chain (`Chained`), that the two ends of a link met so far have one root (`Met`), and that a root once shared stays so (`UnionKeeps`, `JoinKeeps`); the loops meet every pair (`LoopsMeet`), so in the end no link leaves the class of a root (`ClustersChain`). That an unmeasured leg is only softened is that a share of a weight lies between it and nothing, rounded down (`ScaledTilt`, `UnmeasuredIsSoft`) |
| `EntryCycleProofs` | `DayLossHolds` (`DayLossBounded`), `ClustersHold` (`ClusterCap`), `ExposureHolds` (`ExposureCap`), `CapsAlwaysHold` | the rows are within the cycle's view (`ViewCovers`) and its side counts (`SidesCovered`); the day's result less what the open trades can still lose is within the limit (`LossReserved`); the running total of the notional covers the sum over the open rows (`ViewPaid`) |
| | `LockedDayStaysFlat` (`FlatWhileLocked`), `FlattenBanksWhatItSaw` (`BankedWhatItSaw`), of `DailyGuard` | the copy of the lock is current until midnight (`CopyIsCurrent`), and while a flatten runs what is still held is what it has not closed (`Closing`); cash plus the worth of what is left, less its fees, is what the guard expected (`Banking`) |
| | `StopsFireFirst` (`StopFiresFirst`), `LossesStayWithinBudget` (`LossWithinBudget`, which states `Sizing`'s `LossWithinBudget`, `NeverOverfilled` and `CapsAtEntry`), over `Opening` | `SizingInv` says of a decision, until it is opened, rejected or ended, what it was allowed on: that it fits into what is free (`TicketFits`), that a stop at its widened distance costs no more than the budget (`TicketBudget`), and that the share of the price between entry and liquidation exceeds that distance by more than the rounding of a tick (`TicketSafe`, by the leverage ceiling: `SafeLeverage` divides by buffer times distance plus the maintenance rate, and a smaller notional has a smaller rate). Of its payloads: all generations of the entry but the newest have ended, and what they filled with what the newest may still fill is the whole (`Chain`) |
| `LedgerProofs` | `TypeCorrect`, `BooksAlwaysAgree` (`BooksAgree`), `FillsAlwaysBookedOnce` | what is credited and not yet logged, and what is read and not yet written, is told apart by the engine's step |
| | `EpochsStayApart` (`EpochsApart`), `FileStaysWhole` (`FileIsWhole`), over `Operator` | `DbInv` says for each step of a start or a reset what it has behind it (`Place`); the balance is what it was last set to and what was made since (`Money`); what a reset is about to clear is in its artifact if both parts of the file were copied (`Saved`); what the columns that are filled say of old and new trades (`Marked`); only old rows can keep the index from being made (`Indexed`); and the stamp of a start comes after every row, which is why a label tells the epochs apart (`Labelling`) |
| `ControlProofs` | `TypeCorrect`, `NothingEverOrphaned` (`NothingOrphaned`), `DecisionAlwaysSurvives` (`DecisionSurvives`) | `Decided`: `was` is the decision stored when the process went down; `Granted`: why the mode after the boot may differ from it |
| | `AccountStaysTrue` (`AccountIsTrue`), `OperatorInformed` (`Informed`), `OperatorNotNagged` (`SaidOnce`), `EnvironmentSafe` (`EnvFileIsSafe`), over `Operator` | two refreshes at work have crossed, and one that met no other has written heartbeat and status in step (`Alone`, `InStep`); the day of a message that was sent is in a latch (`DayLatches`, `BudgetLatch`); what the last assignment of a key is after an upsert or a block (`UpsertFacts`, `ApplyFacts`), and every copy made is under its name or under a later copy of that name (`Saved`) |
| `SetSums` | lemmas on sums over finite sets and on images of finite sets | the sum of the community modules is a recursive function over subsets; that it exists, does not depend on the order, and is monotone is proved by smallest counterexample in the well-founded order of the subsets of a finite set, as the induction theorems of the library are not available to these provers |

The theorems `Invariant`, `LifecycleInvariant`, `FeedInvariant` and `CycleInvariant` state the
inductive invariants. None of the properties is inductive alone: each mentions the
outcome, and what makes the next step safe is what an actor still holds (a quantity
fetched, a row read, a view copied, a latch set).

A theorem over `Operator`, `Research`, `Decisions`, `Opening`, `Evidence`, `Screening` or
`Outlook` is about the whole composition: the invariant is "if this machine runs, then its own invariant", and a step of another leaves it alone.
The theorems with a composition have a hypothesis that is not an assumption of the module,
because TLC cannot evaluate it:

- `AbsentIsNoStep`, `AlertConstants`, `MakerConstants`: the value that stands for "none" is
  no step name, no number, no record; a day has at least one tick; the horizon and the
  windows are natural numbers.
- `ReplayConstants`: `NoRecord` is no number, verdict or record, and the symbols are distinct; a
  window has at least one bar of context and one out of the sample
  (`walkforward.py:808-810`); the first event lies within it; a symbol pauses at least one
  bar after a close (any `COIN_COOLDOWN_MINUTES` above 0); and **`step_bars` is not below `oos_bars`**. The code does not enforce
  the last one (its default and every harness have both at 1000): with a smaller step the
  windows overlap and the same bars are counted twice.
- `EnvConstants`: a file is a sequence of assignments; the lists of the scripts name no gate
  and no secret (`update_env.py:61-84`, `apply_session_env.py:72-73`), the paper block
  disarms, and neither the defaults nor the example file are armed. These are facts of
  the scripts' constants.
- `DatabaseConstants`: 0 is no epoch label (`storage.py` fills old rows with it), a result is an
  integer, and every file found is one that an older version left whole: a column it
  knows is filled, a trade is known by its time and result. A file whose older process
  died between adding a column and filling it is excluded, as the next process sees the
  column and never fills it; the crashes of the modelled process are in `torn`.

- `SignalConstants`: candles and the units they move by are integers, a history has at least one
  candle, STRATEGIES is a list; "none" is no number and no position; tenkan is not above
  kijun, and both fit into the bars the Ichimoku detector waits for (9 and 26, into
  26 + 52 + 3: `setups.py:576-578`).
- `ShadowConstants`: there are finitely many legs, each of at least one base bar, and
  `score_delta` needs no more rows than `risk_multiplier` (50 and 100: `shadow.py:726`, `shadow.py:741`).

- `SizingConstants`: what `config.validate` asserts of the rates, parts and buffers
  (`config.py:922`, 943-957); the maintenance rates rise with the tiers, as the docstring of
  `mm_rate_for` says; a tick and a step are positive; and **the buffer leaves more than half a tick
  and one price unit behind every stop of the guard band** (`BufferCounts`). The last one is not
  enforced: `config.validate` accepts `liq_safety_buffer = 1.0`, with which the refusal
  `risk.py` calls unreachable may be reached. The theorem says under which configurations the
  comment is right; the four of the run satisfy it, as TLC has confirmed.
- `EvidenceConstants`: there are finitely many kinds of rows, each with a score below 200
  points (the end of the last bucket, `shadow.py:530`; a score is at most 100); "none" is no
  number and the numbers are integers; a view of the label has its five fields and a stop
  distance above 0; the stages are at least one row or one trade, and the smallest stop is
  below the widest. TLC has confirmed each on the instance of `machines`.
- `ScreeningConstants`: cooldown, cap and reference size are integers, the last above 0; a
  level of an order book has a price and a quantity above 0; neither risk nor a cap gives
  one of four texts as its reason that are of the filters on spread and slippage and of the
  choice among a symbol's signals (`risk.py:113-277` and `engine.py:1170-1216` have their own
  texts). TLC has confirmed each on the instance of `machines`.
- `OutlookConstants`: what a reading says is a number or that there is none, and its symbols are of
  the sample; the dimensions are among the five; finitely many legs have a prior, an integer, and
  every leg asked for has one; `regime_confirm_bars`, `regime_conf_persist_bars` and
  `max_open_trades` are at least 1; and **`corr_penalty` is at most half of
  `max_open_trades`** (its default is 0.5, one trade at least). Nothing enforces the last
  one: a larger penalty meets the floor of 0.5 before it counts every member of a pile. TLC
  has confirmed each on the instance of `machines`.

Checked by TLC only: everything under fairness (`Returns`, `NothingGoesUnnoticed`,
`NakedIsHandled`, `DeadFeedIsReported`, `RecoversWhileManaging`, `WalletMirrored`), which these
provers do not reach; and `Mirrored`, whose indicators are recursive functions of the history,
so that what they come to is an induction over data. Proved and not in a run, because a run of them would add nothing: `ReportIsBacked`, `SentCovered`, `OneLive`, `BoundedExposure`,
`TripsAreReported`, `OneOpen`, `CloseIsFinal`, `FreshnessHolds`, `CapsAlwaysHold`,
`FillsAlwaysBookedOnce`, `StopsRatchet`, `BarsCountOnce`.

## Where code and comments disagree

Each violation run states what a comment, a doc or a test says, and TLC refutes it.

1. `NoNakedPosition` (`live_orders.py:24-26`, "no naked positions, ever"). An entry that
   completes between the fetch and the cancel makes the cancel fail; the adapter trips
   and returns without stop and without flatten. No API fault is needed.
2. `KnowsNoFuture` (`backtest.py:8-10`, "No lookahead"). The higher bars are made of the whole
   window before the first event, and one is exposed from its open time on.
3. `OutOfSample` (`walkforward.py:583-585`, "every trade collected from a window is
   out-of-sample by construction"). The context is `warmup_bars` long (400, or 525 in the
   harnesses), but the first event of a window is at `max(45, htf_limit)`, by default 60, and
   nothing drops the trades opened in between; the window before has traded the same bars.
   What holds, and is `CountedOnce`: trades opened out of the sample are counted once.
4. `OnlyLaterBars` (`shadow.py:178-179`, "never on/before the signal's own bar (no
   lookahead)"). The row of a slow leg is keyed by the open time of its slow bar, and
   `update` walks bars of `LTF`: the last of those within the slow bar are later than the
   key, so that the row may be resolved on prices from before the decision. What holds, and
   is `NoLookahead`: rows of the base timeframe under their own key, and one move per bar.

## Seen while modelling

Disagreements between code and its comments, docs or tests that have no run, and
behaviour a reader might not expect. The models contain it.

Adapter, book, lifecycle:
- A fill between the last fetch and its cancel is not counted, so that a send can answer
  `FAILED` over a real position (`live_orders.py:298-306` against 241-242).
- Positions are fetched before the rows are read, so a row booked between is closed as a
  ghost (`reconcile.py:9-10` against 167). Software exits close the row and not the
  exchange position, on which a second entry stacks (`RISK_MODEL.md:92` against
  `engine.py:1759`).
- The repair on the entry bar replaces the seeded window, so the cross exit differs from
  the backtest's (`executors.py:404-407` against `engine.py:1712`).
- `get_snapshot` may return `None`, which raises outside the `try` of the manage loop, so
  the trades after it are not managed (`engine.py:1013-1014` against 1732). An edit of
  the environment leaves paper rows unmanaged.
- `ladder_replay` labels a stop after the second target "BE" or "TRAIL", which its docstring
  does not list, and ratchets with the close of the same bar.

Feed, entry, gates:
- With an empty book a feed HALT never ends: nothing is fetched (`engine.py:1579-1580`
  against 1024). The heartbeat counts from before management.
- The net directional cap reads rows from before the first entry of the cycle
  (`correlation.py:137-138` against `engine.py:1211`). A trade joining one taken in the same
  cycle is not shrunk (`correlation.py:4-5`).
- The first cycle after `/live` sizes on the paper balance until a wallet sync.
- `f_max_open` rejects before the slot race, with a text that falls in bucket "other", so
  the stamp "max_open_trades" (`engine.py:1178-1182`, 1339-1343) is unreachable and the
  bucket cited for raising slots (`shadow.py:645-648`) stays empty; other texts are filed
  under the wrong rule as well. A bar rejected in one cycle and opened in a later one of
  the same bar keeps its reason (`shadow.py:631`).
- `UNIVERSE_INCLUDE` is not de-duplicated and beats `universe_exclude` (`scanner.py`).
  `f_slippage` weighs prices by money, not coins, passes on a book shallower than the
  reference, and uses neither the multiplier nor the risk of a leg.

Ledger, guard, control:
- Row and balance drift apart after a crash between their commits (`journal.py:11-12`);
  `accounting.py:33-36` does not hold after a booked partial. The mirrored wallet stays in
  the shared balance back in paper.
- A crash in the middle of a flatten leaves the day unlocked; positions without a mark
  count as closed at entry; a wallet sync in armed live counts as a gain; the docstring
  of the baseline (`engine.py:1789-1795`) is not what 1836-1841 do; `/resumeday` keeps the
  peak (`commander.py:619-631` against `engine.py:1825-1834`).
- `/livemode`, then `/paper`, then a restart within an hour applies the older file; the trip
  does not survive `/paper` and `/live`; a live decision degraded at boot is replaced by
  paper for good; `/live` while already live is not stored; commands not confirmed are
  redelivered after a restart; the pause of `/panic` is lost on a restart
  (`commander.py:493`, 503). The resets print "docker compose restart engine", their
  docstring needs a stopped engine.

Sizing, regime, signals, shadow:
- The margin cap can shrink a notional below the minimum after its check; the fail-closed
  liquidation branch needs a buffer of 1.0 (`config.py:957`); trigger prices of an accepted
  group may be zero or less. The fail-safe correlation of `correlation.py:16-18` is
  unreachable (`engine.py:1119-1144` use 1.0); missing data loosens the caps of a plan; a
  label may be held for ever with `ConfMin = 70` (`config.py:333-335`); an evaluation error
  waits a full refresh; the state is lost on a restart; the status SHADOW is consumed nowhere.
- `SETUP_WEIGHTS` is keyed by the raw setup type, so four profiles and every second leg score
  with factor 0 (`scoring.py:76`). A flat cloud lets SHORT pass and not LONG (`setups.py`, "all
  conditions inverted"). The order of `STRATEGIES` decides which leg keeps the bare key. With one spec the engine is
  not in multi mode and trades the detector of `STRATEGY_PROFILE` (`engine.py:108`, 223 against
  `DEPLOYMENT.md:280`, "is ignored while `STRATEGIES` is set"). An
  `exit_ltf` of a single spec that differs from `LTF` is not in the snapshot, so it is never
  managed (`engine.py:1731-1735`). A late candle is cached as closed for a whole bar
  (`market_data.py:209-213`). `validate()` omits two profiles.
- The A/B multiplier is computed after the row's own outcome; a crash between
  `update_shadow` and `insert_shadow_ab` loses the entry; bars missed between updates are
  never examined; with a slow leg a bar can be tracked twice (`shadow.py:117-118`).

Backtest, environment, database, account:
- Funding and spot caches are trusted for ever once not empty; the maker may win
  where the taker was stopped (`maker_replay.py:285` against 13-15), and counts a fill on the
  last bar without a record.
- Maker and taker do not leave alike. `run_taker_baseline` says "IDENTICAL single-target
  exit model" (`maker_replay.py:312-313`) but has an exit buffer of 0 by default (309), the
  maker one of 2 bp (219), and `maker_experiment.py:138-145` passes one to the maker only: a
  target that is touched and not traded through is a TP for the taker and perhaps a FORCE or
  SL for the maker. The hypothetical taker of an unfilled signal has the maker's buffer
  (267-273). `SameExit` exempts such a bar and says which way it goes; without the
  exemption TLC refutes it.
- `update_env.py` drops missing keys that its docstring keeps (`apply_session_env.py:12` against
  `update_env.py:319`); applied keys that are not in the allowed set are not loaded; a risk of
  2 % after the fast block makes `validate` refuse, and the engine loops; the key check
  looks at any line while the last one is loaded.
- "Backs up the existing .env ... before writing" (`update_env.py`) holds for one run a
  second. The backups of `update_env.py:384`, `apply_fast_paper_env.py:221` and
  `apply_session_env.py:109` share one format with the second in it (`arm_live_env.py:171` has
  its own), so a second run replaces the first one's backup and the file from before both
  is gone; after a kill during the write, a retry within the second replaces the good backup
  by the truncated file. `NothingLost` exempts just that, and TLC refutes it without.
- A reset with the same `EPOCH_LABEL` (by default "wave3") goes on counting old shadow rows;
  the index is never made on a file whose old rows duplicate a key, and a reset keeps
  them ("a clean epoch builds the index"); a crash between an ALTER and its backfill
  leaves the old rows unfilled for ever ("safe to run on every startup").
- "so the prior epoch is always recoverable" (`main.py:147-148`): a reset goes on if its
  artifact raises, which it reports, and also if a copy of the database or of the -wal fails,
  which nobody hears of (`storage.py:138-141` passes over it and the reset prints its check
  mark): the trades are cleared, and they were in the part that is missing. `ResetIsWhole`
  exempts a failed copy, and TLC refutes it without.
- A failed fetch of the tiers overwrites the cached brackets with nothing; an unknown
  withdraw permission counts as none; `/livecheck` can never be READY in paper, since the
  mode is critical although it is called before arming; READY ignores missing filters
  while the universe is not warmed; a trip during the audit leaves it READY.

Ranking, reports, alerts:
- The engine takes the greatest raw score within a symbol even while scores are unproven
  (`engine.py:1084` against `allocation.py:8`). `predictivity_verdict` says ANTI_PREDICTIVE when
  one bucket is filled. A score of 0 counts as unknown in the label. Closes without a PnL
  skew the grade, exit-path and weekly reports. `governor.build_report` passes a drawdown in
  money as a percentage. Diagnosis calls a setup dangerous from one row (107-121) where
  `setup_health` needs 20 (`analyzers.py:17-18`). Executed rows below a score of 45 are tracked
  (`shadow.py:121-128`, with `min_execution_score` at 0) although the docstring of
  `score_bucket_stats` says they are not (520-521): `risk_multiplier` counts them and the
  buckets do not, so a size may follow the rows of a setup while the start message says
  "PINNED NEUTRAL", multiplier 1.0 (`engine.py:875-876`; `shadow.py:587-588`). `win_pct` is rounded to a
  tenth of a percent before buckets are compared (`shadow.py:551`), so that they may be called
  monotone although a higher one wins a little less often. `shadow_readiness` promises 50 rows of a setup's
  own (`governor.py:264-265`); `score_delta` starts at 50 rows of all.
- `critical()` never passes `critical=True` (`telegram.py:497-498`), so critical messages are
  dropped in quiet hours, against `config.py:687-689`. The feed state is set before the alert
  is sent, so a failed send is not repeated (`engine.py:1572`). The kill switch repeats after a
  restart; there is no recovery message after one; the latch of the loss budget ("per UTC
  day") is of the offset day.
- `apply_caps` and `DriftMonitor` are used by tests only.

## What is not modelled

- The dashboard, the weekly text of the governor and all rendering: read-only views.
- The command line and the research scripts: entry points and one-off studies over files.
- Most fields of the configuration: numbers that are CONSTANTS here.
- The drift monitor, `apply_caps`, the factors for confidence and transition of the
  regime (off by default), Monte Carlo and plateau statistics of the walk-forward, and
  the synthetic data provider.
- Balances, fees and clock drift of the account view, which are only displayed.
