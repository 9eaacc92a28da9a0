--------------------------------- MODULE Alerts ---------------------------------
(***************************************************************************)
(* What the engine tells its operator: the one-shot and edge-triggered      *)
(* messages of a cycle (engine.py:1563-1671, 1911-2077) over the notifier   *)
(* (telegram.py:154-203).                                                   *)
(*                                                                         *)
(* A message is latched before it is sent, and a send may be suppressed    *)
(* (quiet hours) or fail without anybody trying again. All latches but one *)
(* are in memory: a restart clears them. The flag of the stop warning is   *)
(* written to the trade's row, before the warning is sent.                 *)
(*                                                                         *)
(* Time is in ticks; a UTC day has Day of them, and the logical day of the *)
(* once-a-day latches begins Offset ticks before it. The text of a message *)
(* is left out, and one open trade stands for the open trades.             *)
(***************************************************************************)
EXTENDS Integers, Sequences

CONSTANTS
    Day,        \* ticks of a day
    Offset,     \* DAY_BOUNDARY_OFFSET_HOURS
    Quiet,      \* TG_QUIET_HOURS: from and to, ticks of the UTC day
    Week,       \* days of a week, the last of which is the Sunday
    ReportFrom, \* tick of the Sunday from which the report goes out
    DigestEvery,\* TG_POS_SUMMARY_MIN
    Levels,     \* TG_LOSS_BUDGET_ALERTS, in units of PnL
    Budget,     \* the loss that is the kill switch
    Target,     \* the profit that locks the day
    Room,       \* TG_STOP_ALERT_ROOM_PCT
    Worlds,     \* what a cycle may find: feed, over, high, stale
    Rows,       \* mark and stop of the trade, entry is 100
    Pnls,       \* results a trade may be closed with
    MaxNow,     \* bound of the clock
    None        \* nothing yet

VARIABLES
    now,        \* the clock
    stage,      \* the handler that runs next, 0 between two cycles
    world,      \* what this cycle finds
    row,        \* the trade: mark, stop, and the flag of its row
    booked,     \* the last result and when, or None
    latch,      \* the memory of the process
    told,       \* what the operator heard last of the feed and the exposure; None when a
                \* message did not arrive, or a restart forgot the latch
    said,       \* the day of which this process said each once-a-day message last
    repeated,   \* it said one of these again
    warnings    \* stop warnings of the trade

vars == <<now, stage, world, row, booked, latch, told, said, repeated, warnings>>

UtcDay == now \div Day

\* _day_ordinal
LogicalDay(t) == (t + Offset) \div Day
Today == LogicalDay(now)

\* PnL of the logical day (kill switch, lock) and of the UTC day (budget, 1959-1962)
PnlToday == IF booked # None /\ LogicalDay(booked.at) = Today THEN booked.pnl ELSE 0
PnlUtc == IF booked # None /\ booked.at \div Day = UtcDay THEN booked.pnl ELSE 0

\* the window may wrap midnight
InQuietHours ==
    LET hour == now % Day
    IN IF Quiet.from <= Quiet.to THEN Quiet.from <= hour /\ hour < Quiet.to
       ELSE hour >= Quiet.from \/ hour < Quiet.to

\* send: only a critical message passes the quiet hours
Arrives(critical, delivered) == delivered /\ (critical \/ ~InQuietHours)

\* A message on a subject whose last state the operator relies on. critical() of the
\* notifier does not set critical.
Report(subject, value, critical, delivered) ==
    told' = [told EXCEPT ![subject] = IF Arrives(critical, delivered) THEN value ELSE None]

\* Messages that are to go out once a day.
Say(kinds, day) ==
    /\ said' = [k \in DOMAIN said |-> IF k \in kinds THEN day ELSE said[k]]
    /\ repeated' = (repeated \/ \E k \in kinds : said[k] = day)
Once(kind, day) == Say({<<kind, 0>>}, day)
Unsaid == [k \in ({"kill", "lock", "summary", "week"} \X {0}) \cup ({"budget"} \X Levels) |-> None]

Handlers == <<"exposure", "feed", "wallet", "leverage", "kill", "lock", "summary",
              "digest", "stop", "budget", "week">>
At(handler) == stage > 0 /\ Handlers[stage] = handler
Finished == /\ stage' = (stage + 1) % (Len(Handlers) + 1)
            /\ UNCHANGED <<now, world, booked>>
Silent == UNCHANGED told
NothingOnce == UNCHANGED <<said, repeated>>
TradeAsIs == UNCHANGED <<row, warnings>>

Fresh == [feed |-> "OK", exposure |-> FALSE, leverage |-> FALSE, wallet |-> FALSE,
          kill |-> None, lock |-> None, summary |-> None, digest |-> None,
          budgetDay |-> None, levels |-> {}, week |-> None, ran |-> FALSE]

Nothing == [feed |-> None, exposure |-> None]

Init ==
    /\ now = 0 /\ stage = 0 /\ booked = None
    /\ world = [feed |-> "OK", over |-> FALSE, high |-> FALSE, stale |-> FALSE]
    /\ row \in {[mark |-> r.mark, stop |-> r.stop, fired |-> FALSE] : r \in Rows}
    /\ latch = Fresh
    /\ told = [feed |-> "OK", exposure |-> FALSE]
    /\ said = Unsaid /\ repeated = FALSE /\ warnings = 0

(***************************************************************************)
(* The handlers, in the order of the cycle.                                *)
(***************************************************************************)
\* _maybe_exposure_alert
ExposureAlert(delivered) ==
    /\ At("exposure")
    /\ IF world.over # latch.exposure
       THEN Report("exposure", world.over, FALSE, delivered)
       ELSE Silent
    /\ latch' = [latch EXCEPT !.exposure = world.over]
    /\ NothingOnce /\ TradeAsIs /\ Finished

\* mutant: only a halt is a change
FeedHalts == world.feed # latch.feed /\ "HALT" \in {world.feed, latch.feed}
FeedTurned == world.feed # latch.feed

\* _maybe_feed_alerts: HALT by critical(), ALERT by health_warning(), the recovery is
\* critical if it ends a halt
FeedAlert(delivered) ==
    /\ At("feed")
    /\ IF FeedTurned
       THEN Report("feed", world.feed, world.feed = "OK" /\ latch.feed = "HALT", delivered)
       ELSE Silent
    /\ latch' = [latch EXCEPT !.feed = world.feed]
    /\ NothingOnce /\ TradeAsIs /\ Finished

\* _maybe_wallet_stale_alert, and the cycle that re-arms it; not in the first cycle.
\* This message and the next have no counterpart for the end of the state.
WalletAlert ==
    /\ At("wallet")
    /\ latch' = [latch EXCEPT !.wallet = world.stale /\ latch.ran]
    /\ Silent /\ NothingOnce /\ TradeAsIs /\ Finished

\* _maybe_leverage_alert
LeverageAlert ==
    /\ At("leverage")
    /\ latch' = [latch EXCEPT !.leverage = world.high]
    /\ Silent /\ NothingOnce /\ TradeAsIs /\ Finished

KillSwitch ==
    /\ At("kill")
    /\ IF PnlToday <= -Budget /\ latch.kill # Today
       THEN Once("kill", Today) /\ latch' = [latch EXCEPT !.kill = Today]
       ELSE NothingOnce /\ latch' = latch
    /\ Silent /\ TradeAsIs /\ Finished

\* _maybe_notify_daily_profit_lock
ProfitLock ==
    /\ At("lock")
    /\ IF PnlToday >= Target /\ latch.lock # Today
       THEN Once("lock", Today) /\ latch' = [latch EXCEPT !.lock = Today]
       ELSE NothingOnce /\ latch' = latch
    /\ Silent /\ TradeAsIs /\ Finished

\* _maybe_daily_summary: the first day of the process is only remembered
DailySummary ==
    /\ At("summary")
    /\ latch' = [latch EXCEPT !.summary = Today]
    /\ IF latch.summary \notin {None, Today} THEN Once("summary", Today) ELSE NothingOnce
    /\ Silent /\ TradeAsIs /\ Finished

\* _maybe_position_summary: the first firing is one interval after the start
PositionSummary ==
    /\ At("digest")
    /\ latch' = IF latch.digest = None \/ now - latch.digest >= DigestEvery
                THEN [latch EXCEPT !.digest = now] ELSE latch
    /\ Silent /\ NothingOnce /\ TradeAsIs /\ Finished

\* position_rows: percent of the distance to the stop that is left; no room is known
\* without a mark, or when the stop is at or above the entry
RoomLeft(r) == IF r.mark = None \/ r.stop >= 100 THEN None
               ELSE ((r.mark - r.stop) * 100) \div (100 - r.stop)

\* mutant: the flag is set on the row that was read and not written back
FlaggedInMemory(r) == r
Flagged(r) == [r EXCEPT !.fired = TRUE]

\* _maybe_stop_approach_alerts: read, then write the flag, then send
NearsStop == /\ RoomLeft(row) # None /\ RoomLeft(row) <= Room
             /\ ~row.fired
StopApproach(delivered) ==
    /\ At("stop")
    /\ IF NearsStop
       THEN /\ row' = Flagged(row)
            /\ warnings' = warnings + (IF delivered THEN 1 ELSE 0)
       ELSE TradeAsIs
    /\ latch' = latch
    /\ Silent /\ NothingOnce /\ Finished
\* the process ends between the two
DiesBeforeSend ==
    /\ At("stop") /\ NearsStop
    /\ row' = Flagged(row)
    /\ latch' = Fresh /\ stage' = 0 /\ said' = Unsaid /\ told' = Nothing
    /\ UNCHANGED <<now, world, booked, repeated, warnings>>

\* mutant: the day of the latch is compared with the day of the PnL
FiredUtc == IF latch.budgetDay = UtcDay THEN latch.levels ELSE {}
Fired == IF latch.budgetDay = Today THEN latch.levels ELSE {}

\* _maybe_loss_budget_alerts: the latch turns with the logical day, the PnL with UTC
LossBudget ==
    /\ At("budget")
    /\ LET reached == {l \in Levels : -PnlUtc >= l} \ Fired
       IN /\ latch' = [latch EXCEPT !.budgetDay = Today, !.levels = Fired \cup reached]
          /\ Say({"budget"} \X reached, Today)
    /\ Silent /\ TradeAsIs /\ Finished

\* _maybe_weekly_report
WeeklyReport ==
    /\ At("week")
    /\ LET due == /\ UtcDay % Week = Week - 1 /\ now % Day >= ReportFrom
                  /\ latch.week # UtcDay \div Week
       IN /\ latch' = [latch EXCEPT !.ran = TRUE, !.week = IF due THEN UtcDay \div Week ELSE @]
          /\ IF due THEN Once("week", UtcDay \div Week) ELSE NothingOnce
    /\ Silent /\ TradeAsIs /\ Finished

(***************************************************************************)
(* Between two cycles: what the next one will find. The clock also runs    *)
(* while the handlers do.                                                  *)
(***************************************************************************)
Cycle ==
    /\ stage = 0 /\ stage' = 1
    /\ world' \in Worlds
    /\ \E x \in Rows : row' = [row EXCEPT !.mark = x.mark, !.stop = x.stop]
    /\ UNCHANGED <<now, booked, latch, told, said, repeated, warnings>>
Close ==
    /\ stage = 0
    /\ booked # None => UtcDay > booked.at \div Day /\ Today > LogicalDay(booked.at)
    /\ booked' \in {[at |-> now, pnl |-> p] : p \in Pnls}
    /\ UNCHANGED <<now, stage, world, row, latch, told, said, repeated, warnings>>
Tick ==
    /\ now < MaxNow /\ now' = now + 1
    /\ UNCHANGED <<stage, world, row, booked, latch, told, said, repeated, warnings>>
\* __init__ of a new process: every latch is as at first
Restart ==
    /\ stage' = 0 /\ latch' = Fresh /\ said' = Unsaid /\ told' = Nothing
    /\ stage = 0 /\ latch # Fresh
    /\ UNCHANGED <<now, world, row, booked, repeated, warnings>>

Next ==
    \/ \E delivered \in BOOLEAN :
          ExposureAlert(delivered) \/ FeedAlert(delivered) \/ StopApproach(delivered)
    \/ WalletAlert \/ LeverageAlert \/ KillSwitch \/ ProfitLock \/ DailySummary
    \/ PositionSummary \/ DiesBeforeSend \/ LossBudget \/ WeeklyReport
    \/ Cycle \/ Close \/ Tick \/ Restart

Spec == Init /\ [][Next]_vars

\* engine.py:1992-1996: the stop warning of a trade is sent once, whatever restarts and
\* wherever a process ends between the flag and the send.
WarnedOnce == warnings <= 1

\* "Never spams a steady state" (1567), and its other half: between two cycles the
\* operator's last word on the feed and on the exposure is what the engine found,
\* unless the message on it was suppressed or failed, or a restart forgot the latch.
Informed ==
    stage = 0 => /\ told.feed \in {None, world.feed}
                 /\ told.exposure \in {None, world.over}

\* The kill switch, the profit lock, each level of the budget and the summary go out
\* once per logical day, and the report once per week, in one process, though the day
\* of the PnL and the day of the latch are not the same and either may turn while the
\* handlers run.
OncePerDay == ~repeated

\* Both: nothing that is to be said once is said twice.
SaidOnce == WarnedOnce /\ OncePerDay
================================================================================
