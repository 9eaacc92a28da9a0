------------------------------- MODULE DailyGuard -------------------------------
(***************************************************************************)
(* The daily profit guard (engine.py, _daily_profit_target_guard) in the   *)
(* cycle: the lock is read into the portfolio view when the cycle begins,  *)
(* entries and exits follow, and the guard runs last, on the marks of this *)
(* cycle.  It keeps the day's opening equity, the day's best gain and the  *)
(* day it locked in the meta table, and closes every position when the     *)
(* gain reaches the target or gives back too much of the best one.         *)
(* /resumeday comes between two cycles; the wallet sync, midnight and the  *)
(* death of the process at any moment.                                     *)
(*                                                                         *)
(* A position is the profit it would realize at the current price; a       *)
(* partial exit, which moves some of it into cash, is left out.            *)
(***************************************************************************)
EXTENDS Integers, FiniteSets, Functions

CONSTANTS
    Coins,
    Profits,      \* what a position can be worth at a price
    Fee,          \* cost of closing one
    Initial,      \* cash at the start
    Targets,      \* percentages _effective_profit_pct can return
    Giveback,     \* daily_giveback_guard_enabled
    ArmPct,       \* daily_giveback_arm_pct
    Keep, Of,     \* 1 - daily_giveback_frac = Keep / Of
    Transfers,    \* what the wallet sync can add to the cash
    NoPosition,
    Unset,        \* a meta key that is absent
    MaxDay,       \* bound: days
    MaxCycles,    \* bound: cycles
    MaxSyncs      \* bound: wallet syncs that change the cash

ASSUME GuardAssumption ==
    /\ IsFiniteSet(Coins)
    /\ Profits \subseteq Int /\ 0 \in Profits /\ Transfers \subseteq Int
    /\ {Fee, Initial, ArmPct, Keep, MaxDay, MaxCycles, MaxSyncs} \subseteq Nat /\ Of \in Nat \ {0}
    /\ Targets \subseteq Nat \ {0}
    /\ Giveback \in BOOLEAN
    /\ NoPosition \notin Int /\ Unset \notin Nat

VARIABLES
    day,
    cash,       \* meta 'balance'
    pos,        \* open rows: symbol |-> profit at the current price, or NoPosition
    hitDay,     \* meta 'profit_target_hit_day'
    open,       \* meta 'profit_day': day and equity, or Unset
    best,       \* meta 'profit_day_peak': day and gain, or Unset
    phase,      \* "idle", "entry", "manage" or "flatten"
    locked,     \* daily_profit_locked of the cycle's view
    marked,     \* symbols the manage step found a mark for
    gday,       \* the day the guard computed
    unclosed,   \* positions it has still to close
    skipped,    \* positions whose closing raised
    expected,   \* history: the cash a complete flatten leaves
    carried,    \* history: what the account was worth when `open` was taken
    fired,      \* history: why the guard flattens, and what was earned since `open`
    cycles,     \* cycles begun
    resumed,    \* history: /resumeday released today's lock
    syncs       \* history: syncs that changed the cash

meta    == <<hitDay, open, best>>
guard   == <<gday, unclosed, skipped>>
history == <<expected, carried, fired, resumed, cycles, syncs>>
guardVars == <<day, cash, pos, meta, phase, locked, marked, guard, history>>

InMarket == {s \in Coins : pos[s] # NoPosition}
Worth(S) == SumFunctionOnSet(pos, S)
NotFired == [why |-> "none", earned |-> 0]

GuardInit ==
    /\ day = 1 /\ cash = Initial
    /\ pos = [s \in Coins |-> NoPosition]
    /\ hitDay = Unset /\ open = Unset /\ best = Unset
    /\ phase = "idle" /\ locked = FALSE /\ marked = {}
    /\ gday = 1 /\ unclosed = {} /\ skipped = {}
    /\ expected = 0 /\ carried = 0 /\ fired = NotFired /\ resumed = FALSE
    /\ cycles = 0 /\ syncs = 0

--------------------------------------------------------------------------------
(* The cycle up to the guard.                                              *)

\* The snapshots of a cycle fix the prices until its end.
Begin ==
    /\ phase = "idle" /\ cycles < MaxCycles
    /\ cycles' = cycles + 1
    /\ pos' \in [Coins -> Profits \cup {NoPosition}]
    /\ \A s \in Coins : pos'[s] = NoPosition <=> s \notin InMarket
    /\ locked' = (hitDay = day)
    /\ phase' = "entry"
    /\ UNCHANGED <<day, cash, meta, marked, guard, expected, carried, fired, resumed, syncs>>

EnterOnly(s) ==                                                            \* mutant
    /\ phase = "entry"
    /\ pos[s] = NoPosition
    /\ pos' = [pos EXCEPT ![s] = 0]
    /\ UNCHANGED <<day, cash, meta, phase, locked, marked, guard, history>>
Enter(s) ==
    /\ phase = "entry" /\ ~locked
    /\ pos[s] = NoPosition
    /\ pos' = [pos EXCEPT ![s] = 0]
    /\ UNCHANGED <<day, cash, meta, phase, locked, marked, guard, history>>

\* A trade whose snapshot fails, or without a closed bar, gets no mark.
Manage ==
    /\ phase = "entry"
    /\ marked' \in SUBSET InMarket
    /\ phase' = "manage"
    /\ UNCHANGED <<day, cash, pos, meta, locked, guard, history>>

Exit(s) ==
    /\ phase = "manage"
    /\ s \in marked \cap InMarket
    /\ cash' = cash + pos[s] - Fee
    /\ pos' = [pos EXCEPT ![s] = NoPosition]
    /\ UNCHANGED <<day, meta, phase, locked, marked, guard, history>>

--------------------------------------------------------------------------------
(* The guard.                                                              *)

\* An open trade without a mark counts as worth nothing.
Equity == cash + Worth(marked \cap InMarket)

Opening == IF open # Unset /\ open.day = day THEN open.equity ELSE Equity
Gain == Equity - Opening
Highest(a, b) == IF a > b THEN a ELSE b
Best == Highest(Gain, IF best # Unset /\ best.day = day THEN best.gain ELSE 0)

AtTarget(pct) == Opening > 0 /\ Gain * 100 >= Opening * pct
Arm == Opening * ArmPct
GivenBack == Giveback /\ Arm > 0 /\ Best * 100 >= Arm /\ Gain * Of <= Best * Keep

\* Day-open equity and best gain, persisted before anything else is decided.
Remember ==
    /\ open' = [day |-> day, equity |-> Opening]
    /\ best' = [day |-> day, gain |-> Best]
    /\ carried' = IF open # Unset /\ open.day = day THEN carried ELSE cash + Worth(InMarket)

Done ==
    /\ phase' = "idle" /\ marked' = {}
    /\ gday' = day /\ unclosed' = {} /\ skipped' = skipped
    /\ expected' = 0 /\ fired' = NotFired

Fire(why) ==
    /\ phase' = "flatten" /\ marked' = marked
    /\ gday' = day /\ unclosed' = InMarket /\ skipped' = {}
    /\ expected' = Equity - Fee * Cardinality(InMarket)
    /\ fired' = [why |-> why, earned |-> cash + Worth(InMarket) - carried']

Evaluate ==
    /\ phase = "manage"
    /\ Remember
    /\ \E pct \in Targets :
          \/ hitDay = day /\ Done
          \/ hitDay # day /\ AtTarget(pct) /\ Fire("target")
          \/ hitDay # day /\ ~AtTarget(pct) /\ GivenBack /\ Fire("giveback")
          \/ hitDay # day /\ ~AtTarget(pct) /\ ~GivenBack /\ Done
    /\ UNCHANGED <<day, cash, pos, hitDay, locked, resumed, cycles, syncs>>

\* What a forced close books: the profit at the mark, nothing at the entry price.
ExitWorthNow(s) == pos[s]                                                  \* mutant
ExitWorth(s) == IF s \in marked THEN pos[s] ELSE 0

FlattenOne(s) ==
    /\ phase = "flatten"
    /\ s \in unclosed
    /\ unclosed' = unclosed \ {s}
    /\ cash' = cash + ExitWorth(s) - Fee
    /\ pos' = [pos EXCEPT ![s] = NoPosition]
    /\ UNCHANGED <<day, meta, phase, locked, marked, gday, skipped, history>>

\* The close raises: logged, and the next position is tried.
FlattenRaises(s) ==
    /\ phase = "flatten"
    /\ s \in unclosed
    /\ unclosed' = unclosed \ {s}
    /\ skipped' = skipped \cup {s}
    /\ UNCHANGED <<day, cash, pos, meta, phase, locked, marked, gday, history>>

Lock ==
    /\ phase = "flatten" /\ unclosed = {}
    /\ hitDay' = gday
    /\ phase' = "idle" /\ marked' = {}
    /\ expected' = 0 /\ fired' = NotFired
    /\ UNCHANGED <<day, cash, pos, open, best, locked, guard, carried, resumed, cycles, syncs>>

--------------------------------------------------------------------------------
(* What comes from outside.                                                *)

\* The command deletes the lock and the opening equity; the best gain stays.
ResumeDay ==
    /\ phase = "idle"
    /\ hitDay' = Unset /\ open' = Unset
    /\ resumed' = (resumed \/ hitDay = day)
    /\ UNCHANGED <<day, cash, pos, best, phase, locked, marked, guard, expected, carried,
                   fired, cycles, syncs>>

Midnight ==
    /\ day < MaxDay
    /\ day' = day + 1
    /\ resumed' = FALSE
    /\ UNCHANGED <<cash, pos, meta, phase, locked, marked, guard, expected, carried, fired,
                   cycles, syncs>>

\* Armed live: the reconcile thread writes the wallet over the cash.
WalletMoves ==
    /\ syncs < MaxSyncs
    /\ \E amount \in Transfers :
          /\ cash' = cash + amount
          /\ expected' = expected + amount
          /\ carried' = carried + amount
    /\ syncs' = syncs + 1
    /\ UNCHANGED <<day, pos, meta, phase, locked, marked, guard, fired, resumed, cycles>>

Crash ==
    /\ phase # "idle"
    /\ phase' = "idle" /\ locked' = FALSE /\ marked' = {} /\ unclosed' = {}
    /\ expected' = 0 /\ fired' = NotFired
    /\ UNCHANGED <<day, cash, pos, meta, gday, skipped, carried, resumed, cycles, syncs>>

--------------------------------------------------------------------------------

GuardNext ==
    \/ Begin \/ Manage \/ Evaluate \/ Lock
    \/ \E s \in Coins : Enter(s) \/ Exit(s) \/ FlattenOne(s) \/ FlattenRaises(s)
    \/ ResumeDay \/ Midnight \/ WalletMoves \/ Crash

GuardSpec == GuardInit /\ [][GuardNext]_guardVars

GuardTypeOK ==
    /\ day \in 1 .. MaxDay /\ cash \in Int
    /\ pos \in [Coins -> Profits \cup {NoPosition}]
    /\ hitDay \in 1 .. MaxDay \cup {Unset}
    /\ open = Unset \/ (open.day \in 1 .. MaxDay /\ open.equity \in Int)
    /\ best = Unset \/ (best.day \in 1 .. MaxDay /\ best.gain \in Nat)
    /\ phase \in {"idle", "entry", "manage", "flatten"} /\ locked \in BOOLEAN
    /\ marked \subseteq Coins /\ gday \in 1 .. MaxDay
    /\ unclosed \subseteq Coins /\ skipped \subseteq Coins
    /\ expected \in Int /\ carried \in Int /\ resumed \in BOOLEAN
    /\ cycles \in 0 .. MaxCycles /\ syncs \in 0 .. MaxSyncs
    /\ fired.why \in {"none", "target", "giveback"}

\* A day the guard locked stays flat: nothing is open on it but positions whose
\* closing raised, although the view that gates the entries was copied before the
\* guard ran, and midnight, /resumeday or a crash may fall anywhere in the cycle.
FlatWhileLocked == hitDay = day => InMarket \subseteq skipped

\* A flatten without an error banks what the guard acted on: the equity it measured,
\* less one fee per position, also for the positions it had no mark for.
BankedWhatItSaw ==
    phase = "flatten" /\ unclosed = {} /\ skipped = {} => cash = expected

================================================================================
