-------------------------------- MODULE Database --------------------------------
(***************************************************************************)
(* The SQLite file over its life: the migrations of storage.py, the stamp  *)
(* of an epoch, and the two resets of main.py. A step is what one commit   *)
(* makes durable (an ALTER commits by itself), and a process may die after *)
(* any of them. On the disk the file is two (storage.py:309): commits go   *)
(* to the -wal, and a checkpoint moves them to the main file.              *)
(*                                                                         *)
(* One process at a time has the file: the resets ask for the engine to be *)
(* stopped, and the dashboard and the governor only read. Of a trade the   *)
(* PnL, the margin and the clip tag are kept; of a shadow row its bar and  *)
(* its epoch; all rows have the same symbol, side and setup. The books of  *)
(* the ledger are those of Ledger.                                         *)
(***************************************************************************)
EXTENDS Integers, Sequences, FiniteSets, Functions

CONSTANTS
    Files,      \* what an older version may have left
    Labels,     \* EPOCH_LABEL
    Initial,    \* INITIAL_PAPER_BALANCE
    Results,    \* PnL of a trade
    MaxClock, MaxTrades, MaxShadows, \* bounds
    None

Legacy == 0     \* the label of a row that has none

VARIABLES
    disk,       \* the file: cols, trades, shadows, index, balance, stamp
    env,        \* EPOCH_LABEL in .env
    job, at,    \* the process that has the file and where it is, None if none
    main,       \* trades in the main file, as of the last checkpoint
    copies,     \* trades in the rollback artifacts: when, and with what result
    copied,     \* the parts of the file that the artifact of this reset has
    clock,
    torn,       \* ghost: columns whose rows were never filled, a process died before
    past,       \* ghost: labels of earlier epochs
    lost,       \* ghost: trades cleared that no artifact has, though every copy was made
    base        \* ghost: PnL of the trades at the last reset of the balance

vars == <<disk, env, job, at, main, copies, copied, clock, torn, past, lost, base>>

(***************************************************************************)
(* Where a process is. It goes through the constructor, where every column *)
(* is added and then, if old rows need a value, filled (1 to 8), and the   *)
(* index is made (9); a reset copies before it (0). From 10 on comes what  *)
(* the process was started for.                                            *)
(***************************************************************************)
Columns == {"margin", "clip", "bar", "epoch"}
Jobs == {"engine", "reset", "balance"}
AddOf(c) == CASE c = "margin" -> 1 [] c = "clip" -> 3 [] c = "bar" -> 5 [] c = "epoch" -> 7
First(j) == IF j = "reset" THEN 0 ELSE 1
Final(j) == IF j = "balance" THEN 10 ELSE 12

Migrating(n) == job # None /\ at = n
Doing(j, n) == job = j /\ at = n
Running == Doing("engine", 12)
Goto(n) == IF n <= Final(job) THEN at' = n /\ job' = job ELSE at' = None /\ job' = None
Proceed == Goto(at + 1)

Stamp == [label |-> env, since |-> clock]
Pnl(trades) == SumFunctionOnSet([t \in trades |-> t.pnl], trades)
Outcomes(trades) == {[at |-> t.at, pnl |-> t.pnl] : t \in trades}

(***************************************************************************)
(* _migrate.                                                               *)
(***************************************************************************)
\* the column at its default in every row
Added(c, d) ==
    CASE c = "margin" -> [d EXCEPT !.trades = {[t EXCEPT !.margin = FALSE] : t \in @}]
      [] c = "clip"   -> [d EXCEPT !.trades = {[t EXCEPT !.clip = "none"] : t \in @}]
      [] c = "bar"    -> [d EXCEPT !.shadows = [i \in DOMAIN @ |-> [@[i] EXCEPT !.bar = 0]]]
      [] c = "epoch"  -> [d EXCEPT !.shadows = [i \in DOMAIN @ |-> [@[i] EXCEPT !.label = Legacy]]]

\* mutant: every row is given to the epoch
LabelledAll(d) == [i \in DOMAIN d.shadows |-> [d.shadows[i] EXCEPT !.label = d.stamp.label]]
\* rows tracked since the epoch began
Labelled(d) ==
    [i \in DOMAIN d.shadows |->
       IF d.shadows[i].at >= d.stamp.since
       THEN [d.shadows[i] EXCEPT !.label = d.stamp.label] ELSE d.shadows[i]]
Filled(c, d) ==
    CASE c = "margin" -> [d EXCEPT !.trades = {[t EXCEPT !.margin = TRUE] : t \in @}]
      [] c = "clip"   -> [d EXCEPT !.trades =
                            {[t EXCEPT !.clip = IF @ = "none" THEN "legacy" ELSE @] : t \in d.trades}]
      [] c = "bar"    -> d
      [] c = "epoch"  -> IF d.stamp = None THEN d ELSE [d EXCEPT !.shadows = Labelled(d)]

\* mutant: the rows are filled at every start
KnownNever(c) == FALSE /\ c \in disk.cols
\* only a column that is missing is added, and filled
Known(c) == c \in disk.cols
AddColumn(c) ==
    /\ Migrating(AddOf(c))
    /\ IF Known(c) THEN disk' = disk /\ Goto(at + 2)
       ELSE disk' = [(IF c \in disk.cols THEN disk ELSE Added(c, disk)) EXCEPT !.cols = @ \cup {c}]
            /\ Proceed
    /\ UNCHANGED <<env, main, copies, copied, clock, torn, past, lost, base>>
FillColumn(c) ==
    /\ Migrating(AddOf(c) + 1) /\ disk' = Filled(c, disk) /\ Proceed
    /\ UNCHANGED <<env, main, copies, copied, clock, torn, past, lost, base>>

\* two old rows without a bar have the same key: the index is not made
DistinctIn(shadows, places) ==
    \A i, j \in places : shadows[i].bar = shadows[j].bar => i = j
Unique(shadows) == DistinctIn(shadows, DOMAIN shadows)
MakeIndex ==
    /\ Migrating(9)
    /\ disk' = [disk EXCEPT !.index = @ \/ Unique(disk.shadows)] /\ Proceed
    /\ UNCHANGED <<env, main, copies, copied, clock, torn, past, lost, base>>

(***************************************************************************)
(* The engine: ensure_balance, ensure_epoch, and what it writes.           *)
(***************************************************************************)
EnsureBalance ==
    /\ Doing("engine", 10)
    /\ disk' = [disk EXCEPT !.balance = IF @ = None THEN Initial ELSE @] /\ Proceed
    /\ UNCHANGED <<env, main, copies, copied, clock, torn, past, lost, base>>
EnsureEpoch ==
    /\ Doing("engine", 11)
    /\ disk' = [disk EXCEPT !.stamp = IF @ = None THEN Stamp ELSE @] /\ Proceed
    /\ torn' = IF disk.stamp = None THEN torn \ {"epoch"} ELSE torn
    /\ UNCHANGED <<env, main, copies, copied, clock, past, lost, base>>

\* upsert_trade of a close, and the balance
Book ==
    /\ Running /\ Cardinality(disk.trades) < MaxTrades
    /\ \E p \in Results :
         LET trade == [at |-> clock, pnl |-> p, margin |-> TRUE, clip |-> "none"]
         IN /\ trade \notin disk.trades
            /\ disk' = [disk EXCEPT !.balance = @ + p, !.trades = @ \cup {trade}]
    /\ UNCHANGED <<env, job, at, main, copies, copied, clock, torn, past, lost, base>>
\* insert_shadow with the label of _current_epoch; a cycle may see a bar again
Track ==
    /\ Running /\ Len(disk.shadows) < MaxShadows
    /\ disk' = IF disk.index /\ \E i \in DOMAIN disk.shadows : disk.shadows[i].bar = clock THEN disk
               ELSE [disk EXCEPT !.shadows =
                       Append(@, [at |-> clock, bar |-> clock, label |-> disk.stamp.label])]
    /\ UNCHANGED <<env, job, at, main, copies, copied, clock, torn, past, lost, base>>
Tick ==
    /\ Running /\ clock < MaxClock /\ clock' = clock + 1
    /\ UNCHANGED <<disk, env, job, at, main, copies, copied, torn, past, lost, base>>

(***************************************************************************)
(* _run_reset: the artifact, then reset_for_new_epoch; _run_balance_reset. *)
(***************************************************************************)
\* at a thousand pages, and when the last connection is closed
Checkpoint ==
    /\ job # None /\ at > 0 /\ main' = Outcomes(disk.trades)
    /\ UNCHANGED <<disk, env, job, at, copies, copied, clock, torn, past, lost, base>>

Parts == {"main", "wal"}    \* SQLite makes the -shm again
\* mutant: the -wal is not copied
MainOnly(parts) == {c \in main : "main" \in parts}
\* what SQLite finds in a copy
Opened(parts) == IF parts = Parts THEN Outcomes(disk.trades)
                 ELSE {c \in main : "main" \in parts}
\* Each part is copied or it fails, without a word. What raises before that is reported,
\* and the reset goes on with no part copied either way.
WriteArtifact ==
    /\ Doing("reset", 0) /\ Proceed
    /\ \E parts \in SUBSET Parts : copied' = parts /\ copies' = copies \cup Opened(parts)
    /\ UNCHANGED <<disk, env, main, clock, torn, past, lost, base>>
\* mutant: a commit for each table, and the process ends before the last, which is meta
ClearedByTable(d) == [d EXCEPT !.trades = {}]
Cleared(d) == [d EXCEPT !.trades = {}, !.balance = None, !.stamp = None]
Clear ==
    /\ Doing("reset", 10) /\ Proceed
    /\ disk' = Cleared(disk)
    /\ lost' = lost \cup (IF copied = Parts THEN Outcomes(disk.trades) \ copies ELSE {})
    /\ past' = past \cup (IF disk.stamp = None THEN {} ELSE {disk.stamp.label})
    /\ torn' = torn \ {"margin", "clip"} /\ base' = 0
    /\ UNCHANGED <<env, main, copies, copied, clock>>
NewBalance ==
    /\ Doing("reset", 11) /\ Proceed
    /\ disk' = [disk EXCEPT !.balance = Initial]
    /\ UNCHANGED <<env, main, copies, copied, clock, torn, past, lost, base>>
NewStamp ==
    /\ Doing("reset", 12) /\ Proceed
    /\ disk' = [disk EXCEPT !.stamp = Stamp] /\ torn' = torn \ {"epoch"}
    /\ UNCHANGED <<env, main, copies, copied, clock, past, lost, base>>
ResetBalance ==
    /\ Doing("balance", 10) /\ Proceed
    /\ disk' = [disk EXCEPT !.balance = Initial] /\ base' = Pnl(disk.trades)
    /\ UNCHANGED <<env, main, copies, copied, clock, torn, past, lost>>

(***************************************************************************)
(* Processes and their owner.                                              *)
(***************************************************************************)
Init ==
    /\ disk \in Files
    /\ env \in Labels /\ job = None /\ at = None
    /\ main = Outcomes(disk.trades) /\ copies = {} /\ copied = {} /\ clock = 1
    /\ torn = {} /\ past = {} /\ lost = {}
    /\ base = Pnl(disk.trades) + Initial - (IF disk.balance = None THEN Initial ELSE disk.balance)

\* a new process reads .env; it takes some time
Start ==
    /\ job = None /\ clock < MaxClock /\ clock' = clock + 1
    /\ job' \in Jobs /\ at' = First(job')
    /\ env' \in Labels /\ copied' = {}
    /\ UNCHANGED <<disk, main, copies, torn, past, lost, base>>
\* a crash, or the end of the engine
Die ==
    /\ job # None /\ job' = None /\ at' = None
    /\ torn' = torn \cup {c \in Columns : Migrating(AddOf(c) + 1)}
    /\ UNCHANGED <<disk, env, main, copies, copied, clock, past, lost, base>>

Next ==
    \/ \E c \in Columns : AddColumn(c) \/ FillColumn(c)
    \/ MakeIndex \/ EnsureBalance \/ EnsureEpoch \/ Book \/ Track \/ Tick
    \/ Checkpoint \/ WriteArtifact \/ Clear \/ NewBalance \/ NewStamp \/ ResetBalance
    \/ Start \/ Die
Spec == Init /\ [][Next]_vars

(***************************************************************************)
(* Properties.                                                             *)
(***************************************************************************)
\* storage.py:379-388, 574-586, shadow.py:441-450: the learner counts the rows of this
\* epoch and no other. A row counted was tracked since the stamp, unless a reset used the
\* label of an earlier epoch again; a row tracked since is counted, unless a process died
\* between the new column and its rows.
EpochsApart ==
    Running =>
       LET shadows == {disk.shadows[i] : i \in DOMAIN disk.shadows}
           label   == disk.stamp.label
       IN /\ label \notin past =>
                \A s \in shadows : s.label = label => s.at >= disk.stamp.since
          /\ "epoch" \notin torn =>
                \A s \in shadows : s.at >= disk.stamp.since => s.label = label

\* storage.py:520-586, main.py:144-173: wherever a reset dies, the engine that starts next
\* has a stamp, and a balance that is the initial one and the results of the trades that
\* are there; and a trade that is gone is in an artifact, the newest ones too, unless a
\* part of the file could not be copied: the reset says nothing of that, and clears.
ResetIsWhole ==
    /\ Running => /\ disk.stamp # None
                  /\ disk.balance = Initial + Pnl(disk.trades) - base
    /\ lost = {}

\* storage.py:315-348: "safe to run on every startup". However often a start is repeated,
\* a trade is marked legacy, and its margin filled in, exactly if it is older than the
\* column, unless a process died between the two; and a bar is tracked twice only in a
\* file whose old rows kept the index from being made.
MigratedOnce ==
    Running =>
       /\ \A t \in disk.trades :
             /\ "clip" \notin torn => (t.clip = "legacy" <=> t.at = 0)
             /\ t.at > 0 => t.clip = "none"
             /\ "margin" \notin torn => t.margin
       /\ \A i, j \in DOMAIN disk.shadows :
             i # j /\ disk.shadows[i].at > 1 /\ disk.shadows[i].bar = disk.shadows[j].bar
             => LET old == {k \in DOMAIN disk.shadows : disk.shadows[k].at <= 1}
                IN  ~DistinctIn(disk.shadows, old)
================================================================================
