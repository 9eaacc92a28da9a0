------------------------------- MODULE EntryCycle -------------------------------
(***************************************************************************)
(* The entry side of the engine cycle (engine.py, _cycle): the portfolio   *)
(* view copied at its start, the hard filters (filters.py), the exposure   *)
(* clip of the risk manager (risk.py), and the allocation in rank order    *)
(* under the structural caps, or the legacy first-come loop without them;  *)
(* then the management of the open trades.  The reconcile thread closes    *)
(* rows and syncs the balance at any moment.                               *)
(*                                                                         *)
(* Ranks only order the candidates, and the market filters, the score, the *)
(* margin and the executor may refuse any of them: both are left open.     *)
(***************************************************************************)
EXTENDS Integers, FiniteSets, Functions

CONSTANTS
    Symbols,
    Sizes,          \* notionals the risk formula can ask for
    Marks,          \* mark/entry ratios; 1 also where no mark is known
    MaxOpen,        \* max_open_trades
    ExposurePct,    \* max_portfolio_exposure_pct
    MinNotional,    \* min_position_notional
    LossPct,        \* max_daily_loss_pct
    Risk,           \* what one trade can lose
    MaxSameSide,    \* max_same_side
    MaxPerCluster,  \* max_per_cluster
    NetPct,         \* max_net_directional_pct
    ClusterMaps,    \* symbol |-> cluster maps of the correlation controller
    NoCluster,
    NoTrade,
    MaxBalance,     \* bound: largest balance of the account
    MaxGain         \* bound: largest realized gain of a day

Sides  == {"LONG", "SHORT"}
Trades == [side : Sides, size : Sizes, mark : Marks]

ASSUME CycleAssumption ==
    /\ IsFiniteSet(Symbols)
    /\ Sizes \subseteq Nat \ {0} /\ Marks \subseteq Nat /\ 1 \in Marks
    /\ \A n \in Sizes : 1 .. n \subseteq Sizes
    /\ {MaxOpen, MinNotional, LossPct, Risk, MaxSameSide, MaxPerCluster, MaxBalance}
           \subseteq Nat \ {0}
    /\ {ExposurePct, NetPct, MaxGain} \subseteq Nat
    /\ \A m \in ClusterMaps : DOMAIN m = Symbols
    /\ NoTrade \notin Trades

VARIABLES
    book,      \* open rows: symbol |-> trade or NoTrade
    balance,
    dayPnl,    \* realized by the trades closed today
    ranking,   \* global_ranking
    pc,        \* "idle", "rank", "alloc" or "manage"
    view,      \* the cycle's portfolio view and running totals
    plan,      \* what pass 2 read before its first candidate
    sides,     \* its count of trades per side, kept up to date
    left       \* candidates not yet considered

vars == <<book, balance, dayPnl, ranking, pc, view, plan, sides, left>>

Held(b) == {s \in Symbols : b[s] # NoTrade}
OnSide(b, side) == {s \in Held(b) : b[s].side = side}

Exposure(b) == SumFunction([s \in Held(b) |-> b[s].size * b[s].mark])
Notional(b, side) == SumFunction([s \in OnSide(b, side) |-> b[s].size])
Net(b) == Notional(b, "LONG") - Notional(b, "SHORT")

Cap(equity) == (equity * ExposurePct) \div 100
Magnitude(n) == IF n < 0 THEN -n ELSE n

View == [open |-> Held(book), notional |-> Exposure(book), balance |-> balance,
         pnl |-> dayPnl]

\* Nothing read: between cycles, and before the first candidate.
NoView == [open |-> {}, notional |-> 0, balance |-> 1, pnl |-> 0]
NoPlan == [slots |-> MaxOpen, budget |-> 0, net |-> 0,
           cluster |-> [s \in Symbols |-> NoCluster]]
NoSides == [x \in Sides |-> 0]

Init ==
    /\ book = [s \in Symbols |-> NoTrade]
    /\ balance \in 1 .. MaxBalance
    /\ dayPnl = 0
    /\ ranking \in BOOLEAN
    /\ pc = "idle"
    /\ view = NoView
    /\ plan = NoPlan
    /\ sides = NoSides
    /\ left = {}

--------------------------------------------------------------------------------
(* Pass 1 and the gates of the cycle.                                      *)

Breach == Exposure(book) * 100 > ExposurePct * balance

\* The scan: no symbol while entries are blocked (`blocked`: paused, feed HALT) or
\* the book is over its cap; else those that signal.
BeginCycle ==
    /\ pc = "idle"
    /\ view' = View
    /\ \E blocked \in BOOLEAN, signals \in SUBSET Symbols :
          left' = IF blocked \/ Breach THEN {} ELSE signals
    /\ pc' = IF ranking THEN "rank" ELSE "alloc"
    /\ UNCHANGED <<book, balance, dayPnl, ranking, plan, sides>>

\* plan_cycle tightens the static caps by the regime, never to zero slots.
SlotPlans == 1 .. MaxOpen

\* Between the passes: the side counts and the open rows of this moment, and the plan.
Rank ==
    /\ pc = "rank"
    /\ \E slots \in SlotPlans, budget \in {Cap(view.balance) \div 2, Cap(view.balance)},
          cluster \in ClusterMaps :
          plan' = [slots |-> slots, budget |-> budget, net |-> Net(book),
                   cluster |-> cluster]
    /\ sides' = [x \in Sides |-> Cardinality(OnSide(book, x))]
    /\ pc' = "alloc"
    /\ UNCHANGED <<book, balance, dayPnl, ranking, view, left>>

--------------------------------------------------------------------------------
(* Pass 2: one candidate.                                                  *)

\* f_daily_loss.
LostBeyond(v) == v.pnl * 100 < -(LossPct * v.balance)                      \* mutant
Lost(v) == v.pnl * 100 <= -(LossPct * v.balance)

\* f_max_open, f_duplicate.
SlotFree(v, s) == Cardinality(v.open) < MaxOpen /\ s \notin v.open

\* RiskManager.evaluate: the size asked for, clipped to the room under the cap.
Room(v) == Cap(v.balance) - v.notional
Sized(v, want) == IF want > Room(v) THEN Room(v) ELSE want

\* The caps of the ranking allocator.
ClusterFreeOrFull(v, s) ==                                                 \* mutant
    \/ plan.cluster[s] = NoCluster
    \/ Cardinality({x \in v.open : plan.cluster[x] = plan.cluster[s]}) <= MaxPerCluster
ClusterFree(v, s) ==
    \/ plan.cluster[s] = NoCluster
    \/ Cardinality({x \in v.open : plan.cluster[x] = plan.cluster[s]}) < MaxPerCluster
SideFree(side) == sides[side] < MaxSameSide
NetFree(v, side, size) ==
    NetPct > 0 =>
        Magnitude(plan.net + (IF side = "LONG" THEN size ELSE -size)) * 100
            <= NetPct * v.balance
WithinCaps(s, side, size) ==
    /\ Cardinality(view.open) < plan.slots
    /\ ClusterFree(view, s)
    /\ SideFree(side)
    /\ view.notional + size <= plan.budget
    /\ NetFree(view, side, size)

\* What the running totals become.
GrownSymbolsOnly(v, s, size) == [v EXCEPT !.open = @ \cup {s}]              \* mutant
Grown(v, s, size) ==
    [open |-> v.open \cup {s}, notional |-> v.notional + size, balance |-> v.balance,
     pnl |-> v.pnl]
Recounted(side) == [sides EXCEPT ![side] = @ + 1]

Open(s, side, size) ==
    /\ pc = "alloc" /\ s \in left
    /\ ~Lost(view)
    /\ SlotFree(view, s)
    /\ \E want \in Sizes : size = Sized(view, want)
    /\ size >= MinNotional
    /\ ranking => WithinCaps(s, side, size)
    /\ book' = [book EXCEPT ![s] = [side |-> side, size |-> size, mark |-> 1]]
    /\ view' = Grown(view, s, size)
    /\ sides' = IF ranking THEN Recounted(side) ELSE sides
    /\ left' = left \ {s}
    /\ UNCHANGED <<balance, dayPnl, ranking, pc, plan>>

\* A filter, a cap or the executor refuses.
PassOver(s) ==
    /\ pc = "alloc" /\ s \in left
    /\ left' = left \ {s}
    /\ UNCHANGED <<book, balance, dayPnl, ranking, pc, view, plan, sides>>

EntriesDone ==
    /\ pc = "alloc" /\ left = {}
    /\ pc' = "manage"
    /\ UNCHANGED <<book, balance, dayPnl, ranking, view, plan, sides, left>>

--------------------------------------------------------------------------------
(* Closing, and the rest of the cycle.                                     *)

\* A row is closed and its PnL counts for the day.
ClosedRow(s, pnl) ==
    /\ book' = [book EXCEPT ![s] = NoTrade]
    /\ dayPnl' = dayPnl + pnl /\ dayPnl' <= MaxGain

\* The exit engine, the profit guard or /panic closes a trade and books its PnL.
ManageCloses(s) ==
    /\ pc = "manage" /\ s \in Held(book)
    /\ \E pnl \in {-Risk, 0, Risk} :
          /\ ClosedRow(s, pnl)
          /\ balance' = balance + pnl /\ balance' \in 1 .. MaxBalance
    /\ UNCHANGED <<ranking, pc, view, plan, sides, left>>

\* A partial close, whose gain goes to the balance at once, or a new mark.
ManageKeeps(s) ==
    /\ pc = "manage" /\ s \in Held(book)
    /\ \E size \in 1 .. book[s].size, mark \in Marks :
          /\ book' = [book EXCEPT ![s] = [side |-> @.side, size |-> size, mark |-> mark]]
          /\ balance' \in balance .. MaxBalance
          /\ size = book[s].size => balance' = balance
    /\ UNCHANGED <<dayPnl, ranking, pc, view, plan, sides, left>>

\* The cycle ends, or any step of it raises.
EndCycle ==
    /\ pc # "idle"
    /\ pc' = "idle"
    /\ view' = NoView
    /\ plan' = NoPlan
    /\ sides' = NoSides
    /\ left' = {}
    /\ UNCHANGED <<book, balance, dayPnl, ranking>>

\* The reconcile thread, at any moment: the exchange's PnL or none, and later its
\* balance.
ReconcileCloses(s) ==
    /\ s \in Held(book)
    /\ \E pnl \in {-Risk, 0, Risk} : ClosedRow(s, pnl)
    /\ UNCHANGED <<balance, ranking, pc, view, plan, sides, left>>

WalletSync ==
    /\ balance' \in 1 .. MaxBalance
    /\ UNCHANGED <<book, dayPnl, ranking, pc, view, plan, sides, left>>

NewDay ==
    /\ dayPnl' = 0
    /\ UNCHANGED <<book, balance, ranking, pc, view, plan, sides, left>>

--------------------------------------------------------------------------------

Next ==
    \/ BeginCycle \/ Rank \/ EntriesDone \/ EndCycle \/ WalletSync \/ NewDay
    \/ \E s \in Symbols :
          \/ \E side \in Sides, size \in Sizes : Open(s, side, size)
          \/ PassOver(s) \/ ManageCloses(s) \/ ManageKeeps(s) \/ ReconcileCloses(s)

Spec == Init /\ [][Next]_vars

--------------------------------------------------------------------------------
(* Properties.                                                             *)

\* The types of all variables.
TypeOK ==
    /\ book \in [Symbols -> Trades \cup {NoTrade}]
    /\ balance \in 1 .. MaxBalance
    /\ dayPnl \in Int /\ dayPnl <= MaxGain
    /\ ranking \in BOOLEAN
    /\ pc \in {"idle", "rank", "alloc", "manage"}
    /\ view \in [open : SUBSET Symbols, notional : Nat, balance : 1 .. MaxBalance,
                 pnl : Int]
    /\ plan.slots \in 1 .. MaxOpen /\ plan.budget \in Nat /\ plan.net \in Int
    /\ sides \in [Sides -> Nat]
    /\ left \subseteq Symbols

\* The kill switch bounds the day: its limit and one full book of losing trades.
\* Entries decided from a PnL read before the thread closed a loser are within it.
DayLossBounded == (dayPnl + Risk * MaxOpen) * 100 > -(LossPct * MaxBalance)

SlotsNeverExceeded == Cardinality(Held(book)) <= MaxOpen
SameSideCap == ranking => \A x \in Sides : Cardinality(OnSide(book, x)) <= MaxSameSide

\* No more open trades than slots, and with the allocator on no more in one direction
\* than max_same_side, whatever the thread closes while the cycle works from its copy
\* of the book.
CapsHold == SlotsNeverExceeded /\ SameSideCap

Opened == Held(book') \ Held(book)

\* No entry fills a cluster beyond its cap, on the cluster map of its cycle.
ClusterCap ==
    [][ranking => \A s \in Opened :
          plan.cluster[s] # NoCluster =>
              Cardinality({x \in Held(book') : plan.cluster[x] = plan.cluster[s]})
                  <= MaxPerCluster]_vars

\* No entry takes the marked notional of the whole book over the exposure cap on
\* the balance its cycle read.
ExposureCap == [][Opened # {} => Exposure(book') <= Cap(view.balance)]_vars
================================================================================
