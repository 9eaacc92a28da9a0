------------------------------ MODULE FeedWatchdog ------------------------------
(***************************************************************************)
(* Data freshness and the gate on new entries: the closed-bar cache of the *)
(* market data provider (market_data.py), the feed watchdog (watchdog.py), *)
(* and the engine cycle that scans, manages, observes and judges           *)
(* (engine.py, _cycle).                                                    *)
(*                                                                         *)
(* Time is counted in ticks and every timestamp is kept as an age, the     *)
(* ticks since a bar closed.  A cycle takes less than a tick.  Which       *)
(* candidates enter and which open trades exit is left open.               *)
(***************************************************************************)
EXTENDS Integers

CONSTANTS
    Symbols,     \* the working universe
    TF,          \* timeframes registered with the watchdog
    BarLen,      \* ticks of one bar of each timeframe
    Signal,      \* the shortest timeframe
    AlertGrace, HaltGrace,   \* feed_alert_grace_min, feed_halt_grace_min
    GuardBars,   \* stale_entry_guard_bars
    Cap,         \* bound: older ages are not told apart
    MaxRestarts  \* bound: restarts of the process

Alert(tf) == BarLen[tf] + AlertGrace
Halt(tf)  == IF HaltGrace < AlertGrace THEN Alert(tf) ELSE BarLen[tf] + HaltGrace

ASSUME FeedAssumption ==
    /\ BarLen \in [TF -> Nat \ {0}]
    /\ Signal \in TF
    /\ \A tf \in TF : BarLen[Signal] <= BarLen[tf]
    /\ AlertGrace \in Nat /\ HaltGrace \in Nat /\ GuardBars \in Nat \ {0}
    /\ Cap \in Nat /\ \A tf \in TF : Halt(tf) < Cap
    /\ GuardBars * BarLen[Signal] < Cap
    /\ MaxRestarts \in Nat

VARIABLES
    phase,     \* exchange: ticks since a bar of each timeframe should have closed
    alive,     \* exchange: bars are being produced
    served,    \* exchange: age of the newest closed bar it serves
    link,      \* every fetch is answered
    loaded,    \* provider: markets are loaded
    cache,     \* provider: age of the newest cached bar per symbol and timeframe
    since,     \* watchdog: age of its start
    seen,      \* watchdog: age of the newest close observed per timeframe
    feedState, \* engine: the state last reported to the operator
    failing,   \* engine: the last cycle raised, and a warning was sent
    paused,    \* commander: entries are paused
    open,      \* symbols with an open trade
    restarts

exchangeVars == <<phase, alive, served, link>>
vars == <<exchangeVars, loaded, cache, since, seen, feedState, failing, 
          paused, open, restarts>>

Ages  == 0 .. Cap
Never == -1                    \* no bar yet

Older(a) == IF a = Never \/ a = Cap THEN a ELSE a + 1

Cold == [s \in Symbols |-> [tf \in TF |-> Never]]

Init ==
    /\ phase = [tf \in TF |-> 0]
    /\ alive = TRUE
    /\ served = [tf \in TF |-> 0]
    /\ link \in BOOLEAN
    /\ loaded = FALSE
    /\ cache = Cold
    /\ since = 0
    /\ seen = [tf \in TF |-> Never]
    /\ feedState = "OK"
    /\ failing = FALSE
    /\ paused = FALSE
    /\ open \in SUBSET Symbols
    /\ restarts = 0

--------------------------------------------------------------------------------
(* The provider.                                                           *)

\* A cached series is served until its next bar can have closed.
CurrentForLong(a, tf) == a # Never /\ a <= Halt(tf)                        \* mutant
Current(a, tf) == a # Never /\ a < BarLen[tf]

\* _fetch_klines for every key of `keys`: served from the cache, fetched when the
\* exchange answers (`answered`), or the last good series when it does not.
Fetched(c, keys, answered) ==
    [s \in Symbols |-> [tf \in TF |->
        IF <<s, tf>> \in keys \cap answered /\ ~Current(c[s][tf], tf)
        THEN served[tf] ELSE c[s][tf]]]

\* get_snapshot builds one only from a full set of series and a live order book.
Snapshot(c, s, books) == s \in books /\ \A tf \in TF : c[s][tf] # Never

\* _snapshot_stale.
TooOld(a) == a > GuardBars * BarLen[Signal]

--------------------------------------------------------------------------------
(* The watchdog.                                                           *)

Youngest(S) == CHOOSE a \in S : \A b \in S : a <= b

\* observe: the newest close ever seen, never rewound.
Observed(c, keys) ==
    [tf \in TF |->
        LET ages == {c[s][tf] : s \in {x \in Symbols : <<x, tf>> \in keys}}
                        \cup {seen[tf]}
        IN  IF ages \ {Never} = {} THEN Never ELSE Youngest(ages \ {Never})]

\* ages_ms: a timeframe that never delivered ages from the watchdog's start.
AgeIfSeen(obs, tf) == IF obs[tf] = Never THEN 0 ELSE obs[tf]               \* mutant
Age(obs, tf) == IF obs[tf] = Never THEN since ELSE obs[tf]

\* evaluate: the worst state over the registered timeframes.
HaltedOnBest(obs) == \A tf \in TF : Age(obs, tf) > Halt(tf)                  \* mutant
Halted(obs) == \E tf \in TF : Age(obs, tf) > Halt(tf)
Verdict(obs) ==
    IF Halted(obs) THEN "HALT"
    ELSE IF \E tf \in TF : Age(obs, tf) > Alert(tf) THEN "ALERT" ELSE "OK"

--------------------------------------------------------------------------------
(* The engine.                                                             *)

\* What _cycle scans for entries: nothing when paused, halted or over the
\* exposure cap.
Scanned(breach) == IF paused \/ Halted(seen) \/ breach THEN {} ELSE Symbols

KeysOf(S) == S \X TF
Wanted(S) == {k \in KeysOf(S) : ~Current(cache[k[1]][k[2]], k[2])}

\* What is answered of a set of requests: all of it, or any part on a bad link.
Answers(requests) == {A \in SUBSET requests : link => A = requests}

\* One cycle with what it was answered: scan and enter, manage every open trade
\* (fetching the symbols the scan has no usable snapshot of), observe what was
\* fetched, judge and report.  A trade whose symbol has no snapshot raises: what
\* comes after it in the book is not managed, and nothing is observed or reported.
Pass(scanned, answered, books) ==
    LET c1 == Fetched(cache, KeysOf(scanned), answered)
        usable == {s \in scanned : Snapshot(c1, s, books) /\ ~TooOld(c1[s][Signal])}
    IN  \E entered \in SUBSET (usable \ open) :
        LET trades == open \cup entered
            WithFetched(S) == Fetched(c1, KeysOf(S \ usable), answered)
            ready == {s \in trades : s \in usable \/ Snapshot(WithFetched(trades), s, books)}
            obs   == Observed(WithFetched(trades), KeysOf(scanned \cup trades))
        IN  \/ /\ ready = trades
               /\ \E closed \in SUBSET open : open' = trades \ closed
               /\ cache' = WithFetched(trades)
               /\ seen' = obs
               /\ feedState' = Verdict(obs)
               /\ failing' = FALSE
            \/ \E s \in trades \ ready, reached \in SUBSET ready :
               /\ \E closed \in SUBSET (reached \cap open) : open' = trades \ closed
               /\ cache' = WithFetched(reached \cup {s})
               /\ failing' = TRUE
               /\ UNCHANGED <<seen, feedState>>

Cycle ==
    /\ loaded \/ link
    /\ \E breach \in (IF open = {} THEN {FALSE} ELSE BOOLEAN) :
       LET visited == Scanned(breach) \cup open IN
       \E answered \in Answers(Wanted(visited)), books \in Answers(visited) :
          Pass(Scanned(breach), answered, books)
    /\ loaded' = TRUE
    /\ UNCHANGED <<exchangeVars, since, paused, restarts>>

\* The scan raises while the markets were never loaded: nothing else of the cycle
\* runs, and the run loop sends a health warning.
CycleRaises ==
    /\ ~loaded /\ ~link
    /\ failing' = TRUE
    /\ UNCHANGED <<exchangeVars, loaded, cache, since, seen, feedState, paused,
                   open, restarts>>

\* /pause and /resume.
SetPaused ==
    /\ paused' = ~paused
    /\ UNCHANGED <<exchangeVars, loaded, cache, since, seen, feedState, failing,
                   open, restarts>>

\* A new process: the pause, the caches and the watchdog are memory.
Restart ==
    /\ restarts < MaxRestarts
    /\ restarts' = restarts + 1
    /\ loaded' = FALSE
    /\ cache' = Cold
    /\ since' = 0
    /\ seen' = [tf \in TF |-> Never]
    /\ feedState' = "OK"
    /\ failing' = FALSE
    /\ paused' = FALSE
    /\ UNCHANGED <<exchangeVars, open>>

--------------------------------------------------------------------------------
(* Time and the exchange.                                                  *)

Tick ==
    /\ phase' = [tf \in TF |-> IF phase[tf] + 1 = BarLen[tf] THEN 0 ELSE phase[tf] + 1]
    /\ served' = [tf \in TF |-> IF alive THEN phase'[tf] ELSE Older(served[tf])]
    /\ cache' = [s \in Symbols |-> [tf \in TF |-> Older(cache[s][tf])]]
    /\ since' = Older(since)
    /\ seen' = [tf \in TF |-> Older(seen[tf])]
    /\ UNCHANGED <<alive, link, loaded, feedState, failing, paused,
                   open, restarts>>

FeedDies ==
    /\ alive
    /\ alive' = FALSE
    /\ UNCHANGED <<phase, served, link, loaded, cache, since, seen, feedState,
                   failing, paused, open, restarts>>

FeedRevives ==
    /\ ~alive
    /\ alive' = TRUE
    /\ served' = phase
    /\ UNCHANGED <<phase, link, loaded, cache, since, seen, feedState, failing,
                   paused, open, restarts>>

LinkChanges ==
    /\ link' = ~link
    /\ UNCHANGED <<phase, alive, served, loaded, cache, since, seen, feedState,
                   failing, paused, open, restarts>>

--------------------------------------------------------------------------------

Next == \/ Cycle \/ CycleRaises \/ SetPaused \/ Restart
        \/ Tick \/ FeedDies \/ FeedRevives \/ LinkChanges

Spec == Init /\ [][Next]_vars

\* The run loop starts a cycle every cycle_interval_sec and survives any error of
\* one, and the provider's calls end by their timeouts.
FairSpec == Spec /\ WF_vars(Tick) /\ WF_vars(Cycle \/ CycleRaises)

--------------------------------------------------------------------------------
(* Properties.                                                             *)

\* The types of all variables.
TypeOK ==
    /\ phase \in [TF -> Ages]
    /\ \A tf \in TF : phase[tf] < BarLen[tf]
    /\ served \in [TF -> Ages]
    /\ cache \in [Symbols -> [TF -> Ages \cup {Never}]]
    /\ since \in Ages
    /\ seen \in [TF -> Ages \cup {Never}]
    /\ feedState \in {"OK", "ALERT", "HALT"}
    /\ open \subseteq Symbols
    /\ restarts \in 0 .. MaxRestarts
    /\ {alive, link, loaded, failing, paused} \subseteq BOOLEAN

\* Nothing the engine holds is taken for fresher than the newest bar of the
\* exchange: neither a cached series nor the watchdog's last close, through failed
\* fetches, cache hits and a feed that freezes and comes back.
FreshnessIsReal ==
    \A tf \in TF :
        /\ seen[tf] # Never => seen[tf] >= served[tf]
        /\ \A s \in Symbols : cache[s][tf] # Never => cache[s][tf] >= served[tf]

\* No trade is opened once the exchange has gone without a new bar of some
\* timeframe for longer than its halt threshold, except in the first moments of a
\* process, and none at all when the bar the signal rests on is past the
\* stale-entry guard.
NoEntryOnDeadFeed ==
    [][open' \ open # {} =>
         /\ \A tf \in TF : served[tf] <= Halt(tf) \/ since <= Halt(tf)
         /\ ~TooOld(served[Signal])]_vars

\* A feed that stays dead is reported, as a HALT or as failing cycles, however the
\* link, the pause and the book go.
DeadFeedIsReported ==
    <>[]~alive => <>[](feedState = "HALT" \/ failing)

\* With the feed back and a position to manage, the halt clears for good.
RecoversWhileManaging ==
    <>[](alive /\ link /\ open # {}) => <>[](feedState = "OK")

================================================================================
