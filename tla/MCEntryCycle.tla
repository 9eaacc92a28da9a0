------------------------------ MODULE MCEntryCycle ------------------------------
(***************************************************************************)
(* The entry side of the cycle and the daily profit guard on small         *)
(* instances.  A behaviour is of one of the two; the other stays as it     *)
(* began.                                                                  *)
(***************************************************************************)
EXTENDS EntryCycle, DailyGuard, TLC

VARIABLE runs   \* "entries" or "guard"

\* Three symbols and sizes; a mark doubles or stays.
SymbolSet == {"s1", "s2", "s3"}
AnySize   == 1 .. 3
AnyMark   == {1, 2}

\* The static map puts two of the symbols in a cluster; the correlation controller
\* may put none in one.
Maps == {[s \in SymbolSet |-> IF s = "s3" THEN NoCluster ELSE "major"],
         [s \in SymbolSet |-> NoCluster]}

\* Two positions around a target of 2.
MCProfits == {-2, 0, 3}
MCTransfers == {-1, 5}
Interchangeable == Permutations(Coins)

DayInit ==
    /\ Init /\ GuardInit
    /\ runs \in {"entries", "guard"}
    /\ runs = "guard" => balance = 1 /\ ~ranking
DayNext ==
    \/ runs = "entries" /\ Next /\ UNCHANGED <<guardVars, runs>>
    \/ runs = "guard" /\ GuardNext /\ UNCHANGED <<vars, runs>>
DaySpec == DayInit /\ [][DayNext]_<<vars, guardVars, runs>>
================================================================================
