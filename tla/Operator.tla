--------------------------------- MODULE Operator ---------------------------------
(***************************************************************************)
(* What stands between the process and its operator, side by side: the     *)
(* view of the account with its audit (Account), the messages (Alerts),    *)
(* the scripts that write .env (EnvFile) and the database file over its    *)
(* life (Database). The four share no variable. One that does not run is   *)
(* parked: its variables are Absent or empty, and stay so.                 *)
(***************************************************************************)
EXTENDS Integers, Sequences, FiniteSets

CONSTANTS
    Absent,
    Universe, Listings, EnvGates,                                  \* Account
    Day, Offset, Quiet, Week, ReportFrom, DigestEvery, Levels,     \* Alerts
    LossCap, Target, Headroom, Worlds, RowMarks, DayPnls, MaxHour,
    Found, Example, Requests, FastBlock, SessionBlock,             \* EnvFile
    AllowedKeys, Profile, Blank, MaxRuns, MaxSecond,
    Files, EpochLabels, StartMoney, DealPnls, MaxTime, MaxDeals, MaxShadows \* Database

VARIABLES
    keys, envGates, engineMode, adapterTripped, withdraw, warmed, cache, thread, begun,
    lastStatus, hb, lastTold, heard, crossed, synced, report,
    hour, stage, world, row, gained, latch, lastWord, said, repeated, warnings,
    file, backups, second, ran, running, loaded, written, replaced,
    dbfile, dotenv, job, dbStep, mainFile, copies, copied, time, torn, labels, unsaved, base

accountVars == <<keys, envGates, engineMode, adapterTripped, withdraw, warmed, cache, thread,
                 begun, lastStatus, hb, lastTold, heard, crossed, synced, report>>
alertVars == <<hour, stage, world, row, gained, latch, lastWord, said, repeated, warnings>>
envVars == <<file, backups, second, ran, running, loaded, written, replaced>>
dbVars == <<dbfile, dotenv, job, dbStep, mainFile, copies, copied, time, torn, labels, unsaved,
            base>>
operatorVars == <<accountVars, alertVars, envVars, dbVars>>

B == INSTANCE Account WITH
        None <- Absent, Markets <- Listings, gates <- envGates, mode <- engineMode,
        tripped <- adapterTripped, last <- lastStatus, told <- lastTold
A == INSTANCE Alerts WITH
        None <- Absent, MaxNow <- MaxHour, Budget <- LossCap, Room <- Headroom,
        Rows <- RowMarks, Pnls <- DayPnls, now <- hour, told <- lastWord, booked <- gained
E == INSTANCE EnvFile WITH None <- Absent, past <- replaced
D == INSTANCE Database WITH
        None <- Absent, Labels <- EpochLabels, Initial <- StartMoney, Results <- DealPnls,
        MaxClock <- MaxTime, MaxTrades <- MaxDeals, disk <- dbfile, env <- dotenv,
        at <- dbStep, main <- mainFile, clock <- time, past <- labels, lost <- unsaved

AccountRuns  == keys # Absent
AlertsRun    == hour # Absent
EnvRuns      == second # Absent
DatabaseRuns == time # Absent

AccountParked ==
    /\ keys = Absent /\ envGates = {} /\ engineMode = Absent /\ adapterTripped = Absent
    /\ withdraw = Absent /\ warmed = Absent /\ cache = {} /\ thread = Absent
    /\ begun = Absent /\ lastStatus = Absent /\ hb = Absent /\ lastTold = Absent
    /\ heard = Absent /\ crossed = {} /\ synced = Absent /\ report = Absent
AlertsParked ==
    /\ hour = Absent /\ stage = Absent /\ world = Absent /\ row = Absent /\ gained = Absent
    /\ latch = Absent /\ lastWord = Absent /\ said = Absent /\ repeated = Absent
    /\ warnings = Absent
EnvParked ==
    /\ file = Absent /\ backups = <<>> /\ second = Absent /\ ran = Absent
    /\ running = Absent /\ loaded = Absent /\ written = Absent /\ replaced = <<>>
DatabaseParked ==
    /\ dbfile = Absent /\ dotenv = Absent /\ job = Absent /\ dbStep = Absent
    /\ mainFile = {} /\ copies = {} /\ copied = {} /\ time = Absent
    /\ torn = {} /\ labels = {} /\ unsaved = {} /\ base = Absent

AccountStep  == AccountRuns /\ B!Next /\ UNCHANGED <<alertVars, envVars, dbVars>>
AlertsStep   == AlertsRun /\ A!Next /\ UNCHANGED <<accountVars, envVars, dbVars>>
EnvStep      == EnvRuns /\ E!Next /\ UNCHANGED <<accountVars, alertVars, dbVars>>
DatabaseStep == DatabaseRuns /\ D!Next /\ UNCHANGED <<accountVars, alertVars, envVars>>

OperatorInit ==
    /\ B!Init \/ AccountParked
    /\ A!Init \/ AlertsParked
    /\ E!Init \/ EnvParked
    /\ D!Init \/ DatabaseParked
OperatorNext == AccountStep \/ AlertsStep \/ EnvStep \/ DatabaseStep
OperatorSpec == OperatorInit /\ [][OperatorNext]_operatorVars

(***************************************************************************)
(* Properties.                                                             *)
(***************************************************************************)
\* Account: EveryTransitionTold, and ReadyWasTrue.
AccountIsTrue == AccountRuns => B!AccountIsTrue
\* Alerts: WarnedOnce, and OncePerDay.
SaidOnce == AlertsRun => A!SaidOnce
\* Alerts.Informed.
Informed == AlertsRun => A!Informed
\* EnvFile: NeverArms, NothingLost, and RunsOnce.
EnvFileIsSafe == EnvRuns => E!EnvFileIsSafe
\* Database.EpochsApart.
EpochsApart == DatabaseRuns => D!EpochsApart
\* Database: ResetIsWhole, and MigratedOnce.
FileIsWhole == DatabaseRuns => D!ResetIsWhole /\ D!MigratedOnce
================================================================================
