--------------------------------- MODULE EnvFile ---------------------------------
(***************************************************************************)
(* The scripts that rewrite .env (update_env.py, apply_fast_paper_env.py,  *)
(* apply_session_env.py, arm_live_env.py) and the configuration the engine *)
(* loads from it (config.py).                                              *)
(*                                                                         *)
(* The file is a sequence of assignments; comments and blank lines pass    *)
(* through every script and are left out. Numbers are in hundredths.       *)
(***************************************************************************)
EXTENDS Integers, Sequences, FiniteSets, FiniteSetsExt, SequencesExt

CONSTANTS
    Found,       \* files the owner starts from
    Example,     \* .env.example
    Requests,    \* what update_env.py is asked for: [key -> value] records
    FastBlock,   \* BLOCK of apply_fast_paper_env.py, the keys looked at
    SessionBlock,
    AllowedKeys, \* ALLOWED_KEYS of update_env.py
    Profile,     \* [key -> default] of the active risk profile, with the plain defaults
    None, Blank, \* an empty value
    MaxRuns,     \* bound: runs of a script
    MaxSecond    \* bound: seconds they are made in

VARIABLES
    file,     \* lines of .env, or None
    backups,  \* [name -> lines]
    second,   \* the clock, as far as the names of the backups tell it
    ran,      \* runs so far
    running,  \* the script that has made its plan, or None
    loaded,   \* what the engine runs with: a configuration, "refused", or None
    written,  \* history: the run the file comes from, or None
    past      \* history: the copies made: the lines, the format of the name, the second

evars == <<file, backups, second, ran, running, loaded, written, past>>

Line(k, v) == [key |-> k, value |-> v]
Keys(lines) == {lines[i].key : i \in DOMAIN lines}
Secrets == {"LIVE_HUMAN_CONFIRM", "BINANCE_API_KEY"}

(***************************************************************************)
(* load_dotenv and Config: the last assignment of a key counts, an empty   *)
(* number is the default.                                                  *)
(***************************************************************************)
Value(lines, k) == IF k \in Keys(lines)
                   THEN lines[Max({i \in DOMAIN lines : lines[i].key = k})].value
                   ELSE None
Setting(lines, k) == LET v == Value(lines, k)
                     IN  IF v = None \/ v = Blank THEN Profile[k] ELSE v
Config(lines) == [k \in DOMAIN Profile |-> Setting(lines, k)]

Lines == IF file = None THEN <<>> ELSE file

Valid(c) == /\ 0 < c.RISK_PCT /\ c.RISK_PCT <= 500
            /\ c.MIN_RISK_PCT <= c.RISK_PCT /\ c.RISK_PCT <= c.MAX_RISK_PCT
            /\ c.MAX_RISK_PCT <= 500
            /\ 0 < c.DAILY_GIVEBACK_FRAC /\ c.DAILY_GIVEBACK_FRAC < 100
            /\ c.AX_MODE \in {"paper", "live"}
\* Gates 1, 2, 4 and 5; the third is the mode, which is confirmed in Telegram.
Armed(c) == /\ c.LIVE_ENABLED = "true" /\ c.LIVE_SEND_ORDERS = "true"
            /\ c.LIVE_HUMAN_CONFIRM # Blank /\ c.BINANCE_API_KEY # Blank

(***************************************************************************)
(* update_env.py.                                                          *)
(***************************************************************************)
\* validate_changes.
Rails(changes) ==
    /\ DOMAIN changes \subseteq AllowedKeys \ Secrets
    /\ "RISK_PCT" \in DOMAIN changes => 0 < changes.RISK_PCT /\ changes.RISK_PCT <= 500
    /\ "DAILY_GIVEBACK_FRAC" \in DOMAIN changes =>
           0 < changes.DAILY_GIVEBACK_FRAC /\ changes.DAILY_GIVEBACK_FRAC < 100

\* apply_to_lines: every assignment of the key is replaced in place, secrets pass
\* through; a missing key is appended if this script's own list has it.
FirstOnly(lines, changes) ==                                                      \* mutant
    [i \in DOMAIN lines |->
        LET k == lines[i].key
        IN  IF k \in DOMAIN changes \ Secrets /\ \A j \in 1 .. i - 1 : lines[j].key # k
            THEN Line(k, changes[k]) ELSE lines[i]]
Replaced(lines, changes) ==
    [i \in DOMAIN lines |->
        LET k == lines[i].key
        IN  IF k \in DOMAIN changes \ Secrets THEN Line(k, changes[k]) ELSE lines[i]]
Again(lines, changes) == DOMAIN changes \cap AllowedKeys                          \* mutant
Missing(lines, changes) == (DOMAIN changes \ Keys(lines)) \cap AllowedKeys
Appended(changes, keys) == SetToSeq({Line(k, changes[k]) : k \in keys})
ApplyToLines(lines, changes) ==
    Replaced(lines, changes) \o Appended(changes, Missing(lines, changes))

(***************************************************************************)
(* arm_live_env.py: _upsert_line, key by key.                              *)
(***************************************************************************)
Upsert(lines, k, v) ==
    IF k \in Keys(lines)
    THEN [i \in DOMAIN lines |-> IF lines[i].key = k THEN Line(k, v) ELSE lines[i]]
    ELSE Append(lines, Line(k, v))
Disarmed(lines) == Upsert(Upsert(lines, "LIVE_ENABLED", "false"), "LIVE_SEND_ORDERS", "false")
KeysPresent(lines) == \E i \in DOMAIN lines :
                          lines[i].key = "BINANCE_API_KEY" /\ lines[i].value # Blank
ArmedLines(lines, canary, token) ==
    LET on == Upsert(Upsert(lines, "LIVE_ENABLED", "true"), "LIVE_SEND_ORDERS", "true")
    IN  Upsert(Upsert(on, "LIVE_CANARY_RISK_PCT", canary), "LIVE_HUMAN_CONFIRM", token)

(***************************************************************************)
(* A run: the plan, the backup, the file truncated, the lines written.     *)
(***************************************************************************)
Idle == running = None /\ ran < MaxRuns
Planned(script, changes, lines, keep) ==
    /\ running' = [script |-> script, changes |-> changes, before |-> Lines, lines |-> lines,
                   keep |-> keep, open |-> FALSE]
    /\ UNCHANGED <<file, backups, second, ran, loaded, written, past>>

Base == IF file = None THEN Example ELSE file
Update(changes, keep) ==
    /\ Idle /\ Rails(changes)
    /\ Planned("update", changes, ApplyToLines(Base, changes), keep)
ApplyFast ==
    /\ Idle
    /\ Planned("fast", FastBlock, ApplyToLines(Base, FastBlock), TRUE)
ApplySession ==
    /\ Idle /\ file # None
    /\ Planned("session", SessionBlock, ApplyToLines(file, SessionBlock), TRUE)
Arm(canary, token) ==
    /\ Idle /\ file # None /\ KeysPresent(file)
    /\ Planned("arm", <<>>, ArmedLines(file, canary, token), TRUE)
Disarm ==
    /\ Idle /\ file # None
    /\ Planned("disarm", <<>>, Disarmed(file), TRUE)

\* copy2 to a name with the second in it, then the file is opened for writing. arm_live_env
\* writes the time its own way; a copy under a name that is taken replaces the one there.
Format(script) == IF script \in {"arm", "disarm"} THEN "zulu" ELSE "plain"
FixedName == <<"plain", 0>>                                                       \* mutant
Stamp == <<Format(running.script), second>>
BackUp ==
    /\ running # None /\ ~running.open
    /\ LET copies == file # None /\ running.keep
       IN  /\ backups' = IF copies
                         THEN [t \in DOMAIN backups \cup {Stamp} |->
                                  IF t = Stamp THEN file ELSE backups[t]]
                         ELSE backups
           /\ past' = IF copies
                      THEN Append(past, [lines |-> file, format |-> Format(running.script),
                                         at |-> second])
                      ELSE past
    /\ running' = [running EXCEPT !.open = TRUE]
    /\ UNCHANGED <<file, second, ran, loaded, written>>
Write ==
    /\ running # None /\ running.open
    /\ file' = running.lines
    /\ written' = running
    /\ running' = None /\ ran' = ran + 1
    /\ UNCHANGED <<backups, second, loaded, past>>
\* The process dies: what was flushed stays, the rest is gone.
Killed ==
    /\ running # None
    /\ IF running.open
       THEN \E n \in 0 .. Len(running.lines) : file' = SubSeq(running.lines, 1, n)
       ELSE UNCHANGED file
    /\ running' = None /\ written' = None /\ ran' = ran + 1
    /\ UNCHANGED <<backups, second, loaded, past>>

\* Time passes, or does not: the next run may be in the same second.
Wait ==
    /\ second < MaxSecond /\ second' = second + 1
    /\ UNCHANGED <<file, backups, ran, running, loaded, written, past>>

Restore(t) ==
    /\ Idle /\ t \in DOMAIN backups
    /\ file' = backups[t] /\ written' = None
    /\ UNCHANGED <<backups, second, ran, running, loaded, past>>

\* The engine starts: load_config, or an AssertionError.
Load ==
    /\ running = None
    /\ loaded' = IF Valid(Config(Lines)) THEN Config(Lines) ELSE "refused"
    /\ UNCHANGED <<file, backups, second, ran, running, written, past>>

Init ==
    /\ file \in Found \cup {None}
    /\ backups = <<>> /\ second = 1 /\ ran = 0 /\ running = None /\ loaded = None
    /\ written = None /\ past = <<>>

Next ==
    \/ ApplyFast \/ ApplySession \/ Disarm \/ BackUp \/ Write \/ Killed \/ Wait \/ Load
    \/ \E r \in Requests, keep \in BOOLEAN : Update(r, keep)
    \/ \E c \in {25, 10000} : Arm(c, "token")
    \/ \E t \in DOMAIN backups : Restore(t)

Spec == Init /\ [][Next]_evars

(***************************************************************************)
(* Properties.                                                             *)
(***************************************************************************)
\* Whatever the file held, the paper block and --disarm leave one that loads disarmed,
\* no other script but the arming one makes a file load armed that did not, and that
\* one never touches the mode (apply_fast_paper_env.py: "NEVER arms live"; update_env.py:
\* "It NEVER sets AX_MODE=live or LIVE_ENABLED=true"; arm_live_env.py: "this script
\* never writes AX_MODE").
NeverArms ==
    written # None =>
        CASE written.script \in {"fast", "disarm"} -> ~Armed(Config(file))
          [] written.script = "arm" -> Config(file).AX_MODE = Config(written.before).AX_MODE
          [] OTHER -> Armed(Config(file)) => Armed(Config(written.before))

\* Whatever a script replaced is in a backup, the runs without one aside, and wherever
\* a run was killed (update_env.py: "Backs up the existing .env ... before writing"),
\* unless a later run of the same second, whose name has the same format, was backed up
\* over it: only then, and the copy of that later run is there.
NothingLost ==
    \A i \in DOMAIN past :
        \/ \E t \in DOMAIN backups : backups[t] = past[i].lines
        \/ \E j \in DOMAIN past : /\ i < j /\ past[j].at = past[i].at
                                  /\ past[j].format = past[i].format

\* A run repeated changes nothing more (update_env.py: "Running twice is a no-op").
RunsOnce ==
    (written # None /\ written.changes # <<>>) => ApplyToLines(file, written.changes) = file

\* All three: the scripts keep the file safe.
EnvFileIsSafe == NeverArms /\ NothingLost /\ RunsOnce
================================================================================
