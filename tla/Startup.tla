------------------------------ MODULE Startup ------------------------------
(***************************************************************************)
(* What both processes share besides traffic.db's live tables: config.yaml *)
(* (config.py), the audit log in log.db, and Database._initialize, which   *)
(* each process runs whenever it starts and which moves the data of an     *)
(* older version: app_config to config.yaml, audit_logs to log.db, and the *)
(* switch of a rule from policy_states into the rule.                      *)
(*                                                                         *)
(* The processes start at the same time, and each can be killed between    *)
(* any two steps; Docker starts it again.  A step is one statement or one  *)
(* system call whose effect another process can see: in Python's sqlite3   *)
(* an ALTER or DROP commits by itself, an UPDATE or INSERT with the block. *)
(* A statement that meets a table another process has just dropped, or a   *)
(* column it has just added, raises, and the process ends.                 *)
(*                                                                         *)
(* Abstractions.  A configuration is a value; an empty file is parsed as   *)
(* the defaults.  flush() writes the file's 200 bytes at once.  Nothing    *)
(* removes config.yaml while a process runs (it is a bind mount), so that  *)
(* load_app_config always finds it once _initialize has been through.      *)
(***************************************************************************)
EXTENDS Integers, FiniteSets

CONSTANTS
    Procs,         \* the collector and the dashboard
    Dashboard,     \* the one that saves settings and clears the log
    Default,       \* DEFAULT_CONFIG
    Legacy,        \* the settings in app_config
    Choices,       \* settings an administrator saves
    Missing,       \* there is no config.yaml
    Empty,         \* config.yaml has no content
    NoTable,       \* a table of the older version is gone
    NoView,
    NoOne,
    Found,         \* contents of config.yaml the first start may meet
    LegacyEntries, \* ids of the older version's audit entries
    LogLimit,      \* AUDIT_LOG_LIMIT
    MaxEntry,      \* bound of the ids of audit entries
    MaxSaves,      \* bound of the settings saved
    MaxKills       \* bound of the kills

Configs == {Default, Legacy} \cup Choices

ASSUME StartupAssumption ==
    /\ Dashboard \in Procs /\ NoOne \notin Procs
    /\ Missing # Empty /\ {Missing, Empty} \cap Configs = {}
    /\ Found \subseteq Configs \cup {Missing}
    /\ NoTable \notin Configs \cup {LegacyEntries} /\ NoView \notin Configs
    /\ LogLimit \in Nat \ {0}
    /\ MaxEntry \in Nat /\ MaxSaves \in Nat /\ MaxKills \in Nat
    /\ LegacyEntries \in SUBSET (1 .. MaxEntry)
    /\ IsFiniteSet(LegacyEntries)

VARIABLES
    file,        \* config.yaml
    writer,      \* who holds its exclusive lock
    appConfig,   \* app_config: the old settings, or NoTable
    column,      \* quota_rules.enabled exists
    enabled,     \* its value for a rule policy_states says is switched off
    legacyLogs,  \* audit_logs in traffic.db: ids, or NoTable
    logs,        \* audit_logs in log.db: ids
    lastId,      \* its AUTOINCREMENT counter
    pc,
    legacy,      \* a process's legacy_config, NoTable if there was no table
    saving,      \* the settings it is saving
    rows,        \* the audit entries it is moving
    view,        \* the settings it works with
    found,       \* history: the config.yaml the first start met
    before,      \* history: the settings the save under way replaces
    torn,        \* history: one was killed before it filled an empty file
    unfilled,    \* history: one was killed after ALTER, before the UPDATE
    accepted,    \* history: audit entries written and not cleared
    saves, kills

fileVars    == <<file, writer, before>>
tableVars   == <<appConfig, column, enabled, legacyLogs>>
logVars     == <<logs, lastId, accepted>>
localVars   == <<pc, legacy, saving, rows, view>>
historyVars == <<found, torn, unfilled, saves, kills>>
vars == <<fileVars, tableVars, logVars, localVars, historyVars>>

Top(S) == CHOOSE n \in S \cup {0} : \A m \in S : m <= n
Newer(a, b) == IF a > b THEN a ELSE b

\* parse_config_yaml: what is not in the file has its default.
Parse(f) == IF f \in {Missing, Empty} THEN Default ELSE f

Goto(p, step) == pc' = [pc EXCEPT ![p] = step]

\* The first start after the upgrade.
Init ==
    /\ found \in Found
    /\ file = found
    /\ writer = NoOne
    /\ appConfig = Legacy
    /\ column = FALSE
    /\ enabled = 1
    /\ legacyLogs = LegacyEntries
    /\ logs = {}
    /\ lastId = 0
    /\ pc = [p \in Procs |-> "down"]
    /\ legacy = [p \in Procs |-> NoTable]
    /\ saving = [p \in Procs |-> Default]
    /\ rows = [p \in Procs |-> {}]
    /\ view = [p \in Procs |-> NoView]
    /\ before = Default
    /\ torn = FALSE
    /\ unfilled = FALSE
    /\ accepted = LegacyEntries
    /\ saves = 0
    /\ kills = 0

----------------------------------------------------------------------------
(* A process ends: at a kill, or because a statement raised while it       *)
(* started.                                                                *)

Ended(p) ==
    /\ pc' = [pc EXCEPT ![p] = "down"]
    /\ legacy' = [legacy EXCEPT ![p] = NoTable]
    /\ saving' = [saving EXCEPT ![p] = Default]
    /\ rows' = [rows EXCEPT ![p] = {}]
    /\ view' = [view EXCEPT ![p] = NoView]

Raise(p) == Ended(p) /\ UNCHANGED <<fileVars, tableVars, logVars, historyVars>>

\* The kernel releases the lock of a process that is gone.
Kill(p) ==
    /\ pc[p] # "down"
    /\ kills < MaxKills
    /\ Ended(p)
    /\ kills' = kills + 1
    /\ writer' = IF writer = p THEN NoOne ELSE writer
    /\ torn' = (torn \/ (file = Empty /\ pc[p] \in {"truncate", "write"}))
    /\ unfilled' = (unfilled \/ pc[p] = "backfill")
    /\ UNCHANGED <<file, before, tableVars, logVars, found, saves>>

----------------------------------------------------------------------------
(* _initialize: the schema *)

\* CREATE TABLE IF NOT EXISTS for every table, then the look for app_config.
LookForAppConfig(p) ==
    /\ pc[p] = "down"
    /\ Goto(p, IF appConfig = NoTable THEN "columns" ELSE "settings")
    /\ UNCHANGED <<fileVars, tableVars, logVars, historyVars,
                   legacy, saving, rows, view>>

ReadAppConfig(p) ==
    /\ pc[p] = "settings"
    /\ IF appConfig = NoTable THEN Raise(p)
       ELSE /\ legacy' = [legacy EXCEPT ![p] = appConfig]
            /\ Goto(p, "columns")
            /\ UNCHANGED <<fileVars, tableVars, logVars, historyVars,
                           saving, rows, view>>

\* PRAGMA table_info(quota_rules)
LookForColumn(p) ==
    /\ pc[p] = "columns"
    /\ Goto(p, IF column THEN "file" ELSE "alter")
    /\ UNCHANGED <<fileVars, tableVars, logVars, historyVars,
                   legacy, saving, rows, view>>

\* ALTER TABLE quota_rules ADD COLUMN enabled ... DEFAULT 1
AddColumn(p) ==
    /\ pc[p] = "alter"
    /\ IF column THEN Raise(p)
       ELSE /\ column' = TRUE
            /\ enabled' = 1
            /\ Goto(p, "backfill")
            /\ UNCHANGED <<fileVars, appConfig, legacyLogs, logVars,
                           historyVars, legacy, saving, rows, view>>

\* Mutant: the update takes the default where it finds a state.
BackfillColumnDefault(p) ==
    /\ pc[p] = "backfill"
    /\ enabled' = 1
    /\ Goto(p, "file")
    /\ UNCHANGED <<fileVars, appConfig, column, legacyLogs, logVars,
                   historyVars, legacy, saving, rows, view>>

\* UPDATE quota_rules SET enabled from policy_states, and the commit
BackfillColumn(p) ==
    /\ pc[p] = "backfill"
    /\ enabled' = 0
    /\ Goto(p, "file")
    /\ UNCHANGED <<fileVars, appConfig, column, legacyLogs, logVars,
                   historyVars, legacy, saving, rows, view>>

----------------------------------------------------------------------------
(* _initialize: app_config to config.yaml *)

\* Mutant: the settings to move are not looked at.
LookForFileDefaults(p) ==
    /\ pc[p] = "file"
    /\ IF file = Missing
       THEN /\ saving' = [saving EXCEPT ![p] = Default]
            /\ Goto(p, "open")
       ELSE Goto(p, "dropConfig") /\ UNCHANGED saving
    /\ UNCHANGED <<fileVars, tableVars, logVars, historyVars, legacy, rows, view>>

\* os.path.exists(config_path); config_from_storage({}) is the defaults.
LookForFile(p) ==
    /\ pc[p] = "file"
    /\ IF file = Missing
       THEN /\ saving' = [saving EXCEPT ![p] =
                            IF legacy[p] = NoTable THEN Default ELSE legacy[p]]
            /\ Goto(p, "open")
       ELSE Goto(p, "dropConfig") /\ UNCHANGED saving
    /\ UNCHANGED <<fileVars, tableVars, logVars, historyVars, legacy, rows, view>>

DropAppConfig(p) ==
    /\ pc[p] = "dropConfig"
    /\ appConfig' = IF legacy[p] = NoTable THEN appConfig ELSE NoTable
    /\ Goto(p, "logs")
    /\ UNCHANGED <<fileVars, column, enabled, legacyLogs, logVars, historyVars,
                   legacy, saving, rows, view>>

----------------------------------------------------------------------------
(* _migrate_legacy_audit_logs: three transactions in two databases *)

LookForLogs(p) ==
    /\ pc[p] = "logs"
    /\ Goto(p, IF legacyLogs = NoTable THEN "load" ELSE "logRows")
    /\ UNCHANGED <<fileVars, tableVars, logVars, historyVars,
                   legacy, saving, rows, view>>

ReadLogRows(p) ==
    /\ pc[p] = "logRows"
    /\ IF legacyLogs = NoTable THEN Raise(p)
       ELSE /\ rows' = [rows EXCEPT ![p] = legacyLogs]
            /\ Goto(p, "copyLogs")
            /\ UNCHANGED <<fileVars, tableVars, logVars, historyVars,
                           legacy, saving, view>>

\* INSERT OR IGNORE with the old ids, which the counter follows.
CopyLogs(p) ==
    /\ pc[p] = "copyLogs"
    /\ logs' = logs \cup rows[p]
    /\ lastId' = Newer(lastId, Top(rows[p]))
    /\ Goto(p, "dropLogs")
    /\ UNCHANGED <<fileVars, tableVars, accepted, historyVars,
                   legacy, saving, rows, view>>

DropLogs(p) ==
    /\ pc[p] = "dropLogs"
    /\ legacyLogs' = NoTable
    /\ rows' = [rows EXCEPT ![p] = {}]
    /\ Goto(p, "load")
    /\ UNCHANGED <<fileVars, appConfig, column, enabled, logVars, historyVars,
                   legacy, saving, view>>

----------------------------------------------------------------------------
(* config.yaml.  save_app_config is three steps: open("a+") creates the    *)
(* file before the lock is there to be taken.                              *)

\* update_app_config, of the settings page
UpdateAppConfig(c) ==
    /\ pc[Dashboard] = "up"
    /\ saves < MaxSaves
    /\ saves' = saves + 1
    /\ saving' = [saving EXCEPT ![Dashboard] = c]
    /\ Goto(Dashboard, "open")
    /\ UNCHANGED <<fileVars, tableVars, logVars, found, torn, unfilled,
                   kills, legacy, rows, view>>

OpenForAppend(p) ==
    /\ pc[p] = "open"
    /\ file' = IF file = Missing THEN Empty ELSE file
    /\ Goto(p, "truncate")
    /\ UNCHANGED <<writer, before, tableVars, logVars, historyVars,
                   legacy, saving, rows, view>>

\* Mutant: the lock is not waited for (LOCK_NB, and the error ignored).
LockAndTruncateAnyway(p) ==
    /\ pc[p] = "truncate"
    /\ writer' = p
    /\ before' = Parse(file)
    /\ file' = Empty
    /\ Goto(p, "write")
    /\ UNCHANGED <<tableVars, logVars, historyVars, legacy, saving, rows, view>>

\* flock(LOCK_EX), then truncate()
LockAndTruncate(p) ==
    /\ pc[p] = "truncate"
    /\ writer = NoOne
    /\ writer' = p
    /\ before' = Parse(file)
    /\ file' = Empty
    /\ Goto(p, "write")
    /\ UNCHANGED <<tableVars, logVars, historyVars, legacy, saving, rows, view>>

\* write, flush and fsync; closing the file releases the lock.  A process
\* that is up goes on with what it saved, one that starts has still to load.
Write(p) ==
    /\ pc[p] = "write"
    /\ file' = saving[p]
    /\ writer' = NoOne
    /\ IF view[p] = NoView
       THEN Goto(p, "dropConfig") /\ UNCHANGED view
       ELSE Goto(p, "up") /\ view' = [view EXCEPT ![p] = saving[p]]
    /\ saving' = [saving EXCEPT ![p] = Default]
    /\ UNCHANGED <<before, tableVars, logVars, historyVars, legacy, rows>>

\* Mutant: the settings are loaded at the start only.
GetAppConfigOnce(p) ==
    /\ pc[p] = "load"
    /\ writer = NoOne
    /\ view' = [view EXCEPT ![p] = Parse(file)]
    /\ legacy' = [legacy EXCEPT ![p] = NoTable]
    /\ Goto(p, "up")
    /\ UNCHANGED <<fileVars, tableVars, logVars, historyVars, saving, rows>>

\* Mutant: the file is read without the shared lock.
GetAppConfigUnlocked(p) ==
    /\ pc[p] \in {"load", "up"}
    /\ view' = [view EXCEPT ![p] = Parse(file)]
    /\ legacy' = [legacy EXCEPT ![p] = NoTable]
    /\ Goto(p, "up")
    /\ UNCHANGED <<fileVars, tableVars, logVars, historyVars, saving, rows>>

\* get_app_config: at the end of a start, then in every cycle and request.
\* The shared lock is to be had while nobody holds the exclusive one.
GetAppConfig(p) ==
    /\ pc[p] \in {"load", "up"}
    /\ writer = NoOne
    /\ view' = [view EXCEPT ![p] = Parse(file)]
    /\ legacy' = [legacy EXCEPT ![p] = NoTable]
    /\ Goto(p, "up")
    /\ UNCHANGED <<fileVars, tableVars, logVars, historyVars, saving, rows>>

----------------------------------------------------------------------------
(* The audit log, in processes that have started *)

\* Mutant: the limit is off by one.
TrimmedTooFar(L) == {e \in L : e > Top(L) - LogLimit + 1}

\* DELETE ... WHERE id <= MAX(id) - AUDIT_LOG_LIMIT
Trimmed(L) == {e \in L : e > Top(L) - LogLimit}

AuditLog(p) ==
    /\ pc[p] = "up"
    /\ lastId < MaxEntry
    /\ lastId' = lastId + 1
    /\ logs' = Trimmed(logs \cup {lastId + 1})
    /\ accepted' = accepted \cup {lastId + 1}
    /\ UNCHANGED <<fileVars, tableVars, localVars, historyVars>>

ClearAuditLogs ==
    /\ pc[Dashboard] = "up"
    /\ logs' = {}
    /\ accepted' = {}
    /\ UNCHANGED <<fileVars, tableVars, lastId, localVars, historyVars>>

----------------------------------------------------------------------------
\* What a process does once it has been started, or has begun to save.
Proceed(p) ==
    \/ LookForAppConfig(p) \/ ReadAppConfig(p)
    \/ LookForColumn(p) \/ AddColumn(p) \/ BackfillColumn(p)
    \/ LookForFile(p) \/ DropAppConfig(p)
    \/ LookForLogs(p) \/ ReadLogRows(p) \/ CopyLogs(p) \/ DropLogs(p)
    \/ OpenForAppend(p) \/ LockAndTruncate(p) \/ Write(p)
    \/ GetAppConfig(p)

Next ==
    \/ \E p \in Procs : Proceed(p) \/ AuditLog(p) \/ Kill(p)
    \/ \E c \in Choices : UpdateAppConfig(c)
    \/ ClearAuditLogs

Spec == Init /\ [][Next]_vars

\* restart: unless-stopped starts a process again, and each loads the
\* settings again and again.
Fairness == \A p \in Procs : WF_vars(Proceed(p))

FairSpec == Spec /\ Fairness

----------------------------------------------------------------------------
(* Properties *)

Steps == {"down", "settings", "columns", "alter", "backfill", "file", "open",
          "truncate", "write", "dropConfig", "logs", "logRows", "copyLogs",
          "dropLogs", "load", "up"}

\* The file, the old tables and what a process carries from step to step;
\* the lock is held exactly while the file is truncated and not written.
TypeOK ==
    /\ file \in Configs \cup {Missing, Empty}
    /\ writer \in Procs \cup {NoOne}
    /\ appConfig \in {Legacy, NoTable}
    /\ column \in BOOLEAN /\ enabled \in {0, 1}
    /\ legacyLogs \in {LegacyEntries, NoTable}
    /\ logs \subseteq 1 .. MaxEntry
    /\ lastId \in 0 .. MaxEntry
    /\ pc \in [Procs -> Steps]
    /\ legacy \in [Procs -> {Legacy, NoTable}]
    /\ saving \in [Procs -> Configs]
    /\ rows \in [Procs -> {{}, LegacyEntries}]
    /\ view \in [Procs -> Configs \cup {NoView}]
    /\ found \in Found /\ before \in Configs
    /\ \A p \in Procs : pc[p] = "write" <=> writer = p

\* Where there was no config.yaml, the settings of the older version, or
\* later ones, survive both processes starting at once and stopping anywhere
\* but in a save: the table that holds them goes only when the file has them
\* or is about to.
SettingsKept ==
    ~torn /\ found = Missing =>
      \/ appConfig # NoTable
      \/ file \in {Legacy} \cup Choices
      \/ \E p \in Procs : /\ pc[p] \in {"truncate", "write"}
                          /\ saving[p] \in {Legacy} \cup Choices

\* "runtime settings stored in the database are automatically migrated to
\* YAML, after which the old configuration table is removed"
SettingsMigrated ==
    appConfig = NoTable /\ saves = 0 /\ ~torn =>
      \/ file = Legacy
      \/ \E p \in Procs : pc[p] \in {"truncate", "write"} /\ saving[p] = Legacy

\* A rule that was switched off is off once the upgrade is through, unless a
\* process was killed between the ALTER and the UPDATE.
SwitchKept ==
    /\ column /\ ~unfilled
    /\ \A p \in Procs : pc[p] # "backfill"
    => enabled = 0

\* An audit entry is never lost on its way to log.db, whoever is killed and
\* whoever moves it again: the newest LogLimit entries since the last
\* clearing are in the log, or still in the old table.
EntriesKept ==
    \A e \in accepted :
      \/ e \in logs
      \/ legacyLogs # NoTable /\ e \in legacyLogs
      \/ e <= lastId - LogLimit

\* config.yaml behaves like settings that change as a whole: nobody loads
\* the truncated file of another's save.
Whole == INSTANCE Settings
           WITH content <- IF writer = NoOne THEN Parse(file) ELSE before
ImplementsSettings == Whole!Spec

\* Settings that are in the file to stay are what every process works with
\* in the end, also if it was killed, or lost a race with the other's
\* migration and had to start again.
SettingsApplied ==
    \A p \in Procs, c \in Configs :
      <>[](writer = NoOne /\ file = c) => <>[](view[p] = c)
============================================================================
