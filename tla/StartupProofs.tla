--------------------------- MODULE StartupProofs ---------------------------
(* Starts, saves and audit entries for every set of processes, settings and *)
(* old entries.                                                             *)
EXTENDS Startup, WellFoundedInduction, TLAPS

----------------------------------------------------------------------------
(* The newest entry of a log *)

\* A log within bounds has a newest entry, or is empty.
LEMMA TopIsNewest ==
    ASSUME NEW n \in Nat, NEW S \in SUBSET (1 .. n)
    PROVE  Top(S) \in S \cup {0} /\ \A m \in S : m <= Top(S)
<1> DEFINE Bounds == {k \in Nat : \A m \in S : m <= k}
<1>1. Bounds \subseteq Nat /\ n \in Bounds
  OBVIOUS
<1>2. PICK k \in Bounds : \A j \in Bounds : <<j, k>> \notin OpToRel(<, Nat)
  <2> HIDE DEF Bounds
  <2> QED BY <1>1, WFMin, NatLessThanWellFounded, Zenon
<1>3. \A j \in Bounds : ~(j < k)
  <2> HIDE DEF Bounds
  <2> QED BY <1>1, <1>2, Zenon DEF OpToRel
<1>4. k \in S \cup {0}
  <2> SUFFICES ASSUME k \notin S, k # 0 PROVE FALSE
    OBVIOUS
  <2>1. k - 1 \in Bounds
    OBVIOUS
  <2> QED BY <1>3, <2>1
<1>5. \A m \in S : m <= k
  OBVIOUS
<1> HIDE DEF Bounds
<1> QED BY <1>4, <1>5 DEF Top

\* The entries a migration brings, and the counter that follows them.
LEMMA CounterFollows ==
    ASSUME TypeOK, NEW p \in Procs
    PROVE  /\ rows[p] \subseteq 1 .. MaxEntry
           /\ Newer(lastId, Top(rows[p])) \in lastId .. MaxEntry
           /\ rows[p] \subseteq 1 .. Newer(lastId, Top(rows[p]))
<1>1. rows[p] \in SUBSET (1 .. MaxEntry) /\ MaxEntry \in Nat
  BY StartupAssumption DEF TypeOK
<1>2. Top(rows[p]) \in rows[p] \cup {0} /\ \A m \in rows[p] : m <= Top(rows[p])
  BY <1>1, TopIsNewest
<1>3. Top(rows[p]) \in 0 .. MaxEntry /\ lastId \in 0 .. MaxEntry
  BY <1>1, <1>2 DEF TypeOK
<1> HIDE DEF Top
<1> QED BY <1>1, <1>2, <1>3 DEF Newer

----------------------------------------------------------------------------
(* Types *)

\* Whatever the file holds, it is read as settings.
LEMMA ParseType ==
    ASSUME NEW f \in Configs \cup {Missing, Empty} PROVE Parse(f) \in Configs
BY DEF Parse, Configs

\* A process that ends holds nothing.
LEMMA EndedType ==
    ASSUME TypeOK, NEW p \in Procs, Ended(p)
    PROVE  /\ pc' \in [Procs -> Steps]
           /\ legacy' \in [Procs -> {Legacy, NoTable}]
           /\ saving' \in [Procs -> Configs]
           /\ rows' \in [Procs -> {{}, LegacyEntries}]
           /\ view' \in [Procs -> Configs \cup {NoView}]
           /\ \A q \in Procs : pc'[q] = "write" <=> q # p /\ pc[q] = "write"
BY DEF TypeOK, Ended, Steps, Configs

\* Starting, saving, migrating and logging keep the types, and the lock is
\* held exactly by a process between truncating the file and filling it.
THEOREM TypeCorrect == Spec => []TypeOK
<1> USE DEF fileVars, tableVars, logVars, localVars, historyVars
<1>1. Init => TypeOK
  <2> SUFFICES ASSUME Init PROVE TypeOK
    OBVIOUS
  <2>1. /\ pc \in [Procs -> Steps]
        /\ legacy \in [Procs -> {Legacy, NoTable}]
        /\ saving \in [Procs -> Configs]
        /\ rows \in [Procs -> {{}, LegacyEntries}]
        /\ view \in [Procs -> Configs \cup {NoView}]
        /\ \A p \in Procs : pc[p] = "write" <=> writer = p
    BY StartupAssumption DEF Init, Configs, Steps
  <2>2. file \in Configs \cup {Missing, Empty} /\ found \in Found
    BY StartupAssumption DEF Init
  <2>3. lastId \in 0 .. MaxEntry /\ logs \subseteq 1 .. MaxEntry
    BY StartupAssumption DEF Init
  <2> QED BY <2>1, <2>2, <2>3 DEF Init, TypeOK, Configs
<1>2. TypeOK /\ [Next]_vars => TypeOK'
  <2> SUFFICES ASSUME TypeOK, [Next]_vars PROVE TypeOK'
    OBVIOUS
  <2>1. CASE UNCHANGED vars
    BY <2>1 DEF TypeOK, vars
  <2>2. ASSUME NEW p \in Procs, Raise(p), pc[p] # "write" PROVE TypeOK'
    BY <2>2, EndedType DEF Raise, TypeOK
  <2>3. ASSUME NEW p \in Procs, Kill(p) PROVE TypeOK'
    <3>1. writer' \in Procs \cup {NoOne}
      BY <2>3 DEF Kill, TypeOK
    <3>2. \A q \in Procs : pc'[q] = "write" <=> writer' = q
      BY <2>3, EndedType, StartupAssumption DEF Kill, TypeOK
    <3> QED BY <2>3, <3>1, <3>2, EndedType DEF Kill, TypeOK
  <2>4. ASSUME NEW p \in Procs, LookForAppConfig(p) PROVE TypeOK'
    BY <2>4 DEF LookForAppConfig, Goto, TypeOK, Steps
  <2>5. ASSUME NEW p \in Procs, ReadAppConfig(p) PROVE TypeOK'
    BY <2>2, <2>5 DEF ReadAppConfig, Goto, TypeOK, Steps
  <2>6. ASSUME NEW p \in Procs, LookForColumn(p) PROVE TypeOK'
    BY <2>6 DEF LookForColumn, Goto, TypeOK, Steps
  <2>7. ASSUME NEW p \in Procs, AddColumn(p) PROVE TypeOK'
    BY <2>2, <2>7 DEF AddColumn, Goto, TypeOK, Steps
  <2>8. ASSUME NEW p \in Procs, BackfillColumn(p) PROVE TypeOK'
    BY <2>8 DEF BackfillColumn, Goto, TypeOK, Steps
  <2>9. ASSUME NEW p \in Procs, LookForFile(p) PROVE TypeOK'
    BY <2>9 DEF LookForFile, Goto, TypeOK, Steps, Configs
  <2>10. ASSUME NEW p \in Procs, DropAppConfig(p) PROVE TypeOK'
    BY <2>10 DEF DropAppConfig, Goto, TypeOK, Steps
  <2>11. ASSUME NEW p \in Procs, LookForLogs(p) PROVE TypeOK'
    BY <2>11 DEF LookForLogs, Goto, TypeOK, Steps
  <2>12. ASSUME NEW p \in Procs, ReadLogRows(p) PROVE TypeOK'
    BY <2>2, <2>12 DEF ReadLogRows, Goto, TypeOK, Steps
  <2>13. ASSUME NEW p \in Procs, CopyLogs(p) PROVE TypeOK'
    <3>1. logs' \subseteq 1 .. MaxEntry /\ lastId' \in 0 .. MaxEntry
      <4>1. lastId \in 0 .. MaxEntry /\ logs \subseteq 1 .. MaxEntry
        BY DEF TypeOK
      <4>2. /\ rows[p] \subseteq 1 .. MaxEntry
            /\ Newer(lastId, Top(rows[p])) \in 0 .. MaxEntry
        BY <4>1, CounterFollows
      <4> HIDE DEF Top
      <4> QED BY <2>13, <4>1, <4>2 DEF CopyLogs
    <3> QED BY <2>13, <3>1 DEF CopyLogs, Goto, TypeOK, Steps
  <2>14. ASSUME NEW p \in Procs, DropLogs(p) PROVE TypeOK'
    BY <2>14 DEF DropLogs, Goto, TypeOK, Steps
  <2>15. ASSUME NEW p \in Procs, OpenForAppend(p) PROVE TypeOK'
    BY <2>15 DEF OpenForAppend, Goto, TypeOK, Steps
  <2>16. ASSUME NEW p \in Procs, LockAndTruncate(p) PROVE TypeOK'
    <3>1. before' \in Configs
      BY <2>16, ParseType DEF LockAndTruncate, TypeOK
    <3> QED BY <2>16, <3>1, StartupAssumption
            DEF LockAndTruncate, Goto, TypeOK, Steps
  <2>17. ASSUME NEW p \in Procs, Write(p) PROVE TypeOK'
    <3>1. saving[p] \in Configs /\ Default \in Configs /\ writer = p
      BY <2>17 DEF Write, TypeOK, Configs
    <3>2. CASE view[p] = NoView
      BY <2>17, <3>1, <3>2, StartupAssumption DEF Write, Goto, TypeOK, Steps
    <3>3. CASE view[p] # NoView
      BY <2>17, <3>1, <3>3, StartupAssumption DEF Write, Goto, TypeOK, Steps
    <3> QED BY <3>2, <3>3
  <2>18. ASSUME NEW p \in Procs, GetAppConfig(p) PROVE TypeOK'
    <3>1. Parse(file) \in Configs
      BY ParseType DEF TypeOK
    <3> QED BY <2>18, <3>1 DEF GetAppConfig, Goto, TypeOK, Steps
  <2>19. ASSUME NEW p \in Procs, AuditLog(p) PROVE TypeOK'
    <3>1. logs' \subseteq 1 .. MaxEntry /\ lastId' \in 0 .. MaxEntry
      <4>1. lastId \in 0 .. MaxEntry /\ logs \subseteq 1 .. MaxEntry
        BY DEF TypeOK
      <4>2. lastId' = lastId + 1 /\ lastId < MaxEntry /\ MaxEntry \in Nat
        BY <2>19, StartupAssumption DEF AuditLog
      <4>3. logs' \subseteq logs \cup {lastId + 1}
        BY <2>19 DEF AuditLog, Trimmed
      <4> QED BY <4>1, <4>2, <4>3
    <3> QED BY <2>19, <3>1 DEF AuditLog, TypeOK
  <2>20. CASE ClearAuditLogs
    BY <2>20 DEF ClearAuditLogs, TypeOK
  <2>21. ASSUME NEW c \in Choices, UpdateAppConfig(c) PROVE TypeOK'
    BY <2>21, StartupAssumption
       DEF UpdateAppConfig, Goto, TypeOK, Steps, Configs
  <2> QED BY <2>1, <2>3, <2>4, <2>5, <2>6, <2>7, <2>8, <2>9, <2>10, <2>11,
             <2>12, <2>13, <2>14, <2>15, <2>16, <2>17, <2>18, <2>19, <2>20,
             <2>21 DEF Next, Proceed
<1> QED BY <1>1, <1>2, PTL DEF Spec

----------------------------------------------------------------------------
(* The audit log *)

\* Entries that need no old table any more.
Saved == \A e \in accepted : e \in logs \/ e <= lastId - LogLimit

LogsInv ==
    /\ accepted \subseteq 1 .. MaxEntry
    /\ logs \subseteq 1 .. lastId
    /\ \A p \in Procs :
         pc[p] \in {"copyLogs", "dropLogs"} => rows[p] = LegacyEntries
    /\ \A p \in Procs : pc[p] = "dropLogs" => Saved
    /\ legacyLogs = NoTable => Saved
    /\ EntriesKept

\* A step that touches neither log and brings nobody into the migration.
LEMMA LogsUntouched ==
    ASSUME TypeOK, LogsInv, UNCHANGED <<logVars, legacyLogs>>,
           \A p \in Procs : \/ rows'[p] = rows[p] /\ pc'[p] = pc[p]
                            \/ pc'[p] \notin {"copyLogs", "dropLogs"}
    PROVE  LogsInv'
BY DEF LogsInv, Saved, EntriesKept, logVars

\* A process that goes to another step, and perhaps carries other rows.
LEMMA Going ==
    ASSUME TypeOK, NEW p \in Procs, NEW step, Goto(p, step)
    PROVE  /\ pc'[p] = step
           /\ \A q \in Procs \ {p} : pc'[q] = pc[q]
BY DEF Goto, TypeOK

\* The bound below which entries are trimmed grows with the counter.
LEMMA Later ==
    ASSUME NEW a \in Int, NEW b \in Int, NEW l \in Int, NEW e \in Int,
           a <= b, e <= a - l
    PROVE  e <= b - l
OBVIOUS

LEMMA LogsStep == TypeOK /\ LogsInv /\ [Next]_vars => LogsInv'
<1> SUFFICES ASSUME TypeOK, LogsInv, [Next]_vars PROVE LogsInv'
  OBVIOUS
<1> USE DEF fileVars, tableVars, localVars, historyVars
<1>1. CASE UNCHANGED vars
  BY <1>1, LogsUntouched DEF vars
<1>2. ASSUME NEW p \in Procs, Ended(p), UNCHANGED <<logVars, legacyLogs>>
      PROVE  LogsInv'
  <2>1. \A q \in Procs : IF q = p THEN pc'[q] = "down"
                                  ELSE pc'[q] = pc[q] /\ rows'[q] = rows[q]
    BY <1>2 DEF Ended, TypeOK
  <2> QED BY <1>2, <2>1, LogsUntouched
<1>3. ASSUME NEW p \in Procs, Kill(p) PROVE LogsInv'
  BY <1>2, <1>3 DEF Kill, logVars
<1>4. ASSUME NEW p \in Procs, Raise(p) PROVE LogsInv'
  BY <1>2, <1>4 DEF Raise, logVars
<1>5. ASSUME NEW p \in Procs, NEW step, Goto(p, step),
             step \notin {"copyLogs", "dropLogs"},
             UNCHANGED <<logVars, legacyLogs, rows>>
      PROVE  LogsInv'
  BY <1>5, Going, LogsUntouched
<1>6. ASSUME NEW p \in Procs, LookForAppConfig(p) \/ LookForColumn(p)
               \/ BackfillColumn(p) \/ DropAppConfig(p) \/ LookForLogs(p)
               \/ OpenForAppend(p) \/ LockAndTruncate(p) \/ GetAppConfig(p)
      PROVE  LogsInv'
  BY <1>5, <1>6
     DEF LookForAppConfig, LookForColumn, BackfillColumn, DropAppConfig,
         LookForLogs, OpenForAppend, LockAndTruncate, GetAppConfig
<1>7. ASSUME NEW p \in Procs, LookForFile(p) \/ Write(p) PROVE LogsInv'
  BY <1>5, <1>7 DEF LookForFile, Write
<1>8. ASSUME NEW p \in Procs, ReadAppConfig(p) \/ AddColumn(p) PROVE LogsInv'
  BY <1>4, <1>5, <1>8 DEF ReadAppConfig, AddColumn
<1>9. ASSUME NEW p \in Procs, ReadLogRows(p) PROVE LogsInv'
  <2>1. CASE legacyLogs = NoTable
    BY <1>4, <1>9, <2>1 DEF ReadLogRows
  <2>2. CASE legacyLogs # NoTable
    <3>1. legacyLogs = LegacyEntries
      BY <2>2 DEF TypeOK
    <3>2. /\ Goto(p, "copyLogs") /\ UNCHANGED <<logVars, legacyLogs>>
          /\ rows' = [rows EXCEPT ![p] = LegacyEntries]
      BY <1>9, <2>2, <3>1 DEF ReadLogRows
    <3>3. rows'[p] = LegacyEntries /\ \A q \in Procs \ {p} : rows'[q] = rows[q]
      BY <3>2 DEF TypeOK
    <3> QED BY <3>2, <3>3, Going DEF LogsInv, Saved, EntriesKept, logVars
  <2> QED BY <2>1, <2>2
<1>10. ASSUME NEW p \in Procs, CopyLogs(p) PROVE LogsInv'
  <2>1. /\ rows[p] = LegacyEntries
        /\ logs' = logs \cup LegacyEntries
        /\ Goto(p, "dropLogs")
        /\ UNCHANGED <<accepted, legacyLogs, rows>>
    BY <1>10 DEF CopyLogs, LogsInv
  <2>2. /\ lastId' \in lastId .. MaxEntry /\ LegacyEntries \subseteq 1 .. lastId'
        /\ lastId \in Int /\ lastId' \in Int
    <3>1. lastId' = Newer(lastId, Top(rows[p]))
      BY <1>10 DEF CopyLogs
    <3>2. lastId \in 0 .. MaxEntry
      BY DEF TypeOK
    <3> HIDE DEF Top
    <3> QED BY <2>1, <3>1, <3>2, CounterFollows
  <2>3. \A e \in accepted : e <= lastId - LogLimit => e <= lastId' - LogLimit
    <3>1. LogLimit \in Int /\ accepted \subseteq Int /\ MaxEntry \in Int
      BY StartupAssumption DEF LogsInv
    <3>2. lastId <= lastId' /\ lastId \in Int /\ lastId' \in Int
      BY <2>2, <3>1
    <3>3. ASSUME NEW e \in Int, e <= lastId - LogLimit
          PROVE  e <= lastId' - LogLimit
      BY <3>1, <3>2, <3>3, Later
    <3> QED BY <3>1, <3>3
  <2>4. Saved'
    BY <2>1, <2>3 DEF LogsInv, EntriesKept, TypeOK, Saved
  <2>5. logs' \subseteq 1 .. lastId'
    BY <2>1, <2>2 DEF LogsInv
  <2> QED BY <2>1, <2>4, <2>5, Going DEF LogsInv, EntriesKept, Saved
<1>11. ASSUME NEW p \in Procs, DropLogs(p) PROVE LogsInv'
  <2>1. /\ Goto(p, "load") /\ UNCHANGED logVars
        /\ rows' = [rows EXCEPT ![p] = {}]
        /\ Saved
    BY <1>11 DEF DropLogs, LogsInv
  <2>2. Saved'
    BY <2>1 DEF Saved, logVars
  <2>3. \A q \in Procs \ {p} : rows'[q] = rows[q]
    BY <2>1 DEF TypeOK
  <2> QED BY <2>1, <2>2, <2>3, Going DEF LogsInv, EntriesKept, Saved, logVars
<1>12. ASSUME NEW p \in Procs, AuditLog(p) PROVE LogsInv'
  <2> DEFINE new == lastId + 1
  <2>1. /\ lastId < MaxEntry /\ lastId' = new
        /\ logs' = Trimmed(logs \cup {new})
        /\ accepted' = accepted \cup {new}
        /\ UNCHANGED <<legacyLogs, pc, rows>>
    BY <1>12 DEF AuditLog
  <2>2. lastId \in 0 .. MaxEntry /\ MaxEntry \in Nat /\ LogLimit \in Nat \ {0}
    BY StartupAssumption DEF TypeOK
  <2>3. logs \cup {new} \in SUBSET (1 .. new) /\ new \in Nat
    BY <2>2 DEF LogsInv
  <2>4. Top(logs \cup {new}) = new
    <3> HIDE DEF new
    <3>1. \A m \in logs \cup {new} : m <= Top(logs \cup {new})
      BY <2>3, TopIsNewest
    <3>2. Top(logs \cup {new}) \in (logs \cup {new}) \cup {0}
      BY <2>3, TopIsNewest
    <3>3. Top(logs \cup {new}) \in 0 .. new
      BY <2>3, <3>2
    <3> HIDE DEF Top
    <3> QED BY <2>3, <3>1, <3>3
  <2>5. logs' = {e \in logs \cup {new} : e > new - LogLimit}
    BY <2>1, <2>4 DEF Trimmed
  <2>6. logs' \subseteq 1 .. lastId'
    BY <2>1, <2>3, <2>5
  <2>7. accepted' \subseteq 1 .. MaxEntry
    BY <2>1, <2>2 DEF LogsInv
  <2>8. \A e \in accepted' : e \in logs \/ e <= lastId - LogLimit \/ e = new
                               => e \in logs' \/ e <= lastId' - LogLimit
    BY <2>1, <2>2, <2>5, <2>7
  <2>9. ASSUME Saved PROVE Saved'
    BY <2>1, <2>8, <2>9 DEF Saved
  <2>10. EntriesKept'
    BY <2>1, <2>8 DEF LogsInv, EntriesKept
  <2> QED BY <2>1, <2>6, <2>7, <2>9, <2>10 DEF LogsInv
<1>13. CASE ClearAuditLogs
  BY <1>13 DEF ClearAuditLogs, LogsInv, EntriesKept, Saved
<1>14. ASSUME NEW c \in Choices, UpdateAppConfig(c) PROVE LogsInv'
  BY <1>5, <1>14, StartupAssumption DEF UpdateAppConfig
<1> QED BY <1>1, <1>3, <1>6, <1>7, <1>8, <1>9, <1>10, <1>11, <1>12, <1>13,
           <1>14 DEF Next, Proceed

\* No audit entry is lost on its way to log.db, whoever is killed and
\* whoever moves it again.
THEOREM NoEntryLost == Spec => []EntriesKept
<1>1. Init => LogsInv
  BY StartupAssumption DEF Init, LogsInv, EntriesKept, Saved
<1>2. LogsInv => EntriesKept
  BY DEF LogsInv
<1> QED BY <1>1, <1>2, LogsStep, TypeCorrect, PTL DEF Spec

----------------------------------------------------------------------------
(* The switch of a rule *)

SwitchInv ==
    column /\ ~unfilled => enabled = 0 \/ \E p \in Procs : pc[p] = "backfill"

\* What a process that is not between ALTER and UPDATE may do.
LEMMA SwitchUntouched ==
    ASSUME SwitchInv, UNCHANGED <<column, enabled>>, unfilled => unfilled',
           \A p \in Procs : pc[p] = "backfill" => pc'[p] = "backfill"
    PROVE  SwitchInv'
BY DEF SwitchInv

\* A rule switched off before the upgrade is off after it, unless a process
\* was killed between the ALTER and the UPDATE.
THEOREM SwitchMigrated == Spec => []SwitchKept
<1> USE DEF fileVars, tableVars, logVars, localVars, historyVars
<1>1. Init => SwitchInv
  BY DEF Init, SwitchInv
<1>2. TypeOK /\ SwitchInv /\ [Next]_vars => SwitchInv'
  <2> SUFFICES ASSUME TypeOK, SwitchInv, [Next]_vars PROVE SwitchInv'
    OBVIOUS
  <2>1. CASE UNCHANGED vars
    BY <2>1, SwitchUntouched DEF vars
  <2>2. ASSUME NEW p \in Procs, pc[p] # "backfill", NEW step, Goto(p, step),
               UNCHANGED <<column, enabled, unfilled>>
        PROVE  SwitchInv'
    BY <2>2, Going, SwitchUntouched
  <2>3. ASSUME NEW p \in Procs, pc[p] # "backfill", Raise(p) PROVE SwitchInv'
    BY <2>3, SwitchUntouched DEF Raise, Ended, TypeOK
  <2>4. ASSUME NEW p \in Procs, Kill(p) PROVE SwitchInv'
    <3>1. CASE pc[p] = "backfill"
      BY <2>4, <3>1 DEF Kill, SwitchInv
    <3>2. CASE pc[p] # "backfill"
      <4>1. UNCHANGED <<column, enabled>> /\ (unfilled => unfilled')
        BY <2>4, <3>2 DEF Kill
      <4> QED BY <2>4, <3>2, <4>1, SwitchUntouched DEF Kill, Ended, TypeOK
    <3> QED BY <3>1, <3>2
  <2>5. ASSUME NEW p \in Procs, AddColumn(p) PROVE SwitchInv'
    <3>1. CASE column
      BY <2>3, <2>5, <3>1 DEF AddColumn
    <3>2. CASE ~column
      BY <2>5, <3>2, Going DEF AddColumn, SwitchInv
    <3> QED BY <3>1, <3>2
  <2>6. ASSUME NEW p \in Procs, BackfillColumn(p) PROVE SwitchInv'
    BY <2>6 DEF BackfillColumn, SwitchInv
  <2>7. ASSUME NEW p \in Procs, LookForAppConfig(p) \/ LookForColumn(p)
                 \/ LookForLogs(p) \/ CopyLogs(p) \/ DropLogs(p)
                 \/ DropAppConfig(p) \/ OpenForAppend(p)
                 \/ LockAndTruncate(p) \/ GetAppConfig(p)
        PROVE  SwitchInv'
    BY <2>2, <2>7
       DEF LookForAppConfig, LookForColumn, LookForLogs, CopyLogs, DropLogs,
           DropAppConfig, OpenForAppend, LockAndTruncate, GetAppConfig
  <2>8. ASSUME NEW p \in Procs, LookForFile(p) \/ Write(p) PROVE SwitchInv'
    BY <2>2, <2>8 DEF LookForFile, Write
  <2>9. ASSUME NEW p \in Procs, ReadAppConfig(p) \/ ReadLogRows(p)
        PROVE  SwitchInv'
    BY <2>2, <2>3, <2>9 DEF ReadAppConfig, ReadLogRows
  <2>10. CASE ClearAuditLogs \/ \E p \in Procs : AuditLog(p)
    BY <2>10, SwitchUntouched DEF ClearAuditLogs, AuditLog
  <2>11. ASSUME NEW c \in Choices, UpdateAppConfig(c) PROVE SwitchInv'
    BY <2>2, <2>11, StartupAssumption DEF UpdateAppConfig
  <2> QED BY <2>1, <2>4, <2>5, <2>6, <2>7, <2>8, <2>9, <2>10, <2>11
          DEF Next, Proceed
<1>3. TypeOK /\ SwitchInv => SwitchKept
  BY DEF SwitchInv, SwitchKept, TypeOK
<1> QED BY <1>1, <1>2, <1>3, TypeCorrect, PTL DEF Spec

----------------------------------------------------------------------------
(* The configuration file *)

\* Settings worth keeping.
Chosen == {Legacy} \cup Choices

\* What holds of a process on its way through _initialize, or saving.
Carries(p) ==
    /\ pc[p] \in {"down", "settings"} => legacy[p] = NoTable
    /\ pc[p] \in {"columns", "alter", "backfill", "file"} =>
         legacy[p] # NoTable \/ appConfig = NoTable
    /\ pc[p] \in {"open", "truncate", "write"} => saving[p] \in Chosen
    /\ pc[p] \in {"truncate", "write", "dropConfig"} => file # Missing

FileInv ==
    /\ \A p \in Procs : Carries(p)
    /\ appConfig = NoTable => file # Missing
    /\ writer # NoOne => file = Empty
    /\ found = Missing => file \in {Missing, Empty} \cup Chosen
    /\ found = Missing /\ file = Empty /\ ~torn =>
         \E p \in Procs : pc[p] \in {"truncate", "write"}

\* A step of one process that leaves the file and the old settings alone.
LEMMA FileUntouched ==
    ASSUME TypeOK, FileInv, NEW p \in Procs,
           UNCHANGED <<file, writer, appConfig, found>>, torn => torn',
           \A q \in Procs \ {p} :
             pc'[q] = pc[q] /\ legacy'[q] = legacy[q] /\ saving'[q] = saving[q],
           Carries(p)',
           pc[p] \in {"truncate", "write"} /\ ~torn' =>
             file # Empty \/ pc'[p] \in {"truncate", "write"}
    PROVE  FileInv'
<1>1. \A q \in Procs \ {p} : Carries(q)'
  BY DEF FileInv, Carries
<1> QED BY <1>1 DEF FileInv

\* A process that ends, whatever it held.
LEMMA EndedFile ==
    ASSUME TypeOK, FileInv, NEW p \in Procs, Ended(p),
           UNCHANGED <<file, appConfig, found>>, writer' \in {writer, NoOne},
           torn => torn',
           pc[p] \in {"truncate", "write"} /\ file = Empty => torn'
    PROVE  FileInv'
<1>1. \A q \in Procs \ {p} :
        pc'[q] = pc[q] /\ legacy'[q] = legacy[q] /\ saving'[q] = saving[q]
  BY DEF Ended, TypeOK
<1>2. pc'[p] = "down" /\ legacy'[p] = NoTable
  BY DEF Ended, TypeOK
<1>3. \A q \in Procs : Carries(q)'
  BY <1>1, <1>2 DEF FileInv, Carries
<1> QED BY <1>1, <1>3 DEF FileInv

LEMMA FileStep == TypeOK /\ FileInv /\ [Next]_vars => FileInv'
<1> SUFFICES ASSUME TypeOK, FileInv, [Next]_vars PROVE FileInv'
  OBVIOUS
<1> USE DEF fileVars, tableVars, logVars, localVars, historyVars
<1>1. CASE UNCHANGED vars
  BY <1>1 DEF vars, FileInv, Carries
<1>2. ASSUME NEW p \in Procs, pc[p] \notin {"truncate", "write"}, Raise(p)
      PROVE  FileInv'
  BY <1>2, EndedFile DEF Raise
<1>3. ASSUME NEW p \in Procs, Kill(p) PROVE FileInv'
  BY <1>3, EndedFile DEF Kill
\* Steps of a start that are no part of a save.
<1>4. ASSUME NEW p \in Procs, NEW step, Goto(p, step),
             pc[p] \notin {"truncate", "write"},
             UNCHANGED <<file, writer, appConfig, found, torn, legacy, saving>>,
             step \in {"settings"} => legacy[p] = NoTable,
             step \in {"columns", "alter", "backfill", "file"} =>
               legacy[p] # NoTable \/ appConfig = NoTable,
             step \notin {"down", "open", "truncate", "write", "dropConfig"}
      PROVE  FileInv'
  <2>1. Carries(p)'
    BY <1>4, Going DEF Carries
  <2> QED BY <1>4, <2>1, Going, FileUntouched
<1>5. ASSUME NEW p \in Procs, LookForAppConfig(p) PROVE FileInv'
  <2>1. legacy[p] = NoTable
    BY <1>5 DEF LookForAppConfig, FileInv, Carries
  <2> QED BY <1>4, <1>5, <2>1 DEF LookForAppConfig
<1>6. ASSUME NEW p \in Procs, ReadAppConfig(p) PROVE FileInv'
  <2>1. CASE appConfig = NoTable
    BY <1>2, <1>6, <2>1 DEF ReadAppConfig
  <2>2. CASE appConfig # NoTable
    <3>1. /\ Goto(p, "columns") /\ legacy'[p] # NoTable
          /\ \A q \in Procs \ {p} : legacy'[q] = legacy[q]
      BY <1>6, <2>2 DEF ReadAppConfig, TypeOK
    <3>2. Carries(p)'
      BY <3>1, Going DEF Carries
    <3> QED BY <1>6, <2>2, <3>1, <3>2, Going, FileUntouched DEF ReadAppConfig
  <2> QED BY <2>1, <2>2
<1>7. ASSUME NEW p \in Procs, LookForColumn(p) \/ BackfillColumn(p)
      PROVE  FileInv'
  <2>1. legacy[p] # NoTable \/ appConfig = NoTable
    BY <1>7 DEF LookForColumn, BackfillColumn, FileInv, Carries
  <2> QED BY <1>4, <1>7, <2>1 DEF LookForColumn, BackfillColumn
<1>8. ASSUME NEW p \in Procs, AddColumn(p) PROVE FileInv'
  <2>1. legacy[p] # NoTable \/ appConfig = NoTable
    BY <1>8 DEF AddColumn, FileInv, Carries
  <2> QED BY <1>2, <1>4, <1>8, <2>1 DEF AddColumn
<1>9. ASSUME NEW p \in Procs, LookForFile(p) PROVE FileInv'
  <2>1. CASE file = Missing
    <3>1. legacy[p] = Legacy
      BY <1>9, <2>1 DEF LookForFile, FileInv, Carries, TypeOK
    <3>2. legacy[p] # NoTable
      BY <1>9, <2>1 DEF LookForFile, FileInv, Carries
    <3>3. /\ Goto(p, "open") /\ saving'[p] \in Chosen
          /\ \A q \in Procs \ {p} : saving'[q] = saving[q]
      BY <1>9, <2>1, <3>1, <3>2 DEF LookForFile, TypeOK, Chosen
    <3>4. Carries(p)'
      BY <3>3, Going DEF Carries
    <3> QED BY <1>9, <3>3, <3>4, Going, FileUntouched DEF LookForFile
  <2>2. CASE file # Missing
    <3>1. Goto(p, "dropConfig") /\ UNCHANGED <<saving, file>>
      BY <1>9, <2>2 DEF LookForFile
    <3>2. Carries(p)'
      BY <2>2, <3>1, Going DEF Carries
    <3> QED BY <1>9, <3>1, <3>2, Going, FileUntouched DEF LookForFile
  <2> QED BY <2>1, <2>2
<1>10. ASSUME NEW p \in Procs, DropAppConfig(p) PROVE FileInv'
  <2>1. file # Missing /\ pc[p] = "dropConfig" /\ Goto(p, "logs")
    BY <1>10 DEF DropAppConfig, FileInv, Carries
  <2>2. UNCHANGED <<file, writer, found, torn, legacy, saving>>
    BY <1>10 DEF DropAppConfig
  <2>3. appConfig = NoTable => appConfig' = NoTable
    BY <1>10 DEF DropAppConfig
  <2>4. \A q \in Procs : Carries(q)'
    BY <2>1, <2>2, <2>3, Going DEF FileInv, Carries
  <2> QED BY <2>1, <2>2, <2>4, Going DEF FileInv
<1>11. ASSUME NEW p \in Procs, LookForLogs(p) \/ CopyLogs(p) \/ DropLogs(p)
       PROVE  FileInv'
  BY <1>4, <1>11 DEF LookForLogs, CopyLogs, DropLogs
<1>12. ASSUME NEW p \in Procs, ReadLogRows(p) PROVE FileInv'
  BY <1>2, <1>4, <1>12 DEF ReadLogRows
<1>13. ASSUME NEW p \in Procs, OpenForAppend(p) PROVE FileInv'
  <2>1. /\ pc[p] = "open" /\ Goto(p, "truncate")
        /\ file' = IF file = Missing THEN Empty ELSE file
        /\ UNCHANGED <<writer, appConfig, found, torn, legacy, saving>>
    BY <1>13 DEF OpenForAppend
  <2>2. \A q \in Procs : Carries(q)'
    BY <2>1, Going, StartupAssumption DEF FileInv, Carries
  <2> QED BY <2>1, <2>2, Going, StartupAssumption DEF FileInv
<1>14. ASSUME NEW p \in Procs, LockAndTruncate(p) PROVE FileInv'
  <2>1. /\ pc[p] = "truncate" /\ Goto(p, "write")
        /\ file' = Empty /\ file' # Missing
        /\ UNCHANGED <<appConfig, found, torn, legacy, saving>>
    BY <1>14, StartupAssumption DEF LockAndTruncate
  <2>2. \A q \in Procs : Carries(q)'
    BY <2>1, Going DEF FileInv, Carries
  <2> QED BY <2>1, <2>2, Going DEF FileInv
<1>15. ASSUME NEW p \in Procs, Write(p) PROVE FileInv'
  <2>1. /\ pc[p] = "write" /\ file' = saving[p] /\ writer' = NoOne
        /\ UNCHANGED <<appConfig, found, torn, legacy>>
        /\ saving' = [saving EXCEPT ![p] = Default]
    BY <1>15 DEF Write
  <2>2. \E step \in {"dropConfig", "up"} : Goto(p, step)
    BY <1>15 DEF Write
  <2>3. file' \in Chosen /\ file' \notin {Missing, Empty}
    BY <2>1, StartupAssumption DEF FileInv, Carries, Chosen, Configs
  <2>4. \A q \in Procs \ {p} : saving'[q] = saving[q]
    BY <2>1 DEF TypeOK
  <2>5. \A q \in Procs : Carries(q)'
    BY <2>1, <2>2, <2>3, <2>4, Going DEF FileInv, Carries
  <2> QED BY <2>1, <2>3, <2>5 DEF FileInv
<1>16. ASSUME NEW p \in Procs, GetAppConfig(p) PROVE FileInv'
  <2>1. /\ Goto(p, "up") /\ pc[p] \in {"load", "up"}
        /\ UNCHANGED <<file, writer, appConfig, found, torn, saving>>
        /\ legacy' = [legacy EXCEPT ![p] = NoTable]
    BY <1>16 DEF GetAppConfig
  <2>2. \A q \in Procs \ {p} : legacy'[q] = legacy[q]
    BY <2>1 DEF TypeOK
  <2>3. Carries(p)'
    BY <2>1, Going DEF Carries
  <2> QED BY <2>1, <2>2, <2>3, Going, FileUntouched
<1>17. CASE ClearAuditLogs \/ \E p \in Procs : AuditLog(p)
  BY <1>17 DEF ClearAuditLogs, AuditLog, FileInv, Carries
<1>18. ASSUME NEW c \in Choices, UpdateAppConfig(c) PROVE FileInv'
  <2>1. /\ Dashboard \in Procs /\ pc[Dashboard] = "up" /\ Goto(Dashboard, "open")
        /\ UNCHANGED <<file, writer, appConfig, found, torn, legacy>>
        /\ saving' = [saving EXCEPT ![Dashboard] = c]
    BY <1>18, StartupAssumption DEF UpdateAppConfig
  <2>2. /\ saving'[Dashboard] \in Chosen
        /\ \A q \in Procs \ {Dashboard} : saving'[q] = saving[q]
    BY <2>1 DEF TypeOK, Chosen
  <2>3. Carries(Dashboard)'
    BY <2>1, <2>2, Going DEF Carries
  <2> QED BY <2>1, <2>2, <2>3, Going, FileUntouched
<1> QED BY <1>1, <1>3, <1>5, <1>6, <1>7, <1>8, <1>9, <1>10, <1>11, <1>12,
           <1>13, <1>14, <1>15, <1>16, <1>17, <1>18 DEF Next, Proceed

LEMMA FileInvariant == Spec => []FileInv
<1>1. Init => FileInv
  BY StartupAssumption DEF Init, FileInv, Carries, Chosen, Configs
<1> QED BY <1>1, FileStep, TypeCorrect, PTL DEF Spec

\* The settings of the older version, or later ones, survive the upgrade:
\* the table that holds them goes only when the file has them or is about
\* to, however the starts of the processes interleave and stop.
THEOREM SettingsSurvive == Spec => []SettingsKept
<1>1. FileInv => SettingsKept
  <2> SUFFICES ASSUME FileInv, ~torn, found = Missing, appConfig = NoTable,
                      file \notin Chosen
               PROVE  \E p \in Procs : /\ pc[p] \in {"truncate", "write"}
                                       /\ saving[p] \in Chosen
    BY DEF SettingsKept, Chosen
  <2>1. file = Empty
    BY DEF FileInv
  <2>2. PICK p \in Procs : pc[p] \in {"truncate", "write"}
    BY <2>1 DEF FileInv
  <2>3. saving[p] \in Chosen
    BY <2>2 DEF FileInv, Carries
  <2> QED BY <2>2, <2>3
<1> QED BY <1>1, FileInvariant, PTL

----------------------------------------------------------------------------
(* config.yaml implements settings that change as a whole *)

Content == IF writer = NoOne THEN Parse(file) ELSE before

\* A process that ends loses what it had loaded, and at worst the settings.
LEMMA EndedStops ==
    ASSUME TypeOK, NEW p \in Procs, Ended(p), Content' \in {Content, Default}
    PROVE  Whole!Next
<1>1. view' = [view EXCEPT ![p] = NoView]
  BY DEF Ended
<1> QED BY <1>1 DEF Content, Whole!Next, Whole!Stop

\* Every step of a process is a step of Settings or leaves it unchanged.
LEMMA SettingsStep ==
    ASSUME TypeOK, FileInv, [Next]_vars
    PROVE  Whole!Next \/ UNCHANGED <<Content, view>>
<1> USE DEF fileVars, tableVars, logVars, localVars, historyVars
<1>1. CASE UNCHANGED vars
  BY <1>1 DEF vars, Content, Parse
<1>2. ASSUME NEW p \in Procs, Raise(p) PROVE Whole!Next
  BY <1>2, EndedStops DEF Raise, Content, Parse
<1>3. ASSUME NEW p \in Procs, Kill(p) PROVE Whole!Next
  <2>1. CASE writer = p
    <3>1. file = Empty /\ UNCHANGED file /\ writer' = NoOne
      BY <1>3, <2>1, StartupAssumption DEF Kill, FileInv
    <3>2. Content' = Default
      BY <3>1 DEF Content, Parse
    <3> QED BY <1>3, <3>2, EndedStops DEF Kill
  <2>2. CASE writer # p
    BY <1>3, <2>2, EndedStops DEF Kill, Content, Parse
  <2> QED BY <2>1, <2>2
<1>4. ASSUME UNCHANGED <<file, writer, before, view>>
      PROVE  UNCHANGED <<Content, view>>
  BY <1>4 DEF Content, Parse
<1>5. ASSUME NEW p \in Procs, LookForAppConfig(p) \/ LookForColumn(p)
               \/ BackfillColumn(p) \/ LookForFile(p) \/ DropAppConfig(p)
               \/ LookForLogs(p) \/ CopyLogs(p) \/ DropLogs(p) \/ AuditLog(p)
      PROVE  UNCHANGED <<Content, view>>
  BY <1>4, <1>5
     DEF LookForAppConfig, LookForColumn, BackfillColumn, LookForFile,
         DropAppConfig, LookForLogs, CopyLogs, DropLogs, AuditLog
<1>6. ASSUME NEW p \in Procs, ReadAppConfig(p) \/ AddColumn(p) \/ ReadLogRows(p)
      PROVE  Whole!Next \/ UNCHANGED <<Content, view>>
  BY <1>2, <1>4, <1>6 DEF ReadAppConfig, AddColumn, ReadLogRows
<1>7. ASSUME NEW p \in Procs, OpenForAppend(p)
      PROVE  UNCHANGED <<Content, view>>
  <2>1. Parse(file') = Parse(file) /\ UNCHANGED <<writer, before, view>>
    BY <1>7, StartupAssumption DEF OpenForAppend, Parse
  <2>2. Content' = IF writer' = NoOne THEN Parse(file') ELSE before'
    BY DEF Content, Parse
  <2> QED BY <2>1, <2>2 DEF Content
<1>8. ASSUME NEW p \in Procs, LockAndTruncate(p)
      PROVE  UNCHANGED <<Content, view>>
  <2>1. Content = Parse(file) /\ before' = Parse(file) /\ UNCHANGED view
    BY <1>8 DEF LockAndTruncate, Content
  <2>2. writer' # NoOne
    BY <1>8, StartupAssumption DEF LockAndTruncate
  <2> QED BY <2>1, <2>2 DEF Content
<1>9. ASSUME NEW p \in Procs, Write(p) PROVE Whole!Next
  <2>1. saving[p] \in Configs /\ file' = saving[p] /\ writer' = NoOne
    BY <1>9 DEF Write, TypeOK
  <2>2. Content' = saving[p]
    BY <2>1, StartupAssumption DEF Content, Parse
  <2>3. view' \in {view, [view EXCEPT ![p] = saving[p]]}
    BY <1>9 DEF Write
  <2> QED BY <2>1, <2>2, <2>3 DEF Content, Whole!Next, Whole!Save
<1>10. ASSUME NEW p \in Procs, GetAppConfig(p) PROVE Whole!Next
  <2>1. Content = Parse(file) /\ view' = [view EXCEPT ![p] = Parse(file)]
    BY <1>10 DEF GetAppConfig, Content
  <2>2. UNCHANGED Content
    BY <1>10 DEF GetAppConfig, Content, Parse
  <2> QED BY <2>1, <2>2 DEF Content, Whole!Next, Whole!Load
<1>11. CASE ClearAuditLogs \/ \E c \in Choices : UpdateAppConfig(c)
  BY <1>4, <1>11 DEF ClearAuditLogs, UpdateAppConfig
<1> QED BY <1>1, <1>3, <1>5, <1>6, <1>7, <1>8, <1>9, <1>10, <1>11
        DEF Next, Proceed

\* config.yaml, truncated and filled by several processes that may stop at
\* any point, behaves like settings that change as a whole.
THEOREM FileIsSettings == Spec => ImplementsSettings
<1>1. Init => Whole!Init
  <2> SUFFICES ASSUME Init PROVE Whole!Init
    OBVIOUS
  <2>1. Content \in Configs
    BY ParseType, StartupAssumption DEF Init, Content
  <2> QED BY <2>1 DEF Init, Content, Whole!Init
<1>2. TypeOK /\ FileInv /\ [Next]_vars => [Whole!Next]_<<Content, view>>
  BY SettingsStep
<1> QED BY <1>1, <1>2, TypeCorrect, FileInvariant, PTL
        DEF Spec, ImplementsSettings, Whole!Spec, Content
============================================================================
