------------------------ MODULE PolicyReadingProofs ------------------------
(* blocked_addresses between the dashboard's edits, for every set of rules. *)
EXTENDS PolicyReading, PolicyProofs

\* While the collector reads, the tables change as Policy says.
LEMMA ReadingKeepsPolicy == Spec => PolicySpec
<1>1. Init => PolicyInit
  BY DEF Init
<1>2. [Next]_vars => [PolicyNext]_policyVars
  BY DEF Next, Edit, Time, Collector, Begin, ReadQuotaRules,
         ReadAccessBlocks, PolicyNext, vars
<1> QED BY <1>1, <1>2, PTL DEF Spec, PolicySpec

\* The rules a reading meets keep to their schema ...
THEOREM ReadingTypeCorrect == Spec => []PolicyTypeOK
BY ReadingKeepsPolicy, PolicyTypeCorrect, PTL

\* ... what the dashboard shows is what one reading of them at once would
\* enforce ...
THEOREM ReadingAgrees == Spec => []ShownIsEnforced
BY ReadingKeepsPolicy, DashboardAgreesWithCollector, PTL

\* ... and no state row outlives its rules.
THEOREM ReadingOrphansNothing == Spec => []NoOrphanedState
BY ReadingKeepsPolicy, NoStateOrphaned, PTL

----------------------------------------------------------------------------
(* One edit *)

\* The targets the two statements find.
OverLimit(u) ==
    /\ quota[u] # NoRule /\ quota[u].enabled = 1
    /\ TargetPresent(u)
    /\ usage[u][month] >= quota[u].limit
    /\ quota[u].bypass # month
Denied(u) ==
    /\ access[u] # NoRule /\ access[u].enabled = 1
    /\ TargetPresent(u)
    /\ AccessBlockActive(access[u], now)

\* The addresses of these targets are found, before a step and after it.
LEMMA FoundBy ==
    /\ \A a : a \in ByQuota <=>
         \E u \in Target : OverLimit(u) /\ a \in TargetAddrs(u)
    /\ \A a : a \in ByQuota' <=>
         \E u \in Target : OverLimit(u)' /\ a \in TargetAddrs(u)'
    /\ \A a : a \in ByAccess <=>
         \E u \in Target : Denied(u) /\ a \in TargetAddrs(u)
    /\ \A a : a \in ByAccess' <=>
         \E u \in Target : Denied(u)' /\ a \in TargetAddrs(u)'
BY DEF ByQuota, ByAccess, OverLimit, Denied

\* What the statements find depends on the rules and on the collector's
\* tables only.
LEMMA SameTables ==
    UNCHANGED <<ledgerVars, month, now>> =>
      /\ \A u \in Target : TargetAddrs(u)' = TargetAddrs(u)
      /\ \A u \in Target : TargetPresent(u)' = TargetPresent(u)
      /\ UNCHANGED quota => UNCHANGED ByQuota
      /\ UNCHANGED access => UNCHANGED ByAccess
BY DEF ledgerVars, TargetAddrs, TargetPresent, ByQuota, ByAccess,
       AccessBlockActive

\* No single edit puts an address on the list by a limit and takes it off
\* by a block: whoever the edit adds by a limit keeps its block.
LEMMA OneEdit ==
    ASSUME PolicyTypeOK, NEW t \in Target, Administer(t),
           UNCHANGED <<month, now>>
    PROVE  ByQuota' \subseteq ByQuota \/ ByAccess \subseteq ByAccess'
<1>1. UNCHANGED ledgerVars
  BY DEF Administer, SetQuotaRule, BlockPermanently, BlockFor, SetAccessBlock,
         DeleteQuotaRule, DeleteAccessBlock, SetPolicyEnabled, SetQuotaEnabled,
         SetAccessEnabled, DeletePolicyBundle, BypassQuota
<1>2. CASE UNCHANGED quota
  BY <1>1, <1>2, SameTables
<1>3. CASE UNCHANGED access
  BY <1>1, <1>3, SameTables
<1>4. CASE DeletePolicyBundle(t)
  <2>1. ASSUME NEW u \in Target, OverLimit(u)' PROVE OverLimit(u)
    <3>1. quota'[u] = quota[u]
      BY <1>4, <2>1 DEF DeletePolicyBundle, OverLimit, PolicyTypeOK
    <3> QED BY <1>1, <2>1, <3>1, SameTables DEF OverLimit, ledgerVars
  <2> QED BY <1>1, <2>1, FoundBy, SameTables
<1>5. ASSUME NEW e \in {0, 1}, SetPolicyEnabled(t, e)
      PROVE  ByQuota' \subseteq ByQuota \/ ByAccess \subseteq ByAccess'
  <2>1. CASE e = 0
    <3>1. ASSUME NEW u \in Target, OverLimit(u)' PROVE OverLimit(u)
      <4>1. quota'[u] = quota[u]
        BY <1>5, <2>1, <3>1
           DEF SetPolicyEnabled, OverLimit, PolicyTypeOK, QuotaRow
      <4> QED BY <1>1, <3>1, <4>1, SameTables DEF OverLimit, ledgerVars
    <3> QED BY <1>1, <3>1, FoundBy, SameTables
  <2>2. CASE e = 1
    <3>1. ASSUME NEW u \in Target, Denied(u) PROVE Denied(u)'
      <4>1. access'[u] = access[u]
        BY <1>5, <2>2, <3>1
           DEF SetPolicyEnabled, Denied, PolicyTypeOK, AccessRow
      <4> QED BY <1>1, <3>1, <4>1, SameTables DEF Denied, AccessBlockActive
    <3> QED BY <1>1, <3>1, FoundBy, SameTables
  <2> QED BY <1>5, <2>1, <2>2
<1>6. UNCHANGED quota \/ UNCHANGED access \/ DeletePolicyBundle(t)
        \/ \E e \in {0, 1} : SetPolicyEnabled(t, e)
  BY DEF Administer, SetQuotaRule, BlockPermanently, BlockFor, SetAccessBlock,
         DeleteQuotaRule, DeleteAccessBlock, SetQuotaEnabled,
         SetAccessEnabled, BypassQuota
<1> QED BY <1>2, <1>3, <1>4, <1>5, <1>6

----------------------------------------------------------------------------
(* A reading *)

\* What is known of the answers so far; an unedited reading has what it read.
ReadingInv ==
    /\ reading \in {"idle", "quota_rules", "access_blocks"}
    /\ reading # "idle" => Answer \subseteq ever /\ always \subseteq Answer
    /\ reading = "access_blocks" =>
         /\ blocked \subseteq ever
         /\ always \subseteq Found
         /\ ~edited => blocked = ByQuota

\* At its beginning a reading has the one answer of the rules.
LEMMA AnswerAtOnce ==
    month' = Month(clock) /\ now' = clock /\ UNCHANGED policyVars
      => Answer' = BlockedAddresses
BY DEF Answer, ByQuota, ByAccess, BlockedAddresses, policyVars, TargetAddrs,
       TargetPresent, AccessBlockActive

LEMMA ReadingStep ==
    PolicyTypeOK /\ ReadingInv /\ [Next]_vars => ReadingInv'
<1> SUFFICES ASSUME PolicyTypeOK, ReadingInv, [Next]_vars PROVE ReadingInv'
  OBVIOUS
<1>1. ASSUME UNCHANGED <<ledgerVars, ruleVars, month, now>>
      PROVE  UNCHANGED <<ByQuota, ByAccess, Answer>>
  BY <1>1, SameTables DEF ruleVars, Answer
<1>2. CASE UNCHANGED vars \/ Time
  <2>1. UNCHANGED <<ledgerVars, ruleVars, readingVars, historyVars>>
    BY <1>2 DEF vars, policyVars, ledgerVars, ruleVars, Time, Tick
  <2> QED BY <1>1, <2>1 DEF readingVars, historyVars, ReadingInv, Found
<1>3. CASE Collector
  BY <1>3 DEF Collector, ReadingInv, readingVars
<1>4. CASE Begin
  BY <1>4, AnswerAtOnce DEF Begin, ReadingInv
<1>5. CASE ReadQuotaRules
  <2>1. UNCHANGED <<ByQuota, ByAccess, Answer>>
    BY <1>1, <1>5 DEF ReadQuotaRules, policyVars, ledgerVars, ruleVars
  <2> QED BY <1>5, <2>1
          DEF ReadQuotaRules, ReadingInv, historyVars, Answer, Found
<1>6. CASE ReadAccessBlocks
  BY <1>6 DEF ReadAccessBlocks, ReadingInv
<1>7. ASSUME NEW t \in Managed, Edit(t) PROVE ReadingInv'
  <2>1. CASE reading = "idle"
    BY <1>7, <2>1 DEF Edit, ReadingInv, readingVars
  <2>2. CASE reading # "idle"
    <3>1. /\ UNCHANGED <<reading, month, now, blocked>>
          /\ edited' = TRUE /\ ever' = ever \cup Answer'
          /\ always' = IF edited THEN {} ELSE always \cap Answer'
      BY <1>7, <2>2 DEF Edit, readingVars
    <3>2. CASE reading = "access_blocks" /\ ~edited
      <4>1. ByQuota' \subseteq ByQuota \/ ByAccess \subseteq ByAccess'
        BY <1>7, <3>1, OneEdit, PolicyAssumption DEF Edit, PolicyAssumption
      <4>2. always \subseteq ByQuota \cup ByAccess /\ blocked = ByQuota
        BY <3>2 DEF ReadingInv, Answer
      <4>3. always' \subseteq blocked \cup ByAccess'
        BY <3>1, <3>2, <4>1, <4>2 DEF Answer
      <4> QED BY <3>1, <3>2, <4>3 DEF ReadingInv, Found
    <3>3. CASE ~(reading = "access_blocks" /\ ~edited)
      BY <2>2, <3>1, <3>3 DEF ReadingInv
    <3> QED BY <3>2, <3>3
  <2> QED BY <2>1, <2>2
<1> QED BY <1>2, <1>3, <1>4, <1>5, <1>6, <1>7 DEF Next

\* A list read in two statements blocks nobody whom the rules never blocked
\* meanwhile, and misses nobody for a single edit.
THEOREM ReadingSound == Spec => ReadingIsSound
<1>1. Init => ReadingInv
  BY DEF Init, ReadingInv
<1>2. ReadingInv /\ [Next]_vars
        => [ReadAccessBlocks => always \subseteq Found /\ Found \subseteq ever]_vars
  BY DEF ReadingInv, ReadAccessBlocks, Found, Answer
<1> QED BY <1>1, <1>2, ReadingStep, ReadingTypeCorrect, PTL
        DEF Spec, ReadingIsSound
============================================================================
