---------------------------- MODULE PolicyProofs ----------------------------
(* Theorems about Policy, for every set of targets and every calendar.      *)
EXTENDS Policy, TLAPS

\* The month of a tick within the bound is one of the months, and it is
\* never the value that stands for no month.
LEMMA MonthType ==
    ASSUME PolicyAssumption, NEW t \in 0 .. MaxTime
    PROVE  Month(t) \in Months
<1>1. MonthLength \in Nat /\ MonthLength > 0 /\ MaxTime \in Nat
  BY DEF PolicyAssumption
<1>2. t \in Nat /\ t <= MaxTime
  BY <1>1
<1>3. t \div MonthLength \in Nat /\ MaxTime \div MonthLength \in Nat
  BY <1>1, <1>2, Z3
<1>4. t \div MonthLength <= MaxTime \div MonthLength
  BY <1>1, <1>2, <1>3, Z3
<1> QED BY <1>3, <1>4 DEF Month, Months

\* The two targets an address is charged to are targets.
LEMMA ChargedTargets ==
    ASSUME NEW row \in DeviceRow
    PROVE  /\ row.identity \in Users /\ row.device \in Devices
           /\ [type |-> "user", key |-> row.identity] \in Target
           /\ [type |-> "device", key |-> row.device] \in Target
BY DEF DeviceRow, Target

\* Whatever the administrator and the collector do, the rule tables keep to
\* their schema: no switch other than 0 and 1, no month out of the calendar.
LEMMA PolicyTypeStep ==
    PolicyAssumption /\ PolicyTypeOK /\ [PolicyNext]_policyVars => PolicyTypeOK'
<1> SUFFICES ASSUME PolicyAssumption, PolicyTypeOK, [PolicyNext]_policyVars
             PROVE  PolicyTypeOK'
  OBVIOUS
<1> USE DEF ledgerVars, ruleVars
<1>1. CASE UNCHANGED policyVars
  BY <1>1 DEF PolicyTypeOK, policyVars
<1>2. ASSUME NEW t \in Managed, Administer(t) PROVE PolicyTypeOK'
  <2>0. t \in Target
    BY DEF PolicyAssumption
  <2>1. ASSUME NEW limit \in Limits, SetQuotaRule(t, limit) PROVE PolicyTypeOK'
    <3>1. (IF quota[t] = NoRule THEN 1 ELSE quota[t].enabled) \in {0, 1}
      BY <2>0 DEF PolicyTypeOK, QuotaRow
    <3>2. [limit   |-> limit,
           bypass  |-> NoMonth,
           enabled |-> IF quota[t] = NoRule THEN 1 ELSE quota[t].enabled]
            \in QuotaRow
      BY <3>1 DEF QuotaRow
    <3> QED BY <2>0, <2>1, <3>2 DEF PolicyTypeOK, SetQuotaRule
  <2>2. ASSUME NEW mode \in {"temporary", "permanent"}, NEW until \in Nat,
               SetAccessBlock(t, mode, until)
        PROVE  PolicyTypeOK'
    <3>1. (IF access[t] = NoRule THEN 1 ELSE access[t].enabled) \in {0, 1}
      BY <2>0 DEF PolicyTypeOK, AccessRow
    <3>2. [mode    |-> mode,
           until   |-> until,
           enabled |-> IF access[t] = NoRule THEN 1 ELSE access[t].enabled]
            \in AccessRow
      BY <3>1 DEF AccessRow
    <3> QED BY <2>0, <2>2, <3>2 DEF PolicyTypeOK, SetAccessBlock
  <2>3. CASE BlockPermanently(t)
    BY <2>2, <2>3 DEF BlockPermanently
  <2>4. ASSUME NEW d \in Durations, BlockFor(t, d) PROVE PolicyTypeOK'
    <3>1. clock + d \in Nat
      BY DEF PolicyTypeOK, PolicyAssumption
    <3> QED BY <2>2, <2>4, <3>1 DEF BlockFor
  <2>5. CASE DeleteQuotaRule(t)
    BY <2>5 DEF PolicyTypeOK, DeleteQuotaRule, CleanedUp
  <2>6. CASE DeleteAccessBlock(t)
    BY <2>6 DEF PolicyTypeOK, DeleteAccessBlock, CleanedUp
  <2>7. ASSUME NEW e \in {0, 1} PROVE
          /\ quota[t] # NoRule => [quota EXCEPT ![t].enabled = e]
                \in [Target -> QuotaRow \cup {NoRule}]
          /\ access[t] # NoRule => [access EXCEPT ![t].enabled = e]
                \in [Target -> AccessRow \cup {NoRule}]
    BY <2>0, <2>7 DEF PolicyTypeOK, QuotaRow, AccessRow
  <2>8. ASSUME NEW e \in {0, 1}, SetPolicyEnabled(t, e) PROVE PolicyTypeOK'
    BY <2>0, <2>7, <2>8 DEF PolicyTypeOK, SetPolicyEnabled
  <2>9. ASSUME NEW e \in {0, 1}, SetQuotaEnabled(t, e) PROVE PolicyTypeOK'
    BY <2>0, <2>7, <2>9 DEF PolicyTypeOK, SetQuotaEnabled
  <2>10. ASSUME NEW e \in {0, 1}, SetAccessEnabled(t, e) PROVE PolicyTypeOK'
    BY <2>0, <2>7, <2>10 DEF PolicyTypeOK, SetAccessEnabled
  <2>11. CASE DeletePolicyBundle(t)
    BY <2>11 DEF PolicyTypeOK, DeletePolicyBundle
  <2>12. CASE BypassQuota(t)
    <3>1. Month(clock) \in Months
      BY MonthType DEF PolicyTypeOK
    <3>2. [quota EXCEPT ![t].bypass = Month(clock)]
            \in [Target -> QuotaRow \cup {NoRule}]
      BY <2>0, <2>12, <3>1 DEF PolicyTypeOK, QuotaRow, BypassQuota
    <3> QED BY <2>12, <3>2 DEF PolicyTypeOK, BypassQuota
  <2> QED BY <1>2, <2>1, <2>3, <2>4, <2>5, <2>6, <2>8, <2>9, <2>10, <2>11,
             <2>12 DEF Administer
<1>3. ASSUME NEW P \in SUBSET Users, NEW a \in Addrs, NEW u \in Users,
             NEW d \in Devices, Sync(P, a, u, d)
      PROVE  PolicyTypeOK'
  <2>1. devices' \in [Addrs -> DeviceRow \cup {NoRow}]
    BY <1>3 DEF PolicyTypeOK, Sync, DeviceRow
  <2>2. usage' \in [Target -> [Months -> Nat]]
    <3> DEFINE user == [type |-> "user", key |-> u]
               new == [type |-> "device", key |-> d]
               old == [type |-> "device", key |-> devices[a].device]
               With(t, c) == [m \in Months |-> usage[t][m] + c[m]]
               Moved == [usage EXCEPT
                           ![new] = [m \in Months |-> usage[new][m] + usage[old][m]],
                           ![old] = [m \in Months |-> 0]]
    <3>1. PICK c \in [Months -> 0 .. MaxUsage] :
            usage' = IF devices[a] = NoRow
                     THEN [usage EXCEPT ![user] = With(user, c),
                                        ![new] = With(new, c)]
                     ELSE IF devices[a].device = d THEN usage ELSE Moved
      BY <1>3 DEF Sync, UnknownUsage
    <3>2. user \in Target /\ new \in Target
      BY DEF Target
    <3>3. usage \in [Target -> [Months -> Nat]]
      BY DEF PolicyTypeOK
    <3>4. CASE devices[a] = NoRow
      <4> HIDE DEF user, new
      <4>1. With(user, c) \in [Months -> Nat] /\ With(new, c) \in [Months -> Nat]
        BY <3>2, <3>3, PolicyAssumption
      <4> HIDE DEF With
      <4> QED BY <3>1, <3>2, <3>3, <3>4, <4>1
    <3>5. CASE devices[a] # NoRow /\ devices[a].device = d
      BY <3>1, <3>3, <3>5
    <3>6. CASE devices[a] # NoRow /\ devices[a].device # d
      <4>1. old \in Target
        BY <3>6 DEF PolicyTypeOK, DeviceRow, Target
      <4> HIDE DEF old, new
      <4>2. /\ [m \in Months |-> usage[new][m] + usage[old][m]] \in [Months -> Nat]
            /\ [m \in Months |-> 0] \in [Months -> Nat]
        BY <3>2, <3>3, <4>1
      <4>3. Moved \in [Target -> [Months -> Nat]]
        BY <3>2, <3>3, <4>1, <4>2
      <4> HIDE DEF Moved
      <4> QED BY <3>1, <3>6, <4>3
    <3> QED BY <3>4, <3>5, <3>6
  <2> QED BY <1>3, <2>1, <2>2 DEF PolicyTypeOK, Sync
<1>4. CASE SyncNobody
  BY <1>4 DEF PolicyTypeOK, SyncNobody
<1>5. ASSUME NEW a \in Addrs, Book(a) PROVE PolicyTypeOK'
  <2>1. devices[a] \in DeviceRow
    BY <1>5 DEF PolicyTypeOK, Book
  <2>2. Month(clock) \in Months
    BY MonthType DEF PolicyTypeOK
  <2>3. Charged(usage, a) \in [Target -> [Months -> Nat]]
    <3> DEFINE x == [type |-> "user", key |-> devices[a].identity]
               y == [type |-> "device", key |-> devices[a].device]
               f == [usage EXCEPT ![x][Month(clock)] = @ + 1]
    <3>1. x \in Target /\ y \in Target
      BY <2>1, ChargedTargets
    <3>2. Charged(usage, a) = [f EXCEPT ![y][Month(clock)] = @ + 1]
      BY DEF Charged
    <3> HIDE DEF x, y
    <3>3. f \in [Target -> [Months -> Nat]]
      BY <2>2, <3>1 DEF PolicyTypeOK
    <3> HIDE DEF f
    <3> QED BY <2>2, <3>1, <3>2, <3>3
  <2> QED BY <1>5, <2>3 DEF PolicyTypeOK, Book
<1>6. CASE Tick
  BY <1>6 DEF PolicyTypeOK, Tick, PolicyAssumption
<1> QED BY <1>1, <1>2, <1>3, <1>4, <1>5, <1>6 DEF PolicyNext, CollectorWrites

\* The empty rule tables are well formed.
LEMMA PolicyInitType == PolicyAssumption /\ PolicyInit => PolicyTypeOK
<1> SUFFICES ASSUME PolicyAssumption, PolicyInit PROVE PolicyTypeOK
  OBVIOUS
<1>1. clock \in 0 .. MaxTime
  BY DEF PolicyInit, PolicyAssumption
<1>2. usage \in [Target -> [Months -> Nat]]
  BY DEF PolicyInit
<1> QED BY <1>1, <1>2 DEF PolicyInit, PolicyTypeOK

\* The rule tables and what they read keep to their schema in every
\* reachable state.
THEOREM PolicyTypeCorrect == PolicySpec => []PolicyTypeOK
BY PolicyAssumption, PolicyInitType, PolicyTypeStep, PTL DEF PolicySpec

\* The dashboard and the collector decide alike in every reachable state.
THEOREM DashboardAgreesWithCollector == PolicySpec => []ShownIsEnforced
<1>1. PolicyTypeOK => ShownIsEnforced
  <2> SUFFICES ASSUME PolicyTypeOK PROVE ShownIsEnforced
    OBVIOUS
  <2> USE DEF BlockedAddresses, ShownBlocked, QuotaBlocked, ManualBlocked,
              Exceeded, Bypassed
  <2>1. ASSUME NEW t \in Target, ShownBlocked(t)
        PROVE  TargetAddrs(t) \subseteq BlockedAddresses
    BY <2>1
  <2>2. ASSUME NEW t \in Target, TargetPresent(t)
        PROVE  TargetExists(t)
    BY <2>2 DEF PolicyTypeOK, TargetPresent, TargetExists
  <2>3. ASSUME NEW a \in BlockedAddresses
        PROVE  \E t \in Target : a \in TargetAddrs(t) /\ ShownBlocked(t)
    BY <2>2, <2>3
  <2> QED BY <2>1, <2>3 DEF ShownIsEnforced
<1> QED BY <1>1, PolicyTypeCorrect, PTL

\* No state row is left behind when the rules of its target are deleted.
THEOREM NoStateOrphaned == PolicySpec => []NoOrphanedState
<1>1. PolicyInit => NoOrphanedState
  BY DEF PolicyInit, NoOrphanedState
<1>2. PolicyTypeOK /\ NoOrphanedState /\ [PolicyNext]_policyVars
        => NoOrphanedState'
  <2> SUFFICES ASSUME PolicyTypeOK, NoOrphanedState, [PolicyNext]_policyVars
               PROVE  NoOrphanedState'
    OBVIOUS
  <2> USE DEF NoOrphanedState, PolicyExists
  <2>1. CASE UNCHANGED ruleVars
    BY <2>1 DEF ruleVars
  <2>2. ASSUME NEW t \in Managed, Administer(t) PROVE NoOrphanedState'
    <3>0. /\ t \in Target
          /\ NoRule \notin QuotaRow /\ NoRule \notin AccessRow
      BY PolicyAssumption DEF PolicyAssumption
    <3> USE DEF PolicyTypeOK
    <3>1. ASSUME NEW limit \in Limits, SetQuotaRule(t, limit)
          PROVE  NoOrphanedState'
      <4>1. quota'[t] # NoRule
        <5>1. (IF quota[t] = NoRule THEN 1 ELSE quota[t].enabled) \in {0, 1}
          BY <3>0 DEF QuotaRow
        <5>2. quota'[t] \in QuotaRow
          BY <3>0, <3>1, <5>1 DEF SetQuotaRule, QuotaRow
        <5> QED BY <3>0, <5>2
      <4> QED BY <3>0, <3>1, <4>1 DEF SetQuotaRule
    <3>2. ASSUME NEW mode \in {"temporary", "permanent"}, NEW until \in Nat,
                 SetAccessBlock(t, mode, until)
          PROVE  NoOrphanedState'
      <4>1. access'[t] # NoRule
        <5>1. (IF access[t] = NoRule THEN 1 ELSE access[t].enabled) \in {0, 1}
          BY <3>0 DEF AccessRow
        <5>2. access'[t] \in AccessRow
          BY <3>0, <3>2, <5>1 DEF SetAccessBlock, AccessRow
        <5> QED BY <3>0, <5>2
      <4> QED BY <3>0, <3>2, <4>1 DEF SetAccessBlock
    <3>3. CASE BlockPermanently(t)
      BY <3>2, <3>3 DEF BlockPermanently
    <3>4. ASSUME NEW d \in Durations, BlockFor(t, d) PROVE NoOrphanedState'
      <4>1. clock + d \in Nat
        BY PolicyAssumption DEF PolicyAssumption
      <4> QED BY <3>2, <3>4, <4>1 DEF BlockFor
    <3>5. CASE DeleteQuotaRule(t)
      BY <3>0, <3>5 DEF DeleteQuotaRule, CleanedUp
    <3>6. CASE DeleteAccessBlock(t)
      BY <3>0, <3>6 DEF DeleteAccessBlock, CleanedUp
    <3>7. ASSUME NEW e \in {0, 1}
          PROVE  /\ quota[t] # NoRule =>
                      [quota EXCEPT ![t].enabled = e][t] # NoRule
                 /\ access[t] # NoRule =>
                      [access EXCEPT ![t].enabled = e][t] # NoRule
      <4>1. ASSUME quota[t] # NoRule
            PROVE  [quota EXCEPT ![t].enabled = e][t] # NoRule
        <5>1. [quota EXCEPT ![t].enabled = e][t] \in QuotaRow
          BY <3>0, <3>7, <4>1 DEF QuotaRow
        <5> QED BY <3>0, <5>1
      <4>2. ASSUME access[t] # NoRule
            PROVE  [access EXCEPT ![t].enabled = e][t] # NoRule
        <5>1. [access EXCEPT ![t].enabled = e][t] \in AccessRow
          BY <3>0, <3>7, <4>2 DEF AccessRow
        <5> QED BY <3>0, <5>1
      <4> QED BY <4>1, <4>2
    <3>8. ASSUME NEW e \in {0, 1}, SetPolicyEnabled(t, e) PROVE NoOrphanedState'
      BY <3>0, <3>7, <3>8 DEF SetPolicyEnabled
    <3>9. ASSUME NEW e \in {0, 1}, SetQuotaEnabled(t, e) PROVE NoOrphanedState'
      BY <3>0, <3>7, <3>9 DEF SetQuotaEnabled
    <3>10. ASSUME NEW e \in {0, 1}, SetAccessEnabled(t, e) PROVE NoOrphanedState'
      BY <3>0, <3>7, <3>10 DEF SetAccessEnabled
    <3>11. CASE DeletePolicyBundle(t)
      BY <3>0, <3>11 DEF DeletePolicyBundle
    <3>12. CASE BypassQuota(t)
      <4>1. [quota EXCEPT ![t].bypass = Month(clock)][t] \in QuotaRow
        BY <3>0, <3>12, MonthType, PolicyAssumption DEF BypassQuota, QuotaRow
      <4> QED BY <3>0, <3>12, <4>1 DEF BypassQuota
    <3> QED BY <2>2, <3>1, <3>3, <3>4, <3>5, <3>6, <3>8, <3>9, <3>10, <3>11,
               <3>12 DEF Administer
  <2> QED BY <2>1, <2>2 DEF PolicyNext, CollectorWrites, Sync, SyncNobody,
                            Book, Tick, policyVars, ruleVars, ledgerVars
<1> QED BY <1>1, <1>2, PolicyTypeCorrect, PTL DEF PolicySpec
============================================================================
