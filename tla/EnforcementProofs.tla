------------------------- MODULE EnforcementProofs -------------------------
(* Cycles and edits for every tailnet, set of rules and calendar.           *)
EXTENDS Enforcement, PolicyProofs, FiniteSetTheorems

\* Everything an edit of the rules or a tick leaves alone.
cycleVars == <<listed, pending, cycle, decision, active>>

\* An edit changes rules only.
LEMMA EditsRulesOnly ==
    ASSUME NEW t, Administer(t) PROVE UNCHANGED <<clock, ledgerVars>>
BY DEF Administer, SetQuotaRule, BlockPermanently, BlockFor, SetAccessBlock,
       DeleteQuotaRule, DeleteAccessBlock, SetPolicyEnabled, SetQuotaEnabled,
       SetAccessEnabled, DeletePolicyBundle, BypassQuota

\* The rules block known addresses only.
LEMMA BlockedType == BlockedAddresses \subseteq Addrs
BY DEF BlockedAddresses, TargetAddrs

\* Booking a sample adds whole numbers.
LEMMA RecordType ==
    ASSUME TypeOK, Record PROVE usage' \in [Target -> [Months -> Nat]]
<1>1. \A t \in Target : Cardinality(sample \cap TargetAddrs(t)) \in Nat
  <2> SUFFICES ASSUME NEW t \in Target
               PROVE  Cardinality(sample \cap TargetAddrs(t)) \in Nat
    OBVIOUS
  <2>1. IsFiniteSet(Addrs) /\ sample \cap TargetAddrs(t) \subseteq Addrs
    BY EnforcementAssumption DEF TypeOK
  <2> QED BY <2>1, FS_Subset, FS_CardinalityType
<1>2. ASSUME NEW t \in Target, NEW m \in Months
      PROVE  usage[t][m] + (IF m = Month(clock)
                            THEN Cardinality(sample \cap TargetAddrs(t))
                            ELSE 0) \in Nat
  <2>1. usage[t][m] \in Nat
    BY DEF TypeOK, PolicyTypeOK
  <2>2. (IF m = Month(clock) THEN Cardinality(sample \cap TargetAddrs(t))
                             ELSE 0) \in Nat
    BY <1>1
  <2> QED BY <2>1, <2>2
<1>3. usage' = [t \in Target |-> [m \in Months |->
                  usage[t][m] + IF m = Month(clock)
                                THEN Cardinality(sample \cap TargetAddrs(t))
                                ELSE 0]]
  BY DEF Record
<1> QED BY <1>2, <1>3

\* Who is present after sync_peers has an identity row.
LEMMA SyncType ==
    ASSUME TypeOK, SyncPeers PROVE PolicyTypeOK'
<1> DEFINE asked == {a \in sample : devices[a] = NoRow}
           bound == {a \in Addrs : HolderOf[a].identity \in seen} \cup asked
           users == {HolderOf[a].identity : a \in bound}
<1>1. bound \subseteq Addrs /\ users \subseteq Users
  BY EnforcementAssumption DEF TypeOK, DeviceRow
<1>2. /\ identities' = identities \cup users
      /\ present' = users
      /\ devices' = [a \in Addrs |-> IF a \in bound THEN HolderOf[a]
                                     ELSE devices[a]]
      /\ UNCHANGED <<clock, usage, ruleVars>>
  BY DEF SyncPeers
<1> HIDE DEF bound, users
<1>3. devices' \in [Addrs -> DeviceRow \cup {NoRow}]
  BY <1>2, EnforcementAssumption DEF TypeOK, PolicyTypeOK
<1> QED BY <1>1, <1>2, <1>3 DEF TypeOK, PolicyTypeOK, ruleVars

\* The tables and the locals of the collector's cycle keep their types.
THEOREM TypeCorrect == Spec => []TypeOK
<1> USE DEF cycle, ledgerVars, ruleVars, policyVars
<1>1. Init => TypeOK
  BY PolicyInitType, PolicyAssumption DEF Init, TypeOK
<1>2. TypeOK /\ [Next]_vars => TypeOK'
  <2> SUFFICES ASSUME TypeOK, [Next]_vars PROVE TypeOK'
    OBVIOUS
  <2>1. UNCHANGED policyVars => PolicyTypeOK'
    BY PolicyTypeStep, PolicyAssumption DEF TypeOK
  <2>2. CASE UNCHANGED vars
    BY <2>1, <2>2 DEF vars, TypeOK
  <2>3. ASSUME NEW a \in Addrs, Forwards(a) PROVE TypeOK'
    BY <2>1, <2>3 DEF Forwards, TypeOK
  <2>4. ASSUME NEW u \in Users, Relist(u) PROVE TypeOK'
    BY <2>1, <2>4 DEF Relist, TypeOK
  <2>5. ASSUME NEW t \in Managed, Dashboard(t) PROVE TypeOK'
    <3>1. PolicyTypeOK'
      BY <2>5, PolicyTypeStep, PolicyAssumption
         DEF Dashboard, PolicyNext, TypeOK
    <3> QED BY <2>5, <3>1 DEF Dashboard, TypeOK
  <2>6. CASE Time
    <3>1. PolicyTypeOK'
      BY <2>6, PolicyTypeStep, PolicyAssumption DEF Time, PolicyNext, TypeOK
    <3> QED BY <2>6, <3>1 DEF Time, TypeOK
  <2>7. CASE Reboot
    BY <2>1, <2>7 DEF Reboot, NoLocals, TypeOK
  <2>8. CASE ListPeers
    BY <2>1, <2>8 DEF ListPeers, TypeOK
  <2>9. CASE ReadCounters
    BY <2>1, <2>9 DEF ReadCounters, TypeOK
  <2>10. CASE SyncPeers
    <3>1. PolicyTypeOK'
      BY <2>10, SyncType
    <3> QED BY <2>10, <3>1 DEF SyncPeers, TypeOK
  <2>11. CASE Decide
    BY <2>1, <2>11, BlockedType DEF Decide, TypeOK
  <2>12. ASSUME NEW f \in Families, Install(f) PROVE TypeOK'
    <3>1. Part(decision, f) \in SUBSET Addrs
      BY DEF Part, TypeOK
    <3> QED BY <2>1, <2>12, <3>1 DEF Install, TypeOK
  <2>13. CASE Record
    <3>1. PolicyTypeOK'
      BY <2>13, RecordType DEF Record, TypeOK, PolicyTypeOK
    <3> QED BY <2>13, <3>1 DEF Record, NoLocals, TypeOK
  <2>14. CASE Fail
    BY <2>1, <2>14 DEF Fail, NoLocals, TypeOK
  <2> QED BY <2>2, <2>3, <2>4, <2>5, <2>6, <2>7, <2>8, <2>9, <2>10, <2>11,
             <2>12, <2>13, <2>14 DEF Next, Collect
<1> QED BY <1>1, <1>2, PTL DEF Spec

----------------------------------------------------------------------------
(* Booking *)

\* A family that is done drops by the cycle's own verdict.
InForce ==
    pc = "decided" =>
      \A f \in Families \ left : active[f] = Part(decision, f)

\* With both families done, exactly the verdict is dropped.
LEMMA VerdictDropped ==
    ASSUME TypeOK, InForce, pc = "decided", left = {}
    PROVE  Dropped = decision
<1>1. \A f \in Families : active[f] = Part(decision, f)
  BY DEF InForce
<1>2. \A a \in decision : FamilyOf[a] \in Families
  BY EnforcementAssumption DEF TypeOK
<1>3. Dropped = UNION {Part(decision, f) : f \in Families}
  BY <1>1 DEF Dropped
<1> QED BY <1>2, <1>3 DEF Part

LEMMA InForceStep == TypeOK /\ InForce /\ [Next]_vars => InForce'
<1> SUFFICES ASSUME TypeOK, InForce, [Next]_vars PROVE InForce'
  OBVIOUS
<1> USE DEF cycle
<1>1. CASE UNCHANGED cycleVars
  BY <1>1 DEF cycleVars, InForce, Part
<1>2. ASSUME NEW f \in Families, Install(f) PROVE InForce'
  <2>1. /\ active' = [active EXCEPT ![f] = Part(decision, f)]
        /\ left' = left \ {f}
        /\ UNCHANGED <<pc, decision>>
    BY <1>2 DEF Install
  <2>2. ASSUME NEW g \in Families \ left', pc = "decided"
        PROVE  active'[g] = Part(decision, g)
    BY <2>1, <2>2 DEF TypeOK, InForce
  <2> QED BY <2>1, <2>2 DEF InForce, Part
<1>3. CASE Decide
  BY <1>3 DEF Decide, InForce
<1>4. CASE Reboot \/ ListPeers \/ ReadCounters \/ SyncPeers \/ Record \/ Fail
  BY <1>4 DEF Reboot, ListPeers, ReadCounters, SyncPeers, Record, Fail, InForce
<1>5. ASSUME NEW a \in Addrs, Forwards(a) PROVE InForce'
  BY <1>5 DEF Forwards, InForce, Part
<1>6. ASSUME NEW u \in Users, Relist(u) PROVE InForce'
  BY <1>6 DEF Relist, InForce, Part
<1>7. CASE Time \/ \E t \in Managed : Dashboard(t)
  BY <1>1, <1>7 DEF Time, Dashboard, cycleVars
<1> QED BY <1>1, <1>2, <1>3, <1>4, <1>5, <1>6, <1>7
        DEF Next, Collect, vars, cycleVars

\* Nothing is booked in a cycle before that cycle's verdict is what the
\* kernel drops, for every tailnet and whatever is edited meanwhile.
THEOREM BooksUnderVerdict == Spec => BookedUnderVerdict
<1> USE DEF cycle, ledgerVars, policyVars
<1>1. Init => InForce
  BY DEF Init, InForce
<1>2. TypeOK /\ InForce /\ [Next]_vars
        => [usage' # usage => Dropped = decision]_vars
  <2> SUFFICES ASSUME TypeOK, InForce, Next, usage' # usage
               PROVE  Dropped = decision
    OBVIOUS
  <2>1. Record
    BY EditsRulesOnly
       DEF Next, Collect, Forwards, Relist, Dashboard, Time, Tick, Reboot,
           ListPeers, ReadCounters, SyncPeers, Decide, Install, Fail
  <2> QED BY <2>1, VerdictDropped DEF Record
<1> QED BY <1>1, <1>2, InForceStep, TypeCorrect, PTL
        DEF Spec, BookedUnderVerdict

----------------------------------------------------------------------------
(* The block list of the composed cycle *)

Atomic == INSTANCE BlockList WITH verdict <- decision, blocked <- active

\* Whatever is edited, fails or reboots, the cycle uses the block list as
\* set_blocked provides it, by the mapping with which BlockSets implements
\* it: Decide is the call, Install one family of it, a reboot clears it.
THEOREM EnforcesAtomically == Spec => Atomic!Spec
<1>1. Init => Atomic!Init
  BY DEF Init, Atomic!Init, Atomic!Nothing
<1>2. TypeOK /\ [Next]_vars => [Atomic!Next]_<<decision, active>>
  <2> SUFFICES ASSUME TypeOK, [Next]_vars
               PROVE  Atomic!Next \/ UNCHANGED <<decision, active>>
    OBVIOUS
  <2>1. CASE Decide
    <3>1. Atomic!Decide
      BY <2>1, BlockedType DEF Decide, Atomic!Decide
    <3> QED BY <3>1 DEF Atomic!Next
  <2>2. ASSUME NEW f \in Families, Install(f) PROVE Atomic!Install(f)
    BY <2>2 DEF Install, Part, Atomic!Install, Atomic!Part
  <2>3. CASE Reboot
    <3>1. Atomic!Clear
      BY <2>3 DEF Reboot, Atomic!Clear, Atomic!Nothing
    <3> QED BY <3>1 DEF Atomic!Next
  <2>4. CASE UNCHANGED <<decision, active>>
    BY <2>4
  <2> QED BY <2>1, <2>2, <2>3, <2>4
          DEF Next, Collect, vars, Forwards, Relist, Dashboard, Time,
              ListPeers, ReadCounters, SyncPeers, Record, Fail, Atomic!Next
<1> QED BY <1>1, <1>2, TypeCorrect, PTL DEF Spec, Atomic!Spec
============================================================================
