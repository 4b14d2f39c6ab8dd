---------------------------- MODULE Enforcement ----------------------------
(***************************************************************************)
(* From a rule in traffic.db to packets dropped by the kernel: the         *)
(* collector's cycle (Collector.collect) interleaved with the dashboard    *)
(* that edits the rules, the clock, the tailnet and failures.              *)
(*                                                                         *)
(* A cycle lists the peers, reads the counters, writes who is present,     *)
(* decides the block list from the rules, installs it family by family and *)
(* only then books the counters it has read.  The rules are Policy's; the  *)
(* installation of one family is one step, which BlockSets shows           *)
(* Firewall.set_blocked to implement.                                      *)
(*                                                                         *)
(* Abstractions.  Every address has one holder, bound when it is first     *)
(* listed or first asked about (WhoIs answers); TrafficLedger has rebinding *)
(* and unanswered WhoIs calls.  An address has at most one unit of traffic *)
(* that is counted and not yet booked.                                     *)
(***************************************************************************)
EXTENDS Policy

CONSTANTS Families,  \* 4 and 6
          FamilyOf,  \* the family of an address
          HolderOf   \* the DeviceRow of an address

ASSUME EnforcementAssumption ==
    /\ FamilyOf \in [Addrs -> Families]
    /\ HolderOf \in [Addrs -> DeviceRow]
    /\ IsFiniteSet(Addrs)

VARIABLES
    listed,    \* users with a node in tailscaled's status
    pending,   \* addresses whose counter grew since it was last booked
    pc,        \* the collector's place in collect()
    seen,      \* the users of its peers
    sample,    \* the addresses among its counters that grew
    decision,  \* the latest list of blocked addresses
    left,      \* families it has still to install
    active     \* family -> the addresses the kernel drops

cycle == <<pc, seen, sample, left>>
vars  == <<policyVars, listed, pending, pc, seen, sample, decision, left, active>>

Dropped == UNION {active[f] : f \in Families}

Part(D, f) == {a \in D : FamilyOf[a] = f}

\* Nothing of a cycle is left: it ended ("idle") or was cut short ("cut").
NoLocals == seen' = {} /\ sample' = {} /\ left' = {}

Init ==
    /\ PolicyInit
    /\ listed \in SUBSET Users
    /\ pending = {}
    /\ pc = "idle"
    /\ seen = {}
    /\ sample = {}
    /\ decision = {}
    /\ left = {}
    /\ active = [f \in Families |-> {}]

----------------------------------------------------------------------------
(* The environment and the dashboard *)

Forwards(a) ==
    /\ a \notin active[FamilyOf[a]]
    /\ a \notin pending
    /\ usage[[type |-> "user", key |-> HolderOf[a].identity]][Month(clock)]
         < MaxUsage
    /\ pending' = pending \cup {a}
    /\ UNCHANGED <<policyVars, listed, cycle, decision, active>>

Relist(u) ==
    /\ listed' = IF u \in listed THEN listed \ {u} ELSE listed \cup {u}
    /\ UNCHANGED <<policyVars, pending, cycle, decision, active>>

Dashboard(t) ==
    Administer(t) /\ UNCHANGED <<listed, pending, cycle, decision, active>>

Time == Tick /\ UNCHANGED <<listed, pending, cycle, decision, active>>

\* The host reboots: the block sets are empty, the counters restart.
Reboot ==
    /\ active' = [f \in Families |-> {}]
    /\ pending' = {}
    /\ pc' = "cut"
    /\ NoLocals
    /\ UNCHANGED <<policyVars, listed, decision>>

----------------------------------------------------------------------------
(* One cycle *)

ListPeers ==
    /\ pc \in {"idle", "cut"}
    /\ pc' = "listed"
    /\ seen' = listed
    /\ UNCHANGED <<policyVars, listed, pending, sample, decision, left, active>>

ReadCounters ==
    /\ pc = "listed"
    /\ pc' = "read"
    /\ sample' = pending
    /\ UNCHANGED <<policyVars, listed, pending, seen, decision, left, active>>

\* Mutant: the identities of the peers are not inserted.
SyncPeersWithoutIdentities ==
    /\ pc = "read"
    /\ pc' = "synced"
    /\ LET bound == {a \in Addrs : HolderOf[a].identity \in seen}
       IN  /\ present' = {HolderOf[a].identity : a \in bound}
           /\ devices' = [a \in Addrs |-> IF a \in bound THEN HolderOf[a]
                                          ELSE devices[a]]
    /\ UNCHANGED <<clock, identities, usage, ruleVars, listed, pending, seen,
                   sample, decision, left, active>>

\* Mutant: a known user who was absent is not marked present again.
SyncPeersWithoutReturn ==
    /\ pc = "read"
    /\ pc' = "synced"
    /\ LET asked == {a \in sample : devices[a] = NoRow}
           bound == {a \in Addrs : HolderOf[a].identity \in seen} \cup asked
           users == {HolderOf[a].identity : a \in bound}
       IN  /\ identities' = identities \cup users
           /\ present' = {u \in users : u \in identities => u \in present}
           /\ devices' = [a \in Addrs |-> IF a \in bound THEN HolderOf[a]
                                          ELSE devices[a]]
    /\ UNCHANGED <<clock, usage, ruleVars, listed, pending, seen, sample,
                   decision, left, active>>

\* unresolved_addresses, whois and sync_peers: only an address without a row
\* is asked about, so a user tailscaled does not list is seen in one cycle.
SyncPeers ==
    /\ pc = "read"
    /\ pc' = "synced"
    /\ LET asked == {a \in sample : devices[a] = NoRow}
           bound == {a \in Addrs : HolderOf[a].identity \in seen} \cup asked
           users == {HolderOf[a].identity : a \in bound}
       IN  /\ identities' = identities \cup users
           /\ present' = users
           /\ devices' = [a \in Addrs |-> IF a \in bound THEN HolderOf[a]
                                          ELSE devices[a]]
    /\ UNCHANGED <<clock, usage, ruleVars, listed, pending, seen, sample,
                   decision, left, active>>

\* apply_policies: blocked_addresses decides ...
Decide ==
    /\ pc = "synced"
    /\ pc' = "decided"
    /\ decision' = BlockedAddresses
    /\ left' = Families
    /\ UNCHANGED <<policyVars, listed, pending, seen, sample, active>>

\* Mutant: what is already dropped stays dropped.
InstallAlso(f) ==
    /\ pc = "decided"
    /\ f \in left
    /\ active' = [active EXCEPT ![f] = @ \cup Part(decision, f)]
    /\ left' = left \ {f}
    /\ UNCHANGED <<policyVars, listed, pending, pc, seen, sample, decision>>

\* ... and set_blocked installs, one family after the other.
Install(f) ==
    /\ pc = "decided"
    /\ f \in left
    /\ active' = [active EXCEPT ![f] = Part(decision, f)]
    /\ left' = left \ {f}
    /\ UNCHANGED <<policyVars, listed, pending, pc, seen, sample, decision>>

\* Mutant: the counters are booked without waiting for the block list.
RecordEarly ==
    /\ pc = "decided"
    /\ usage' = [t \in Target |-> [m \in Months |->
                   usage[t][m] + IF m = Month(clock)
                                 THEN Cardinality(sample \cap TargetAddrs(t))
                                 ELSE 0]]
    /\ pending' = pending \ sample
    /\ pc' = "idle"
    /\ NoLocals
    /\ UNCHANGED <<clock, identities, present, devices, ruleVars, listed,
                   decision, active>>

\* record_counters, then the cycle ends.
Record ==
    /\ pc = "decided"
    /\ left = {}
    /\ usage' = [t \in Target |-> [m \in Months |->
                   usage[t][m] + IF m = Month(clock)
                                 THEN Cardinality(sample \cap TargetAddrs(t))
                                 ELSE 0]]
    /\ pending' = pending \ sample
    /\ pc' = "idle"
    /\ NoLocals
    /\ UNCHANGED <<clock, identities, present, devices, ruleVars, listed,
                   decision, active>>

\* A call of the cycle raises or the collector is killed: what is installed
\* stays installed.
Fail ==
    /\ pc \notin {"idle", "cut"}
    /\ pc' = "cut"
    /\ NoLocals
    /\ UNCHANGED <<policyVars, listed, pending, decision, active>>

----------------------------------------------------------------------------
Collect ==
    \/ ListPeers
    \/ ReadCounters
    \/ SyncPeers
    \/ Decide
    \/ \E f \in Families : Install(f)
    \/ Record

Next ==
    \/ \E a \in Addrs : Forwards(a)
    \/ \E u \in Users : Relist(u)
    \/ \E t \in Managed : Dashboard(t)
    \/ Time
    \/ Reboot
    \/ Collect
    \/ Fail

Spec == Init /\ [][Next]_vars

\* The collector's loop never rests and what makes cycles fail passes.
Fairness == WF_vars(Collect) /\ <>[](pc # "cut")

FairSpec == Spec /\ Fairness

----------------------------------------------------------------------------
(* Properties *)

\* The rule tables (PolicyTypeOK) and the locals of a cycle keep their
\* types; whoever is present has an identity row.
TypeOK ==
    /\ PolicyTypeOK
    /\ listed \subseteq Users
    /\ pending \subseteq Addrs
    /\ pc \in {"idle", "cut", "listed", "read", "synced", "decided"}
    /\ seen \subseteq Users
    /\ sample \subseteq pending
    /\ decision \subseteq Addrs
    /\ left \subseteq Families
    /\ active \in [Families -> SUBSET Addrs]

\* Nothing is booked in a cycle before the verdict of that same cycle is in
\* force for both families: what a limit lets through after it was reached
\* is at most the traffic counted before the verdict.
BookedUnderVerdict ==
    [][usage' # usage => Dropped = decision]_vars

UserTarget(u) == [type |-> "user", key |-> u]

\* The limit of t is reached, switched on and not unlocked this month.
QuotaDue(t) ==
    quota[t] # NoRule /\ quota[t].enabled = 1 /\ Exceeded(t) /\ ~Bypassed(t)

\* docs/README.md: "automatically block traffic when a limit is reached",
\* for IPv4 and IPv6, whatever cycles failed before: a listed friend over the
\* limit is dropped in the end, also one that was unlisted in between.
LimitEnforced ==
    \A u \in Users :
        <>[](u \in listed /\ QuotaDue(UserTarget(u)))
            => <>[](TargetAddrs(UserTarget(u)) \subseteq Dropped)

\* Once nothing blocks an address any more - the rule is deleted, switched
\* off, unlocked, expired, or a new month began - it is forwarded again.
EventuallyReleased ==
    \A a \in Addrs :
        <>[](a \notin BlockedAddresses) => <>[](a \notin Dropped)

\* docs/README.md: "It can even identify friends from external tailnets whose
\* devices do not appear in the regular `tailscale status` output", and their
\* limits are promised to block like anyone's: the same promise for a friend
\* tailscaled never lists, whom only WhoIs finds.
LimitEnforcedOnFriends ==
    \A u \in Users :
        [](u \notin listed) /\ <>[]QuotaDue(UserTarget(u))
            => <>[](TargetAddrs(UserTarget(u)) \subseteq Dropped)
============================================================================
