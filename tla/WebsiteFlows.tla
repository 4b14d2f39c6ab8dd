---------------------------- MODULE WebsiteFlows ----------------------------
(***************************************************************************)
(* Website details: the byte counters of conntrack's connections, sampled  *)
(* once per cycle (WebsiteCollector.collect), become visits and bytes of   *)
(* domains (record_website_flows), and old rows are deleted once a day     *)
(* (cleanup_website_history).                                              *)
(*                                                                         *)
(* Conntrack counts packets before the firewall drops them, so the cycle   *)
(* passes its list of blocked addresses along: flows of those are followed *)
(* and not booked.                                                         *)
(*                                                                         *)
(* Abstractions.  The name the capture thread knows for a destination may  *)
(* be any at any time.  A row of the daily or the recent table is its key; *)
(* what flows add to such rows is kept per flow, in booked and visits.     *)
(* Time is counted in buckets of the recent table.                         *)
(***************************************************************************)
EXTENDS Integers

CONSTANTS
    Directions,     \* upload and download
    Flows,          \* flow keys: protocol, addresses and ports
    Devices,        \* Tailscale addresses
    DeviceOf,       \* the address of a flow
    Names,          \* domain names
    IP,             \* a destination without a known name
    NoConn,         \* conntrack has no connection of that key
    NoRow,
    DayLength,      \* buckets in a day
    RecentBuckets,  \* buckets the recent table keeps
    RetentionDays,
    MaxTime, MaxBytes, MaxConns  \* bounds of clock, bytes and connections

Dests      == Names \cup {IP}
Bytes      == [Directions -> Nat]
Day(t)     == t \div DayLength

ASSUME FlowsAssumption ==
    /\ DeviceOf \in [Flows -> Devices]
    /\ IP \notin Names
    /\ DayLength \in Nat \ {0} /\ RetentionDays \in Nat \ {0}
    /\ RecentBuckets \in Nat \ {0}
    /\ MaxTime \in Nat /\ MaxBytes \in Nat /\ MaxConns \in Nat
    /\ NoConn \notin Bytes

FlowState == [bytes : Bytes, dest : Dests, updated : Nat]

ASSUME NoRowAssumption == NoRow \notin FlowState

VARIABLES
    clock,
    conn,      \* conntrack: the counters of each flow key
    dropping,  \* addresses the kernel drops
    sent,      \* history: bytes conntrack ever counted
    passed,    \* history: those of packets that were not dropped
    opened,    \* history: connections per flow key
    known,     \* addresses with a row in devices
    flowState, \* website_flow_state
    booked,    \* bytes ever added to the domain tables, per flow
    skipped,   \* history: bytes left out because of a block
    visits,    \* visits ever added, per flow
    domains,   \* rows of domains
    daily,     \* keys of device_domain_daily: <<day, dest>>
    recent,    \* keys of device_domain_recent: <<bucket, dest>>
    cleaned,   \* meta website_last_cleanup, -1 before the first
    pc,
    ignored,   \* the cycle's list of blocked addresses
    sample     \* its listing of conntrack

traffic == <<conn, sent, passed, opened>>
tables  == <<flowState, booked, skipped, visits, domains, daily, recent>>
vars    == <<clock, conn, dropping, sent, passed, opened, known, flowState,
             booked, skipped, visits, domains, daily, recent, cleaned, pc,
             ignored, sample>>

None == [d \in Directions |-> 0]

Init ==
    /\ clock = 0
    /\ conn = [f \in Flows |-> NoConn]
    /\ dropping = {}
    /\ sent = [f \in Flows |-> None]
    /\ passed = [f \in Flows |-> None]
    /\ opened = [f \in Flows |-> 0]
    /\ known \in SUBSET Devices
    /\ flowState = [f \in Flows |-> NoRow]
    /\ booked = [f \in Flows |-> None]
    /\ skipped = [f \in Flows |-> None]
    /\ visits = [f \in Flows |-> 0]
    /\ domains = {}
    /\ daily = {}
    /\ recent = {}
    /\ cleaned = -1
    /\ pc = "idle"
    /\ ignored = {}
    /\ sample = conn

----------------------------------------------------------------------------
(* Conntrack, the devices table and the clock *)

Open(f) ==
    /\ conn[f] = NoConn
    /\ opened[f] < MaxConns
    /\ conn' = [conn EXCEPT ![f] = None]
    /\ opened' = [opened EXCEPT ![f] = @ + 1]
    /\ UNCHANGED <<clock, dropping, sent, passed, known, tables, cleaned, pc,
                   ignored, sample>>

Close(f) ==
    /\ conn[f] # NoConn
    /\ conn' = [conn EXCEPT ![f] = NoConn]
    /\ UNCHANGED <<clock, dropping, sent, passed, opened, known, tables,
                   cleaned, pc, ignored, sample>>

\* Counted before the FORWARD chain decides.
Packet(f, d) ==
    /\ conn[f] # NoConn
    /\ sent[f][d] < MaxBytes
    /\ conn' = [conn EXCEPT ![f][d] = @ + 1]
    /\ sent' = [sent EXCEPT ![f][d] = @ + 1]
    /\ passed' = IF DeviceOf[f] \in dropping THEN passed
                 ELSE [passed EXCEPT ![f][d] = @ + 1]
    /\ UNCHANGED <<clock, dropping, opened, known, tables, cleaned, pc,
                   ignored, sample>>

\* sync_peers or record_counters insert the address.
Learn(a) ==
    /\ a \notin known
    /\ known' = known \cup {a}
    /\ UNCHANGED <<clock, traffic, dropping, tables, cleaned, pc, ignored,
                   sample>>

Tick ==
    /\ clock < MaxTime
    /\ clock' = clock + 1
    /\ UNCHANGED <<traffic, dropping, known, tables, cleaned, pc, ignored,
                   sample>>

----------------------------------------------------------------------------
(* One cycle *)

NoLocals ==
    /\ pc' = "idle"
    /\ ignored' = {}
    /\ sample' = [f \in Flows |-> NoConn]

\* apply_policies, with whatever the rules are by now.  When it fails with
\* one family installed, that is this action and Fail.
ApplyPolicies(D) ==
    /\ pc = "idle"
    /\ pc' = "blocked"
    /\ dropping' = D
    /\ ignored' = D
    /\ UNCHANGED <<clock, traffic, known, tables, cleaned, sample>>

\* conntrack -L
ListFlows ==
    /\ pc = "blocked"
    /\ pc' = "listed"
    /\ sample' = conn
    /\ UNCHANGED <<clock, traffic, dropping, known, tables, cleaned, ignored>>

Stale(f) ==
    flowState[f] # NoRow /\ flowState[f].updated < clock - 2 * DayLength

\* Mutant: stale baselines are deleted before the flows are booked.
PreviousIfFresh(f) == IF Stale(f) THEN NoRow ELSE flowState[f]

\* The baseline of a flow; stale ones are deleted after the loop.
Previous(f) == flowState[f]

\* Mutant: a connection that rests counts as a new one.
IsResetUnlessGrown(f) ==
    \/ Previous(f) = NoRow
    \/ \E d \in Directions : sample[f][d] <= Previous(f).bytes[d]

\* The first sample of a connection.
IsReset(f) ==
    \/ Previous(f) = NoRow
    \/ \E d \in Directions : sample[f][d] < Previous(f).bytes[d]

\* Mutant: restarts are not noticed.
FlowDeltaWithoutReset(f) ==
    [d \in Directions |->
        IF Previous(f) = NoRow THEN sample[f][d]
        ELSE sample[f][d] - Previous(f).bytes[d]]

FlowDelta(f) ==
    [d \in Directions |->
        IF IsReset(f) THEN sample[f][d]
        ELSE sample[f][d] - Previous(f).bytes[d]]

\* A flow keeps its name; only an address gives way to a name.
Destination(f, name) ==
    IF IsReset(f) \/ Previous(f).dest = IP THEN name ELSE Previous(f).dest

Sampled(f) == sample[f] # NoConn /\ DeviceOf[f] \in known

\* Mutant: blocked flows are not followed at all.
FollowedUnlessBlocked(f) == Sampled(f) /\ DeviceOf[f] \notin ignored

\* Flows whose baseline is brought up to date, blocked ones too.
Followed(f) == Sampled(f)

Booked(f) ==
    /\ Sampled(f)
    /\ DeviceOf[f] \notin ignored
    /\ IsReset(f) \/ \E d \in Directions : FlowDelta(f)[d] # 0

Added(amount, f) ==
    [d \in Directions |-> amount[f][d] + FlowDelta(f)[d]]

\* record_website_flows: one transaction.
RecordFlows(name) ==
    /\ pc = "listed"
    /\ pc' = "recorded"
    /\ flowState' =
         [f \in Flows |->
            IF Followed(f)
            THEN [bytes |-> sample[f], dest |-> Destination(f, name[f]),
                  updated |-> clock]
            ELSE IF Stale(f) THEN NoRow ELSE flowState[f]]
    /\ booked' = [f \in Flows |-> IF Booked(f) THEN Added(booked, f)
                                  ELSE booked[f]]
    /\ skipped' = [f \in Flows |-> IF Sampled(f) /\ DeviceOf[f] \in ignored
                                   THEN Added(skipped, f) ELSE skipped[f]]
    /\ visits' = [f \in Flows |-> IF Booked(f) /\ IsReset(f)
                                  THEN visits[f] + 1 ELSE visits[f]]
    /\ LET touched == {Destination(f, name[f]) : f \in {g \in Flows : Booked(g)}}
       IN  /\ domains' = domains \cup touched
           /\ daily' = daily \cup ({Day(clock)} \X touched)
           /\ recent' = {r \in recent \cup ({clock} \X touched) :
                           r[1] >= clock - RecentBuckets + 1}
    /\ UNCHANGED <<clock, traffic, dropping, known, cleaned, ignored, sample>>

\* Mutant: only the daily rows keep a domain.
CleanupByDailyRows ==
    /\ pc = "recorded"
    /\ NoLocals
    /\ IF cleaned = Day(clock) THEN UNCHANGED <<domains, daily, cleaned>>
       ELSE /\ cleaned' = Day(clock)
            /\ daily' = {r \in daily : r[1] >= Day(clock) - RetentionDays}
            /\ domains' = {r[2] : r \in daily'}
    /\ UNCHANGED <<clock, traffic, dropping, known, flowState, booked,
                   skipped, visits, recent>>

\* cleanup_website_history: once a day.
Cleanup ==
    /\ pc = "recorded"
    /\ NoLocals
    /\ IF cleaned = Day(clock) THEN UNCHANGED <<domains, daily, cleaned>>
       ELSE /\ cleaned' = Day(clock)
            /\ daily' = {r \in daily : r[1] >= Day(clock) - RetentionDays}
            /\ domains' = {d \in domains : \E r \in daily' \cup recent : r[2] = d}
    /\ UNCHANGED <<clock, traffic, dropping, known, flowState, booked,
                   skipped, visits, recent>>

\* conntrack fails or has no byte counts, the transaction is rolled back, or
\* the collector is killed.
Fail ==
    /\ pc # "idle"
    /\ NoLocals
    /\ UNCHANGED <<clock, traffic, dropping, known, tables, cleaned>>

Next ==
    \/ \E f \in Flows : Open(f) \/ Close(f)
    \/ \E f \in Flows, d \in Directions : Packet(f, d)
    \/ \E a \in Devices : Learn(a)
    \/ Tick
    \/ \E D \in SUBSET Devices : ApplyPolicies(D)
    \/ ListFlows
    \/ \E name \in [Flows -> Dests] : RecordFlows(name)
    \/ Cleanup
    \/ Fail

Spec == Init /\ [][Next]_vars

----------------------------------------------------------------------------
(* Properties *)

\* Every table keeps its type; no delta that record_website_flows adds is
\* ever negative.
TypeOK ==
    /\ clock \in 0 .. MaxTime
    /\ conn \in [Flows -> Bytes \cup {NoConn}]
    /\ sample \in [Flows -> Bytes \cup {NoConn}]
    /\ dropping \subseteq Devices /\ known \subseteq Devices
    /\ ignored \subseteq Devices
    /\ \A amount \in {sent, passed, booked, skipped} : amount \in [Flows -> Bytes]
    /\ opened \in [Flows -> Nat] /\ visits \in [Flows -> Nat]
    /\ flowState \in [Flows -> FlowState \cup {NoRow}]
    /\ domains \subseteq Dests
    /\ daily \subseteq Nat \X Dests
    /\ recent \subseteq Nat \X Dests
    /\ cleaned \in Nat \cup {-1}
    /\ pc \in {"idle", "blocked", "listed", "recorded"}

\* Whatever connections reuse a key, cycles fail and baselines expire, no
\* byte of a flow is booked or skipped twice.
FlowNeverOvercounted ==
    \A f \in Flows, d \in Directions :
        booked[f][d] + skipped[f][d] <= sent[f][d]

\* A key that had one connection is accounted for exactly up to its last
\* sample: following a blocked flow neither loses bytes nor repeats them.
ExactUpToBaseline ==
    \A f \in Flows :
        opened[f] = 1 /\ flowState[f] # NoRow =>
            \A d \in Directions :
                booked[f][d] + skipped[f][d] = flowState[f].bytes[d]

\* A connection is at most one visit, however often it is sampled.
OneVisitPerConnection == \A f \in Flows : visits[f] <= opened[f]

\* The foreign keys of the domain tables, through retention and cleanup: the
\* recent rows of a domain outlive its daily ones and the other way round.
DomainsReferenced == \A r \in daily \cup recent : r[2] \in domains

\* database.py on the baselines of blocked flows: "prevents those bytes being
\* added after a later unblock": only what passed the firewall is booked.
BlockedBytesNotBooked ==
    \A f \in Flows, d \in Directions : booked[f][d] <= passed[f][d]
============================================================================
