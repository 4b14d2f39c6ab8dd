------------------------ MODULE TrafficLedgerProofs ------------------------
(* Theorems about TrafficLedger, for every tailnet and every bound.         *)
EXTENDS TrafficLedger, TLAPS, FiniteSetTheorems, FunctionTheorems

----------------------------------------------------------------------------
(* The helpers keep the tables well formed. *)

\* Moving usage between two rows keeps every column a natural number.
LEMMA MoveUsageType ==
    ASSUME NEW S, NEW f \in [S -> Nat], NEW old \in S, NEW new \in S
    PROVE  MoveUsage(f, old, new) \in [S -> Nat]
BY DEF MoveUsage

\* The growth of a counter is never negative.
LEMMA DeltaType ==
    ASSUME NEW previous \in Nat, NEW bytes \in Nat
    PROVE  Delta(previous, bytes) \in Nat
BY DEF Delta

\* The empty database is well formed.
LEMMA EmptyLedgerType == EmptyLedger \in Ledger
BY DEF EmptyLedger, Ledger

\* Marking users absent touches nothing but presence.
LEMMA MarkAbsentType ==
    ASSUME NEW L \in Ledger, NEW P
    PROVE  /\ MarkAbsent(L, P) \in Ledger
           /\ MarkAbsent(L, P).identities = L.identities
           /\ MarkAbsent(L, P).devices = L.devices
           /\ MarkAbsent(L, P).usage = L.usage
           /\ MarkAbsent(L, P).deviceUsage = L.deviceUsage
           /\ MarkAbsent(L, P).counterState = L.counterState
           /\ MarkAbsent(L, P).booked = L.booked
BY DEF MarkAbsent, Ledger

\* Binding an address keeps the tables well formed and no counter's
\* baseline moves.
LEMMA SyncedPeerType ==
    ASSUME LedgerAssumption, NEW L \in Ledger, NEW p \in Peer
    PROVE  /\ SyncedPeer(L, p) \in Ledger
           /\ SyncedPeer(L, p).counterState = L.counterState
           /\ SyncedPeer(L, p).booked = L.booked
<1> DEFINE row == L.devices[p.ip]
           new == [identity |-> p.identity, device |-> p.device]
           I == L.identities \cup {p.identity}
           R == L.present \cup {p.identity}
           U == IF /\ row # NoRow
                   /\ row.identity.kind = "unknown"
                   /\ row.identity # p.identity
                THEN MoveUsage(L.usage, row.identity, p.identity)
                ELSE L.usage
           V == IF row # NoRow /\ row.device # p.device
                THEN MoveUsage(L.deviceUsage, row.device, p.device)
                ELSE L.deviceUsage
           D == [L.devices EXCEPT ![p.ip] = new]
<1>1. /\ p.ip \in Addrs /\ p.identity \in Identity
      /\ p.device \in DeviceId
  BY DEF Peer, Known, DeviceId
<1>2. row # NoRow => row.identity \in Identity /\ row.device \in DeviceId
  BY <1>1 DEF Ledger, DeviceRow
<1>3. U \in [Identity -> Nat]
  BY <1>1, <1>2, MoveUsageType DEF Ledger
<1>4. V \in [DeviceId -> Nat]
  BY <1>1, <1>2, MoveUsageType DEF Ledger
<1>5. new \in DeviceRow
  BY <1>1 DEF DeviceRow
<1>6. D \in [Addrs -> DeviceRow \cup {NoRow}]
  BY <1>1, <1>5 DEF Ledger
<1>7. I \in SUBSET Identity /\ R \in SUBSET Identity
  BY <1>1 DEF Ledger
<1>8. SyncedPeer(L, p) =
        [L EXCEPT !.identities = I, !.present = R, !.usage = U,
                  !.deviceUsage = V, !.devices = D]
  BY DEF SyncedPeer, Ledger
<1> HIDE DEF row, new, I, R, U, V, D
<1> QED BY <1>3, <1>4, <1>6, <1>7, <1>8 DEF Ledger

\* Giving an address its own row keeps the tables well formed, moves no
\* usage and no baseline, and leaves the address with a row.
LEMMA EnsuredUnknownType ==
    ASSUME NEW L \in Ledger, NEW a \in Addrs
    PROVE  /\ EnsuredUnknown(L, a) \in Ledger
           /\ EnsuredUnknown(L, a).usage = L.usage
           /\ EnsuredUnknown(L, a).deviceUsage = L.deviceUsage
           /\ EnsuredUnknown(L, a).counterState = L.counterState
           /\ EnsuredUnknown(L, a).booked = L.booked
           /\ EnsuredUnknown(L, a).devices[a] \in DeviceRow
<1>1. Unknown(a) \in Identity /\ a \in DeviceId
  BY DEF Unknown, Identity, DeviceId
<1>2. [identity |-> Unknown(a), device |-> a] \in DeviceRow
  BY <1>1 DEF DeviceRow
<1> QED BY <1>1, <1>2 DEF EnsuredUnknown, Ledger

\* Booking a counter keeps the tables well formed and touches the baseline
\* of that counter alone.
LEMMA BookedCounterType ==
    ASSUME NEW L \in Ledger, NEW k \in Keys, NEW bytes \in Nat
    PROVE  /\ BookedCounter(L, k, bytes) \in Ledger
           /\ BookedCounter(L, k, bytes).counterState =
                [L.counterState EXCEPT ![k] = bytes]
           /\ BookedCounter(L, k, bytes).booked =
                [L.booked EXCEPT ![k] = @ + Delta(L.counterState[k], bytes)]
<1> DEFINE E     == EnsuredUnknown(L, k[1])
           row   == E.devices[k[1]]
           delta == Delta(L.counterState[k], bytes)
<1>1. k[1] \in Addrs
  BY DEF Keys
<1>2. /\ E \in Ledger
      /\ row \in DeviceRow
      /\ E.booked = L.booked
      /\ E.counterState = L.counterState
  BY <1>1, EnsuredUnknownType
<1>3. delta \in Nat
  BY DeltaType DEF Ledger
<1>4. row.identity \in Identity /\ row.device \in DeviceId
  BY <1>2 DEF DeviceRow
<1>5. BookedCounter(L, k, bytes) =
        [E EXCEPT
           !.counterState[k] = bytes,
           !.usage[row.identity] = @ + delta,
           !.deviceUsage[row.device] = @ + delta,
           !.booked[k] = @ + delta]
  BY DEF BookedCounter
<1> HIDE DEF E, row, delta
<1>6. /\ [E.counterState EXCEPT ![k] = bytes] \in [Keys -> Nat]
      /\ [E.usage EXCEPT ![row.identity] = @ + delta] \in [Identity -> Nat]
      /\ [E.deviceUsage EXCEPT ![row.device] = @ + delta]
           \in [DeviceId -> Nat]
      /\ [E.booked EXCEPT ![k] = @ + delta] \in [Keys -> Nat]
  BY <1>2, <1>3, <1>4 DEF Ledger
<1>7. /\ BookedCounter(L, k, bytes) \in Ledger
      /\ BookedCounter(L, k, bytes).counterState =
           [E.counterState EXCEPT ![k] = bytes]
      /\ BookedCounter(L, k, bytes).booked =
           [E.booked EXCEPT ![k] = @ + delta]
  BY <1>2, <1>5, <1>6 DEF Ledger
<1> QED BY <1>2, <1>7 DEF delta

----------------------------------------------------------------------------
(* Type correctness *)

\* What tailscaled says of an address is a peer.
LEMMA PeerTypes ==
    ASSUME LedgerAssumption, NEW a \in Addrs, NEW n \in Nodes
    PROVE  StatusPeer(a, n) \in Peer /\ WhoisPeer(a, n) \in Peer
BY DEF LedgerAssumption, StatusPeer, WhoisPeer, Peer, Known, Identity, User

\* Every reachable state is well typed: usage columns and baselines are
\* natural numbers whatever counters reset and transactions fail.
THEOREM TypeCorrect == Spec => []TypeOK
<1> USE LedgerAssumption
<1>1. Init => TypeOK
  <2> SUFFICES ASSUME Init PROVE TypeOK
    OBVIOUS
  <2>1. [k \in Keys |-> 0] \in [Keys -> Nat]
    OBVIOUS
  <2> QED BY <2>1, EmptyLedgerType DEF Init, TypeOK
<1>2. TypeOK /\ [Next]_vars => TypeOK'
  <2> SUFFICES ASSUME TypeOK, [Next]_vars PROVE TypeOK'
    OBVIOUS
  <2>1. CASE UNCHANGED vars
    BY <2>1 DEF TypeOK, vars
  <2>2. ASSUME NEW k \in Keys, Traffic(k) PROVE TypeOK'
    BY <2>2 DEF TypeOK, Traffic, world, collector
  <2>3. ASSUME NEW a \in Addrs, NEW n \in Nodes \cup {NoNode},
               Reassign(a, n)
        PROVE TypeOK'
    BY <2>3 DEF TypeOK, Reassign, counting, collector
  <2>4. ASSUME NEW n \in Nodes, Relist(n) PROVE TypeOK'
    BY <2>4 DEF TypeOK, Relist, counting, collector
  <2>5. CASE Reboot
    <3>1. [k \in Keys |-> 0] \in [Keys -> Nat]
      OBVIOUS
    <3>2. /\ kernel' \in [Keys -> Nat] /\ sample' \in [Keys -> Nat]
          /\ unread' \subseteq Keys /\ peers' \subseteq Peer
          /\ reboots' \in Nat /\ todo' = {} /\ pc' = "cut"
          /\ dumped' \subseteq Keys
      BY <2>5, <3>1 DEF TypeOK, Reboot, NoLocals
    <3>3. hooked' \in BOOLEAN
      BY <2>5 DEF Reboot
    <3>4. UNCHANGED <<net, listed, moves, sent, db>> /\ tx' = db
      BY <2>5 DEF Reboot, world
    <3> QED BY <3>2, <3>3, <3>4 DEF TypeOK
  <2>6. CASE ListPeers
    <3>1. \A a \in Addrs : net[a] \in listed => net[a] \in Nodes
      BY DEF TypeOK
    <3>2. peers' \subseteq Peer
      BY <2>6, <3>1, PeerTypes DEF ListPeers
    <3> QED BY <2>6, <3>2 DEF TypeOK, ListPeers, world, counting
  <2>7. CASE EnsureChains
    BY <2>7 DEF TypeOK, EnsureChains, world
  <2>8. ASSUME NEW k \in Keys, ReadCounter(k) PROVE TypeOK'
    BY <2>8 DEF TypeOK, ReadCounter, world, counting
  <2>9. CASE FindUnresolved
    BY <2>9 DEF TypeOK, FindUnresolved, world, counting
  <2>10. ASSUME NEW a \in Addrs, WhoisAnswers(a) PROVE TypeOK'
    <3>1. WhoisPeer(a, net[a]) \in Peer
      BY <2>10, PeerTypes DEF TypeOK, WhoisAnswers
    <3> QED BY <2>10, <3>1 DEF TypeOK, WhoisAnswers, world, counting
  <2>11. ASSUME NEW a \in Addrs, WhoisFails(a) PROVE TypeOK'
    BY <2>11 DEF TypeOK, WhoisFails, world, counting
  <2>12. CASE SyncBegin
    BY <2>12, MarkAbsentType DEF TypeOK, SyncBegin, world, counting
  <2>13. ASSUME NEW p \in Peer, SyncPeer(p) PROVE TypeOK'
    BY <2>13, SyncedPeerType DEF TypeOK, SyncPeer, world, counting
  <2>14. CASE SyncCommit
    BY <2>14 DEF TypeOK, SyncCommit, world, counting
  <2>15. CASE RecordBegin
    BY <2>15 DEF TypeOK, RecordBegin, world, counting
  <2>16. ASSUME NEW k \in Keys, RecordCounter(k) PROVE TypeOK'
    BY <2>16, BookedCounterType DEF TypeOK, RecordCounter, world, counting
  <2>17. CASE RecordCommit
    BY <2>17 DEF TypeOK, RecordCommit, NoLocals, world
  <2>18. CASE Abort
    BY <2>18 DEF TypeOK, Abort, NoLocals, world, counting
  <2> QED BY <2>1, <2>2, <2>3, <2>4, <2>5, <2>6, <2>7, <2>8, <2>9, <2>10,
             <2>11, <2>12, <2>13, <2>14, <2>15, <2>16, <2>17, <2>18
          DEF Next, Environment, Collect
<1> QED BY <1>1, <1>2, PTL DEF Spec
----------------------------------------------------------------------------
(* No byte is booked twice *)

\* Between reading its counter and the end of the cycle, k's sample is
\* waiting to be booked.
Sampled(k) ==
    \/ pc \in {"whois", "sync", "policies", "record"}
    \/ pc = "counters" /\ k \notin todo

\* sent[k] - kernel[k] is what was counted before the last reboot.  Either
\* nothing booked is more recent, or the baseline belongs to this boot.
BaselineSound(L, k) ==
    \/ L.booked[k] <= sent[k] - kernel[k]
    \/ /\ L.counterState[k] <= kernel[k]
       /\ L.booked[k] <= (sent[k] - kernel[k]) + L.counterState[k]
       /\ Sampled(k) => L.counterState[k] <= sample[k]

OvercountInv ==
    \A k \in Keys :
        /\ kernel[k] <= sent[k]
        /\ sample[k] <= kernel[k]
        /\ BaselineSound(db, k)
        /\ BaselineSound(tx, k)

\* Booking a sample of this boot keeps the baseline sound, whichever branch
\* of the delta is taken.
LEMMA BookingSound ==
    ASSUME NEW booked \in Nat, NEW base \in Nat, NEW bytes \in Nat,
           NEW count \in Nat, NEW total \in Nat,
           count <= total, bytes <= count,
           \/ booked <= total - count
           \/ /\ base <= bytes
              /\ booked <= (total - count) + base
    PROVE  booked + Delta(base, bytes) <= (total - count) + bytes
BY DEF Delta

\* Every step preserves the invariant of the counters.
LEMMA OvercountStep == TypeOK /\ OvercountInv /\ [Next]_vars => OvercountInv'
<1> USE DEF Sampled, BaselineSound
<1> SUFFICES ASSUME TypeOK, OvercountInv, [Next]_vars PROVE OvercountInv'
  OBVIOUS
<1>t. /\ kernel \in [Keys -> Nat] /\ sent \in [Keys -> Nat]
      /\ sample \in [Keys -> Nat]
      /\ db.booked \in [Keys -> Nat] /\ db.counterState \in [Keys -> Nat]
      /\ tx.booked \in [Keys -> Nat] /\ tx.counterState \in [Keys -> Nat]
  BY DEF TypeOK, Ledger
<1>1. CASE UNCHANGED vars
  BY <1>1 DEF OvercountInv, vars
<1>2. ASSUME NEW k \in Keys, Traffic(k) PROVE OvercountInv'
  BY <1>2, <1>t DEF OvercountInv, Traffic, collector
<1>3. ASSUME NEW a \in Addrs, NEW n \in Nodes \cup {NoNode}, Reassign(a, n)
      PROVE OvercountInv'
  BY <1>3 DEF OvercountInv, Reassign, counting, collector
<1>4. ASSUME NEW n \in Nodes, Relist(n) PROVE OvercountInv'
  BY <1>4 DEF OvercountInv, Relist, counting, collector
<1>5. CASE Reboot
  BY <1>5, <1>t DEF OvercountInv, Reboot, NoLocals
<1>6. CASE ListPeers
  BY <1>6 DEF OvercountInv, ListPeers, counting
<1>7. CASE EnsureChains
  BY <1>7 DEF OvercountInv, EnsureChains
<1>8. ASSUME NEW k \in Keys, ReadCounter(k) PROVE OvercountInv'
  BY <1>8, <1>t DEF OvercountInv, ReadCounter, counting
<1>9. CASE FindUnresolved
  BY <1>9 DEF OvercountInv, FindUnresolved, counting
<1>10. ASSUME NEW a \in Addrs, WhoisAnswers(a) PROVE OvercountInv'
  BY <1>10 DEF OvercountInv, WhoisAnswers, counting
<1>11. ASSUME NEW a \in Addrs, WhoisFails(a) PROVE OvercountInv'
  BY <1>11 DEF OvercountInv, WhoisFails, counting
<1>12. CASE SyncBegin
  <2>1. /\ tx'.booked = db.booked
        /\ tx'.counterState = db.counterState
    BY <1>12, MarkAbsentType DEF TypeOK, SyncBegin
  <2> QED BY <1>12, <2>1 DEF OvercountInv, SyncBegin, counting
<1>13. ASSUME NEW p \in Peer, SyncPeer(p) PROVE OvercountInv'
  <2>1. /\ tx'.booked = tx.booked
        /\ tx'.counterState = tx.counterState
    BY <1>13, LedgerAssumption, SyncedPeerType DEF TypeOK, SyncPeer
  <2> QED BY <1>13, <2>1 DEF OvercountInv, SyncPeer, counting
<1>14. CASE SyncCommit
  BY <1>14 DEF OvercountInv, SyncCommit, counting
<1>15. CASE RecordBegin
  BY <1>15 DEF OvercountInv, RecordBegin, counting
<1>16. ASSUME NEW k \in Keys, RecordCounter(k) PROVE OvercountInv'
  <2>1. /\ tx'.counterState = [tx.counterState EXCEPT ![k] = sample[k]]
        /\ tx'.booked = [tx.booked EXCEPT
                           ![k] = @ + Delta(tx.counterState[k], sample[k])]
    <3>1. tx \in Ledger /\ sample[k] \in Nat
      BY <1>16, <1>t DEF TypeOK
    <3>2. tx' = BookedCounter(tx, k, sample[k])
      BY <1>16 DEF RecordCounter
    <3> QED BY <1>16, <3>1, <3>2, BookedCounterType
  <2>2. tx.booked[k] + Delta(tx.counterState[k], sample[k])
          <= (sent[k] - kernel[k]) + sample[k]
    BY <1>16, <1>t, BookingSound DEF OvercountInv, RecordCounter
  <2>3. UNCHANGED <<kernel, sent, sample, db, pc>>
    BY <1>16 DEF RecordCounter, counting
  <2>4. BaselineSound(tx, k)'
    BY <2>1, <2>2, <2>3, <1>t DEF OvercountInv
  <2>5. ASSUME NEW j \in Keys, j # k PROVE BaselineSound(tx, j)'
    BY <1>16, <2>1, <2>3, <2>5, <1>t DEF OvercountInv, RecordCounter
  <2>6. ASSUME NEW j \in Keys PROVE BaselineSound(db, j)'
    BY <1>16, <2>3, <2>6, <1>t DEF OvercountInv, RecordCounter
  <2> QED BY <2>3, <2>4, <2>5, <2>6 DEF OvercountInv
<1>17. CASE RecordCommit
  BY <1>17, <1>t DEF OvercountInv, RecordCommit, NoLocals
<1>18. CASE Abort
  BY <1>18, <1>t DEF OvercountInv, Abort, NoLocals, counting
<1> QED BY <1>1, <1>2, <1>3, <1>4, <1>5, <1>6, <1>7, <1>8, <1>9, <1>10,
           <1>11, <1>12, <1>13, <1>14, <1>15, <1>16, <1>17, <1>18
        DEF Next, Environment, Collect

\* The ledger never books a byte the kernel did not count: no failed cycle,
\* rolled back transaction or counter reset charges anyone twice.
THEOREM NoOvercount == Spec => []NeverOvercount
<1>1. Init => OvercountInv
  BY DEF Init, EmptyLedger, OvercountInv, BaselineSound, Sampled
<1>2. TypeOK /\ OvercountInv => NeverOvercount
  BY DEF TypeOK, Ledger, OvercountInv, BaselineSound, NeverOvercount
<1> QED BY <1>1, <1>2, OvercountStep, TypeCorrect, PTL DEF Spec

----------------------------------------------------------------------------
(* Usage keeps an owner that can be found *)

HasRow(L, a) == L.devices[a] # NoRow

Reachable(L) ==
    \A d \in DeviceId : L.deviceUsage[d] > 0 =>
        \E a \in Addrs : HasRow(L, a) /\ L.devices[a].device = d

\* An unknown row is always the address's own ...
UnknownIsOwn(L) ==
    \A a \in Addrs :
        HasRow(L, a) /\ L.devices[a].identity.kind = "unknown" =>
            L.devices[a].identity = Unknown(a)

\* ... so that a row that is not leaves nothing under the unknown identity.
UnknownEmpty(L) ==
    \A a \in Addrs : L.usage[Unknown(a)] > 0 =>
        HasRow(L, a) /\ L.devices[a].identity = Unknown(a)

Referenced(L) ==
    /\ \A a \in Addrs : HasRow(L, a) =>
            L.devices[a].identity \in L.identities
    /\ \A i \in Identity : L.usage[i] > 0 => i \in L.identities

LedgerInv(L) ==
    Reachable(L) /\ UnknownIsOwn(L) /\ UnknownEmpty(L) /\ Referenced(L)

\* The tables' fields, for the steps below.
LEMMA LedgerFields ==
    ASSUME NEW L \in Ledger
    PROVE  /\ L.devices \in [Addrs -> DeviceRow \cup {NoRow}]
           /\ L.usage \in [Identity -> Nat]
           /\ L.deviceUsage \in [DeviceId -> Nat]
           /\ \A a \in Addrs : HasRow(L, a) =>
                /\ L.devices[a].identity \in Identity
                /\ L.devices[a].device \in DeviceId
BY DEF Ledger, DeviceRow, HasRow

\* The unknown identities of addresses are identities, and differ.
LEMMA UnknownFacts ==
    /\ \A a \in Addrs : Unknown(a) \in Identity /\ Unknown(a).kind = "unknown"
    /\ \A a, b \in Addrs : Unknown(a) = Unknown(b) => a = b
<1>1. \A a \in Addrs : /\ Unknown(a) \in Identity
                       /\ Unknown(a).kind = "unknown"
                       /\ Unknown(a).of = a
  BY DEF Unknown, Identity
<1> QED BY <1>1

\* What SyncedPeer writes, field by field.
LEMMA SyncedPeerFields ==
    ASSUME LedgerAssumption, NEW L \in Ledger, NEW p \in Peer
    PROVE  LET S   == SyncedPeer(L, p)
               row == L.devices[p.ip]
           IN  /\ S.devices = [L.devices EXCEPT ![p.ip] =
                     [identity |-> p.identity, device |-> p.device]]
               /\ S.identities = L.identities \cup {p.identity}
               /\ S.usage =
                    IF /\ HasRow(L, p.ip)
                       /\ row.identity.kind = "unknown"
                       /\ row.identity # p.identity
                    THEN MoveUsage(L.usage, row.identity, p.identity)
                    ELSE L.usage
               /\ S.deviceUsage =
                    IF HasRow(L, p.ip) /\ row.device # p.device
                    THEN MoveUsage(L.deviceUsage, row.device, p.device)
                    ELSE L.deviceUsage
BY DEF SyncedPeer, Ledger, HasRow

\* Binding an address preserves the invariant of the tables.
LEMMA SyncedPeerInv ==
    ASSUME LedgerAssumption, NEW L \in Ledger, NEW p \in Peer, LedgerInv(L)
    PROVE  LedgerInv(SyncedPeer(L, p))
<1> DEFINE S   == SyncedPeer(L, p)
           row == L.devices[p.ip]
           new == [identity |-> p.identity, device |-> p.device]
<1>1. /\ p.ip \in Addrs /\ p.identity \in Identity
      /\ p.identity.kind # "unknown" /\ p.device \in DeviceId
  BY DEF Peer, Known, DeviceId
<1>2. new \in DeviceRow /\ new # NoRow
  BY <1>1, NoRowAssumption DEF DeviceRow
<1>3. /\ S.devices = [L.devices EXCEPT ![p.ip] = new]
      /\ S.identities = L.identities \cup {p.identity}
      /\ S.usage = IF /\ HasRow(L, p.ip)
                      /\ row.identity.kind = "unknown"
                      /\ row.identity # p.identity
                   THEN MoveUsage(L.usage, row.identity, p.identity)
                   ELSE L.usage
      /\ S.deviceUsage = IF HasRow(L, p.ip) /\ row.device # p.device
                         THEN MoveUsage(L.deviceUsage, row.device, p.device)
                         ELSE L.deviceUsage
  BY SyncedPeerFields
<1>4. /\ HasRow(S, p.ip) /\ S.devices[p.ip] = new
      /\ \A a \in Addrs : a # p.ip => S.devices[a] = L.devices[a]
  BY <1>1, <1>2, <1>3, LedgerFields DEF HasRow
<1>5. new.identity = p.identity /\ new.device = p.device
  OBVIOUS
<1> HIDE DEF S, new
<1>6. Reachable(S)
  <2> SUFFICES ASSUME NEW d \in DeviceId, S.deviceUsage[d] > 0
               PROVE  \E a \in Addrs : HasRow(S, a) /\ S.devices[a].device = d
    BY DEF Reachable
  <2>1. CASE d = p.device
    BY <2>1, <1>1, <1>4, <1>5
  <2>2. CASE d # p.device
    <3>1. L.deviceUsage[d] > 0 /\ ~(HasRow(L, p.ip) /\ row.device = d)
      BY <2>2, <1>1, <1>3, LedgerFields DEF MoveUsage
    <3>2. PICK a \in Addrs : HasRow(L, a) /\ L.devices[a].device = d
      BY <3>1 DEF LedgerInv, Reachable
    <3>3. a # p.ip
      BY <3>1, <3>2
    <3> QED BY <3>2, <3>3, <1>4 DEF HasRow
  <2> QED BY <2>1, <2>2
<1>7. UnknownIsOwn(S)
  BY <1>1, <1>4, <1>5 DEF LedgerInv, UnknownIsOwn, HasRow
<1>8. UnknownEmpty(S)
  <2> SUFFICES ASSUME NEW a \in Addrs, S.usage[Unknown(a)] > 0
               PROVE  HasRow(S, a) /\ S.devices[a].identity = Unknown(a)
    BY DEF UnknownEmpty
  <2>1. Unknown(a) # p.identity /\ Unknown(a) \in Identity
    BY <1>1, UnknownFacts
  <2>2. L.usage[Unknown(a)] > 0
    BY <2>1, <1>1, <1>3, LedgerFields DEF MoveUsage
  <2>3. HasRow(L, a) /\ L.devices[a].identity = Unknown(a)
    BY <2>2 DEF LedgerInv, UnknownEmpty
  <2>4. a # p.ip
    <3> SUFFICES ASSUME a = p.ip PROVE FALSE
      OBVIOUS
    <3>1. S.usage = MoveUsage(L.usage, row.identity, p.identity)
      BY <1>3, <2>1, <2>3, UnknownFacts
    <3>2. S.usage[Unknown(a)] = 0
      BY <3>1, <2>1, <2>3, <1>1, LedgerFields DEF MoveUsage
    <3> QED BY <3>2
  <2> QED BY <2>3, <2>4, <1>4 DEF HasRow
<1>9. Referenced(S)
  <2>1. \A a \in Addrs : HasRow(S, a) => S.devices[a].identity \in S.identities
    BY <1>1, <1>3, <1>4, <1>5 DEF LedgerInv, Referenced, HasRow
  <2>2. \A i \in Identity : S.usage[i] > 0 => i = p.identity \/ L.usage[i] > 0
    BY <1>1, <1>3, LedgerFields DEF MoveUsage
  <2> QED BY <2>1, <2>2, <1>3 DEF LedgerInv, Referenced
<1> QED BY <1>6, <1>7, <1>8, <1>9 DEF LedgerInv, S

\* Giving an address its own row preserves the invariant of the tables.
LEMMA EnsuredUnknownInv ==
    ASSUME NEW L \in Ledger, NEW a \in Addrs, LedgerInv(L)
    PROVE  /\ LedgerInv(EnsuredUnknown(L, a))
           /\ HasRow(EnsuredUnknown(L, a), a)
<1> DEFINE E   == EnsuredUnknown(L, a)
           new == [identity |-> Unknown(a), device |-> a]
<1>1. CASE HasRow(L, a)
  BY <1>1 DEF EnsuredUnknown, HasRow
<1>2. CASE ~HasRow(L, a)
  <2>1. Unknown(a) \in Identity /\ Unknown(a).kind = "unknown" /\ a \in DeviceId
    BY UnknownFacts DEF DeviceId
  <2>2. new \in DeviceRow /\ new # NoRow
    BY <2>1, NoRowAssumption DEF DeviceRow
  <2>3. /\ E.devices = [L.devices EXCEPT ![a] = new]
        /\ E.identities = L.identities \cup {Unknown(a)}
        /\ E.usage = L.usage
        /\ E.deviceUsage = L.deviceUsage
    BY <1>2 DEF EnsuredUnknown, HasRow, Ledger
  <2>4. /\ HasRow(E, a) /\ E.devices[a] = new
        /\ \A b \in Addrs : b # a => E.devices[b] = L.devices[b]
    BY <2>2, <2>3, LedgerFields DEF HasRow
  <2>5. new.identity = Unknown(a) /\ new.device = a
    OBVIOUS
  <2> HIDE DEF E, new
  <2>6. Reachable(E)
    BY <1>2, <2>3, <2>4 DEF LedgerInv, Reachable, HasRow
  <2>7. UnknownIsOwn(E)
    BY <2>4, <2>5 DEF LedgerInv, UnknownIsOwn, HasRow
  <2>8. UnknownEmpty(E)
    BY <2>3, <2>4, <2>5 DEF LedgerInv, UnknownEmpty, HasRow
  <2>9. Referenced(E)
    BY <2>3, <2>4, <2>5 DEF LedgerInv, Referenced, HasRow
  <2> QED BY <2>4, <2>6, <2>7, <2>8, <2>9 DEF LedgerInv, E
<1> QED BY <1>1, <1>2

\* What BookedCounter writes, field by field.
LEMMA BookedCounterFields ==
    ASSUME NEW L \in Ledger, NEW k \in Keys, NEW bytes \in Nat
    PROVE  LET E     == EnsuredUnknown(L, k[1])
               B     == BookedCounter(L, k, bytes)
               row   == E.devices[k[1]]
               delta == Delta(L.counterState[k], bytes)
           IN  /\ k[1] \in Addrs /\ E \in Ledger
               /\ row \in DeviceRow /\ delta \in Nat
               /\ row.identity \in Identity /\ row.device \in DeviceId
               /\ B.devices = E.devices
               /\ B.identities = E.identities
               /\ B.usage = [L.usage EXCEPT ![row.identity] = @ + delta]
               /\ B.deviceUsage =
                    [L.deviceUsage EXCEPT ![row.device] = @ + delta]
               /\ B.booked = [L.booked EXCEPT ![k] = @ + delta]
<1> DEFINE E     == EnsuredUnknown(L, k[1])
           B     == BookedCounter(L, k, bytes)
           row   == E.devices[k[1]]
           delta == Delta(L.counterState[k], bytes)
<1>1. k[1] \in Addrs
  BY DEF Keys
<1>2. /\ E \in Ledger /\ row \in DeviceRow
      /\ E.usage = L.usage /\ E.deviceUsage = L.deviceUsage
      /\ E.booked = L.booked
  BY <1>1, EnsuredUnknownType
<1>3. delta \in Nat
  BY DeltaType DEF Ledger
<1>4. row.identity \in Identity /\ row.device \in DeviceId
  BY <1>2 DEF DeviceRow
<1>5. B = [E EXCEPT
             !.counterState[k] = bytes,
             !.usage[row.identity] = @ + delta,
             !.deviceUsage[row.device] = @ + delta,
             !.booked[k] = @ + delta]
  BY DEF BookedCounter
<1> HIDE DEF E, B, row, delta
<1>6. /\ B.devices = E.devices
      /\ B.identities = E.identities
      /\ B.usage = [E.usage EXCEPT ![row.identity] = @ + delta]
      /\ B.deviceUsage = [E.deviceUsage EXCEPT ![row.device] = @ + delta]
      /\ B.booked = [E.booked EXCEPT ![k] = @ + delta]
  BY <1>2, <1>5 DEF Ledger
<1>7. /\ k[1] \in Addrs /\ E \in Ledger
      /\ row \in DeviceRow /\ delta \in Nat
      /\ row.identity \in Identity /\ row.device \in DeviceId
      /\ B.devices = E.devices
      /\ B.identities = E.identities
      /\ B.usage = [L.usage EXCEPT ![row.identity] = @ + delta]
      /\ B.deviceUsage = [L.deviceUsage EXCEPT ![row.device] = @ + delta]
      /\ B.booked = [L.booked EXCEPT ![k] = @ + delta]
  BY <1>1, <1>2, <1>3, <1>4, <1>6
<1> QED BY <1>7 DEF E, B, row, delta

\* Booking a counter preserves the invariant of the tables.
LEMMA BookedCounterInv ==
    ASSUME NEW L \in Ledger, NEW k \in Keys, NEW bytes \in Nat, LedgerInv(L)
    PROVE  LedgerInv(BookedCounter(L, k, bytes))
<1> DEFINE E     == EnsuredUnknown(L, k[1])
           B     == BookedCounter(L, k, bytes)
           row   == E.devices[k[1]]
           delta == Delta(L.counterState[k], bytes)
<1>1. /\ k[1] \in Addrs /\ E \in Ledger
      /\ row \in DeviceRow /\ delta \in Nat
      /\ row.identity \in Identity /\ row.device \in DeviceId
      /\ B.devices = E.devices
      /\ B.identities = E.identities
      /\ B.usage = [L.usage EXCEPT ![row.identity] = @ + delta]
      /\ B.deviceUsage = [L.deviceUsage EXCEPT ![row.device] = @ + delta]
      /\ B.booked = [L.booked EXCEPT ![k] = @ + delta]
  BY BookedCounterFields, SMTT(60)
<1>2. /\ LedgerInv(E) /\ HasRow(E, k[1])
      /\ E.usage = L.usage /\ E.deviceUsage = L.deviceUsage
  BY <1>1, EnsuredUnknownType, EnsuredUnknownInv
<1> HIDE DEF E, B, row, delta
<1>3. \A i \in Identity : B.usage[i] > 0 => i = row.identity \/ E.usage[i] > 0
  BY <1>1, <1>2, LedgerFields
<1>4. \A d \in DeviceId :
        B.deviceUsage[d] > 0 => d = row.device \/ E.deviceUsage[d] > 0
  BY <1>1, <1>2, LedgerFields
<1>5. Reachable(B)
  BY <1>1, <1>2, <1>4 DEF LedgerInv, Reachable, HasRow, row
<1>6. UnknownIsOwn(B)
  BY <1>1, <1>2 DEF LedgerInv, UnknownIsOwn, HasRow
<1>7. UnknownEmpty(B)
  <2> SUFFICES ASSUME NEW a \in Addrs, B.usage[Unknown(a)] > 0
               PROVE  HasRow(E, a) /\ E.devices[a].identity = Unknown(a)
    BY <1>1 DEF UnknownEmpty, HasRow
  <2>1. Unknown(a) = row.identity \/ E.usage[Unknown(a)] > 0
    BY <1>3, UnknownFacts
  <2>2. CASE E.usage[Unknown(a)] > 0
    BY <2>2, <1>2 DEF LedgerInv, UnknownEmpty
  <2>3. CASE Unknown(a) = row.identity
    <3>1. row.identity = Unknown(k[1])
      BY <2>3, <1>1, <1>2, UnknownFacts DEF LedgerInv, UnknownIsOwn, row
    <3>2. a = k[1]
      BY <2>3, <3>1, <1>1, UnknownFacts
    <3> QED BY <3>1, <3>2, <1>2 DEF row
  <2> QED BY <2>1, <2>2, <2>3
<1>8. Referenced(B)
  BY <1>1, <1>2, <1>3 DEF LedgerInv, Referenced, HasRow, row
<1> QED BY <1>5, <1>6, <1>7, <1>8 DEF LedgerInv, B

\* Marking users absent preserves the invariant of the tables.
LEMMA MarkAbsentInv ==
    ASSUME NEW L \in Ledger, NEW P, LedgerInv(L)
    PROVE  LedgerInv(MarkAbsent(L, P))
BY MarkAbsentType
   DEF LedgerInv, Reachable, UnknownIsOwn, UnknownEmpty, Referenced, HasRow

\* Every step preserves the invariant of the tables, in the committed
\* database and in the open transaction.
LEMMA LedgerStep ==
    TypeOK /\ LedgerInv(db) /\ LedgerInv(tx) /\ [Next]_vars
        => LedgerInv(db)' /\ LedgerInv(tx)'
<1> SUFFICES ASSUME TypeOK, LedgerInv(db), LedgerInv(tx), [Next]_vars
             PROVE  LedgerInv(db') /\ LedgerInv(tx')
  BY DEF LedgerInv, Reachable, UnknownIsOwn, UnknownEmpty, Referenced, HasRow
<1>t. db \in Ledger /\ tx \in Ledger /\ sample \in [Keys -> Nat]
  BY DEF TypeOK
<1>1. CASE SyncBegin
  BY <1>1, <1>t, MarkAbsentInv DEF SyncBegin
<1>2. ASSUME NEW p \in Peer, SyncPeer(p) PROVE LedgerInv(db') /\ LedgerInv(tx')
  BY <1>2, <1>t, LedgerAssumption, SyncedPeerInv DEF SyncPeer
<1>3. ASSUME NEW k \in Keys, RecordCounter(k)
      PROVE  LedgerInv(db') /\ LedgerInv(tx')
  <2>1. sample[k] \in Nat
    BY <1>3, <1>t
  <2> QED BY <1>3, <2>1, <1>t, BookedCounterInv DEF RecordCounter
<1>4. CASE SyncCommit \/ RecordCommit
  BY <1>4 DEF SyncCommit, RecordCommit
<1>5. CASE Reboot \/ Abort
  BY <1>5 DEF Reboot, Abort
<1>6. CASE UNCHANGED <<db, tx>>
  BY <1>6
<1> QED BY <1>1, <1>2, <1>3, <1>4, <1>5, <1>6
        DEF Next, Environment, Collect, vars, Traffic, Reassign, Relist,
            ListPeers, EnsureChains, ReadCounter, FindUnresolved,
            WhoisAnswers, WhoisFails, RecordBegin

\* The inductive invariant of the tables holds in every reachable state, in
\* the committed database and inside every open transaction.
LEMMA LedgerInvariant == Spec => [](LedgerInv(db) /\ LedgerInv(tx))
<1>1. Init => LedgerInv(db) /\ LedgerInv(tx)
  <2>1. \A a \in Addrs : Unknown(a) \in Identity
    BY UnknownFacts
  <2> QED BY <2>1 DEF Init, EmptyLedger, LedgerInv, Reachable, UnknownIsOwn,
                      UnknownEmpty, Referenced, HasRow
<1> QED BY <1>1, LedgerStep, TypeCorrect, PTL DEF Spec

\* No device's usage is ever cut off from the addresses, however addresses
\* change hands and nodes are identified or renamed.
THEOREM DeviceUsageAlwaysReachable == Spec => []DeviceUsageReachable
<1>1. LedgerInv(db) => DeviceUsageReachable
  BY DEF LedgerInv, Reachable, HasRow, DeviceUsageReachable
<1> QED BY <1>1, LedgerInvariant, PTL

\* Identifying an address leaves no usage behind under "unknown:".
THEOREM NothingLeftUnknown == Spec => []NoUsageLeftUnknown
<1>1. LedgerInv(db) => NoUsageLeftUnknown
  BY DEF LedgerInv, UnknownEmpty, HasRow, NoUsageLeftUnknown
<1> QED BY <1>1, LedgerInvariant, PTL

\* The schema's foreign keys hold in every committed state.
THEOREM ForeignKeysHold == Spec => []ReferencesKept
<1>1. LedgerInv(db) => ReferencesKept
  BY DEF LedgerInv, Referenced, HasRow, ReferencesKept
<1> QED BY <1>1, LedgerInvariant, PTL
----------------------------------------------------------------------------
(* Sums *)

\* A column of finitely many rows has finitely many bytes.
LEMMA BytesFinite ==
    ASSUME NEW S, IsFiniteSet(S), NEW f \in [S -> Nat]
    PROVE  IsFiniteSet(Bytes(f)) /\ Total(f) \in Nat
<1> DEFINE B(x) == {x} \X (1 .. f[x])
           F == {B(x) : x \in S}
           g == [x \in S |-> B(x)]
<1>1. g \in Surjection(S, F)
  BY DEF Surjection
<1>2. IsFiniteSet(F)
  BY <1>1, FS_Surjection
<1>3. ASSUME NEW x \in S PROVE IsFiniteSet(B(x))
  <2>1. 1 \in Int /\ f[x] \in Int
    OBVIOUS
  <2>2. IsFiniteSet(1 .. f[x])
    BY <2>1, FS_Interval
  <2> QED BY <2>2, FS_Singleton, FS_Product
<1>4. Bytes(f) = UNION F
  BY DEF Bytes
<1> HIDE DEF F
<1>5. \A T \in F : IsFiniteSet(T)
  BY <1>3 DEF F
<1> QED BY <1>2, <1>4, <1>5, FS_UNION, FS_CardinalityType DEF Total

\* What is added to one row is added to the sum.
LEMMA TotalAdd ==
    ASSUME NEW S, IsFiniteSet(S), NEW f \in [S -> Nat], NEW g \in [S -> Nat],
           NEW x \in S, NEW n \in Nat,
           g[x] = f[x] + n, \A y \in S \ {x} : g[y] = f[y]
    PROVE  Total(g) = Total(f) + n
<1> DEFINE New == {x} \X (f[x] + 1 .. f[x] + n)
<1>2. f[x] \in Nat
  OBVIOUS
<1>3. IsFiniteSet(New) /\ Cardinality(New) = n
  <2> DEFINE I == f[x] + 1 .. f[x] + n
  <2>1. f[x] + 1 \in Int /\ f[x] + n \in Int
    BY <1>2
  <2>2. IsFiniteSet(I) /\ Cardinality(I)
          = IF f[x] + 1 > f[x] + n THEN 0 ELSE (f[x] + n) - (f[x] + 1) + 1
    BY <2>1, FS_Interval
  <2>3. IsFiniteSet(I) /\ Cardinality(I) = n
    BY <1>2, <2>2
  <2> HIDE DEF I
  <2>4. /\ IsFiniteSet({x}) /\ Cardinality({x}) = 1
    BY FS_Singleton
  <2>5. /\ IsFiniteSet({x} \X I)
        /\ Cardinality({x} \X I) = Cardinality({x}) * Cardinality(I)
    BY <2>3, <2>4, FS_Product
  <2> QED BY <2>3, <2>4, <2>5 DEF I
<1>4. Bytes(g) = Bytes(f) \cup New
  <2>1. \A b : b \in Bytes(g) <=>
                 \E y \in S : b \in {y} \X (1 .. g[y])
    BY DEF Bytes
  <2>2. \A b : b \in Bytes(f) <=>
                 \E y \in S : b \in {y} \X (1 .. f[y])
    BY DEF Bytes
  <2>3. {x} \X (1 .. g[x]) = ({x} \X (1 .. f[x])) \cup New
    BY <1>2
  <2> HIDE DEF New
  <2> QED BY <2>1, <2>2, <2>3
<1>5. Bytes(f) \cap New = {}
  BY <1>2 DEF Bytes
<1>6. IsFiniteSet(Bytes(f)) /\ Total(f) \in Nat
  BY BytesFinite
<1> HIDE DEF New
<1>7. Cardinality(Bytes(f) \cup New)
        = Cardinality(Bytes(f)) + Cardinality(New) - Cardinality({})
  BY <1>3, <1>5, <1>6, FS_Union
<1> QED BY <1>3, <1>4, <1>6, <1>7, FS_EmptySet DEF Total

\* Moving usage between two different rows keeps the sum.
LEMMA TotalMoved ==
    ASSUME NEW S, IsFiniteSet(S), NEW f \in [S -> Nat],
           NEW old \in S, NEW new \in S, old # new
    PROVE  Total(MoveUsage(f, old, new)) = Total(f)
<1> DEFINE g == [f EXCEPT ![old] = 0]
           h == MoveUsage(f, old, new)
<1>1. g \in [S -> Nat] /\ h \in [S -> Nat] /\ f[old] \in Nat
  BY MoveUsageType
<1>2. g[old] = 0 /\ \A x \in S \ {old} : g[x] = f[x]
  OBVIOUS
<1>3. /\ h[new] = g[new] + f[old]
      /\ \A x \in S \ {new} : h[x] = g[x]
  BY DEF MoveUsage
<1> HIDE DEF g, h
<1>4. Total(f) = Total(g) + f[old]
  BY <1>1, <1>2, TotalAdd
<1>5. Total(h) = Total(g) + f[old]
  BY <1>1, <1>3, TotalAdd
<1> QED BY <1>4, <1>5 DEF h

\* Empty columns sum to zero.
LEMMA TotalZero ==
    ASSUME NEW S
    PROVE  Total([x \in S |-> 0]) = 0
<1>1. Bytes([x \in S |-> 0]) = {}
  BY DEF Bytes
<1> QED BY <1>1, FS_EmptySet DEF Total
\* A tailnet has finitely many identities, devices and counters.
LEMMA TablesFinite ==
    ASSUME LedgerAssumption
    PROVE  IsFiniteSet(Identity) /\ IsFiniteSet(DeviceId) /\ IsFiniteSet(Keys)
<1>1. ASSUME NEW K, IsFiniteSet(K), NEW V, IsFiniteSet(V)
      PROVE  IsFiniteSet([kind : K, of : V])
  <2> DEFINE R == [kind : K, of : V]
             g == [p \in K \X V |-> [kind |-> p[1], of |-> p[2]]]
  <2>1. g \in [K \X V -> R]
    OBVIOUS
  <2>2. \A r \in R : <<r.kind, r.of>> \in K \X V /\ g[<<r.kind, r.of>>] = r
    OBVIOUS
  <2>3. IsFiniteSet(K \X V)
    BY <1>1, FS_Product
  <2>4. g \in Surjection(K \X V, R)
    BY <2>1, <2>2 DEF Surjection
  <2> QED BY <2>3, <2>4, FS_Surjection
<1>2. IsFiniteSet({"user"}) /\ IsFiniteSet({"unknown"})
  BY FS_Singleton
<1>3. IsFiniteSet({"key", "node"})
  <2>1. IsFiniteSet({"key"} \cup {"node"})
    BY FS_Singleton, FS_Union
  <2>2. {"key", "node"} = {"key"} \cup {"node"}
    OBVIOUS
  <2> QED BY <2>1, <2>2
<1>4. IsFiniteSet(Identity)
  BY <1>1, <1>2, <1>3, FS_Union DEF LedgerAssumption, Identity
<1>5. IsFiniteSet(DeviceId) /\ IsFiniteSet(Keys)
  BY FS_Union, FS_Product DEF LedgerAssumption, DeviceId, Keys
<1> QED BY <1>4, <1>5

----------------------------------------------------------------------------
(* The two ledgers account for the same bytes *)

SumsAgree(L) ==
    /\ Total(L.usage) = Total(L.booked)
    /\ Total(L.deviceUsage) = Total(L.booked)

\* Binding an address moves usage and keeps both sums.
LEMMA SyncedPeerSums ==
    ASSUME LedgerAssumption, NEW L \in Ledger, NEW p \in Peer, SumsAgree(L)
    PROVE  SumsAgree(SyncedPeer(L, p))
<1> DEFINE S   == SyncedPeer(L, p)
           row == L.devices[p.ip]
<1>1. p.ip \in Addrs /\ p.identity \in Identity /\ p.device \in DeviceId
  BY DEF Peer, Known, DeviceId
<1>2. HasRow(L, p.ip) => row.identity \in Identity /\ row.device \in DeviceId
  BY <1>1, LedgerFields
<1>3. S.booked = L.booked
  BY SyncedPeerType
<1>4. Total(S.usage) = Total(L.usage)
  <2>1. \/ S.usage = L.usage
        \/ /\ HasRow(L, p.ip) /\ row.identity # p.identity
           /\ S.usage = MoveUsage(L.usage, row.identity, p.identity)
    BY SyncedPeerFields
  <2> HIDE DEF S, row
  <2> QED BY <1>1, <1>2, <2>1, TablesFinite, LedgerFields, TotalMoved
<1>5. Total(S.deviceUsage) = Total(L.deviceUsage)
  <2>1. \/ S.deviceUsage = L.deviceUsage
        \/ /\ HasRow(L, p.ip) /\ row.device # p.device
           /\ S.deviceUsage = MoveUsage(L.deviceUsage, row.device, p.device)
    BY SyncedPeerFields
  <2> HIDE DEF S, row
  <2> QED BY <1>1, <1>2, <2>1, TablesFinite, LedgerFields, TotalMoved
<1> QED BY <1>3, <1>4, <1>5 DEF SumsAgree

\* Booking a counter adds the same bytes to all three sums.
LEMMA BookedCounterSums ==
    ASSUME LedgerAssumption, NEW L \in Ledger, NEW k \in Keys,
           NEW bytes \in Nat, SumsAgree(L)
    PROVE  SumsAgree(BookedCounter(L, k, bytes))
<1> DEFINE B     == BookedCounter(L, k, bytes)
           row   == EnsuredUnknown(L, k[1]).devices[k[1]]
           delta == Delta(L.counterState[k], bytes)
<1>1. /\ delta \in Nat
      /\ row.identity \in Identity /\ row.device \in DeviceId
      /\ B.usage = [L.usage EXCEPT ![row.identity] = @ + delta]
      /\ B.deviceUsage = [L.deviceUsage EXCEPT ![row.device] = @ + delta]
      /\ B.booked = [L.booked EXCEPT ![k] = @ + delta]
  BY BookedCounterFields
<1>2. /\ L.usage \in [Identity -> Nat] /\ L.deviceUsage \in [DeviceId -> Nat]
      /\ L.booked \in [Keys -> Nat]
  BY DEF Ledger
<1>t. /\ delta \in Nat
      /\ row.identity \in Identity /\ row.device \in DeviceId
      /\ B.usage \in [Identity -> Nat] /\ B.deviceUsage \in [DeviceId -> Nat]
      /\ B.booked \in [Keys -> Nat]
  BY <1>1, BookedCounterType DEF Ledger
<1> HIDE DEF B, row, delta
<1>3. Total(B.usage) = Total(L.usage) + delta
  <2>1. /\ B.usage[row.identity] = L.usage[row.identity] + delta
        /\ \A i \in Identity \ {row.identity} : B.usage[i] = L.usage[i]
    BY <1>1, <1>2
  <2> QED BY <1>2, <1>t, <2>1, TablesFinite, TotalAdd
<1>4. Total(B.deviceUsage) = Total(L.deviceUsage) + delta
  <2>1. /\ B.deviceUsage[row.device] = L.deviceUsage[row.device] + delta
        /\ \A d \in DeviceId \ {row.device} :
             B.deviceUsage[d] = L.deviceUsage[d]
    BY <1>1, <1>2
  <2> QED BY <1>2, <1>t, <2>1, TablesFinite, TotalAdd
<1>5. Total(B.booked) = Total(L.booked) + delta
  <2>1. /\ B.booked[k] = L.booked[k] + delta
        /\ \A j \in Keys \ {k} : B.booked[j] = L.booked[j]
    BY <1>1, <1>2
  <2> QED BY <1>2, <1>t, <2>1, TablesFinite, TotalAdd
<1> QED BY <1>3, <1>4, <1>5 DEF SumsAgree, B

\* Every step keeps the sums, in the committed database and in the open
\* transaction.
LEMMA SumsStep ==
    TypeOK /\ SumsAgree(db) /\ SumsAgree(tx) /\ [Next]_vars
        => SumsAgree(db)' /\ SumsAgree(tx)'
<1> SUFFICES ASSUME TypeOK, SumsAgree(db), SumsAgree(tx), [Next]_vars
             PROVE  SumsAgree(db') /\ SumsAgree(tx')
  BY DEF SumsAgree, Total, Bytes
<1>t. db \in Ledger /\ tx \in Ledger /\ sample \in [Keys -> Nat]
  BY DEF TypeOK
<1>1. CASE SyncBegin
  BY <1>1, <1>t, MarkAbsentType DEF SyncBegin, SumsAgree
<1>2. ASSUME NEW p \in Peer, SyncPeer(p) PROVE SumsAgree(db') /\ SumsAgree(tx')
  BY <1>2, <1>t, LedgerAssumption, SyncedPeerSums DEF SyncPeer
<1>3. ASSUME NEW k \in Keys, RecordCounter(k)
      PROVE  SumsAgree(db') /\ SumsAgree(tx')
  <2>1. sample[k] \in Nat
    BY <1>3, <1>t
  <2> QED BY <1>3, <2>1, <1>t, LedgerAssumption, BookedCounterSums
          DEF RecordCounter
<1>4. CASE SyncCommit \/ RecordCommit
  BY <1>4 DEF SyncCommit, RecordCommit
<1>5. CASE Reboot \/ Abort
  BY <1>5 DEF Reboot, Abort
<1>6. CASE UNCHANGED <<db, tx>>
  BY <1>6
<1> QED BY <1>1, <1>2, <1>3, <1>4, <1>5, <1>6
        DEF Next, Environment, Collect, vars, Traffic, Reassign, Relist,
            ListPeers, EnsureChains, ReadCounter, FindUnresolved,
            WhoisAnswers, WhoisFails, RecordBegin

\* Identification, renaming, failed cycles and rolled back transactions
\* neither lose nor duplicate a byte between the two ledgers.
THEOREM LedgersAlwaysAgree == Spec => []LedgersAgree
<1>1. Init => SumsAgree(db) /\ SumsAgree(tx)
  BY TotalZero DEF Init, EmptyLedger, SumsAgree
<1>2. SumsAgree(db) /\ SumsAgree(tx) => LedgersAgree
  BY DEF SumsAgree, LedgersAgree
<1> QED BY <1>1, <1>2, SumsStep, TypeCorrect, PTL DEF Spec
----------------------------------------------------------------------------
(* What was booked from a set of addresses *)

\* The sum over some addresses is a natural number.
LEMMA BookedAtType ==
    ASSUME LedgerAssumption, NEW L \in Ledger, NEW A \in SUBSET Addrs
    PROVE  BookedAt(L, A) \in Nat
<1>1. IsFiniteSet(A \X Directions)
  BY FS_Subset, FS_Product DEF LedgerAssumption
<1>2. [k \in A \X Directions |-> L.booked[k]] \in [A \X Directions -> Nat]
  BY DEF Ledger, Keys
<1> QED BY <1>1, <1>2, BytesFinite DEF BookedAt

\* The sum over one address more.
LEMMA BookedAtAdd ==
    ASSUME LedgerAssumption, NEW L \in Ledger, NEW A \in SUBSET Addrs,
           NEW a \in Addrs, a \notin A
    PROVE  BookedAt(L, A \cup {a}) = BookedAt(L, A) + BookedAt(L, {a})
<1> DEFINE f(C) == [k \in C \X Directions |-> L.booked[k]]
<1>1. ASSUME NEW C \in SUBSET Addrs
      PROVE  IsFiniteSet(Bytes(f(C))) /\ Cardinality(Bytes(f(C))) \in Nat
  <2>1. IsFiniteSet(C \X Directions)
    BY FS_Subset, FS_Product DEF LedgerAssumption
  <2>2. f(C) \in [C \X Directions -> Nat]
    BY DEF Ledger, Keys
  <2> HIDE DEF f
  <2> QED BY <2>1, <2>2, BytesFinite DEF Total
<1>2. \A C : \A b : b \in Bytes(f(C)) <=>
        \E k \in C \X Directions : b \in {k} \X (1 .. L.booked[k])
  BY DEF Bytes
<1>3. \A C : BookedAt(L, C) = Cardinality(Bytes(f(C)))
  BY DEF BookedAt, Total
<1> HIDE DEF f
<1>4. Bytes(f(A \cup {a})) = Bytes(f(A)) \cup Bytes(f({a}))
  <2>1. \A k : k \in (A \cup {a}) \X Directions
                 <=> k \in A \X Directions \/ k \in {a} \X Directions
    OBVIOUS
  <2> QED BY <1>2, <2>1
<1>5. Bytes(f(A)) \cap Bytes(f({a})) = {}
  <2>1. ASSUME NEW b, b \in Bytes(f(A)), b \in Bytes(f({a})) PROVE FALSE
    <3>1. PICK k \in A \X Directions : b \in {k} \X (1 .. L.booked[k])
      BY <1>2, <2>1
    <3>2. PICK j \in {a} \X Directions : b \in {j} \X (1 .. L.booked[j])
      BY <1>2, <2>1
    <3>3. b[1] = k /\ b[1] = j
      BY <3>1, <3>2
    <3>4. k[1] \in A /\ j[1] = a
      OBVIOUS
    <3> QED BY <3>3, <3>4
  <2> QED BY <2>1
<1>6. /\ IsFiniteSet(Bytes(f(A))) /\ Cardinality(Bytes(f(A))) \in Nat
      /\ IsFiniteSet(Bytes(f({a}))) /\ Cardinality(Bytes(f({a}))) \in Nat
  BY <1>1
<1>7. Cardinality(Bytes(f(A)) \cup Bytes(f({a})))
        = Cardinality(Bytes(f(A))) + Cardinality(Bytes(f({a})))
            - Cardinality({})
  BY <1>5, <1>6, FS_Union
<1>8. BookedAt(L, A \cup {a}) = Cardinality(Bytes(f(A)) \cup Bytes(f({a})))
  BY <1>3, <1>4, Zenon
<1>9. /\ BookedAt(L, A) = Cardinality(Bytes(f(A)))
      /\ BookedAt(L, {a}) = Cardinality(Bytes(f({a})))
  BY <1>3, Zenon
<1> QED BY <1>6, <1>7, <1>8, <1>9, FS_EmptySet

\* Booking a counter adds to the sum over the sets its address is in.
LEMMA BookedAtBooking ==
    ASSUME LedgerAssumption, NEW L \in Ledger, NEW M \in Ledger,
           NEW k \in Keys, NEW n \in Nat, NEW A \in SUBSET Addrs,
           M.booked = [L.booked EXCEPT ![k] = @ + n]
    PROVE  BookedAt(M, A) = IF k[1] \in A THEN BookedAt(L, A) + n
                                          ELSE BookedAt(L, A)
<1> DEFINE S    == A \X Directions
           f(N) == [j \in S |-> N.booked[j]]
<1>1. IsFiniteSet(S)
  BY FS_Subset, FS_Product DEF LedgerAssumption
<1>2. L.booked \in [Keys -> Nat] /\ S \subseteq Keys
  BY DEF Ledger, Keys
<1>3. f(L) \in [S -> Nat] /\ \A j \in S : f(L)[j] = L.booked[j]
  BY <1>2
<1>4. k \in S <=> k[1] \in A
  BY DEF Keys
<1>5. \A N : BookedAt(N, A) = Total(f(N))
  BY DEF BookedAt
<1>6. CASE k \in S
  <2>1. /\ f(M) \in [S -> Nat]
        /\ f(M)[k] = f(L)[k] + n
        /\ \A j \in S \ {k} : f(M)[j] = f(L)[j]
    BY <1>2, <1>6
  <2> HIDE DEF f, S
  <2>2. Total(f(M)) = Total(f(L)) + n
    BY <1>1, <1>3, <1>6, <2>1, TotalAdd
  <2> QED BY <1>4, <1>5, <1>6, <2>2
<1>7. CASE k \notin S
  <2>1. f(M) = f(L)
    BY <1>2, <1>7
  <2> QED BY <1>4, <1>5, <1>7, <2>1
<1> QED BY <1>6, <1>7
\* The sum over the same addresses without one of them.
LEMMA BookedAtRemove ==
    ASSUME LedgerAssumption, NEW L \in Ledger, NEW A \in SUBSET Addrs,
           NEW a \in A
    PROVE  BookedAt(L, A) = BookedAt(L, A \ {a}) + BookedAt(L, {a})
<1> DEFINE R == A \ {a}
<1>1. R \in SUBSET Addrs /\ a \in Addrs /\ a \notin R
  OBVIOUS
<1>2. R \cup {a} = A
  OBVIOUS
<1> HIDE DEF R
<1>3. BookedAt(L, R \cup {a}) = BookedAt(L, R) + BookedAt(L, {a})
  BY <1>1, BookedAtAdd
<1>4. BookedAt(L, A) = BookedAt(L, R) + BookedAt(L, {a})
  BY <1>2, <1>3, Zenon
<1> QED BY <1>4 DEF R

\* When an address gets another row, what was booked from it goes from its
\* old device and identity to its new ones.
LEMMA RowBooked ==
    ASSUME LedgerAssumption, NEW L \in Ledger, NEW S \in Ledger,
           NEW a \in Addrs, NEW new \in DeviceRow,
           HasRow(S, a), S.devices[a] = new,
           \A b \in Addrs \ {a} : S.devices[b] = L.devices[b],
           S.booked = L.booked
    PROVE  LET row == L.devices[a]
               c   == BookedAt(L, {a})
           IN  /\ c \in Nat
               /\ \A d \in DeviceId :
                    BookedAt(S, DeviceRows(S, d)) =
                      BookedAt(L, DeviceRows(L, d))
                        - (IF HasRow(L, a) /\ row.device = d THEN c ELSE 0)
                        + (IF new.device = d THEN c ELSE 0)
               /\ \A i \in Identity :
                    BookedAt(S, IdentityRows(S, i)) =
                      BookedAt(L, IdentityRows(L, i))
                        - (IF HasRow(L, a) /\ row.identity = i THEN c ELSE 0)
                        + (IF new.identity = i THEN c ELSE 0)
<1> DEFINE row == L.devices[a]
           c   == BookedAt(L, {a})
<1>1. /\ HasRow(S, a) /\ S.devices[a] = new
      /\ \A b \in Addrs \ {a} : S.devices[b] = L.devices[b]
  OBVIOUS
<1>2. \A A : BookedAt(S, A) = BookedAt(L, A)
  BY DEF BookedAt
<1>3. c \in Nat
  BY BookedAtType
<1> HIDE DEF c
<1>4. ASSUME NEW A \in SUBSET Addrs, NEW B \in SUBSET Addrs,
             NEW was \in BOOLEAN, NEW is \in BOOLEAN,
             was <=> a \in A, is <=> a \in B, A \ {a} = B \ {a}
      PROVE  BookedAt(S, B) = BookedAt(L, A) - (IF was THEN c ELSE 0)
                                             + (IF is THEN c ELSE 0)
  <2>1. /\ BookedAt(L, A) \in Nat /\ BookedAt(L, B) \in Nat
        /\ BookedAt(L, A \ {a}) \in Nat
    BY BookedAtType
  <2>2. was => BookedAt(L, A) = BookedAt(L, A \ {a}) + c
    BY <1>4, BookedAtRemove DEF c
  <2>3. is => BookedAt(L, B) = BookedAt(L, B \ {a}) + c
    BY <1>4, BookedAtRemove DEF c
  <2>4. BookedAt(L, B \ {a}) = BookedAt(L, A \ {a})
    BY <1>4, Zenon
  <2>5. ~was => A \ {a} = A
    BY <1>4
  <2>6. ~is => B \ {a} = B
    BY <1>4
  <2>7. ~was => BookedAt(L, A) = BookedAt(L, A \ {a})
    BY <2>5, Zenon
  <2>8. ~is => BookedAt(L, B) = BookedAt(L, B \ {a})
    BY <2>6, Zenon
  <2>9. BookedAt(S, B) = BookedAt(L, B)
    BY <1>2
  <2> QED BY <1>3, <2>1, <2>2, <2>3, <2>4, <2>7, <2>8, <2>9
<1>5. ASSUME NEW d \in DeviceId
      PROVE  BookedAt(S, DeviceRows(S, d)) =
               BookedAt(L, DeviceRows(L, d))
                 - (IF HasRow(L, a) /\ row.device = d THEN c ELSE 0)
                 + (IF new.device = d THEN c ELSE 0)
  <2> DEFINE A == DeviceRows(L, d)
             B == DeviceRows(S, d)
  <2>1. A \in SUBSET Addrs /\ B \in SUBSET Addrs
    BY DEF DeviceRows
  <2>2. a \in A <=> HasRow(L, a) /\ row.device = d
    BY DEF DeviceRows, HasRow
  <2>3. a \in B <=> new.device = d
    BY <1>1 DEF DeviceRows, HasRow
  <2>4. A \ {a} = B \ {a}
    BY <1>1 DEF DeviceRows
  <2> HIDE DEF A, B, row
  <2>5. BookedAt(S, B) = BookedAt(L, A)
          - (IF HasRow(L, a) /\ row.device = d THEN c ELSE 0)
          + (IF new.device = d THEN c ELSE 0)
    BY <1>4, <2>1, <2>2, <2>3, <2>4
  <2> QED BY <2>5 DEF A, B
<1>6. ASSUME NEW i \in Identity
      PROVE  BookedAt(S, IdentityRows(S, i)) =
               BookedAt(L, IdentityRows(L, i))
                 - (IF HasRow(L, a) /\ row.identity = i THEN c ELSE 0)
                 + (IF new.identity = i THEN c ELSE 0)
  <2> DEFINE A == IdentityRows(L, i)
             B == IdentityRows(S, i)
  <2>1. A \in SUBSET Addrs /\ B \in SUBSET Addrs
    BY DEF IdentityRows
  <2>2. a \in A <=> HasRow(L, a) /\ row.identity = i
    BY DEF IdentityRows, HasRow
  <2>3. a \in B <=> new.identity = i
    BY <1>1 DEF IdentityRows, HasRow
  <2>4. A \ {a} = B \ {a}
    BY <1>1 DEF IdentityRows
  <2> HIDE DEF A, B, row
  <2>5. BookedAt(S, B) = BookedAt(L, A)
          - (IF HasRow(L, a) /\ row.identity = i THEN c ELSE 0)
          + (IF new.identity = i THEN c ELSE 0)
    BY <1>4, <2>1, <2>2, <2>3, <2>4
  <2> QED BY <2>5 DEF A, B
<1> QED BY <1>3, <1>5, <1>6 DEF c
----------------------------------------------------------------------------
(* Usage is exact while addresses stay where they are *)

\* What tailscaled says of a while its holder has it.
OfHolder(a, i, d) ==
    /\ net[a] \in Nodes /\ d = net[a]
    /\ i \in {StatusPeer(a, d).identity, WhoisPeer(a, d).identity}

\* A row is the address's own or names its holder ...
BoundToHolder(L) ==
    \A a \in Addrs : HasRow(L, a) =>
        \/ L.devices[a].identity = Unknown(a) /\ L.devices[a].device = a
        \/ OfHolder(a, L.devices[a].identity, L.devices[a].device)

\* ... so that what moves with it is what was booked from it.
Exact(L) ==
    /\ \A d \in DeviceId : L.deviceUsage[d] = BookedAt(L, DeviceRows(L, d))
    /\ \A i \in Identity : i.kind \in {"user", "unknown"} =>
          L.usage[i] = BookedAt(L, IdentityRows(L, i))
    /\ \A a \in Addrs : ~HasRow(L, a) => BookedAt(L, {a}) = 0

SettledInv ==
    moves = 0 =>
      /\ BoundToHolder(db) /\ Exact(db)
      /\ BoundToHolder(tx) /\ Exact(tx)
      /\ \A p \in peers : OfHolder(p.ip, p.identity, p.device)
      /\ pc = "sync" => todo \subseteq peers

\* The status and WhoIs agree on the node and on the account of an address,
\* if it has one; neither calls it unknown.
LEMMA HolderIdentity ==
    ASSUME LedgerAssumption, NEW a \in Addrs, NEW i, NEW d, OfHolder(a, i, d)
    PROVE  /\ d = net[a] /\ d \in Nodes /\ i \in Identity
           /\ i.kind # "unknown"
           /\ i.kind = "user" => OwnerOf[d] # NoUser /\ i = User(OwnerOf[d])
           /\ OwnerOf[d] # NoUser => i = User(OwnerOf[d])
BY DEF OfHolder, StatusPeer, WhoisPeer, User, Identity, LedgerAssumption

\* Identifying an address, or seeing it again, keeps usage exact: the row
\* it replaces is the address's own, with its usage alone, or names the same
\* holder.
LEMMA SyncedPeerExact ==
    ASSUME LedgerAssumption, NEW L \in Ledger, NEW p \in Peer,
           BoundToHolder(L), Exact(L), OfHolder(p.ip, p.identity, p.device)
    PROVE  BoundToHolder(SyncedPeer(L, p)) /\ Exact(SyncedPeer(L, p))
<1> DEFINE S   == SyncedPeer(L, p)
           a   == p.ip
           row == L.devices[a]
           new == [identity |-> p.identity, device |-> p.device]
           c   == BookedAt(L, {a})
<1>1. /\ a \in Addrs /\ p.identity \in Identity /\ p.device \in DeviceId
      /\ p.identity.kind # "unknown" /\ p.device \in Nodes
  BY DEF Peer, Known, DeviceId
<1>2. /\ new \in DeviceRow /\ new # NoRow
      /\ new.identity = p.identity /\ new.device = p.device
  BY <1>1, NoRowAssumption DEF DeviceRow
<1>3. S \in Ledger /\ S.booked = L.booked
  BY SyncedPeerType
<1>4. S.usage = IF /\ HasRow(L, a)
                   /\ row.identity.kind = "unknown"
                   /\ row.identity # p.identity
                THEN MoveUsage(L.usage, row.identity, p.identity)
                ELSE L.usage
  BY SyncedPeerFields
<1>5. S.deviceUsage = IF HasRow(L, a) /\ row.device # p.device
                      THEN MoveUsage(L.deviceUsage, row.device, p.device)
                      ELSE L.deviceUsage
  BY SyncedPeerFields
<1>6. /\ HasRow(S, a) /\ S.devices[a] = new
      /\ \A b \in Addrs \ {a} : S.devices[b] = L.devices[b]
  <2>1. S.devices = [L.devices EXCEPT ![a] = new]
    BY SyncedPeerFields
  <2> QED BY <1>1, <1>2, <2>1, LedgerFields DEF HasRow
<1>7. BoundToHolder(S)
  BY <1>2, <1>6 DEF BoundToHolder, HasRow
<1>8. /\ c \in Nat
      /\ \A d \in DeviceId :
           BookedAt(S, DeviceRows(S, d)) =
             BookedAt(L, DeviceRows(L, d))
               - (IF HasRow(L, a) /\ row.device = d THEN c ELSE 0)
               + (IF p.device = d THEN c ELSE 0)
      /\ \A i \in Identity :
           BookedAt(S, IdentityRows(S, i)) =
             BookedAt(L, IdentityRows(L, i))
               - (IF HasRow(L, a) /\ row.identity = i THEN c ELSE 0)
               + (IF p.identity = i THEN c ELSE 0)
  <2> HIDE DEF S, new, a
  <2>1. /\ c \in Nat
        /\ \A d \in DeviceId :
             BookedAt(S, DeviceRows(S, d)) =
               BookedAt(L, DeviceRows(L, d))
                 - (IF HasRow(L, a) /\ row.device = d THEN c ELSE 0)
                 + (IF new.device = d THEN c ELSE 0)
        /\ \A i \in Identity :
             BookedAt(S, IdentityRows(S, i)) =
               BookedAt(L, IdentityRows(L, i))
                 - (IF HasRow(L, a) /\ row.identity = i THEN c ELSE 0)
                 + (IF new.identity = i THEN c ELSE 0)
    BY <1>1, <1>2, <1>3, <1>6, RowBooked
  <2> QED BY <1>2, <2>1
<1>9. \A A : BookedAt(S, A) = BookedAt(L, A)
  BY <1>3 DEF BookedAt
<1>10. /\ \A d \in DeviceId : L.deviceUsage[d] = BookedAt(L, DeviceRows(L, d))
       /\ \A i \in Identity : i.kind \in {"user", "unknown"} =>
             L.usage[i] = BookedAt(L, IdentityRows(L, i))
       /\ \A b \in Addrs : ~HasRow(L, b) => BookedAt(L, {b}) = 0
  BY DEF Exact
<1>11. L.usage \in [Identity -> Nat] /\ L.deviceUsage \in [DeviceId -> Nat]
  BY LedgerFields
<1>12. \A b \in Addrs : ~HasRow(S, b) => BookedAt(S, {b}) = 0
  BY <1>6, <1>9, <1>10 DEF HasRow
<1> SUFFICES
       /\ \A d \in DeviceId : S.deviceUsage[d] = BookedAt(S, DeviceRows(S, d))
       /\ \A i \in Identity : i.kind \in {"user", "unknown"} =>
             S.usage[i] = BookedAt(S, IdentityRows(S, i))
  BY <1>7, <1>12 DEF Exact
<1>13. CASE ~HasRow(L, a)
  <2>1. c = 0
    BY <1>1, <1>10, <1>13
  <2>2. S.usage = L.usage /\ S.deviceUsage = L.deviceUsage
    BY <1>4, <1>5, <1>13
  <2> HIDE DEF S, row, c, a
  <2> QED BY <1>8, <1>10, <1>11, <1>13, <2>1, <2>2
<1>14. CASE /\ HasRow(L, a)
            /\ row.identity = Unknown(a) /\ row.device = a
  <2>1. /\ Unknown(a) \in Identity /\ Unknown(a).kind = "unknown"
        /\ a \in DeviceId /\ a # p.device
    BY <1>1, UnknownFacts DEF DeviceId, LedgerAssumption
  <2>2. DeviceRows(L, a) = {a}
    <3>1. ASSUME NEW b \in DeviceRows(L, a) PROVE b = a
      <4>1. b \in Addrs /\ HasRow(L, b) /\ L.devices[b].device = a
        BY DEF DeviceRows, HasRow
      <4>2. ~OfHolder(b, L.devices[b].identity, L.devices[b].device)
        BY <1>1, <4>1, HolderIdentity DEF LedgerAssumption
      <4> QED BY <4>1, <4>2 DEF BoundToHolder
    <3>2. a \in DeviceRows(L, a)
      BY <1>1, <1>14 DEF DeviceRows, HasRow
    <3> QED BY <3>1, <3>2
  <2>3. IdentityRows(L, Unknown(a)) = {a}
    <3>1. ASSUME NEW b \in IdentityRows(L, Unknown(a)) PROVE b = a
      <4>1. b \in Addrs /\ HasRow(L, b) /\ L.devices[b].identity = Unknown(a)
        BY DEF IdentityRows, HasRow
      <4>2. ~OfHolder(b, L.devices[b].identity, L.devices[b].device)
        BY <2>1, <4>1, HolderIdentity
      <4>3. Unknown(b) = Unknown(a)
        BY <4>1, <4>2 DEF BoundToHolder
      <4> QED BY <1>1, <4>1, <4>3, UnknownFacts
    <3>2. a \in IdentityRows(L, Unknown(a))
      BY <1>1, <1>14 DEF IdentityRows, HasRow
    <3> QED BY <3>1, <3>2
  <2>4. L.deviceUsage[a] = c /\ L.usage[Unknown(a)] = c
    <3>1. /\ L.deviceUsage[a] = BookedAt(L, DeviceRows(L, a))
          /\ L.usage[Unknown(a)] = BookedAt(L, IdentityRows(L, Unknown(a)))
      BY <1>10, <2>1
    <3>2. /\ BookedAt(L, DeviceRows(L, a)) = BookedAt(L, {a})
          /\ BookedAt(L, IdentityRows(L, Unknown(a))) = BookedAt(L, {a})
      BY <2>2, <2>3, Zenon
    <3> QED BY <3>1, <3>2
  <2>5. Unknown(a) # p.identity
    BY <1>1, <2>1
  <2>6. /\ S.usage = MoveUsage(L.usage, Unknown(a), p.identity)
        /\ S.deviceUsage = MoveUsage(L.deviceUsage, a, p.device)
    BY <1>4, <1>5, <1>14, <2>1, <2>5
  <2>7. /\ \A d \in DeviceId :
             S.deviceUsage[d] = L.deviceUsage[d]
                                  - (IF a = d THEN c ELSE 0)
                                  + (IF p.device = d THEN c ELSE 0)
        /\ \A i \in Identity :
             S.usage[i] = L.usage[i]
                            - (IF Unknown(a) = i THEN c ELSE 0)
                            + (IF p.identity = i THEN c ELSE 0)
    <3> HIDE DEF S, row, c, a
    <3> QED BY <1>1, <1>8, <1>11, <2>1, <2>4, <2>5, <2>6 DEF MoveUsage
  <2> HIDE DEF S, row, c, a
  <2> QED BY <1>8, <1>10, <1>11, <1>14, <2>7
<1>15. CASE HasRow(L, a) /\ OfHolder(a, row.identity, row.device)
  <2>1. row.device = p.device /\ row.identity.kind # "unknown"
    BY <1>1, <1>15, HolderIdentity
  <2>2. S.usage = L.usage /\ S.deviceUsage = L.deviceUsage
    BY <1>4, <1>5, <2>1
  <2>3. \A i \in Identity : i.kind \in {"user", "unknown"} =>
          (row.identity = i <=> p.identity = i)
    BY <1>1, <1>15, <2>1, HolderIdentity
  <2> HIDE DEF S, row, c, a
  <2> QED BY <1>8, <1>10, <1>11, <1>15, <2>1, <2>2, <2>3
<1> QED BY <1>1, <1>13, <1>14, <1>15 DEF BoundToHolder
\* A row of its own is given to an address nothing was booked from.
LEMMA EnsuredUnknownExact ==
    ASSUME LedgerAssumption, NEW L \in Ledger, NEW a \in Addrs,
           BoundToHolder(L), Exact(L)
    PROVE  BoundToHolder(EnsuredUnknown(L, a)) /\ Exact(EnsuredUnknown(L, a))
<1> DEFINE E   == EnsuredUnknown(L, a)
           new == [identity |-> Unknown(a), device |-> a]
           c   == BookedAt(L, {a})
<1>1. CASE HasRow(L, a)
  BY <1>1 DEF EnsuredUnknown, HasRow
<1>2. CASE ~HasRow(L, a)
  <2>1. Unknown(a) \in Identity /\ a \in DeviceId
    BY UnknownFacts DEF DeviceId
  <2>2. new \in DeviceRow /\ new # NoRow
    BY <2>1, NoRowAssumption DEF DeviceRow
  <2>3. new.identity = Unknown(a) /\ new.device = a
    OBVIOUS
  <2>4. /\ E \in Ledger /\ E.booked = L.booked
        /\ E.usage = L.usage /\ E.deviceUsage = L.deviceUsage
    BY EnsuredUnknownType
  <2>5. /\ HasRow(E, a) /\ E.devices[a] = new
        /\ \A b \in Addrs \ {a} : E.devices[b] = L.devices[b]
    <3>1. E.devices = [L.devices EXCEPT ![a] = new]
      BY <1>2 DEF EnsuredUnknown, HasRow, Ledger
    <3> QED BY <2>2, <3>1, LedgerFields DEF HasRow
  <2>6. c = 0
    BY <1>2 DEF Exact
  <2> HIDE DEF E, new
  <2>7. E \in Ledger /\ E.booked = L.booked
    BY <2>4
  <2>8. /\ c \in Nat
        /\ \A d \in DeviceId :
             BookedAt(E, DeviceRows(E, d)) =
               BookedAt(L, DeviceRows(L, d))
                 - (IF HasRow(L, a) /\ L.devices[a].device = d THEN c ELSE 0)
                 + (IF new.device = d THEN c ELSE 0)
        /\ \A i \in Identity :
             BookedAt(E, IdentityRows(E, i)) =
               BookedAt(L, IdentityRows(L, i))
                 - (IF HasRow(L, a) /\ L.devices[a].identity = i THEN c ELSE 0)
                 + (IF new.identity = i THEN c ELSE 0)
    BY <2>2, <2>7, <2>5, RowBooked
  <2>9. /\ \A d \in DeviceId : L.deviceUsage[d] = BookedAt(L, DeviceRows(L, d))
        /\ \A i \in Identity : i.kind \in {"user", "unknown"} =>
              L.usage[i] = BookedAt(L, IdentityRows(L, i))
        /\ \A b \in Addrs : ~HasRow(L, b) => BookedAt(L, {b}) = 0
    BY DEF Exact
  <2>10. L.usage \in [Identity -> Nat] /\ L.deviceUsage \in [DeviceId -> Nat]
    BY LedgerFields
  <2>11. /\ \A d \in DeviceId : E.deviceUsage[d] = BookedAt(E, DeviceRows(E, d))
        /\ \A i \in Identity : i.kind \in {"user", "unknown"} =>
              E.usage[i] = BookedAt(E, IdentityRows(E, i))
    <3> HIDE DEF c
    <3> QED BY <2>3, <2>4, <2>6, <2>8, <2>9, <2>10
  <2>12. \A b \in Addrs : ~HasRow(E, b) => BookedAt(E, {b}) = 0
    <3>1. \A A : BookedAt(E, A) = BookedAt(L, A)
      BY <2>4 DEF BookedAt
    <3> QED BY <2>5, <2>9, <3>1 DEF HasRow
  <2>13. BoundToHolder(E)
    BY <2>3, <2>5 DEF BoundToHolder, HasRow
  <2> QED BY <2>11, <2>12, <2>13 DEF Exact, E
<1> QED BY <1>1, <1>2

\* Booking a counter adds the same to its device, its identity and what was
\* booked from its address.
LEMMA BookedCounterExact ==
    ASSUME LedgerAssumption, NEW L \in Ledger, NEW k \in Keys,
           NEW bytes \in Nat, BoundToHolder(L), Exact(L)
    PROVE  /\ BoundToHolder(BookedCounter(L, k, bytes))
           /\ Exact(BookedCounter(L, k, bytes))
<1> DEFINE E     == EnsuredUnknown(L, k[1])
           B     == BookedCounter(L, k, bytes)
           row   == E.devices[k[1]]
           delta == Delta(L.counterState[k], bytes)
<1>1. /\ k[1] \in Addrs /\ E \in Ledger
      /\ row \in DeviceRow /\ delta \in Nat
      /\ row.identity \in Identity /\ row.device \in DeviceId
      /\ B.devices = E.devices
      /\ B.identities = E.identities
      /\ B.usage = [L.usage EXCEPT ![row.identity] = @ + delta]
      /\ B.deviceUsage = [L.deviceUsage EXCEPT ![row.device] = @ + delta]
      /\ B.booked = [L.booked EXCEPT ![k] = @ + delta]
  BY BookedCounterFields
<1>2. /\ E.usage = L.usage /\ E.deviceUsage = L.deviceUsage
      /\ E.booked = L.booked
  BY <1>1, EnsuredUnknownType
<1>3. BoundToHolder(E) /\ Exact(E)
  BY <1>1, EnsuredUnknownExact
<1>4. B \in Ledger
  BY BookedCounterType
<1> HIDE DEF E, B, row, delta
<1>5. HasRow(E, k[1])
  BY <1>1, NoRowAssumption DEF HasRow, row
<1>6. ASSUME NEW A \in SUBSET Addrs
      PROVE  BookedAt(B, A) = IF k[1] \in A THEN BookedAt(E, A) + delta
                                            ELSE BookedAt(E, A)
  <2>1. B.booked = [E.booked EXCEPT ![k] = @ + delta]
    BY <1>1, <1>2
  <2> QED BY <1>1, <1>4, <2>1, BookedAtBooking
<1>7. /\ E.usage \in [Identity -> Nat] /\ E.deviceUsage \in [DeviceId -> Nat]
  BY <1>1, LedgerFields
<1>8. ASSUME NEW d \in DeviceId
      PROVE  B.deviceUsage[d] = BookedAt(B, DeviceRows(B, d))
  <2>1. DeviceRows(B, d) = DeviceRows(E, d)
    BY <1>1 DEF DeviceRows
  <2>2. k[1] \in DeviceRows(E, d) <=> row.device = d
    BY <1>1, <1>5 DEF DeviceRows, HasRow, row
  <2>3. E.deviceUsage[d] = BookedAt(E, DeviceRows(E, d))
    BY <1>3 DEF Exact
  <2>4. BookedAt(B, DeviceRows(B, d)) =
          IF row.device = d THEN BookedAt(E, DeviceRows(E, d)) + delta
                            ELSE BookedAt(E, DeviceRows(E, d))
    <3>1. DeviceRows(E, d) \in SUBSET Addrs
      BY DEF DeviceRows
    <3>2. BookedAt(B, DeviceRows(B, d)) = BookedAt(B, DeviceRows(E, d))
      BY <2>1, Zenon
    <3> QED BY <1>6, <2>2, <3>1, <3>2
  <2> QED BY <1>1, <1>2, <1>7, <2>3, <2>4
<1>9. ASSUME NEW i \in Identity, i.kind \in {"user", "unknown"}
      PROVE  B.usage[i] = BookedAt(B, IdentityRows(B, i))
  <2>1. IdentityRows(B, i) = IdentityRows(E, i)
    BY <1>1 DEF IdentityRows
  <2>2. k[1] \in IdentityRows(E, i) <=> row.identity = i
    BY <1>1, <1>5 DEF IdentityRows, HasRow, row
  <2>3. E.usage[i] = BookedAt(E, IdentityRows(E, i))
    BY <1>3, <1>9 DEF Exact
  <2>4. BookedAt(B, IdentityRows(B, i)) =
          IF row.identity = i THEN BookedAt(E, IdentityRows(E, i)) + delta
                              ELSE BookedAt(E, IdentityRows(E, i))
    <3>1. IdentityRows(E, i) \in SUBSET Addrs
      BY DEF IdentityRows
    <3>2. BookedAt(B, IdentityRows(B, i)) = BookedAt(B, IdentityRows(E, i))
      BY <2>1, Zenon
    <3> QED BY <1>6, <2>2, <3>1, <3>2
  <2> QED BY <1>1, <1>2, <1>7, <2>3, <2>4
<1>10. \A b \in Addrs : ~HasRow(B, b) => BookedAt(B, {b}) = 0
  <2> SUFFICES ASSUME NEW b \in Addrs, ~HasRow(B, b) PROVE BookedAt(B, {b}) = 0
    OBVIOUS
  <2>1. ~HasRow(E, b) /\ b # k[1]
    BY <1>1, <1>5 DEF HasRow
  <2>2. BookedAt(E, {b}) = 0
    BY <1>3, <2>1 DEF Exact
  <2>3. {b} \in SUBSET Addrs /\ k[1] \notin {b}
    BY <2>1
  <2> QED BY <1>6, <2>2, <2>3
<1>11. BoundToHolder(B)
  BY <1>1, <1>3 DEF BoundToHolder, HasRow
<1> QED BY <1>8, <1>9, <1>10, <1>11 DEF Exact, B

\* Marking users absent keeps usage exact.
LEMMA MarkAbsentExact ==
    ASSUME NEW L \in Ledger, NEW P, BoundToHolder(L), Exact(L)
    PROVE  BoundToHolder(MarkAbsent(L, P)) /\ Exact(MarkAbsent(L, P))
<1> DEFINE M == MarkAbsent(L, P)
<1>1. /\ M.devices = L.devices /\ M.usage = L.usage
      /\ M.deviceUsage = L.deviceUsage /\ M.booked = L.booked
  BY MarkAbsentType
<1> HIDE DEF M
<1>2. \A A : BookedAt(M, A) = BookedAt(L, A)
  BY <1>1 DEF BookedAt
<1>3. /\ \A d : DeviceRows(M, d) = DeviceRows(L, d)
      /\ \A i : IdentityRows(M, i) = IdentityRows(L, i)
  BY <1>1 DEF DeviceRows, IdentityRows
<1>4. Exact(M)
  BY <1>1, <1>2, <1>3 DEF Exact, HasRow
<1>5. BoundToHolder(M)
  BY <1>1 DEF BoundToHolder, HasRow
<1> QED BY <1>4, <1>5 DEF M
\* Every step keeps usage exact as long as addresses stay where they are.
LEMMA SettledStep == TypeOK /\ SettledInv /\ [Next]_vars => SettledInv'
<1> SUFFICES ASSUME TypeOK, SettledInv, [Next]_vars, moves' = 0
             PROVE  /\ BoundToHolder(db)' /\ Exact(db)'
                    /\ BoundToHolder(tx)' /\ Exact(tx)'
                    /\ (\A p \in peers : OfHolder(p.ip, p.identity, p.device))'
                    /\ (pc = "sync" => todo \subseteq peers)'
  BY DEF SettledInv
<1>t. /\ db \in Ledger /\ tx \in Ledger /\ sample \in [Keys -> Nat]
      /\ moves \in Nat /\ peers \subseteq Peer
      /\ net \in [Addrs -> Nodes \cup {NoNode}]
  BY DEF TypeOK
<1>n. moves = 0 /\ net' = net
  <2>1. CASE \E a \in Addrs, n \in Nodes \cup {NoNode} : Reassign(a, n)
    BY <2>1, <1>t DEF Reassign
  <2>2. CASE \E n \in Nodes : Relist(n)
    BY <2>2, <1>t DEF Relist
  <2>3. CASE UNCHANGED <<net, moves>>
    BY <2>3
  <2> QED BY <2>1, <2>2, <2>3
          DEF Next, Environment, Collect, vars, world, Traffic, Reboot,
              ListPeers, EnsureChains, ReadCounter, FindUnresolved,
              WhoisAnswers, WhoisFails, SyncBegin, SyncPeer, SyncCommit,
              RecordBegin, RecordCounter, RecordCommit, Abort
<1>i. /\ BoundToHolder(db) /\ Exact(db)
      /\ BoundToHolder(tx) /\ Exact(tx)
      /\ \A p \in peers : OfHolder(p.ip, p.identity, p.device)
      /\ pc = "sync" => todo \subseteq peers
  BY <1>n DEF SettledInv
<1>p. \A a, i, d : OfHolder(a, i, d)' <=> OfHolder(a, i, d)
  BY <1>n DEF OfHolder
<1> SUFFICES /\ BoundToHolder(db') /\ Exact(db')
             /\ BoundToHolder(tx') /\ Exact(tx')
             /\ \A p \in peers' : OfHolder(p.ip, p.identity, p.device)
             /\ pc' = "sync" => todo' \subseteq peers'
  BY <1>p DEF BoundToHolder, Exact, HasRow, BookedAt, Total, Bytes,
              DeviceRows, IdentityRows
<1>1. CASE ListPeers
  <2>1. \A p \in peers' : OfHolder(p.ip, p.identity, p.device)
    <3> SUFFICES ASSUME NEW a \in Addrs, net[a] \in listed
                 PROVE  LET p == StatusPeer(a, net[a])
                        IN  OfHolder(p.ip, p.identity, p.device)
      BY <1>1 DEF ListPeers
    <3>1. net[a] \in Nodes
      BY DEF TypeOK
    <3> QED BY <3>1 DEF OfHolder, StatusPeer
  <2> QED BY <1>1, <1>i, <2>1 DEF ListPeers
<1>2. ASSUME NEW a \in Addrs, WhoisAnswers(a)
      PROVE  /\ \A p \in peers' : OfHolder(p.ip, p.identity, p.device)
             /\ UNCHANGED <<db, tx, pc>> /\ pc # "sync"
  <2>1. net[a] \in Nodes /\ peers' = peers \cup {WhoisPeer(a, net[a])}
    BY <1>2, <1>t DEF WhoisAnswers
  <2>2. LET p == WhoisPeer(a, net[a])
        IN  OfHolder(p.ip, p.identity, p.device)
    BY <2>1 DEF OfHolder, WhoisPeer
  <2> QED BY <1>2, <1>i, <2>1, <2>2 DEF WhoisAnswers
<1>3. CASE SyncBegin
  BY <1>3, <1>t, <1>i, MarkAbsentExact DEF SyncBegin
<1>4. ASSUME NEW p \in Peer, SyncPeer(p)
      PROVE  /\ BoundToHolder(tx') /\ Exact(tx')
             /\ UNCHANGED <<db, pc, peers>> /\ todo' \subseteq todo
  <2>1. p \in peers /\ OfHolder(p.ip, p.identity, p.device)
    BY <1>4, <1>i DEF SyncPeer
  <2>2. BoundToHolder(SyncedPeer(tx, p)) /\ Exact(SyncedPeer(tx, p))
    BY <1>t, <1>i, <2>1, LedgerAssumption, SyncedPeerExact
  <2> QED BY <1>4, <2>2 DEF SyncPeer
<1>5. ASSUME NEW k \in Keys, RecordCounter(k)
      PROVE  /\ BoundToHolder(tx') /\ Exact(tx')
             /\ UNCHANGED <<db, pc, peers>> /\ todo' \subseteq todo
  <2>1. sample[k] \in Nat
    BY <1>t
  <2>2. /\ BoundToHolder(BookedCounter(tx, k, sample[k]))
        /\ Exact(BookedCounter(tx, k, sample[k]))
    BY <1>t, <1>i, <2>1, LedgerAssumption, BookedCounterExact
  <2> QED BY <1>5, <2>2 DEF RecordCounter
<1>6. CASE SyncCommit
  BY <1>6, <1>i DEF SyncCommit
<1>7. CASE RecordCommit
  BY <1>7, <1>i DEF RecordCommit, NoLocals
<1>8. CASE Reboot \/ Abort
  BY <1>8, <1>i DEF Reboot, Abort, NoLocals
<1>9. CASE UNCHANGED <<db, tx, peers>>
           /\ (pc' = "sync" => pc = "sync" /\ todo' = todo)
  BY <1>9, <1>i
<1> QED BY <1>1, <1>2, <1>3, <1>4, <1>5, <1>6, <1>7, <1>8, <1>9, <1>i
        DEF Next, Environment, Collect, vars, Traffic, Reassign, Relist,
            EnsureChains, ReadCounter, FindUnresolved, WhoisFails,
            RecordBegin, counting, collector

\* While addresses keep their holders, users and devices are charged exactly
\* what was booked from their addresses, however late these were identified
\* and whatever failed on the way.
THEOREM UsageAlwaysExact == Spec => []UsageExact
<1>1. Init => SettledInv
  <2> SUFFICES ASSUME Init PROVE BoundToHolder(db) /\ Exact(db)
    BY DEF Init, SettledInv
  <2>1. \A A \in SUBSET Addrs : BookedAt(db, A) = 0
    <3> SUFFICES ASSUME NEW A \in SUBSET Addrs PROVE BookedAt(db, A) = 0
      OBVIOUS
    <3>1. \A k \in A \X Directions : db.booked[k] = 0
      BY DEF Init, EmptyLedger, Keys
    <3>2. Bytes([k \in A \X Directions |-> db.booked[k]]) = {}
      BY <3>1 DEF Bytes
    <3> QED BY <3>2, FS_EmptySet DEF BookedAt, Total
  <2>2. /\ \A d : DeviceRows(db, d) \subseteq Addrs
        /\ \A i : IdentityRows(db, i) \subseteq Addrs
        /\ \A a \in Addrs : {a} \subseteq Addrs
    BY DEF DeviceRows, IdentityRows
  <2> QED BY <2>1, <2>2 DEF Init, EmptyLedger, BoundToHolder, Exact, HasRow
<1>2. SettledInv => UsageExact
  <2>1. \A u \in Users : User(u) \in Identity /\ User(u).kind = "user"
    BY DEF User, Identity
  <2> QED BY <2>1 DEF SettledInv, Exact, UsageExact
<1> QED BY <1>1, <1>2, SettledStep, TypeCorrect, PTL DEF Spec
----------------------------------------------------------------------------
(* The collector is a meter *)

\* An open transaction is the committed database but for what it has done:
\* identifying peers books nothing and takes from unidentified addresses
\* only, and recording counters only adds.
Identified(L, T) ==
    /\ T.booked = L.booked
    /\ \A i \in Known : L.usage[i] <= T.usage[i]

Recorded(L, T) ==
    /\ \A k \in Keys : L.booked[k] <= T.booked[k]
    /\ \A i \in Identity : L.usage[i] <= T.usage[i]

TxInv ==
    /\ pc = "sync" => Identified(db, tx)
    /\ pc = "record" => Recorded(db, tx)
    /\ pc \notin {"sync", "record"} => tx = db

\* Identifying a peer takes usage from an unidentified address at most.
LEMMA SyncedPeerTakes ==
    ASSUME LedgerAssumption, NEW L \in Ledger, NEW T \in Ledger,
           NEW p \in Peer, Identified(L, T)
    PROVE  Identified(L, SyncedPeer(T, p))
<1> DEFINE S   == SyncedPeer(T, p)
           row == T.devices[p.ip]
<1>1. /\ p.ip \in Addrs /\ p.identity \in Identity
      /\ HasRow(T, p.ip) => row.identity \in Identity
  BY LedgerFields DEF Peer, Known
<1>2. S.booked = T.booked
  BY SyncedPeerType
<1>3. \/ S.usage = T.usage
      \/ /\ HasRow(T, p.ip) /\ row.identity.kind = "unknown"
         /\ row.identity # p.identity
         /\ S.usage = MoveUsage(T.usage, row.identity, p.identity)
  BY SyncedPeerFields
<1>4. /\ L.usage \in [Identity -> Nat] /\ T.usage \in [Identity -> Nat]
      /\ \A i \in Known : i \in Identity /\ i.kind # "unknown"
  BY LedgerFields DEF Known
<1> HIDE DEF S, row
<1>5. \A i \in Known : T.usage[i] <= S.usage[i]
  BY <1>1, <1>3, <1>4 DEF MoveUsage
<1>6. S.usage \in [Identity -> Nat]
  BY SyncedPeerType, LedgerFields DEF S
<1> QED BY <1>2, <1>4, <1>5, <1>6 DEF Identified, S

\* Recording a counter takes nothing from anyone.
LEMMA BookedCounterAdds ==
    ASSUME NEW L \in Ledger, NEW T \in Ledger, NEW k \in Keys,
           NEW bytes \in Nat, Recorded(L, T)
    PROVE  Recorded(L, BookedCounter(T, k, bytes))
<1> DEFINE B     == BookedCounter(T, k, bytes)
           row   == EnsuredUnknown(T, k[1]).devices[k[1]]
           delta == Delta(T.counterState[k], bytes)
<1>1. /\ delta \in Nat
      /\ row.identity \in Identity /\ row.device \in DeviceId
      /\ B.usage = [T.usage EXCEPT ![row.identity] = @ + delta]
      /\ B.deviceUsage = [T.deviceUsage EXCEPT ![row.device] = @ + delta]
      /\ B.booked = [T.booked EXCEPT ![k] = @ + delta]
  BY BookedCounterFields
<1>2. /\ L.usage \in [Identity -> Nat] /\ T.usage \in [Identity -> Nat]
      /\ L.booked \in [Keys -> Nat] /\ T.booked \in [Keys -> Nat]
  BY DEF Ledger
<1> HIDE DEF B, row, delta
<1> QED BY <1>1, <1>2 DEF Recorded, B

\* Every step keeps an open transaction that close to the database.
LEMMA TxStep == TypeOK /\ TxInv /\ [Next]_vars => TxInv'
<1> SUFFICES ASSUME TypeOK, TxInv, [Next]_vars
             PROVE  /\ pc' = "sync" => Identified(db', tx')
                    /\ pc' = "record" => Recorded(db', tx')
                    /\ pc' \notin {"sync", "record"} => tx' = db'
  BY DEF TxInv, Identified, Recorded
<1>t. db \in Ledger /\ tx \in Ledger /\ sample \in [Keys -> Nat]
  BY DEF TypeOK
<1>1. CASE SyncBegin
  <2>1. /\ tx' = MarkAbsent(db, peers) /\ db' = db /\ pc' = "sync"
    BY <1>1 DEF SyncBegin
  <2>2. tx'.booked = db.booked /\ tx'.usage = db.usage
    BY <1>t, <2>1, MarkAbsentType
  <2>3. \A i \in Known : db.usage[i] \in Nat
    BY <1>t, LedgerFields DEF Known
  <2> QED BY <2>1, <2>2, <2>3 DEF Identified
<1>2. ASSUME NEW p \in Peer, SyncPeer(p)
      PROVE  pc' = "sync" /\ Identified(db', tx')
  BY <1>2, <1>t, LedgerAssumption, SyncedPeerTakes DEF TxInv, SyncPeer
<1>3. CASE RecordBegin
  <2>1. \A k \in Keys : db.booked[k] \in Nat
    BY <1>t DEF Ledger
  <2>2. \A i \in Identity : db.usage[i] \in Nat
    BY <1>t, LedgerFields
  <2>3. tx = db /\ tx' = tx /\ db' = db /\ pc' = "record"
    BY <1>3 DEF TxInv, RecordBegin
  <2> QED BY <2>1, <2>2, <2>3 DEF Recorded
<1>4. ASSUME NEW k \in Keys, RecordCounter(k)
      PROVE  pc' = "record" /\ Recorded(db', tx')
  <2>1. sample[k] \in Nat
    BY <1>t
  <2> QED BY <1>4, <1>t, <2>1, BookedCounterAdds DEF TxInv, RecordCounter
<1>5. CASE SyncCommit \/ RecordCommit \/ Reboot \/ Abort
  BY <1>5 DEF SyncCommit, RecordCommit, Reboot, Abort
<1>6. CASE UNCHANGED <<db, tx, pc>>
  BY <1>6 DEF TxInv
<1>7. CASE /\ UNCHANGED <<db, tx>>
           /\ {pc, pc'} \cap {"sync", "record"} = {}
  BY <1>7 DEF TxInv
<1> QED BY <1>1, <1>2, <1>3, <1>4, <1>5, <1>6, <1>7
        DEF Next, Environment, Collect, vars, Traffic, Reassign, Relist,
            ListPeers, EnsureChains, ReadCounter, FindUnresolved,
            WhoisAnswers, WhoisFails, collector

\* The abstract sums are the ledger's.
LEMMA MeteredTotal == \A f : Metered!Total(f) = Total(f)
BY DEF Metered!Total, Metered!Bytes, Metered!Cardinality, Total, Bytes,
       Cardinality

\* Everything the meter's readers rely on, in one invariant.
LEMMA MeterInvariant ==
    Spec => [](TypeOK /\ NeverOvercount /\ LedgersAgree /\ TxInv)
<1>1. Init => TxInv
  BY DEF Init, TxInv
<1> QED BY <1>1, TxStep, TypeCorrect, NoOvercount, LedgersAlwaysAgree, PTL
        DEF Spec

\* Every step of the collector and its surroundings is a step of the meter
\* or leaves it as it is.
LEMMA MeterStep ==
    /\ TypeOK /\ NeverOvercount /\ LedgersAgree /\ TxInv
    /\ [Next]_vars
    => [Metered!Next]_(Metered!meter)
<1> DEFINE M == <<sent, db.booked, db.usage>>
<1> SUFFICES ASSUME TypeOK, NeverOvercount, LedgersAgree, TxInv, [Next]_vars
             PROVE  Metered!Next \/ M' = M
  BY DEF Metered!meter
<1>t. db \in Ledger /\ tx \in Ledger
  BY DEF TypeOK
<1>1. ASSUME NEW k \in Keys, Traffic(k) PROVE Metered!Count(k)
  BY <1>1 DEF Traffic, Metered!Count
<1>2. CASE SyncCommit
  <2>1. db' = tx /\ sent' = sent /\ Identified(db, tx)
    BY <1>2 DEF SyncCommit, TxInv, counting
  <2>2. tx.usage \in [Identity -> Nat]
    BY <1>t, LedgerFields
  <2>3. \A i \in Identity \ {j \in Identity : j.kind = "unknown"} :
            db.usage[i] <= tx.usage[i]
    BY <2>1 DEF Identified, Known
  <2>4. Total(tx.usage) = Total(db.usage)
    BY <2>1 DEF LedgersAgree, Identified
  <2>5. Metered!Identify
    BY <2>1, <2>2, <2>3, <2>4, MeteredTotal DEF Metered!Identify, Identified
  <2> QED BY <2>5 DEF Metered!Next
<1>3. CASE RecordCommit
  <2>1. db' = tx /\ sent' = sent /\ Recorded(db, tx)
    BY <1>3 DEF RecordCommit, TxInv
  <2>2. tx.usage \in [Identity -> Nat] /\ tx.booked \in [Keys -> Nat]
    BY <1>t DEF Ledger
  <2>3. \A k \in Keys : tx.booked[k] <= sent[k]
    BY DEF NeverOvercount
  <2>4. Total(tx.usage) = Total(tx.booked)
    BY DEF LedgersAgree
  <2>5. Metered!Book
    BY <2>1, <2>2, <2>3, <2>4, MeteredTotal DEF Metered!Book, Recorded
  <2> QED BY <2>5 DEF Metered!Next
<1>4. CASE UNCHANGED <<sent, db>>
  BY <1>4
<1> QED BY <1>1, <1>2, <1>3, <1>4
        DEF Next, Environment, Collect, vars, Reassign, Relist, Reboot,
            ListPeers, EnsureChains, ReadCounter, FindUnresolved,
            WhoisAnswers, WhoisFails, SyncBegin, SyncPeer, RecordBegin,
            RecordCounter, Abort, counting, Metered!Next

\* To whoever reads traffic.db the collector is a meter, whatever is
\* identified late, fails, is rolled back or reboots.
THEOREM LedgerIsMeter == Spec => ImplementsMeter
<1>1. Init => Metered!Init
  BY DEF Init, EmptyLedger, Metered!Init
<1> QED BY <1>1, MeterStep, MeterInvariant, PTL
        DEF Spec, ImplementsMeter, Metered!Spec
============================================================================
