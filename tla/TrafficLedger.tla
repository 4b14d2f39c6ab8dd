--------------------------- MODULE TrafficLedger ---------------------------
(***************************************************************************)
(* How bytes counted by the kernel become usage rows in traffic.db.        *)
(*                                                                         *)
(* The kernel keeps one growing counter per (address, direction).  The     *)
(* collector's cycle (collector.py, Collector.collect) snapshots the peers *)
(* tailscaled lists, reads the counters, asks tailscaled who an            *)
(* unidentified address belongs to, then runs two SQLite transactions:     *)
(* Database.sync_peers, which binds addresses to identities and devices    *)
(* (moving usage when a binding changes), and Database.record_counters,    *)
(* which books the growth of every counter.                                *)
(*                                                                         *)
(* A transaction works on tx, a copy of the committed database db that     *)
(* only a commit makes visible (Database.connect commits at its end; an    *)
(* exception or a kill leaves db as it was).                               *)
(*                                                                         *)
(* Abstractions.  A usage row's day, and its upload, download, byte and    *)
(* packet columns, are summed into one number: every statement below       *)
(* treats them alike.  The 5-minute buckets (usage_recent) receive and     *)
(* move the same amounts as the daily rows and are left out, and so are    *)
(* the website tables.  Names, scopes, online flags and timestamps are     *)
(* left out.                                                               *)
(***************************************************************************)
EXTENDS Integers, FiniteSets, Sums

CONSTANTS
    Users,       \* Tailscale accounts
    Nodes,       \* Tailscale nodes; a node's stable ID is its device_id
    Addrs,       \* Tailscale addresses, IPv4 and IPv6 alike
    Directions,  \* "upload" and "download"
    OwnerOf,     \* the account of a node, or NoUser
    NoUser,
    NoNode,      \* the owner of an address nobody holds
    NoRow,       \* devices has no row for an address
    MaxSent,     \* bound: bytes counted per counter
    MaxReboots,  \* bound: host reboots
    MaxMoves     \* bound: changes of the tailnet's address map or peer list

ASSUME LedgerAssumption ==
    /\ IsFiniteSet(Users) /\ IsFiniteSet(Nodes)
    /\ IsFiniteSet(Addrs) /\ IsFiniteSet(Directions)
    /\ OwnerOf \in [Nodes -> Users \cup {NoUser}]
    /\ NoUser \notin Users
    /\ NoNode \notin Nodes
    /\ Nodes \cap Addrs = {}
    /\ MaxSent \in Nat /\ MaxReboots \in Nat /\ MaxMoves \in Nat

----------------------------------------------------------------------------
(* Data *)

Keys == Addrs \X Directions

\* identity_key: "user:<id>", "device:<public key>" (an ownerless peer of
\* the status), "device:<stable id>" (an ownerless peer of WhoIs) or
\* "unknown:<ip>".
User(u)    == [kind |-> "user", of |-> u]
Unknown(a) == [kind |-> "unknown", of |-> a]

Identity ==
    [kind : {"user"}, of : Users]
        \cup [kind : {"key", "node"}, of : Nodes]
        \cup [kind : {"unknown"}, of : Addrs]

DeviceId == Nodes \cup Addrs

DeviceRow == [identity : Identity, device : DeviceId]

ASSUME NoRowAssumption == NoRow \notin DeviceRow

\* What tailscaled says of one address: from the status, or by WhoIs.
Known == {i \in Identity : i.kind # "unknown"}
Peer  == [ip : Addrs, identity : Known, device : Nodes, listed : BOOLEAN]

StatusPeer(a, n) ==
    [ip |-> a, device |-> n, listed |-> TRUE,
     identity |-> IF OwnerOf[n] = NoUser
                  THEN [kind |-> "key", of |-> n] ELSE User(OwnerOf[n])]

WhoisPeer(a, n) ==
    [ip |-> a, device |-> n, listed |-> FALSE,
     identity |-> IF OwnerOf[n] = NoUser
                  THEN [kind |-> "node", of |-> n] ELSE User(OwnerOf[n])]

\* The tables.  booked is a history column: the bytes ever booked from a
\* counter.  A counter_state row that does not exist yet is 0: both give the
\* same delta.
Ledger ==
    [identities   : SUBSET Identity,
     present      : SUBSET Identity,
     devices      : [Addrs -> DeviceRow \cup {NoRow}],
     usage        : [Identity -> Nat],
     deviceUsage  : [DeviceId -> Nat],
     counterState : [Keys -> Nat],
     booked       : [Keys -> Nat]]

EmptyLedger ==
    [identities   |-> {},
     present      |-> {},
     devices      |-> [a \in Addrs |-> NoRow],
     usage        |-> [i \in Identity |-> 0],
     deviceUsage  |-> [d \in DeviceId |-> 0],
     counterState |-> [k \in Keys |-> 0],
     booked       |-> [k \in Keys |-> 0]]

----------------------------------------------------------------------------
(* The statements of the two transactions, as functions of the database *)

\* Mutant: the old rows are not deleted.
MoveUsageKeepingOld(f, old, new) == [f EXCEPT ![new] = @ + f[old]]

\* Mutant: ON CONFLICT replaces the new owner's rows instead of adding.
MoveUsageReplacing(f, old, new) == [f EXCEPT ![new] = f[old], ![old] = 0]

\* INSERT ... SELECT ... ON CONFLICT add, then DELETE the old rows.
MoveUsage(f, old, new) == [f EXCEPT ![new] = @ + f[old], ![old] = 0]

\* The first UPDATE of sync_peers: users no listed or asked peer belongs to.
\* Only "user:" identities are ever marked absent.
MarkAbsent(L, peers) ==
    [L EXCEPT !.present =
        {i \in @ : i.kind = "user" => \E p \in peers : p.identity = i}]

\* Mutant: identifying an address does not move its unknown usage.
SyncedPeerForgettingUnknown(L, p) ==
    [L EXCEPT
       !.identities    = @ \cup {p.identity},
       !.present       = @ \cup {p.identity},
       !.deviceUsage   = IF L.devices[p.ip] # NoRow
                            /\ L.devices[p.ip].device # p.device
                         THEN MoveUsage(@, L.devices[p.ip].device, p.device)
                         ELSE @,
       !.devices[p.ip] = [identity |-> p.identity, device |-> p.device]]

\* Mutant: a new device id leaves the usage under the old one.
SyncedPeerForgettingDevice(L, p) ==
    [L EXCEPT
       !.identities    = @ \cup {p.identity},
       !.present       = @ \cup {p.identity},
       !.usage         = IF L.devices[p.ip] # NoRow
                            /\ L.devices[p.ip].identity.kind = "unknown"
                         THEN MoveUsage(@, L.devices[p.ip].identity,
                                        p.identity)
                         ELSE @,
       !.devices[p.ip] = [identity |-> p.identity, device |-> p.device]]

\* Mutant: a new holder takes over whatever its address was charged before.
SyncedPeerClaimingAll(L, p) ==
    LET row    == L.devices[p.ip]
        claims == row # NoRow /\ row.identity # p.identity
        moves  == row # NoRow /\ row.device # p.device
    IN  [L EXCEPT
           !.identities  = @ \cup {p.identity},
           !.present     = @ \cup {p.identity},
           !.usage       = IF claims
                           THEN MoveUsage(@, row.identity, p.identity) ELSE @,
           !.deviceUsage = IF moves
                           THEN MoveUsage(@, row.device, p.device) ELSE @,
           !.devices[p.ip] =
               [identity |-> p.identity, device |-> p.device]]

\* sync_peers, body of the loop over the peers.
SyncedPeer(L, p) ==
    LET row    == L.devices[p.ip]
        claims == row # NoRow /\ row.identity.kind = "unknown"
                  /\ row.identity # p.identity
        moves  == row # NoRow /\ row.device # p.device
    IN  [L EXCEPT
           !.identities  = @ \cup {p.identity},
           !.present     = @ \cup {p.identity},
           !.usage       = IF claims
                           THEN MoveUsage(@, row.identity, p.identity) ELSE @,
           !.deviceUsage = IF moves
                           THEN MoveUsage(@, row.device, p.device) ELSE @,
           !.devices[p.ip] =
               [identity |-> p.identity, device |-> p.device]]

\* Mutant: the identity of the new row is not inserted.
EnsuredUnknownAlone(L, a) ==
    IF L.devices[a] # NoRow THEN L
    ELSE [L EXCEPT !.devices[a] = [identity |-> Unknown(a), device |-> a]]

\* _ensure_unknown: an address without a row gets one of its own.
EnsuredUnknown(L, a) ==
    IF L.devices[a] # NoRow THEN L
    ELSE [L EXCEPT
            !.identities = @ \cup {Unknown(a)},
            !.present    = IF Unknown(a) \in L.identities
                           THEN @ ELSE @ \cup {Unknown(a)},
            !.devices[a] = [identity |-> Unknown(a), device |-> a]]

\* Mutant: a counter that did not move counts as restarted.
DeltaStrict(previous, bytes) ==
    IF bytes > previous THEN bytes - previous ELSE bytes

\* Mutant: restarts are not noticed.
DeltaWithoutReset(previous, bytes) == bytes - previous

\* The growth of a counter; one that went down restarted from zero.
Delta(previous, bytes) ==
    IF bytes >= previous THEN bytes - previous ELSE bytes

\* record_counters, body of the loop over the counters.
BookedCounter(L, k, bytes) ==
    LET E     == EnsuredUnknown(L, k[1])
        row   == E.devices[k[1]]
        delta == Delta(L.counterState[k], bytes)
    IN  [E EXCEPT
           !.counterState[k]         = bytes,
           !.usage[row.identity]     = @ + delta,
           !.deviceUsage[row.device] = @ + delta,
           !.booked[k]               = @ + delta]

----------------------------------------------------------------------------
VARIABLES
    net,       \* the node that holds each address
    listed,    \* the nodes tailscaled's status lists
    kernel,    \* the ipset counters; an absent entry is 0 as well
    hooked,    \* the counting chains are installed
    sent,      \* history: bytes ever counted by the kernel
    unread,    \* history: counters not booked since the last reboot
    reboots,
    moves,
    db,        \* traffic.db as committed
    tx,        \* traffic.db as the collector's transaction sees it
    pc,        \* the collector's place in collect()
    peers,     \* its list of peers
    dumped,    \* the entries its dump of the sets showed ...
    sample,    \* ... and what they read
    todo       \* what its current loop has still to visit

world     == <<net, listed, moves>>
counting  == <<kernel, hooked, sent, unread, reboots>>
collector == <<pc, peers, dumped, sample, todo>>
vars == <<net, listed, kernel, hooked, sent, unread, reboots, moves,
          db, tx, pc, peers, dumped, sample, todo>>

Init ==
    /\ net \in [Addrs -> Nodes \cup {NoNode}]
    /\ listed \in SUBSET Nodes
    /\ kernel = [k \in Keys |-> 0]
    /\ hooked = FALSE
    /\ sent = [k \in Keys |-> 0]
    /\ unread = {}
    /\ reboots = 0
    /\ moves = 0
    /\ db = EmptyLedger
    /\ tx = EmptyLedger
    /\ pc = "idle"
    /\ peers = {}
    /\ dumped = {}
    /\ sample = [k \in Keys |-> 0]
    /\ todo = {}

\* Nothing of a cycle is left: it ended ("idle") or was cut short ("cut").
NoLocals ==
    /\ peers' = {}
    /\ dumped' = {}
    /\ sample' = [k \in Keys |-> 0]
    /\ todo' = {}

----------------------------------------------------------------------------
(* The environment: the kernel, the tailnet and the host *)

\* A forwarded packet of an address is counted, once the chains exist.
Traffic(k) ==
    /\ hooked
    /\ sent[k] < MaxSent
    /\ kernel' = [kernel EXCEPT ![k] = @ + 1]
    /\ sent' = [sent EXCEPT ![k] = @ + 1]
    /\ UNCHANGED <<world, hooked, unread, reboots, db, tx, collector>>

\* An address changes hands.
Reassign(a, n) ==
    /\ moves < MaxMoves
    /\ net[a] # n
    /\ net' = [net EXCEPT ![a] = n]
    /\ moves' = moves + 1
    /\ UNCHANGED <<listed, counting, db, tx, collector>>

\* A node enters or leaves the regular status output.
Relist(n) ==
    /\ moves < MaxMoves
    /\ listed' = IF n \in listed THEN listed \ {n} ELSE listed \cup {n}
    /\ moves' = moves + 1
    /\ UNCHANGED <<net, counting, db, tx, collector>>

\* A host reboot empties the chains and sets and kills the collector.
Reboot ==
    /\ reboots < MaxReboots
    /\ reboots' = reboots + 1
    /\ kernel' = [k \in Keys |-> 0]
    /\ hooked' = FALSE
    /\ unread' = Keys
    /\ tx' = db
    /\ pc' = "cut"
    /\ NoLocals
    /\ UNCHANGED <<world, sent, db>>

----------------------------------------------------------------------------
(* One cycle of the collector *)

\* peers(): every address of every node in the status.
ListPeers ==
    /\ pc \in {"idle", "cut"}
    /\ pc' = "ensure"
    /\ peers' = {StatusPeer(a, net[a]) : a \in {b \in Addrs : net[b] \in listed}}
    /\ UNCHANGED <<world, counting, db, tx, dumped, sample, todo>>

\* firewall.ensure(), as far as counting goes.
EnsureChains ==
    /\ pc = "ensure"
    /\ pc' = "counters"
    /\ hooked' = TRUE
    /\ todo' = Keys
    /\ UNCHANGED <<world, kernel, sent, unread, reboots, db, tx,
                   peers, dumped, sample>>

\* firewall.counters(): the sets are dumped one after the other, so traffic
\* comes between two entries.  An entry is made by one rule (--add-set) and
\* counts by the next, so one that reads 0 may be in the dump or not.
ReadCounter(k) ==
    /\ pc = "counters"
    /\ k \in todo
    /\ \/ dumped' = dumped \cup {k}
       \/ kernel[k] = 0 /\ UNCHANGED dumped
    /\ sample' = [sample EXCEPT ![k] = kernel[k]]
    /\ todo' = todo \ {k}
    /\ UNCHANGED <<world, counting, db, tx, pc, peers>>

\* Mutant: an address is asked about once, not until it is identified.
FindUnresolvedOnce ==
    /\ pc = "counters"
    /\ todo = {}
    /\ pc' = "whois"
    /\ todo' = {a \in Addrs :
                  /\ \E d \in Directions : <<a, d>> \in dumped
                  /\ db.devices[a] = NoRow}
    /\ UNCHANGED <<world, counting, db, tx, peers, dumped, sample>>

\* unresolved_addresses(): dumped addresses without an identified row.
FindUnresolved ==
    /\ pc = "counters"
    /\ todo = {}
    /\ pc' = "whois"
    /\ todo' = {a \in Addrs :
                  /\ \E d \in Directions : <<a, d>> \in dumped
                  /\ db.devices[a] # NoRow =>
                        db.devices[a].identity.kind = "unknown"}
    /\ UNCHANGED <<world, counting, db, tx, peers, dumped, sample>>

\* whois() answers ...
WhoisAnswers(a) ==
    /\ pc = "whois"
    /\ a \in todo
    /\ net[a] # NoNode
    /\ peers' = peers \cup {WhoisPeer(a, net[a])}
    /\ todo' = todo \ {a}
    /\ UNCHANGED <<world, counting, db, tx, pc, dumped, sample>>

\* ... or fails, which is logged, and the address stays unknown.
WhoisFails(a) ==
    /\ pc = "whois"
    /\ a \in todo
    /\ todo' = todo \ {a}
    /\ UNCHANGED <<world, counting, db, tx, pc, peers, dumped, sample>>

\* sync_peers() opens its transaction.
SyncBegin ==
    /\ pc = "whois"
    /\ todo = {}
    /\ pc' = "sync"
    /\ tx' = MarkAbsent(db, peers)
    /\ todo' = peers
    /\ UNCHANGED <<world, counting, db, peers, dumped, sample>>

\* The peers WhoIs found stand behind those of the status.
SyncPeer(p) ==
    /\ pc = "sync"
    /\ p \in todo
    /\ p.listed \/ \A q \in todo : ~q.listed
    /\ tx' = SyncedPeer(tx, p)
    /\ todo' = todo \ {p}
    /\ UNCHANGED <<world, counting, db, pc, peers, dumped, sample>>

SyncCommit ==
    /\ pc = "sync"
    /\ todo = {}
    /\ pc' = "policies"
    /\ db' = tx
    /\ UNCHANGED <<world, counting, tx, peers, dumped, sample, todo>>

\* apply_policies() leaves these tables alone; record_counters() then opens
\* its transaction over the counters the dump showed.
RecordBegin ==
    /\ pc = "policies"
    /\ pc' = "record"
    /\ todo' = dumped
    /\ UNCHANGED <<world, counting, db, tx, peers, dumped, sample>>

RecordCounter(k) ==
    /\ pc = "record"
    /\ k \in todo
    /\ tx' = BookedCounter(tx, k, sample[k])
    /\ todo' = todo \ {k}
    /\ UNCHANGED <<world, counting, db, pc, peers, dumped, sample>>

RecordCommit ==
    /\ pc = "record"
    /\ todo = {}
    /\ db' = tx
    /\ unread' = unread \ dumped
    /\ pc' = "idle"
    /\ NoLocals
    /\ UNCHANGED <<world, kernel, hooked, sent, reboots, tx>>

\* Mutant: the baselines are not part of the transaction.
AbortKeepingBaselines ==
    /\ pc \notin {"idle", "cut"}
    /\ db' = [db EXCEPT !.counterState = tx.counterState]
    /\ tx' = db'
    /\ pc' = "cut"
    /\ NoLocals
    /\ UNCHANGED <<world, counting>>

\* Any call of the cycle raises, or the collector is killed and restarted:
\* an open transaction is rolled back and the next cycle starts afresh.
Abort ==
    /\ pc \notin {"idle", "cut"}
    /\ tx' = db
    /\ pc' = "cut"
    /\ NoLocals
    /\ UNCHANGED <<world, counting, db>>

----------------------------------------------------------------------------
Environment ==
    \/ \E k \in Keys : Traffic(k)
    \/ \E a \in Addrs, n \in Nodes \cup {NoNode} : Reassign(a, n)
    \/ \E n \in Nodes : Relist(n)
    \/ Reboot

Collect ==
    \/ ListPeers
    \/ EnsureChains
    \/ \E k \in Keys : ReadCounter(k)
    \/ FindUnresolved
    \/ \E a \in Addrs : WhoisAnswers(a) \/ WhoisFails(a)
    \/ SyncBegin
    \/ \E p \in Peer : SyncPeer(p)
    \/ SyncCommit
    \/ RecordBegin
    \/ \E k \in Keys : RecordCounter(k)
    \/ RecordCommit

Next == Environment \/ Collect \/ Abort

Spec == Init /\ [][Next]_vars

\* _loop() runs collect() again after every success and every failure, so
\* the cycle never rests.  What makes a call fail (tailscaled or the
\* database being away for a while, a restart of the container) is assumed to
\* pass; WhoIs is asked again in every cycle and answers in the end.
Fairness ==
    /\ WF_vars(Collect)
    /\ <>[](pc # "cut")
    /\ \A a \in Addrs : SF_vars(WhoisAnswers(a))

FairSpec == Spec /\ Fairness

----------------------------------------------------------------------------
(* Properties *)

\* Every variable stays within its type; in particular the usage columns
\* and the counter baselines never go negative.
TypeOK ==
    /\ net \in [Addrs -> Nodes \cup {NoNode}]
    /\ listed \subseteq Nodes
    /\ kernel \in [Keys -> Nat]
    /\ hooked \in BOOLEAN
    /\ sent \in [Keys -> Nat]
    /\ unread \subseteq Keys
    /\ reboots \in Nat
    /\ moves \in Nat
    /\ db \in Ledger
    /\ tx \in Ledger
    /\ pc \in {"idle", "cut", "ensure", "counters", "whois", "sync",
               "policies", "record"}
    /\ peers \subseteq Peer
    /\ dumped \subseteq Keys
    /\ sample \in [Keys -> Nat]
    /\ pc \in {"counters", "record"} => todo \subseteq Keys
    /\ pc = "whois" => todo \subseteq Addrs
    /\ pc = "sync" => todo \subseteq Peer
    /\ pc \in {"idle", "cut", "ensure", "policies"} => todo = {}

\* Whatever cycles fail, transactions roll back and counters reset, no byte
\* is ever booked twice: the ledger never charges more than the kernel
\* counted for that address and direction.
NeverOvercount ==
    \A k \in Keys : db.booked[k] <= sent[k] /\ tx.booked[k] <= sent[k]

\* Usage that belongs to a device can be found from an address: device
\* pages and device limits reach device_usage_daily only through devices.
DeviceUsageReachable ==
    \A d \in DeviceId : db.deviceUsage[d] > 0 =>
        \E a \in Addrs : /\ db.devices[a] # NoRow
                         /\ db.devices[a].device = d

\* Once an address is identified nothing stays behind under "unknown:":
\* usage of unknown:<ip> means that ip's row is still the unknown one.
NoUsageLeftUnknown ==
    \A a \in Addrs : db.usage[Unknown(a)] > 0 =>
        /\ db.devices[a] # NoRow
        /\ db.devices[a].identity = Unknown(a)

\* The foreign keys of the schema: a devices row or usage of an identity
\* means that the identity has a row.
ReferencesKept ==
    /\ \A a \in Addrs : db.devices[a] # NoRow =>
            db.devices[a].identity \in db.identities
    /\ \A i \in Identity : db.usage[i] > 0 => i \in db.identities

\* Per identity and per device the same bytes are accounted for, and they
\* are all the bytes ever booked: identification and renaming move usage
\* between rows and lose or duplicate none of it.
LedgersAgree ==
    \A L \in {db, tx} :
        /\ Total(L.usage) = Total(L.booked)
        /\ Total(L.deviceUsage) = Total(L.booked)

BookedAt(L, A) == Total([k \in A \X Directions |-> L.booked[k]])

\* The addresses bound to a device, and to an identity.
DeviceRows(L, d) ==
    {a \in Addrs : L.devices[a] # NoRow /\ L.devices[a].device = d}

IdentityRows(L, i) ==
    {a \in Addrs : L.devices[a] # NoRow /\ L.devices[a].identity = i}

\* As long as addresses do not change hands, a device's usage is exactly
\* what was booked from the addresses bound to it, and so is a user's.
UsageExact ==
    moves = 0 =>
      /\ \A d \in DeviceId :
            db.deviceUsage[d] = BookedAt(db, DeviceRows(db, d))
      /\ \A u \in Users :
            db.usage[User(u)] = BookedAt(db, IdentityRows(db, User(u)))

\* To everyone who reads traffic.db the collector is a meter: what the kernel
\* counted is booked once, charged in the same commit, and charged back to no
\* account but an unidentified address's, whatever fails and reboots.
Metered == INSTANCE Meter WITH
    Counters <- Keys, Accounts <- Identity,
    Provisional <- {i \in Identity : i.kind = "unknown"},
    counted <- sent, booked <- db.booked, charged <- db.usage
ImplementsMeter == Metered!Spec

\* While the host stays up, every byte the kernel counted is booked in the
\* end, however many cycles failed in between.
EverythingBooked ==
    []<>(reboots = 0 => db.booked = sent)

\* An address that was counted since the last reboot and that tailscaled can
\* attribute does not stay unknown for ever.
EventuallyIdentified ==
    \A a \in Addrs :
        []<>((/\ \E d \in Directions : kernel[<<a, d>>] > 0
              /\ net[a] # NoNode)
             => db.devices[a] # NoRow
                /\ db.devices[a].identity.kind # "unknown")

\* docs/README.md: "If a host reboot resets the counters to zero, the
\* application automatically continues accumulating from the new values":
\* the first value booked from a counter after a reboot is booked in full.
ContinuesFromNewValues ==
    [][\A k \in unread \ unread' : db'.booked[k] = db.booked[k] + sample[k]]_vars
============================================================================
