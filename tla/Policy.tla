------------------------------ MODULE Policy ------------------------------
(***************************************************************************)
(* Monthly limits and access blocks (database.py): the three rule tables   *)
(* quota_rules, access_blocks and policy_states, every operation the       *)
(* dashboard runs on them, and the two places that decide from them who is *)
(* blocked: quota_state, which the dashboard shows, and blocked_addresses, *)
(* which the collector enforces.                                           *)
(*                                                                         *)
(* The tables the collector writes (identities, devices, usage) change     *)
(* here by the actions Sync and Book, which do to one address what a       *)
(* collector's cycle does: TrafficLedger has that cycle in detail.         *)
(*                                                                         *)
(* Abstractions.  Time is a tick count and a month MonthLength ticks;      *)
(* every operation reads the clock in the tick in which it commits.  Usage *)
(* is one number per target and month.  An address that nobody has         *)
(* identified yet (its row, if any, is unknown:<ip>'s) counts as one       *)
(* without a row; rules made for such a row are left out.                  *)
(***************************************************************************)
EXTENDS Integers, FiniteSets

CONSTANTS
    Users,        \* identified users and devices, as a rule names them
    Devices,      \* device ids a rule can name
    Addrs,
    NoRow,        \* devices has no row for an address, or an unknown one
    NoRule,       \* a rule table has no row for a target
    Managed,      \* the targets the administrator sets rules for
    Limits,       \* monthly_limit_bytes values
    Durations,    \* durations of temporary blocks, in ticks
    MonthLength,
    MaxTime,      \* bound of the clock
    MaxUsage      \* bound of a target's usage in one month

Target == [type : {"user"}, key : Users] \cup [type : {"device"}, key : Devices]

Month(t) == t \div MonthLength
Months   == 0 .. Month(MaxTime)
NoMonth  == -1

DeviceRow == [identity : Users, device : Devices]
QuotaRow  == [limit : Limits, bypass : Months \cup {NoMonth}, enabled : {0, 1}]
AccessRow == [mode : {"temporary", "permanent"}, until : Nat, enabled : {0, 1}]

ASSUME PolicyAssumption ==
    /\ Managed \subseteq Target
    /\ Limits \subseteq Nat \ {0}
    /\ Durations \subseteq Nat \ {0}
    /\ MonthLength \in Nat \ {0}
    /\ MaxTime \in Nat /\ MaxUsage \in Nat
    /\ NoRow \notin DeviceRow
    /\ NoRule \notin QuotaRow /\ NoRule \notin AccessRow
    /\ NoRule \notin {0, 1}

VARIABLES
    clock,
    identities,    \* identities with a row
    present,       \* those with is_present = 1
    devices,       \* address -> DeviceRow or NoRow
    usage,         \* target -> month -> bytes
    quota,         \* quota_rules
    access,        \* access_blocks
    policyStates   \* policy_states: the enabled flag or NoRule

ledgerVars == <<identities, present, devices, usage>>
ruleVars   == <<quota, access, policyStates>>
policyVars == <<clock, identities, present, devices, usage,
                quota, access, policyStates>>

PolicyInit ==
    /\ clock = 0
    /\ identities = {}
    /\ present = {}
    /\ devices = [a \in Addrs |-> NoRow]
    /\ usage = [t \in Target |-> [m \in Months |-> 0]]
    /\ quota = [t \in Target |-> NoRule]
    /\ access = [t \in Target |-> NoRule]
    /\ policyStates = [t \in Target |-> NoRule]

----------------------------------------------------------------------------
(* Queries *)

TargetAddrs(t) ==
    {a \in Addrs : /\ devices[a] # NoRow
                   /\ IF t.type = "user" THEN devices[a].identity = t.key
                                         ELSE devices[a].device = t.key}

TargetExists(t) ==
    IF t.type = "user" THEN t.key \in identities ELSE TargetAddrs(t) # {}

TargetPresent(t) ==
    IF t.type = "user" THEN t.key \in present
    ELSE \E a \in TargetAddrs(t) : devices[a].identity \in present

PolicyExists(t) == quota[t] # NoRule \/ access[t] # NoRule

AccessBlockActive(row, now) == row.mode = "permanent" \/ row.until > now

\* quota_state: what the dashboard shows of a target.
Exceeded(t) ==
    quota[t] # NoRule /\ usage[t][Month(clock)] >= quota[t].limit
Bypassed(t) ==
    Exceeded(t) /\ quota[t].bypass = Month(clock)
QuotaBlocked(t) ==
    /\ quota[t] # NoRule /\ quota[t].enabled = 1
    /\ TargetPresent(t)
    /\ Exceeded(t) /\ ~Bypassed(t)
ManualBlocked(t) ==
    /\ access[t] # NoRule /\ access[t].enabled = 1
    /\ TargetPresent(t)
    /\ AccessBlockActive(access[t], clock)
ShownBlocked(t) ==
    TargetExists(t) /\ (QuotaBlocked(t) \/ ManualBlocked(t))

\* Mutant: an unlock counts whichever month it was given for.
BlockedAddressesEverBypassed ==
    LET byQuota(t) ==
            /\ quota[t] # NoRule /\ quota[t].enabled = 1
            /\ TargetPresent(t)
            /\ usage[t][Month(clock)] >= quota[t].limit
            /\ quota[t].bypass = NoMonth
        byAccess(t) ==
            /\ access[t] # NoRule /\ access[t].enabled = 1
            /\ TargetPresent(t)
            /\ AccessBlockActive(access[t], clock)
    IN  UNION {TargetAddrs(t) : t \in {u \in Target : byQuota(u) \/ byAccess(u)}}

\* blocked_addresses: what the collector enforces.
BlockedAddresses ==
    LET byQuota(t) ==
            /\ quota[t] # NoRule /\ quota[t].enabled = 1
            /\ TargetPresent(t)
            /\ usage[t][Month(clock)] >= quota[t].limit
            /\ quota[t].bypass # Month(clock)
        byAccess(t) ==
            /\ access[t] # NoRule /\ access[t].enabled = 1
            /\ TargetPresent(t)
            /\ AccessBlockActive(access[t], clock)
    IN  UNION {TargetAddrs(t) : t \in {u \in Target : byQuota(u) \/ byAccess(u)}}

----------------------------------------------------------------------------
(* The dashboard's operations, each one transaction *)

\* set_quota_rule: a new limit forgets an unlock and keeps the switch.
SetQuotaRule(t, limit) ==
    /\ TargetExists(t)
    /\ quota' = [quota EXCEPT ![t] =
                   [limit   |-> limit,
                    bypass  |-> NoMonth,
                    enabled |-> IF quota[t] = NoRule THEN 1
                                ELSE quota[t].enabled]]
    /\ UNCHANGED <<clock, ledgerVars, access, policyStates>>

\* set_access_block; until = 0 stands for the empty text of a permanent one.
SetAccessBlock(t, mode, until) ==
    /\ TargetExists(t)
    /\ access' = [access EXCEPT ![t] =
                    [mode    |-> mode,
                     until   |-> until,
                     enabled |-> IF access[t] = NoRule THEN 1
                                 ELSE access[t].enabled]]
    /\ UNCHANGED <<clock, ledgerVars, quota, policyStates>>

BlockPermanently(t) == SetAccessBlock(t, "permanent", 0)
BlockFor(t, d)      == SetAccessBlock(t, "temporary", clock + d)

\* Mutant: the state row of a target without rules is left behind.
CleanedUpNever(t, ruleLeft) == policyStates

\* _cleanup_policy_state
CleanedUp(t, ruleLeft) ==
    IF ruleLeft THEN policyStates ELSE [policyStates EXCEPT ![t] = NoRule]

DeleteQuotaRule(t) ==
    /\ quota[t] # NoRule
    /\ quota' = [quota EXCEPT ![t] = NoRule]
    /\ policyStates' = CleanedUp(t, access[t] # NoRule)
    /\ UNCHANGED <<clock, ledgerVars, access>>

DeleteAccessBlock(t) ==
    /\ access[t] # NoRule
    /\ access' = [access EXCEPT ![t] = NoRule]
    /\ policyStates' = CleanedUp(t, quota[t] # NoRule)
    /\ UNCHANGED <<clock, ledgerVars, quota>>

\* set_policy_enabled: both rules of the target and its state row.
SetPolicyEnabled(t, e) ==
    /\ PolicyExists(t)
    /\ quota' = IF quota[t] = NoRule THEN quota
                ELSE [quota EXCEPT ![t].enabled = e]
    /\ access' = IF access[t] = NoRule THEN access
                 ELSE [access EXCEPT ![t].enabled = e]
    /\ policyStates' = [policyStates EXCEPT ![t] = e]
    /\ UNCHANGED <<clock, ledgerVars>>

\* set_rule_enabled, on one of the two tables
SetQuotaEnabled(t, e) ==
    /\ quota[t] # NoRule
    /\ quota' = [quota EXCEPT ![t].enabled = e]
    /\ UNCHANGED <<clock, ledgerVars, access, policyStates>>

SetAccessEnabled(t, e) ==
    /\ access[t] # NoRule
    /\ access' = [access EXCEPT ![t].enabled = e]
    /\ UNCHANGED <<clock, ledgerVars, quota, policyStates>>

DeletePolicyBundle(t) ==
    /\ quota' = [quota EXCEPT ![t] = NoRule]
    /\ access' = [access EXCEPT ![t] = NoRule]
    /\ policyStates' = [policyStates EXCEPT ![t] = NoRule]
    /\ UNCHANGED <<clock, ledgerVars>>

\* bypass_quota_for_current_month
BypassQuota(t) ==
    /\ quota[t] # NoRule
    /\ quota' = [quota EXCEPT ![t].bypass = Month(clock)]
    /\ UNCHANGED <<clock, ledgerVars, access, policyStates>>

Administer(t) ==
    \/ \E limit \in Limits : SetQuotaRule(t, limit)
    \/ BlockPermanently(t)
    \/ \E d \in Durations : BlockFor(t, d)
    \/ DeleteQuotaRule(t)
    \/ DeleteAccessBlock(t)
    \/ \E e \in {0, 1} :
         SetPolicyEnabled(t, e) \/ SetQuotaEnabled(t, e) \/ SetAccessEnabled(t, e)
    \/ DeletePolicyBundle(t)
    \/ BypassQuota(t)

----------------------------------------------------------------------------
(* What the collector and the clock do to the tables the rules read *)

Tick ==
    /\ clock < MaxTime
    /\ clock' = clock + 1
    /\ UNCHANGED <<ledgerVars, ruleVars>>

\* Mutant: the identities of the peers are not inserted.
SyncWithoutIdentities(P, a, u, d) ==
    /\ u \in P
    /\ P \ {u} \subseteq identities
    /\ present' = P
    /\ devices' = [devices EXCEPT ![a] = [identity |-> u, device |-> d]]
    /\ UNCHANGED <<clock, identities, usage, ruleVars>>

\* What may have been booked on address a before anybody identified it.
UnknownUsage(a, u) ==
    {c \in [Months -> 0 .. MaxUsage] : \A m \in Months : c[m] > 0 =>
        /\ devices[a] = NoRow
        /\ m <= Month(clock)
        /\ usage[[type |-> "user", key |-> u]][m] + c[m] <= MaxUsage}

\* sync_peers with the users in P present and address a bound to user u and
\* device d.  Usage of an unidentified address goes to both, and a new device
\* id takes the old one's along; the rules stay where they are.
Sync(P, a, u, d) ==
    /\ u \in P
    /\ P \ {u} \subseteq identities
    /\ identities' = identities \cup P
    /\ present' = P
    /\ devices' = [devices EXCEPT ![a] = [identity |-> u, device |-> d]]
    /\ \E c \in UnknownUsage(a, u) :
         LET user   == [type |-> "user", key |-> u]
             new    == [type |-> "device", key |-> d]
             old    == [type |-> "device", key |-> devices[a].device]
             With(t) == [m \in Months |-> usage[t][m] + c[m]]
         IN  usage' =
               IF devices[a] = NoRow
               THEN [usage EXCEPT ![user] = With(user), ![new] = With(new)]
               ELSE IF devices[a].device = d THEN usage
               ELSE [usage EXCEPT
                       ![new] = [m \in Months |-> usage[new][m] + usage[old][m]],
                       ![old] = [m \in Months |-> 0]]
    /\ UNCHANGED <<clock, ruleVars>>

\* Nobody is listed any more.
SyncNobody ==
    /\ present' = {}
    /\ UNCHANGED <<clock, identities, devices, usage, ruleVars>>

Charged(f, a) ==
    [f EXCEPT
       ![[type |-> "user", key |-> devices[a].identity]][Month(clock)] = @ + 1,
       ![[type |-> "device", key |-> devices[a].device]][Month(clock)] = @ + 1]

\* record_counters books traffic of an address to its user and its device.
Book(a) ==
    /\ devices[a] # NoRow
    /\ usage[[type |-> "user", key |-> devices[a].identity]][Month(clock)]
         < MaxUsage
    /\ usage' = Charged(usage, a)
    /\ UNCHANGED <<clock, identities, present, devices, ruleVars>>

CollectorWrites ==
    \/ \E P \in SUBSET Users, a \in Addrs, u \in Users, d \in Devices :
         Sync(P, a, u, d)
    \/ SyncNobody
    \/ \E a \in Addrs : Book(a)

PolicyNext ==
    \/ \E t \in Managed : Administer(t)
    \/ CollectorWrites
    \/ Tick

PolicySpec == PolicyInit /\ [][PolicyNext]_policyVars

----------------------------------------------------------------------------
(* Properties *)

\* The rule tables and the tables they read stay within the schema.
PolicyTypeOK ==
    /\ clock \in 0 .. MaxTime
    /\ identities \subseteq Users
    /\ present \subseteq identities
    /\ devices \in [Addrs -> DeviceRow \cup {NoRow}]
    /\ usage \in [Target -> [Months -> Nat]]
    /\ quota \in [Target -> QuotaRow \cup {NoRule}]
    /\ access \in [Target -> AccessRow \cup {NoRule}]
    /\ policyStates \in [Target -> {0, 1, NoRule}]

\* The dashboard and the collector never disagree: every address of a target
\* shown as blocked is enforced, and every enforced address belongs to a
\* target the dashboard shows as blocked, so that it can be unblocked there.
ShownIsEnforced ==
    /\ \A t \in Target : ShownBlocked(t) => TargetAddrs(t) \subseteq BlockedAddresses
    /\ \A a \in BlockedAddresses :
         \E t \in Target : a \in TargetAddrs(t) /\ ShownBlocked(t)

\* A policy_states row never outlives the rules of its target: a rule made
\* later does not meet a switch somebody set for an earlier one.
NoOrphanedState ==
    \A t \in Target : policyStates[t] # NoRule => PolicyExists(t)
============================================================================
