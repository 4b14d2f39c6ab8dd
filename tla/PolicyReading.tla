--------------------------- MODULE PolicyReading ---------------------------
(***************************************************************************)
(* Database.blocked_addresses while the dashboard edits: it takes the      *)
(* month and the time once, then reads quota_rules and access_blocks in    *)
(* two statements outside a transaction, so that a list can be made of two *)
(* states of the rules.  The tables of the collector, which it reads as    *)
(* well, are written by the same thread and do not change meanwhile.       *)
(***************************************************************************)
EXTENDS Policy

VARIABLES
    reading,  \* "idle", or the table that is read next
    month,    \* current_month of the reading
    now,
    blocked,  \* the addresses found so far
    edited,   \* history: the rules were edited during the reading
    ever,     \* history: what the rules blocked at some time during it
    always    \* history: and at every time, until there is a second edit

readingVars == <<reading, month, now, blocked>>
historyVars == <<edited, ever, always>>
vars == <<policyVars, readingVars, historyVars>>

Init ==
    /\ PolicyInit
    /\ reading = "idle"
    /\ month = 0
    /\ now = 0
    /\ blocked = {}
    /\ edited = FALSE
    /\ ever = {}
    /\ always = {}

\* The loops over the rows of the two tables.
ByQuota ==
    UNION {TargetAddrs(t) : t \in {u \in Target :
             /\ quota[u] # NoRule /\ quota[u].enabled = 1
             /\ TargetPresent(u)
             /\ usage[u][month] >= quota[u].limit
             /\ quota[u].bypass # month}}

\* Mutant: a target that has a limit needs no look at its block.
ByAccessWithoutLimit ==
    UNION {TargetAddrs(t) : t \in {u \in Target :
             /\ quota[u] = NoRule
             /\ access[u] # NoRule /\ access[u].enabled = 1
             /\ TargetPresent(u)
             /\ AccessBlockActive(access[u], now)}}

ByAccess ==
    UNION {TargetAddrs(t) : t \in {u \in Target :
             /\ access[u] # NoRule /\ access[u].enabled = 1
             /\ TargetPresent(u)
             /\ AccessBlockActive(access[u], now)}}

\* The one answer of the rules as they are, for the time of the reading.
Answer == ByQuota \cup ByAccess

Begin ==
    /\ reading = "idle"
    /\ reading' = "quota_rules"
    /\ month' = Month(clock)
    /\ now' = clock
    /\ ever' = BlockedAddresses
    /\ always' = BlockedAddresses
    /\ UNCHANGED <<policyVars, blocked, edited>>

ReadQuotaRules ==
    /\ reading = "quota_rules"
    /\ reading' = "access_blocks"
    /\ blocked' = ByQuota
    /\ UNCHANGED <<policyVars, month, now, historyVars>>

\* What the reading returns.
Found == blocked \cup ByAccess

\* The last statement; what the reading leaves behind is cleared with it.
ReadAccessBlocks ==
    /\ reading = "access_blocks"
    /\ reading' = "idle"
    /\ month' = 0 /\ now' = 0
    /\ blocked' = {}
    /\ edited' = FALSE /\ ever' = {} /\ always' = {}
    /\ UNCHANGED policyVars

----------------------------------------------------------------------------
(* Meanwhile *)

\* An edit; one that leaves every rule as it was is no step.
Edit(t) ==
    /\ Administer(t)
    /\ ruleVars' # ruleVars
    /\ UNCHANGED readingVars
    /\ IF reading = "idle" THEN UNCHANGED historyVars
       ELSE /\ edited' = TRUE
            /\ ever' = ever \cup Answer'
            /\ always' = IF edited THEN {} ELSE always \cap Answer'

Time == Tick /\ UNCHANGED <<readingVars, historyVars>>

Collector ==
    /\ reading = "idle"
    /\ CollectorWrites
    /\ UNCHANGED <<readingVars, historyVars>>

Next ==
    \/ \E t \in Managed : Edit(t)
    \/ Time
    \/ Collector
    \/ Begin
    \/ ReadQuotaRules
    \/ ReadAccessBlocks

Spec == Init /\ [][Next]_vars

----------------------------------------------------------------------------
(* Properties *)

\* A list mixed from two states of the rules blocks nobody whom no state of
\* the rules blocked; and while only one edit came in between, it lets nobody
\* through whom the rules blocked before and after it.
ReadingIsSound ==
    [][ReadAccessBlocks => always \subseteq Found /\ Found \subseteq ever]_vars
============================================================================
