----------------------------- MODULE BlockSets -----------------------------
(***************************************************************************)
(* Firewall.set_blocked (firewall.py), command by command.  For each       *)
(* family it fills the set tsm_block<f>_next and swaps it with the set     *)
(* tsm_block<f> the kernel drops by.  Every command can fail and the       *)
(* collector can be killed between any two; the sets live in the kernel    *)
(* and keep what was done to them until the host reboots.                  *)
(*                                                                         *)
(* A command that times out after it took effect is that command followed  *)
(* by Fail.  The families are taken in either order.                       *)
(***************************************************************************)
EXTENDS FiniteSets

CONSTANTS Addrs,
          Families,   \* 4 and 6
          FamilyOf,   \* the family of an address
          InRange,    \* the addresses of Tailscale's own ranges
          NoFamily

ASSUME BlockSetsAssumption ==
    /\ FamilyOf \in [Addrs -> Families]
    /\ InRange \subseteq Addrs
    /\ NoFamily \notin Families

VARIABLES
    decision,  \* the addresses of the current, or else the last, call
    active,    \* tsm_block4 and tsm_block6
    staging,   \* tsm_block4_next and tsm_block6_next
    pc,
    left,      \* families still to be installed
    family,    \* the one being installed
    todo       \* its addresses still to be added

vars == <<decision, active, staging, pc, left, family, todo>>

\* grouped[f]
Grouped(D, f) == {a \in D : FamilyOf[a] = f}

Init ==
    /\ decision = {}
    /\ active = [f \in Families |-> {}]
    /\ staging = [f \in Families |-> {}]
    /\ pc = "idle"
    /\ left = {}
    /\ family = NoFamily
    /\ todo = {}

\* Mutant: public addresses are passed on to ipset.
SetBlockedUnfiltered(D) ==
    /\ pc = "idle"
    /\ pc' = "flush"
    /\ decision' = D
    /\ left' = Families
    /\ UNCHANGED <<active, staging, family, todo>>

\* A call: public addresses are left out.
SetBlocked(D) ==
    /\ pc = "idle"
    /\ pc' = "flush"
    /\ decision' = D \cap InRange
    /\ left' = Families
    /\ UNCHANGED <<active, staging, family, todo>>

\* Mutant: the staging set is trusted to be empty, as the last flush of the
\* call before leaves it.
FlushStagingNever(f) ==
    /\ pc = "flush"
    /\ f \in left
    /\ pc' = "add"
    /\ family' = f
    /\ todo' = Grouped(decision, f)
    /\ UNCHANGED <<decision, active, staging, left>>

\* ipset flush <staging>
FlushStaging(f) ==
    /\ pc = "flush"
    /\ f \in left
    /\ pc' = "add"
    /\ family' = f
    /\ staging' = [staging EXCEPT ![f] = {}]
    /\ todo' = Grouped(decision, f)
    /\ UNCHANGED <<decision, active, left>>

\* ipset add <staging> <address> -exist
AddEntry(a) ==
    /\ pc = "add"
    /\ a \in todo
    /\ staging' = [staging EXCEPT ![family] = @ \cup {a}]
    /\ todo' = todo \ {a}
    /\ UNCHANGED <<decision, active, pc, left, family>>

\* Mutant: an empty list is not worth a swap.
SwapUnlessEmpty ==
    /\ pc = "add"
    /\ todo = {}
    /\ pc' = "clean"
    /\ IF staging[family] = {}
       THEN UNCHANGED <<active, staging>>
       ELSE /\ active' = [active EXCEPT ![family] = staging[family]]
            /\ staging' = [staging EXCEPT ![family] = active[family]]
    /\ UNCHANGED <<decision, left, family, todo>>

\* ipset swap <staging> <active>
Swap ==
    /\ pc = "add"
    /\ todo = {}
    /\ pc' = "clean"
    /\ active' = [active EXCEPT ![family] = staging[family]]
    /\ staging' = [staging EXCEPT ![family] = active[family]]
    /\ UNCHANGED <<decision, left, family, todo>>

\* The closing ipset flush <staging>
FlushSwapped ==
    /\ pc = "clean"
    /\ staging' = [staging EXCEPT ![family] = {}]
    /\ left' = left \ {family}
    /\ family' = NoFamily
    /\ pc' = IF left' = {} THEN "idle" ELSE "flush"
    /\ UNCHANGED <<decision, active, todo>>

\* A command raises FirewallError, or the collector is killed.
Fail ==
    /\ pc # "idle"
    /\ pc' = "idle"
    /\ left' = {}
    /\ family' = NoFamily
    /\ todo' = {}
    /\ UNCHANGED <<decision, active, staging>>

\* The host reboots: the sets are gone and ensure() creates them empty.
Reboot ==
    /\ active' = [f \in Families |-> {}]
    /\ staging' = [f \in Families |-> {}]
    /\ pc' = "idle"
    /\ left' = {}
    /\ family' = NoFamily
    /\ todo' = {}
    /\ UNCHANGED decision

Next ==
    \/ \E D \in SUBSET Addrs : SetBlocked(D)
    \/ \E f \in Families : FlushStaging(f)
    \/ \E a \in Addrs : AddEntry(a)
    \/ Swap
    \/ FlushSwapped
    \/ Fail
    \/ Reboot

Spec == Init /\ [][Next]_vars

----------------------------------------------------------------------------
(* Properties *)

\* What set_blocked keeps between two commands, and that no set ever holds
\* a public address.
TypeOK ==
    /\ decision \subseteq InRange
    /\ active \in [Families -> SUBSET Addrs]
    /\ staging \in [Families -> SUBSET Addrs]
    /\ pc \in {"idle", "flush", "add", "clean"}
    /\ left \subseteq Families
    /\ pc \in {"add", "clean"} => family \in left
    /\ pc \in {"idle", "flush"} => family = NoFamily
    /\ todo \subseteq Addrs

\* set_blocked implements the block list: to the kernel each family's list
\* changes at once and as a whole, although the commands build it entry by
\* entry and can stop anywhere, leaving leftovers for the next call.
Atomic == INSTANCE BlockList WITH verdict <- decision, blocked <- active
ImplementsBlockList == Atomic!Spec

\* A call that ends normally leaves both families with its decision, also
\* when there is nothing left to block.
InstalledWhenDone ==
    [][FlushSwapped /\ left = {family}
         => \A f \in Families : active'[f] = Grouped(decision, f)]_vars
============================================================================
