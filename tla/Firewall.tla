------------------------------ MODULE Firewall ------------------------------
(***************************************************************************)
(* The firewall's part of a cycle (firewall.py as Collector.collect calls  *)
(* it): ensure() completes a counting chain rule by rule and then puts the *)
(* jumps to it first, set_blocked() installs the block list.  BlockSets    *)
(* has the sets and ForwardJumps the jumps; here they are run one after    *)
(* the other, and fail and reboot together.                                *)
(*                                                                         *)
(* A packet is dropped when it reaches the chain before another program    *)
(* accepts it, meets the rule that drops before the one that counts, and   *)
(* its address is in the set.  Each of the three is kept by another part   *)
(* of the cycle.                                                           *)
(*                                                                         *)
(* Abstractions.  One chain of one family: ensure() does the same for each *)
(* and nothing relates them.  A rule is looked for with iptables -C, whose *)
(* exit code says that there is none also when the xtables lock is busy.   *)
(***************************************************************************)
EXTENDS BlockSets, Naturals, Sequences, SequencesExt

CONSTANTS Chained,    \* the family of the chain
          Foreign,    \* rules of other programs in FORWARD
          MaxMissed,  \* bound of the jumps not deleted
          MaxMisread  \* bound of the rules not found though they are there

ASSUME FirewallAssumption ==
    /\ Chained \in Families
    /\ IsFiniteSet(Foreign) /\ {"download", "upload"} \cap Foreign = {}
    /\ MaxMissed \in Nat
    /\ MaxMisread \in Nat

VARIABLES
    step,     \* what the cycle does next
    chain,    \* TSM_UPLOAD: the rules that drop, discover and count
    misread,  \* history: rules that were not found though they were there
    forward, jpc, jtodo, missed

chainVars == <<chain, misread>>
jumpVars  == <<forward, jpc, jtodo, missed>>
firewallVars == <<vars, step, chainVars, jumpVars>>

J == INSTANCE ForwardJumps WITH pc <- jpc, todo <- jtodo

\* The chain of a version that could not block yet, or none.
FirewallInit ==
    /\ Init
    /\ J!Init
    /\ step = "rest"
    /\ chain \in {<<>>, <<"discover", "count">>}
    /\ misread = 0

----------------------------------------------------------------------------
(* One cycle *)

Begin ==
    /\ step = "rest"
    /\ step' = "block"
    /\ UNCHANGED <<vars, chainVars, jumpVars>>

AfterRule == CASE step = "block"    -> "discover"
               [] step = "discover" -> "count"
               [] step = "count"    -> "jumps"

\* Mutant: every missing rule is appended.
AppendRule == chain' = Append(chain, step)

\* The rule that drops is inserted at the top, the others are appended.
AddRule ==
    chain' = IF step = "block" THEN <<step>> \o chain ELSE Append(chain, step)

\* iptables -C, and -I or -A if that fails
EnsureRule ==
    /\ step \in {"block", "discover", "count"}
    /\ step' = AfterRule
    /\ IF Contains(chain, step) THEN UNCHANGED chain ELSE AddRule
    /\ UNCHANGED <<vars, misread, jumpVars>>

EnsureRuleMisreads ==
    /\ step \in {"block", "discover", "count"}
    /\ misread < MaxMisread
    /\ Contains(chain, step)
    /\ misread' = misread + 1
    /\ step' = AfterRule
    /\ AddRule
    /\ UNCHANGED <<vars, jumpVars>>

\* Mutant: it is enough that the jumps are there.
JumpsAnywhere ==
    /\ step = "jumps"
    /\ jpc = "idle"
    /\ \A j \in {"download", "upload"} : Contains(forward, j)
    /\ step' = "apply"
    /\ UNCHANGED <<vars, chainVars, jumpVars>>

\* _ensure_forward_jumps finds the jumps in their place ...
JumpsAhead ==
    /\ step = "jumps"
    /\ jpc = "idle"
    /\ IsPrefix(J!Desired, forward)
    /\ step' = "apply"
    /\ UNCHANGED <<vars, chainVars, jumpVars>>

\* ... or rewrites them.
RewriteJumps ==
    /\ step = "jumps"
    /\ J!Ensure
    /\ step' = IF jpc' = "idle" THEN "apply" ELSE "jumps"
    /\ UNCHANGED <<vars, chainVars>>

Apply ==
    /\ step = "apply"
    /\ \/ \E D \in SUBSET Addrs : SetBlocked(D)
       \/ \E f \in Families : FlushStaging(f)
       \/ \E a \in Addrs : AddEntry(a)
       \/ Swap
       \/ FlushSwapped
    /\ step' = IF pc' = "idle" THEN "rest" ELSE "apply"
    /\ UNCHANGED <<chainVars, jumpVars>>

\* A command raises FirewallError, or the collector is killed.
CutShort ==
    /\ step # "rest"
    /\ step' = "rest"
    /\ IF pc = "idle" THEN UNCHANGED vars ELSE Fail
    /\ IF jpc = "idle" THEN UNCHANGED jumpVars ELSE J!Fail
    /\ UNCHANGED chainVars

----------------------------------------------------------------------------
(* The host and other programs *)

HostReboots ==
    /\ Reboot
    /\ J!Reboot
    /\ step' = "rest"
    /\ chain' = <<>>
    /\ UNCHANGED misread

OthersRewrite ==
    /\ \E r \in Foreign : J!PutFirst(r) \/ J!Withdraw(r)
    /\ UNCHANGED <<vars, step, chainVars>>

----------------------------------------------------------------------------
Cycle == Begin \/ EnsureRule \/ EnsureRuleMisreads
           \/ JumpsAhead \/ RewriteJumps \/ Apply

FirewallNext == Cycle \/ CutShort \/ HostReboots \/ OthersRewrite

FirewallSpec == FirewallInit /\ [][FirewallNext]_firewallVars

\* The collector's loop never rests; the host reboots, other programs
\* rewrite FORWARD and commands fail only for a while.
Fairness ==
    /\ WF_firewallVars(Cycle)
    /\ <>[][~(CutShort \/ HostReboots \/ OthersRewrite)]_firewallVars

FairSpec == FirewallSpec /\ Fairness

----------------------------------------------------------------------------
(* Properties *)

\* The parts keep their types, and each is at work in its step only.
FirewallTypeOK ==
    /\ TypeOK
    /\ J!TypeOK
    /\ step \in {"rest", "block", "discover", "count", "jumps", "apply"}
    /\ chain \in Seq({"block", "discover", "count"})
    /\ misread \in 0 .. MaxMisread
    /\ jpc # "idle" => step = "jumps"
    /\ pc # "idle" => step = "apply"

\* However calls are cut short and whoever rewrites the chain in between, a
\* packet is counted once: a jump is never in the chain twice, except by a
\* deletion that did not delete.
CountedOnce == J!CountedOnce

\* The rules of other programs are left alone, and in their order.
OthersLeftAlone ==
    [][Cycle => J!SameInOrder(forward, forward', Foreign)]_firewallVars

\* What a blocked address sends is not booked as its traffic: whatever
\* chain was found, cut short or misread, once it has a rule that drops,
\* one stands before every rule that counts.
DropsBeforeCounting ==
    Contains(chain, "block") =>
      \A i \in DOMAIN chain :
        chain[i] = "count" => \E k \in 1 .. i : chain[k] = "block"

\* Everything a packet of the address meets on its way to being dropped.
Drops(a) ==
    /\ IsPrefix(J!Desired, forward)
    /\ Contains(chain, "block")
    /\ a \in active[Chained]

\* "Keep accounting and blocking ahead of Tailscale's ACCEPT rules": an
\* address every call is to block is dropped in the end, and for good,
\* whatever failed, rebooted or went in front before.
EventuallyDropped ==
    \A a \in Addrs : FamilyOf[a] = Chained =>
      (<>[](a \in decision) => <>[]Drops(a))
============================================================================
