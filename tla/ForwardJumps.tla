---------------------------- MODULE ForwardJumps ----------------------------
(***************************************************************************)
(* Firewall._ensure_forward_jumps (firewall.py), for one family: the two   *)
(* jumps to the counting chains are kept first in the kernel's FORWARD     *)
(* chain, in front of the rules of tailscaled and Docker, which put theirs *)
(* first again whenever they restart.                                      *)
(*                                                                         *)
(* A call lists the chain, and when the jumps are not its first two rules  *)
(* deletes each once and inserts both at the top: five commands, between   *)
(* any two of which other programs rewrite the chain, a command fails or   *)
(* the collector is killed.  iptables -D is run without check: it deletes  *)
(* the first copy of the jump, there may be none, and when the xtables     *)
(* lock stays busy it leaves a copy where it is.  A command that times out *)
(* after it took effect is that command followed by Fail.                  *)
(***************************************************************************)
EXTENDS Naturals, Sequences, SequencesExt

CONSTANTS Foreign,   \* rules of other programs
          MaxMissed  \* bound of the deletions that leave the jump

Desired == <<"download", "upload">>
Rules   == Foreign \cup {"download", "upload"}

VARIABLES
    forward,  \* the FORWARD chain
    pc,
    todo,     \* jumps still to be deleted or inserted, in this order
    missed    \* history: deletions that left a jump behind

vars == <<forward, pc, todo, missed>>

\* The chain may hold the jumps of an older version, in any place.
Init ==
    /\ forward \in SetToAllKPermutations(Rules)
    /\ pc = "idle"
    /\ todo = <<>>
    /\ missed = 0

----------------------------------------------------------------------------
(* Other programs and the host *)

\* A program puts its rule first, new or again.
PutFirst(r) ==
    /\ forward' = <<r>> \o RemoveFirst(forward, r)
    /\ UNCHANGED <<pc, todo, missed>>

Withdraw(r) ==
    /\ forward' = RemoveFirst(forward, r)
    /\ UNCHANGED <<pc, todo, missed>>

Reboot ==
    /\ forward' = <<>>
    /\ pc' = "idle"
    /\ todo' = <<>>
    /\ UNCHANGED missed

----------------------------------------------------------------------------
(* One call *)

\* iptables -S FORWARD: nothing to do while the jumps come first.
Inspect ==
    /\ pc = "idle"
    /\ ~IsPrefix(Desired, forward)
    /\ pc' = "delete"
    /\ todo' = Desired
    /\ UNCHANGED <<forward, missed>>

\* Mutant: the jumps are inserted in the order of the list.
AfterDeleteUnreversed ==
    IF Len(todo) > 1 THEN pc' = "delete" /\ todo' = Tail(todo)
                     ELSE pc' = "insert" /\ todo' = Desired

\* Each is put at position one, so the last one inserted comes first.
AfterDelete ==
    IF Len(todo) > 1 THEN pc' = "delete" /\ todo' = Tail(todo)
                     ELSE pc' = "insert" /\ todo' = Reverse(Desired)

\* Mutant: the rule is deleted by the place the listing showed it at.
DeleteByPlace ==
    /\ pc = "delete"
    /\ forward' = IF forward = <<>> THEN forward ELSE Tail(forward)
    /\ AfterDelete
    /\ UNCHANGED missed

\* iptables -D FORWARD <jump>: its first copy, if there is one.
Delete ==
    /\ pc = "delete"
    /\ forward' = RemoveFirst(forward, Head(todo))
    /\ AfterDelete
    /\ UNCHANGED missed

\* The same, but the xtables lock stays busy; nobody looks at the exit code.
DeleteMisses ==
    /\ pc = "delete"
    /\ missed < MaxMissed
    /\ \E i \in 1 .. Len(forward) : forward[i] = Head(todo)
    /\ missed' = missed + 1
    /\ AfterDelete
    /\ UNCHANGED forward

\* iptables -I FORWARD 1 <jump>
Insert ==
    /\ pc = "insert"
    /\ forward' = <<Head(todo)>> \o forward
    /\ todo' = Tail(todo)
    /\ pc' = IF Len(todo) > 1 THEN "insert" ELSE "idle"
    /\ UNCHANGED missed

\* Mutant: a call that failed is taken up again at its insertions.
FailIntoInsert ==
    /\ pc # "idle"
    /\ pc' = "insert"
    /\ todo' = Reverse(Desired)
    /\ UNCHANGED <<forward, missed>>

\* A command raises FirewallError, or the collector is killed.
Fail ==
    /\ pc # "idle"
    /\ pc' = "idle"
    /\ todo' = <<>>
    /\ UNCHANGED <<forward, missed>>

----------------------------------------------------------------------------
Others == (\E r \in Foreign : PutFirst(r) \/ Withdraw(r)) \/ Reboot

Ensure == Inspect \/ Delete \/ DeleteMisses \/ Insert

Next == Others \/ Ensure \/ Fail

Spec == Init /\ [][Next]_vars

----------------------------------------------------------------------------
(* Properties *)

Places(c, R) == {i \in 1 .. Len(c) : c[i] \in R}

Copies(j) == Cardinality(Places(forward, {j}))

\* The rules R are in both chains alike, and in the same order.
SameInOrder(c, d, R) ==
    \E f \in Bijection(Places(c, R), Places(d, R)) :
      \A i \in Places(c, R) :
        /\ d[f[i]] = c[i]
        /\ \A k \in Places(c, R) : i < k => f[i] < f[k]

\* The chain holds known rules only, and a call deletes and inserts the two
\* jumps in the order of _ensure_forward_jumps.
TypeOK ==
    /\ forward \in Seq(Rules)
    /\ pc \in {"idle", "delete", "insert"}
    /\ pc = "delete" => todo \in {Desired, Tail(Desired)}
    /\ pc = "insert" => todo \in {Reverse(Desired), Tail(Reverse(Desired))}
    /\ pc = "idle" => todo = <<>>
    /\ missed \in 0 .. MaxMissed

\* However calls are cut short and whoever rewrites the chain in between, a
\* packet is counted once: a jump is never in the chain twice, except by a
\* deletion that did not delete.
CountedOnce ==
    \A j \in {"download", "upload"} : Copies(j) <= 1 + missed
============================================================================
