----------------------------- MODULE BlockList -----------------------------
(***************************************************************************)
(* What the firewall promises of the block list: a family's list is always *)
(* replaced as a whole by that family's part of the latest verdict, and    *)
(* otherwise only a reboot changes it.  The kernel never drops packets by  *)
(* a list that mixes two verdicts or holds half of one.                    *)
(***************************************************************************)
CONSTANTS Addrs, Families, FamilyOf

VARIABLES verdict,  \* the addresses set_blocked was last called with
          blocked   \* family -> the addresses the kernel drops

Part(D, f) == {a \in D : FamilyOf[a] = f}

Nothing == [f \in Families |-> {}]

Init == verdict = {} /\ blocked = Nothing

Decide == verdict' \in SUBSET Addrs /\ UNCHANGED blocked

Install(f) ==
    /\ blocked' = [blocked EXCEPT ![f] = Part(verdict, f)]
    /\ UNCHANGED verdict

Clear == blocked' = Nothing /\ UNCHANGED verdict

Next == Decide \/ (\E f \in Families : Install(f)) \/ Clear

Spec == Init /\ [][Next]_<<verdict, blocked>>
============================================================================
