------------------------------- MODULE Meter -------------------------------
(***************************************************************************)
(* What the collector promises of the traffic it charges.  Bytes are       *)
(* booked after they were counted, once, and are charged in full and at    *)
(* once; what was booked is never unbooked.  An account is charged more,   *)
(* never less: only what was booked under a provisional account, for an    *)
(* address nobody was known to hold, moves to another one.                 *)
(***************************************************************************)
EXTENDS Sums

CONSTANTS Counters, Accounts,
          Provisional  \* the accounts of unidentified addresses

VARIABLES counted, booked,  \* bytes of each counter
          charged           \* bytes of each account

meter == <<counted, booked, charged>>

Init ==
    /\ counted = [k \in Counters |-> 0]
    /\ booked = [k \in Counters |-> 0]
    /\ charged = [i \in Accounts |-> 0]

Count(k) ==
    /\ counted' = [counted EXCEPT ![k] = @ + 1]
    /\ UNCHANGED <<booked, charged>>

Book ==
    /\ booked' \in [Counters -> Nat]
    /\ \A k \in Counters : booked[k] <= booked'[k] /\ booked'[k] <= counted[k]
    /\ charged' \in [Accounts -> Nat]
    /\ \A i \in Accounts : charged[i] <= charged'[i]
    /\ Total(charged') = Total(booked')
    /\ UNCHANGED counted

Identify ==
    /\ charged' \in [Accounts -> Nat]
    /\ \A i \in Accounts \ Provisional : charged[i] <= charged'[i]
    /\ Total(charged') = Total(charged)
    /\ UNCHANGED <<counted, booked>>

Next == (\E k \in Counters : Count(k)) \/ Book \/ Identify

Spec == Init /\ [][Next]_meter
=============================================================================
