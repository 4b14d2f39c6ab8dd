-------------------------- MODULE MCTrafficLedger --------------------------
(* Small tailnets for TrafficLedger: n1 belongs to an account, n2 to none   *)
(* (a node without a UserID).                                               *)
EXTENDS TrafficLedger

CONSTANTS u1, n1, n2, a1, a2

MCUsers == {u1}
MCNodes == {n1, n2}
MCAddrs == {a1, a2}
OneAddr == {a1}
MCUpload == {"upload"}
MCOwnerOf == [n \in MCNodes |-> IF n = n1 THEN u1 ELSE NoUser]
=============================================================================
