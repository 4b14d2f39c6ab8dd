--------------------------- MODULE MCEnforcement ---------------------------
(* One friend with one device that has an address of each family.          *)
EXTENDS Enforcement

CONSTANTS u1, d1, a4, a6

MCUsers == {u1}
MCDevices == {d1}
MCAddrs == {a4, a6}
MCFamilies == {"4", "6"}
MCFamilyOf == [a \in MCAddrs |-> IF a = a6 THEN "6" ELSE "4"]
MCHolderOf == [a \in MCAddrs |-> [identity |-> u1, device |-> d1]]
UserRules == {[type |-> "user", key |-> u1]}
============================================================================
