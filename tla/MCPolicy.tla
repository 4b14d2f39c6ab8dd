----------------------------- MODULE MCPolicy -----------------------------
(* One user with one device and one address. *)
EXTENDS PolicyReading

CONSTANTS u1, d1, a1

OneUser == {u1}
OneDevice == {d1}
OneAddr == {a1}
UserRules == {[type |-> "user", key |-> u1]}
DeviceRules == {[type |-> "device", key |-> d1]}
AllRules == UserRules \cup DeviceRules
============================================================================
