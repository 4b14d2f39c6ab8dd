----------------------------- MODULE MCFirewall -----------------------------
(* An address of each family and a public one; the rules of tailscaled and  *)
(* of Docker.                                                               *)
EXTENDS Firewall

CONSTANTS a4, a6, public

MCAddrs == {a4, a6, public}
MCFamilies == {"4", "6"}
MCFamilyOf == [a \in MCAddrs |-> IF a = a6 THEN "6" ELSE "4"]
MCInRange == {a4, a6}
MCForeign == {"ts-forward", "docker-user"}
=============================================================================
