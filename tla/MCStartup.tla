----------------------------- MODULE MCStartup -----------------------------
(* Two processes that meet the data of an older version.                    *)
EXTENDS Startup

CONSTANTS collector, dashboard, choice, other

MCProcs == {collector, dashboard}
MCChoices == {choice, other}
MCLegacyEntries == {1, 2}
FreshOrShipped == {Missing, Default}
Shipped == {Default}
============================================================================
