------------------------------ MODULE Settings ------------------------------
(***************************************************************************)
(* What the configuration file promises (docs/README.md, "Data and         *)
(* upgrades"): the settings change as a whole, and a process that loads    *)
(* them gets the settings of that moment, never a part of them.  A process *)
(* that is stopped loses what it had loaded, and when it is stopped while  *)
(* it saves, the settings may be lost to the defaults as a whole.          *)
(***************************************************************************)
CONSTANTS Procs, Configs, Default,
          NoView    \* nothing has been loaded

VARIABLES content,  \* the settings
          view      \* process -> the settings it works with

Init ==
    /\ content \in Configs
    /\ view = [p \in Procs |-> NoView]

\* A process may go on with what it saved.
Save(p, c) ==
    /\ content' = c
    /\ view' \in {view, [view EXCEPT ![p] = c]}

Load(p) ==
    /\ view' = [view EXCEPT ![p] = content]
    /\ UNCHANGED content

Stop(p) ==
    /\ content' \in {content, Default}
    /\ view' = [view EXCEPT ![p] = NoView]

Next == \E p \in Procs :
    \/ \E c \in Configs : Save(p, c)
    \/ Load(p)
    \/ Stop(p)

Spec == Init /\ [][Next]_<<content, view>>
============================================================================
