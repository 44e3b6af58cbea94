----------------------------- MODULE Enrolment -----------------------------
(***************************************************************************)
(* What an installation of the node agent promises about its credential    *)
(* (vwray-node/README.md: it "persists its credentials" and "will reuse it *)
(* across restarts"): it keeps one that the control plane issued to it,    *)
(* and gives it up only after the control plane has refused that one.      *)
(***************************************************************************)
CONSTANTS Credentials, None

VARIABLES
  issued,   \* credentials that the control plane has issued
  refused,  \* those of them that it has refused at least once
  held      \* what the installation has stored

vars == <<issued, refused, held>>

Init == issued = {} /\ refused = {} /\ held = None

Issue == \E c \in Credentials \ issued : issued' = issued \cup {c} /\ UNCHANGED <<refused, held>>
Refuse == \E c \in Credentials : refused' = refused \cup {c} /\ UNCHANGED <<issued, held>>
Adopt == held = None /\ held' \in issued /\ UNCHANGED <<issued, refused>>
GiveUp == held \in refused /\ held' = None /\ UNCHANGED <<issued, refused>>

Next == Issue \/ Refuse \/ Adopt \/ GiveUp

Spec == Init /\ [][Next]_vars
=============================================================================
