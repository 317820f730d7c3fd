----------------------------- MODULE LocalService -----------------------------
(* What runs around `flopbench serve`: the page before the API, or the script *)
(* that verifies an installation and starts a server of its own.              *)
EXTENDS Dashboard, InstallCheck

VARIABLE which  \* "dashboard" or "install"

serviceVars == <<apiVars, pageVars, installVars, which>>

Init ==
  /\ which \in {"dashboard", "install"}
  /\ ApiInit /\ PageInit /\ InstallInit

Next ==
  /\ UNCHANGED which
  /\ \/ /\ which = "dashboard"
        /\ (ApiNext /\ UNCHANGED pageVars) \/ PageNext
        /\ UNCHANGED installVars
     \/ which = "install" /\ InstallNext /\ UNCHANGED <<apiVars, pageVars>>

Spec == Init /\ [][Next]_serviceVars /\ InstallFairness
=============================================================================
