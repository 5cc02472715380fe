--------------------------- MODULE MCServerProgress ---------------------------
(***************************************************************************)
(* What agentserver promises to happen in the end: a sandbox in transition *)
(* settles, and an automation that is due is claimed. The two work on      *)
(* tables of their own, so that a behaviour lets one of them move and      *)
(* leaves the other as it started; the states are those of both together.  *)
(***************************************************************************)
EXTENDS SandboxLifecycle, Automations

VARIABLE service

serverVars == <<vars, automationVars, service>>

ServerInit ==
    /\ service \in {"sandboxes", "automations"}
    /\ Init /\ AutomationInit

ServerNext ==
    /\ \/ /\ service = "sandboxes" /\ Next
          /\ UNCHANGED automationVars
       \/ /\ service = "automations" /\ AutomationNext
          /\ UNCHANGED vars
    /\ UNCHANGED service

\* No fair step is enabled where its service starts, so that its fairness asks
\* nothing of a behaviour in which another service moves.
ServerSpec ==
    /\ ServerInit /\ [][ServerNext]_serverVars
    /\ Fairness /\ AutomationFairness
===============================================================================
