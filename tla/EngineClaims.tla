---------------------------- MODULE EngineClaims ----------------------------
(***************************************************************************)
(* What the documentation says of the deployment engine and the code does  *)
(* not do, refuted by a run of its own (PROJECT.json, "findings").         *)
(***************************************************************************)
EXTENDS DeploymentEngine

\* README 2: ROLLED_BACK "completes the restoration of all target-version nodes
\* back to the source version".
RolledBackLeavesNoTarget ==
    pc = "done" /\ status = "rolled_back" =>
        \A s \in Servers : servers[s].cur = target => before[s] = target

=============================================================================
