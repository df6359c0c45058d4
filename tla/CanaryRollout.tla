---------------------------- MODULE CanaryRollout ----------------------------
(***************************************************************************)
(* What a canary rollout promises, without saying how: servers move one at *)
(* a time from the version they ran (base) to the goal; the rollout ends   *)
(* complete only when every server runs the goal, and reverted only when   *)
(* every server in its scope runs again the version it ran before.  The    *)
(* scope is the whole cluster unless the rollout may isolate a region and  *)
(* revert that region alone.  A failed rollout leaves the servers where    *)
(* they are.  DeploymentEngine is shown to implement this module.          *)
(***************************************************************************)
CONSTANTS Servers, Versions,
          Isolates    \* may a reversal confine itself to a part of the cluster

VARIABLES phase, goal, base, versions, scope

rollout == <<phase, goal, base, versions, scope>>

Phase == {"idle", "rolling", "reverting", "complete", "reverted", "failed"}

TypeOK ==
    /\ phase \in Phase
    /\ goal \in Versions
    /\ base \in [Servers -> Versions]
    /\ versions \in [Servers -> Versions]
    /\ scope \in SUBSET Servers

Init ==
    /\ phase = "idle"
    /\ goal \in Versions
    /\ versions \in [Servers -> Versions]
    /\ base = versions
    /\ scope = Servers

Begin ==
    /\ phase \notin {"rolling", "reverting"}
    /\ phase' = "rolling"
    /\ goal' \in Versions
    /\ base' = versions
    /\ scope' = Servers
    /\ UNCHANGED versions

Carry(s) ==
    /\ phase = "rolling"
    /\ versions' = [versions EXCEPT ![s] = goal]
    /\ UNCHANGED <<phase, goal, base, scope>>

Complete ==
    /\ phase = "rolling"
    /\ \A s \in Servers : versions[s] = goal
    /\ phase' = "complete"
    /\ UNCHANGED <<goal, base, versions, scope>>

GiveUp ==
    /\ phase = "rolling"
    /\ phase' = "reverting"
    /\ UNCHANGED <<goal, base, versions, scope>>

Isolate(part) ==
    /\ Isolates
    /\ phase = "reverting"
    /\ scope' = part
    /\ UNCHANGED <<phase, goal, base, versions>>

Drop(s) ==
    /\ phase = "reverting"
    /\ versions' = [versions EXCEPT ![s] = base[s]]
    /\ UNCHANGED <<phase, goal, base, scope>>

Settle ==
    /\ phase = "reverting"
    /\ \A s \in scope : versions[s] = base[s]
    /\ phase' = "reverted"
    /\ UNCHANGED <<goal, base, versions, scope>>

Fail ==
    /\ phase \in {"rolling", "reverting"}
    /\ phase' = "failed"
    /\ UNCHANGED <<goal, base, versions, scope>>

\* Between rollouts the operator may put any version on a server.
Drift(s) ==
    /\ phase \notin {"rolling", "reverting"}
    /\ phase' = "idle"
    /\ \E v \in Versions : versions' = [versions EXCEPT ![s] = v]
    /\ UNCHANGED <<goal, base, scope>>

Next ==
    \/ Begin \/ Complete \/ GiveUp \/ Settle \/ Fail
    \/ \E s \in Servers : Carry(s) \/ Drop(s) \/ Drift(s)
    \/ \E part \in SUBSET Servers : Isolate(part)

Spec == Init /\ [][Next]_rollout

=============================================================================
