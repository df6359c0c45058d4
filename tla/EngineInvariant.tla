--------------------------- MODULE EngineInvariant ---------------------------
(***************************************************************************)
(* The inductive invariant of the deployment engine: why its promises      *)
(* hold.  While a rollout goes forward, the servers in servers_updated run *)
(* the target and carry, as previous_version, the version they ran before  *)
(* deploy() began; all others have not been touched.  While it is undone,  *)
(* those still to be reverted carry it and those already reverted are      *)
(* back.  TLC checks it on small clusters, DeploymentEngine_proofs proves  *)
(* it for all of them.                                                     *)
(***************************************************************************)
EXTENDS DeploymentEngine

\* Moved to the target by this deployment, and ready to be moved back.
Carried(s) ==
    /\ servers[s].cur = target
    /\ servers[s].prev = before[s]
    /\ servers[s].last = "deploy"

Restored(s) == servers[s].cur = before[s]

\* Places at which the pending set can still shrink.
Forward == Place \ (Resting \cup Reverting)

\* The status the deployment has at each place.
StatusFits ==
    /\ pc = "start" => status = "pending"
    /\ pc \in Forward \ {"start", "wait", "heal"} => status = "in_progress"
    /\ pc = "wait" => status = "paused"
    /\ pc = "heal" => status = "completed"
    /\ pc \in Reverting => status \in {"rolling_back", "aborted"}
    /\ pc = "done" => status = "pending" \/ IsTerminal(status)

\* The stage the loop is in, and where it can only be a stage before the last.
StageFits ==
    /\ pc = "start" => stage = 0
    /\ pc \in Forward \ {"start"} => stage # 0
    /\ pc = "wait" => stage < Len(Stages)
    /\ pc \in {"finish", "heal"} => stage = Len(Stages)
    /\ pc # "idle" /\ stage = 0 => updated = {}

\* servers_updated and servers_pending part the cluster, and a server that is
\* not in servers_updated runs what it ran.
RecordFits ==
    pc # "idle" =>
        /\ pending \cap updated = {}
        /\ pc \in Forward => pending \cup updated = Servers
        /\ \A s \in Servers \ updated : Restored(s)

\* What the recovery's scope is, and which servers the plan covers.
ScopeFits ==
    /\ pc \notin {"isolate", "recover"} \cup Resting => region = NoRegion
    /\ pc \in {"plan", "isolate"} => HasQuarantine /\ todo = updated \cap Scope
    /\ pc = "isolate" => region # NoRegion

\* The versions of the servers in servers_updated.
VersionsFit ==
    /\ pc \notin Resting \cup {"revert", "recover"} => \A s \in updated : Carried(s)
    /\ pc \in {"revert", "recover"} => todo \subseteq updated /\ \A s \in todo : Carried(s)
    /\ pc = "revert" => \A s \in updated \ todo : Restored(s)
    /\ pc = "recover" => (updated \ todo) \cap Scope = {}

\* How many servers the stage has updated, and has left to update.
CountFits ==
    /\ pc # "idle" /\ stage # 0 => Cardinality(updated) <= TargetCount(stage)
    /\ pc \in {"update", "install"} =>
        /\ todo \subseteq pending /\ fresh \subseteq updated
        /\ Cardinality(updated) + needed = TargetCount(stage) + Cardinality(fresh)
        /\ Cardinality(updated) + Cardinality(todo) <= TargetCount(stage)
    /\ pc \in {"health", "unhealthy", "complete_gate", "wait", "finish"} =>
        TargetCount(stage) <= Cardinality(updated)
    /\ pc = "heal" => updated = Servers

\* No server the deployment is finished with is left in UPDATING.
UpdatingFits ==
    /\ pc # "idle" => \A s \in Servers \ (updated \cup pending) : servers[s].status # "updating"
    /\ pc \in {"heal", "revert"} => \A s \in updated \ todo : servers[s].status # "updating"

\* What holds once deploy() has returned.
EndFits == CompletedEverywhere /\ RolledBackRestores /\ NoneLeftUpdating

RolloutInvariant ==
    /\ StatusFits
    /\ StageFits
    /\ RecordFits
    /\ ScopeFits
    /\ VersionsFit
    /\ CountFits
    /\ UpdatingFits
    /\ EndFits

\* An update is installed with the abort event set at most once, and only
\* after a check that came before: from then on every check sees the event.
LateFits == late = 0 \/ (late = 1 /\ abort /\ pc # "install")

=============================================================================
