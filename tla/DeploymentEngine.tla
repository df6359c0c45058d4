-------------------------- MODULE DeploymentEngine --------------------------
(***************************************************************************)
(* The rollout loop of deploy/engine.py: one engine thread that runs       *)
(* deploy() after deploy() over a cluster, with everything around it that  *)
(* acts at the same time: the abort listener's thread, whoever changes the *)
(* status of a server (chaos injection, health callbacks), whoever         *)
(* quarantines and releases regions.  pc names the place in deploy() the   *)
(* engine thread has reached; between two places any other actor may act.  *)
(* A place is where the thread reads or writes what others can change, or  *)
(* calls code it does not own (a governance checkpoint, a health check).   *)
(***************************************************************************)
EXTENDS ClusterState, Integers, FiniteSets, Sequences

CONSTANTS
    Regions, RegionOf,     \* the region of each server
    NoRegion,              \* a recovery plan's target_region is None
    Stages,                \* DeploymentConfig.stages, cumulative percentages
    MaxRetries,            \* max_retries_per_stage
    StageDelay,            \* stage_delay_seconds
    CheckInterval,         \* health_check_interval
    AbortEvents,           \* may abort_event be configured, not configured, or either
    HasQuarantine,         \* quarantine_system is configured
    Governed,              \* governance_coordinator is configured
    QuarantineThreshold,   \* percentage passed to check_and_auto_quarantine
    MayClear,              \* somebody clears abort events
    MayRaise,              \* code the engine calls may raise
    MaxDeployments,        \* bound: calls of deploy()
    MaxDisturbances        \* bound: steps of the environment other than aborts

\* DeploymentConfig.__post_init__, and a cluster that is neither empty
\* (_init_deployment's max() raises on one) nor infinite.
ASSUME EngineAssumption ==
    /\ IsFiniteSet(Servers) /\ Servers # {}
    /\ RegionOf \in [Servers -> Regions] /\ NoRegion \notin Regions
    /\ Stages \in Seq(1..100) /\ Stages # << >> /\ Stages[Len(Stages)] = 100
    /\ \A i, j \in 1..Len(Stages) : i < j => Stages[i] < Stages[j]
    /\ MaxRetries \in Nat /\ StageDelay \in Nat /\ CheckInterval \in Nat
    /\ AbortEvents \subseteq BOOLEAN
    /\ {HasQuarantine, Governed, MayClear, MayRaise} \subseteq BOOLEAN
    /\ QuarantineThreshold \in 0..100
    /\ MaxDeployments \in Nat /\ MaxDisturbances \in Nat

VARIABLES
    servers,    \* ClusterState._servers
    abort,      \* the deployment's abort event is set
    quarantined,\* the regions with an ACTIVE quarantine
    status,     \* DeploymentState.status
    target,     \* DeploymentState.target_version
    updated,    \* DeploymentState.servers_updated
    pending,    \* DeploymentState.servers_pending
    pc,         \* where deploy() stands
    stage,      \* the stage of the loop, counted from 1 (stage_idx + 1)
    todo,       \* servers the running loop (update, heal, rollback) has left
    fresh,      \* StageResult.servers_updated
    needed,     \* servers_needed of the stage
    retries,    \* health checks repeated in the stage
    slept,      \* elapsed, when the wait between stages has no event to wait on
    woken,      \* Event.wait has been entered with the event set, or notified
    region,     \* target_region of the recovery plan
    listens,    \* config.abort_event of this deploy() is not None
    before,     \* history: the version each server ran when deploy() began
    late,       \* history: installs of this deployment made with abort set
    deployments, disturbances   \* counters for the two bounds

world == <<servers, abort, quarantined>>
record == <<target, updated, pending>>
deploymentState == <<status, record>>
loopState == <<stage, todo, fresh, needed, retries>>
callState == <<listens, before, late, deployments>>
rest == <<slept, woken, region, callState, disturbances>>
vars == <<world, deploymentState, pc, loopState, rest>>

DeploymentStatus == {"pending", "in_progress", "paused", "completed",
                     "rolling_back", "rolled_back", "aborted", "failed"}
IsTerminal(st) == st \in {"completed", "rolled_back", "aborted", "failed"}

Place == {"idle", "start", "stage", "gate", "select", "update", "install",
          "stage_error", "health", "unhealthy", "complete_gate", "wait", "finish",
          "heal", "rollback_gate", "plan", "isolate", "revert", "recover", "done"}

\* Where the engine is between rollouts, and where a rollout is being undone.
Resting == {"idle", "done"}
Reverting == {"rollback_gate", "plan", "isolate", "revert", "recover"}

-----------------------------------------------------------------------------
\* math.ceil(total_servers * target_pct / 100)
TargetCount(k) == (Cardinality(Servers) * Stages[k] + 99) \div 100

\* _select_servers_for_stage offers pending, updatable servers outside the
\* quarantined regions; quarantined regions count only with a quarantine system.
Eligible == {s \in pending : /\ IsUpdatable(servers[s])
                             /\ HasQuarantine => RegionOf[s] \notin quarantined}

\* Most steps only move the engine on, or mark the deployment and move on.
Goto(place) ==
    /\ pc' = place
    /\ UNCHANGED <<world, deploymentState, loopState, rest>>

Mark(st, place) ==
    /\ status' = st
    /\ pc' = place
    /\ UNCHANGED <<world, record, loopState, rest>>

\* Mutant: _handle_abort marks the deployment and leaves its servers alone.
HandleAbortOnlyMarks == Mark("aborted", "done")

HandleAbort == Mark("aborted", "rollback_gate")

HandleRollback == Mark("rolling_back", "rollback_gate")

HandleGovernanceBlock == Mark("failed", "done")

-----------------------------------------------------------------------------
Init ==
    /\ servers = GeneratedCluster
    /\ abort = FALSE
    /\ quarantined = {}
    /\ status = "pending" /\ target = InitialVersion
    /\ updated = {} /\ pending = {}
    /\ pc = "idle"
    /\ stage = 0 /\ todo = {} /\ fresh = {} /\ needed = 0 /\ retries = 0
    /\ slept = 0 /\ woken = FALSE
    /\ region = NoRegion
    /\ listens = FALSE
    /\ before = [s \in Servers |-> InitialVersion]
    /\ late = 0 /\ deployments = 0 /\ disturbances = 0

\* deploy(config): _init_deployment, the opening events and snapshot.  Each
\* deployment brings its own abort event.
Deploy(v) ==
    /\ pc \in Resting
    /\ deployments < MaxDeployments
    /\ abort' = FALSE
    /\ status' = "pending" /\ target' = v /\ updated' = {} /\ pending' = Servers
    /\ pc' = "start"
    /\ stage' = 0 /\ todo' = {} /\ fresh' = {} /\ needed' = 0 /\ retries' = 0
    /\ slept' = 0 /\ woken' = FALSE
    /\ region' = NoRegion
    /\ listens' \in AbortEvents
    /\ before' = [s \in Servers |-> servers[s].cur]
    /\ late' = 0 /\ deployments' = deployments + 1
    /\ UNCHANGED <<servers, quarantined, disturbances>>

\* evaluate_start: only BLOCK is acted on.
StartBlocked ==
    /\ pc = "start" /\ Governed
    /\ HandleGovernanceBlock

\* The first checkpoint stands outside deploy()'s try block: what it raises goes
\* to the caller, and the deployment stays PENDING.
StartRaises ==
    /\ pc = "start" /\ Governed /\ MayRaise
    /\ Goto("done")

\* The loop takes its first stage.
StartAllowed ==
    /\ pc = "start"
    /\ status' = "in_progress"
    /\ stage' = 1
    /\ pc' = "stage"
    /\ UNCHANGED <<world, record, todo, fresh, needed, retries, rest>>

StageAborted ==
    /\ pc = "stage" /\ abort
    /\ HandleAbort

\* Mutant: the head of the loop does not look at the abort event.
StageProceedsRegardless ==
    /\ pc = "stage"
    /\ Goto("gate")

StageProceeds ==
    /\ pc = "stage" /\ ~abort
    /\ Goto("gate")

\* evaluate_stage_start: only BLOCK is acted on.
StageBlocked ==
    /\ pc = "gate" /\ Governed
    /\ HandleGovernanceBlock

StageOpens ==
    /\ pc = "gate"
    /\ Goto("select")

-----------------------------------------------------------------------------
(***************************************************************************)
(* _execute_stage.  The servers chosen are as many of the eligible ones as *)
(* the stage needs; which ones, and in which order, is the round-robin of  *)
(* _select_servers_for_stage, left open here.  That code reads the status  *)
(* of one live server after another; a change of one server commutes with  *)
(* a read of another, so reading them in one step loses nothing.           *)
(***************************************************************************)
Selections(count) ==
    {chosen \in SUBSET Eligible :
        \/ Cardinality(chosen) = count
        \/ Cardinality(chosen) < count /\ chosen = Eligible}

StageAlreadyReached ==
    /\ pc = "select"
    /\ TargetCount(stage) <= Cardinality(updated)
    /\ fresh' = {} /\ todo' = {} /\ needed' = 0 /\ retries' = 0
    /\ pc' = "health"
    /\ UNCHANGED <<world, deploymentState, stage, rest>>

\* Mutant: the servers earlier stages updated are not subtracted.
SelectWholeTarget ==
    /\ pc = "select"
    /\ TargetCount(stage) > Cardinality(updated)
    /\ needed' = TargetCount(stage)
    /\ todo' \in Selections(needed')
    /\ fresh' = {} /\ retries' = 0
    /\ pc' = "update"
    /\ UNCHANGED <<world, deploymentState, stage, rest>>

SelectServers ==
    /\ pc = "select"
    /\ TargetCount(stage) > Cardinality(updated)
    /\ needed' = TargetCount(stage) - Cardinality(updated)
    /\ todo' \in Selections(needed')
    /\ fresh' = {} /\ retries' = 0
    /\ pc' = "update"
    /\ UNCHANGED <<world, deploymentState, stage, rest>>

\* The check of the abort event before each server ...
CheckAborted ==
    /\ pc = "update" /\ todo # {} /\ abort
    /\ Goto("stage_error")

\* Mutant: the loop over the chosen servers does not look at the abort event.
CheckPassedRegardless ==
    /\ pc = "update" /\ todo # {}
    /\ Goto("install")

CheckPassed ==
    /\ pc = "update" /\ todo # {} /\ ~abort
    /\ Goto("install")

\* Mutant: the server is updated and the deployment does not record it.
InstallUnrecorded(s) ==
    /\ pc = "install" /\ s \in todo
    /\ servers' = UpdateServerVersion(servers, s, target)
    /\ pending' = pending \ {s}
    /\ fresh' = fresh \cup {s} /\ todo' = todo \ {s}
    /\ late' = IF abort THEN late + 1 ELSE late
    /\ pc' = "update"
    /\ UNCHANGED <<abort, quarantined, status, target, updated, stage, needed,
                   retries, slept, woken, region, listens, before, deployments,
                   disturbances>>

\* ... and the update itself, a step later.  A member of the cluster is always
\* found, so update_server_version returns True.
Install(s) ==
    /\ pc = "install" /\ s \in todo
    /\ servers' = UpdateServerVersion(servers, s, target)
    /\ updated' = updated \cup {s} /\ pending' = pending \ {s}
    /\ fresh' = fresh \cup {s} /\ todo' = todo \ {s}
    /\ late' = IF abort THEN late + 1 ELSE late
    /\ pc' = "update"
    /\ UNCHANGED <<abort, quarantined, status, target, stage, needed, retries,
                   slept, woken, region, listens, before, deployments, disturbances>>

\* Mutant: a stage that found too few servers passes.
StageDoneShort ==
    /\ pc = "update" /\ todo = {}
    /\ Goto("health")

StageDone ==
    /\ pc = "update" /\ todo = {}
    /\ Goto(IF Cardinality(fresh) < needed THEN "stage_error" ELSE "health")

\* A stage's error does not say whether an abort caused it: the event is read
\* again, and may have been set or cleared since.
StageErrorAborts ==
    /\ pc = "stage_error" /\ abort
    /\ HandleAbort

\* Mutant: a stage that stopped short is tried again.
StageErrorRetries ==
    /\ pc = "stage_error" /\ ~abort
    /\ Goto("select")

StageErrorRollsBack ==
    /\ pc = "stage_error" /\ ~abort
    /\ HandleRollback

-----------------------------------------------------------------------------
(***************************************************************************)
(* The post-stage health check (a callback that may say anything; one that *)
(* raises has failed), its retries, and what follows the last failure.     *)
(***************************************************************************)
HealthPasses ==
    /\ pc = "health"
    /\ Goto("complete_gate")

\* Mutant: one health check too many.
HealthRetriesOnceMore ==
    /\ pc = "health" /\ retries <= MaxRetries
    /\ retries' = retries + 1
    /\ UNCHANGED <<world, deploymentState, pc, stage, todo, fresh, needed, rest>>

HealthRetries ==
    /\ pc = "health" /\ retries < MaxRetries
    /\ retries' = retries + 1
    /\ UNCHANGED <<world, deploymentState, pc, stage, todo, fresh, needed, rest>>

HealthFails ==
    /\ pc = "health" /\ retries = MaxRetries
    /\ Goto("unhealthy")

\* check_and_auto_quarantine: the regions whose share of degraded and failed
\* servers reaches the threshold.
UnstableRegions ==
    LET members(r) == {s \in Servers : RegionOf[s] = r}
        unstable(r) == {s \in members(r) : IsUnstable(servers[s])}
    IN  {r \in Regions :
            /\ members(r) # {}
            /\ Cardinality(unstable(r)) * 100
                  >= QuarantineThreshold * Cardinality(members(r))}

HealthFailureRollsBack ==
    /\ pc = "unhealthy"
    /\ quarantined' = IF HasQuarantine THEN quarantined \cup UnstableRegions
                      ELSE quarantined
    /\ status' = "rolling_back"
    /\ pc' = "rollback_gate"
    /\ UNCHANGED <<servers, abort, record, loopState, rest>>

\* evaluate_stage_complete: BLOCK and ROLLBACK are acted on.
CompletionBlocked ==
    /\ pc = "complete_gate" /\ Governed
    /\ HandleGovernanceBlock

CompletionRollsBack ==
    /\ pc = "complete_gate" /\ Governed
    /\ HandleRollback

\* The engine pauses, and Event.wait looks at the event as it is entered.
StageCompletes ==
    /\ pc = "complete_gate" /\ stage < Len(Stages)
    /\ status' = "paused"
    /\ slept' = 0 /\ woken' = abort
    /\ pc' = "wait"
    /\ UNCHANGED <<world, record, loopState, region, callState, disturbances>>

LastStageCompletes ==
    /\ pc = "complete_gate" /\ stage = Len(Stages)
    /\ Goto("finish")

-----------------------------------------------------------------------------
(***************************************************************************)
(* _wait_between_stages.  Without a delay it returns at once and looks at  *)
(* nothing; with an abort event it is Event.wait(timeout); otherwise it    *)
(* sleeps in increments until the delay has elapsed.                       *)
(***************************************************************************)
Increment == IF CheckInterval < StageDelay THEN CheckInterval ELSE StageDelay

WaitAborted ==
    /\ pc = "wait" /\ StageDelay > 0 /\ woken
    /\ HandleAbort

\* Mutant: the time slept is not added up.
SleepUncounted ==
    /\ pc = "wait" /\ ~listens /\ slept < StageDelay
    /\ slept' = Increment
    /\ UNCHANGED <<world, deploymentState, pc, loopState, woken, region, callState,
                   disturbances>>

Sleep ==
    /\ pc = "wait" /\ ~listens /\ slept < StageDelay
    /\ slept' = slept + Increment
    /\ UNCHANGED <<world, deploymentState, pc, loopState, woken, region, callState,
                   disturbances>>

WaitOver ==
    /\ pc = "wait"
    /\ \/ StageDelay = 0
       \/ listens /\ ~woken
       \/ ~listens /\ slept >= StageDelay
    /\ status' = "in_progress"
    /\ stage' = stage + 1
    /\ pc' = "stage"
    /\ UNCHANGED <<world, record, todo, fresh, needed, retries, rest>>

\* mark_completed, the closing event, then every updated server is set HEALTHY,
\* one call each.
Finish ==
    /\ pc = "finish"
    /\ status' = "completed"
    /\ todo' = updated
    /\ pc' = "heal"
    /\ UNCHANGED <<world, record, stage, fresh, needed, retries, rest>>

Heal(s) ==
    /\ pc = "heal" /\ s \in todo
    /\ servers' = UpdateServerStatus(servers, s, "healthy")
    /\ todo' = todo \ {s}
    /\ UNCHANGED <<abort, quarantined, deploymentState, pc, stage, fresh, needed,
                   retries, rest>>

Healed ==
    /\ pc = "heal" /\ todo = {}
    /\ Goto("done")

-----------------------------------------------------------------------------
(***************************************************************************)
(* _rollback_updated_servers, called by _handle_abort (status ABORTED) and *)
(* _handle_rollback (ROLLING_BACK).                                        *)
(***************************************************************************)
\* evaluate_rollback: BLOCK raises GovernanceViolationError, and deploy()'s
\* handler marks the deployment FAILED.
RollbackBlocked ==
    /\ pc = "rollback_gate" /\ Governed
    /\ HandleGovernanceBlock

RollbackStarts ==
    /\ pc = "rollback_gate"
    /\ pc' = IF HasQuarantine THEN "plan" ELSE "revert"
    /\ todo' = updated
    /\ UNCHANGED <<world, deploymentState, stage, fresh, needed, retries, rest>>

\* Without a quarantine system: rollback_server for each updated server.
Revert(s) ==
    /\ pc = "revert" /\ s \in todo
    /\ servers' = RollbackServer(servers, s)
    /\ todo' = todo \ {s}
    /\ UNCHANGED <<abort, quarantined, deploymentState, pc, stage, fresh, needed, retries,
                   rest>>

\* With one, a recovery plan.  No region quarantined: staged_recovery, batches
\* of two that cover every updated server (nothing happens between batches).
PlanStagedRecovery ==
    /\ pc = "plan" /\ quarantined = {}
    /\ pc' = "recover"
    /\ UNCHANGED <<world, deploymentState, loopState, rest>>

\* Otherwise region_quarantine, for whichever region list(quarantined)[0] is:
\* quarantine it, then roll back the updated servers in it.
PlanRegionQuarantine(r) ==
    /\ pc = "plan" /\ r \in quarantined
    /\ region' = r
    /\ todo' = {s \in updated : RegionOf[s] = r}
    /\ pc' = "isolate"
    /\ UNCHANGED <<world, deploymentState, stage, fresh, needed, retries, slept, woken,
                   callState, disturbances>>

\* The region may have been released since the plan was made.
IsolateRegion ==
    /\ pc = "isolate"
    /\ quarantined' = quarantined \cup {region}
    /\ pc' = "recover"
    /\ UNCHANGED <<servers, abort, deploymentState, loopState, rest>>

\* Mutant: the plan forgets the servers of the batch before it reverts them.
RecoverForgets(s) ==
    /\ pc = "recover" /\ s \in todo
    /\ servers' = RollbackServer(servers, s)
    /\ updated' = updated \ todo
    /\ todo' = todo \ {s}
    /\ UNCHANGED <<abort, quarantined, status, target, pending, pc, stage, fresh, needed,
                   retries, rest>>

\* execute_recovery_plan's rollback_batch.
Recover(s) ==
    /\ pc = "recover" /\ s \in todo
    /\ servers' = RollbackServer(servers, s)
    /\ updated' = updated \ {s}
    /\ todo' = todo \ {s}
    /\ UNCHANGED <<abort, quarantined, status, target, pending, pc, stage, fresh, needed,
                   retries, rest>>

\* _handle_rollback ends in mark_rolled_back; an aborted deployment stays so.
RollbackEnds ==
    /\ pc \in {"revert", "recover"} /\ todo = {}
    /\ Mark(IF status = "rolling_back" THEN "rolled_back" ELSE status, "done")

\* An exception in code the engine calls inside deploy()'s try block: a
\* governance checkpoint, or the stage's execution.
UnexpectedError ==
    /\ MayRaise
    /\ pc \in {"gate", "select", "complete_gate", "rollback_gate"}
    /\ Mark("failed", "done")

-----------------------------------------------------------------------------
(***************************************************************************)
(* The other threads.                                                      *)
(***************************************************************************)
\* The abort listener sets the event; a waiting engine is notified.
SetAbort ==
    /\ listens /\ ~abort
    /\ pc \notin Resting
    /\ abort' = TRUE
    /\ woken' = (woken \/ pc = "wait")
    /\ UNCHANGED <<servers, quarantined, deploymentState, pc, loopState, slept, region,
                   callState, disturbances>>

\* Another holder of the event clears it (test_repeated_abort_spam does).
ClearAbort ==
    /\ MayClear /\ abort
    /\ disturbances < MaxDisturbances
    /\ abort' = FALSE
    /\ disturbances' = disturbances + 1
    /\ UNCHANGED <<servers, quarantined, deploymentState, pc, loopState, slept, woken,
                   region, callState>>

\* Chaos injection, a health callback or an operator sets a server's status.
ChangeStatus(s, st) ==
    /\ disturbances < MaxDisturbances
    /\ servers' = UpdateServerStatus(servers, s, st)
    /\ disturbances' = disturbances + 1
    /\ UNCHANGED <<abort, quarantined, deploymentState, pc, loopState, slept, woken, region,
                   callState>>

QuarantineRegion(r) ==
    /\ HasQuarantine
    /\ disturbances < MaxDisturbances
    /\ quarantined' = quarantined \cup {r}
    /\ disturbances' = disturbances + 1
    /\ UNCHANGED <<servers, abort, deploymentState, pc, loopState, slept, woken, region,
                   callState>>

ReleaseRegion(r) ==
    /\ disturbances < MaxDisturbances
    /\ r \in quarantined
    /\ quarantined' = quarantined \ {r}
    /\ disturbances' = disturbances + 1
    /\ UNCHANGED <<servers, abort, deploymentState, pc, loopState, slept, woken, region,
                   callState>>

\* Out-of-band drift, between deployments.
DriftBetween(s, v) ==
    /\ pc \in Resting
    /\ disturbances < MaxDisturbances
    /\ servers' = OverrideVersion(servers, s, v)
    /\ disturbances' = disturbances + 1
    /\ pc' = "idle"
    /\ UNCHANGED <<abort, quarantined, deploymentState, loopState, slept, woken, region,
                   callState>>

Environment ==
    \/ SetAbort \/ ClearAbort
    \/ \E s \in Servers, st \in ServerStatus \ {"updating"} : ChangeStatus(s, st)
    \/ \E r \in Regions : QuarantineRegion(r) \/ ReleaseRegion(r)
    \/ \E s \in Servers, v \in Versions : DriftBetween(s, v)

Engine ==
    \/ StartBlocked \/ StartRaises \/ StartAllowed
    \/ StageAborted \/ StageProceeds \/ StageBlocked \/ StageOpens
    \/ StageAlreadyReached \/ SelectServers \/ CheckAborted \/ CheckPassed
    \/ \E s \in Servers : Install(s)
    \/ StageDone \/ StageErrorAborts \/ StageErrorRollsBack
    \/ HealthPasses \/ HealthRetries \/ HealthFails \/ HealthFailureRollsBack
    \/ CompletionBlocked \/ CompletionRollsBack \/ StageCompletes \/ LastStageCompletes
    \/ WaitAborted \/ Sleep \/ WaitOver
    \/ Finish \/ Healed \/ \E s \in Servers : Heal(s)
    \/ RollbackBlocked \/ RollbackStarts \/ PlanStagedRecovery
    \/ IsolateRegion \/ \E r \in Regions : PlanRegionQuarantine(r)
    \/ \E s \in Servers : Revert(s) \/ Recover(s)
    \/ RollbackEnds \/ UnexpectedError

Next == Engine \/ Environment \/ \E v \in Versions : Deploy(v)

Spec == Init /\ [][Next]_vars

\* A deploy() that was called is run: its thread is scheduled, and the health
\* checks and governance checkpoints it calls return.
FairSpec == Spec /\ WF_vars(Engine)

-----------------------------------------------------------------------------
(***************************************************************************)
(* Properties.                                                             *)
(***************************************************************************)
\* The type of every variable.
TypeOK ==
    /\ servers \in [Servers -> Server]
    /\ abort \in BOOLEAN
    /\ quarantined \in SUBSET Regions
    /\ status \in DeploymentStatus
    /\ target \in Versions
    /\ updated \in SUBSET Servers /\ pending \in SUBSET Servers
    /\ pc \in Place
    /\ stage \in 0..Len(Stages)
    /\ todo \in SUBSET Servers /\ fresh \in SUBSET Servers
    /\ needed \in Nat /\ retries \in 0..MaxRetries
    /\ slept \in Nat /\ woken \in BOOLEAN
    /\ region \in Regions \cup {NoRegion}
    /\ listens \in BOOLEAN
    /\ before \in [Servers -> Versions]
    /\ late \in Nat /\ deployments \in Nat /\ disturbances \in Nat

Scope == {s \in Servers : region \in {NoRegion, RegionOf[s]}}

Changed == {s \in Servers : servers[s].cur # before[s]}

\* The canary is contained: the deployment's servers_updated names every server
\* that does not run the version it ran when deploy() began, at every step of a
\* rollout, of a rollback, and after the end.  Rollbacks, manual ones included,
\* find the servers to revert nowhere else.
ChangesAreRecorded == pc # "idle" => Changed \subseteq updated

\* The blast radius: at no time have more servers changed version than the
\* current stage's percentage of the cluster, rounded up.
BlastRadius ==
    pc # "idle" =>
        Cardinality(Changed) <= IF stage = 0 THEN 0 ELSE TargetCount(stage)

\* A COMPLETED deployment reached the whole cluster: no stage was left short by
\* quarantined, failed or half-updated servers.
CompletedEverywhere ==
    pc # "idle" /\ status = "completed" =>
        \A s \in Servers : servers[s].cur = target

\* After a rollback, for a failure or an abort, every server in the recovery's
\* scope runs the version it ran before the deployment, whatever that was.
RolledBackRestores ==
    pc = "done" /\ status \in {"rolled_back", "aborted"} =>
        \A s \in Scope : servers[s].cur = before[s]

\* A deployment that ended otherwise than in FAILED leaves no server it touched
\* in UPDATING, a status later deployments do not select.
NoneLeftUpdating ==
    pc = "done" /\ status \in {"completed", "rolled_back", "aborted"} =>
        \A s \in Scope \ pending : servers[s].status # "updating"

\* An abort that is not withdrawn is followed by one more update at most: the
\* one whose check of the event came before it was set.
AbortIsPrompt == late <= 1

\* deploy() returns, with the deployment in a final state.
Terminates == (pc = "start") ~> (pc = "done" /\ IsTerminal(status))

\* An abort raised before the engine has opened the last stage, and not
\* withdrawn, keeps the deployment from completing: there is still a place that
\* looks at the event, also when the last stage has no server left to update.
AbortPrevailsEarly ==
    (abort /\ pc \notin Resting /\ (stage < Len(Stages) \/ pc = "stage"))
        ~> status \in {"aborted", "rolled_back", "failed"}

-----------------------------------------------------------------------------
(***************************************************************************)
(* What these two rest on, step by step.                                   *)
(***************************************************************************)
\* How far deploy() is from its end: the rounds of its loop, the places of the round
\* or of what comes after the loop, the work at the place.
RoundsLeft ==
    IF pc = "start" THEN Len(Stages) + 1
    ELSE IF pc \in Resting \cup Reverting \cup {"finish", "heal"} THEN 0
    ELSE Len(Stages) - stage + 1

PlacesLeft ==
    CASE pc = "stage" -> 9 [] pc = "gate" -> 8 [] pc = "select" -> 7
      [] pc \in {"update", "install"} -> 6
      [] pc = "health" -> 5
      [] pc \in {"stage_error", "unhealthy", "complete_gate", "rollback_gate"} -> 4
      [] pc \in {"wait", "plan"} -> 3
      [] pc \in {"isolate", "finish"} -> 2
      [] pc \in {"heal", "revert", "recover"} -> 1
      [] OTHER -> 0

WorkLeft ==
    CASE pc = "update" -> 2 * Cardinality(todo) + 1
      [] pc = "install" -> 2 * Cardinality(todo)
      [] pc = "health" -> MaxRetries - retries
      [] pc = "wait" -> IF slept < StageDelay THEN StageDelay - slept ELSE 0
      [] pc \in {"heal", "revert", "recover"} -> Cardinality(todo)
      [] OTHER -> 0

Effort == <<RoundsLeft, PlacesLeft, WorkLeft>>

\* The lexicographic order.
Less(e, f) ==
    /\ e \in Nat \X Nat \X Nat
    /\ \E i \in 1..3 : e[i] < f[i] /\ \A j \in 1..(i - 1) : e[j] = f[j]

\* Every step of the engine's thread brings deploy() nearer to its end, whatever
\* health checks, checkpoints and aborts say, and no step of another thread sets it
\* back.  (A Sleep of length 0, with a CheckInterval of 0, changes nothing: that is
\* where the thread can go on for ever.)
EngineWindsDown ==
    [][/\ Engine => Less(Effort', Effort)
       /\ Environment => Effort' = Effort]_vars

\* An abort event that is set and will be looked at, and a deployment that was
\* stopped.
AbortAwaits == abort /\ (stage < Len(Stages) \/ pc = "stage")
Stopped == status \in {"rolling_back", "rolled_back", "aborted", "failed"}

\* Until it is cleared, an abort raised before the last stage is opened awaits the
\* engine at some place, or has stopped it, at every step; and a deployment that was
\* stopped, by an abort or otherwise, stays so.
AbortIsNotPassed ==
    [][pc \notin Resting =>
          /\ AbortAwaits /\ abort' => AbortAwaits' \/ Stopped'
          /\ Stopped => Stopped']_vars

-----------------------------------------------------------------------------
(***************************************************************************)
(* The engine as an implementation of CanaryRollout.                       *)
(***************************************************************************)
RolloutPhase ==
    CASE pc = "idle" -> "idle"
      [] pc \notin Resting /\ status \in {"pending", "in_progress", "paused"} -> "rolling"
      [] pc \notin Resting /\ status \in {"rolling_back", "aborted"} -> "reverting"
      [] pc # "idle" /\ status = "completed" -> "complete"
      [] pc = "done" /\ status \in {"rolled_back", "aborted"} -> "reverted"
      [] OTHER -> "failed"

Rollout == INSTANCE CanaryRollout WITH
    Isolates <- HasQuarantine,
    phase    <- RolloutPhase,
    goal     <- target,
    base     <- before,
    versions <- [s \in Servers |-> servers[s].cur],
    scope    <- Scope

\* Every behaviour of the engine is one of a canary rollout: all or nothing,
\* within the scope of the reversal.
ImplementsRollout == Rollout!Spec

=============================================================================
