# Verification of the canary deployment simulator

TLA+ models of the simulator's rollout, rollback, recovery, health, audit and snapshot code, TLC
runs that check them on small instances, and TLAPS proofs of their safety properties for clusters,
configurations and numbers of threads of any size. All paths to code below are relative to the
repository's root; `PROJECT.json` maps every definition to the lines it models.

## 1. The system and its parts

| Part | State it keeps | Operations | Modelled by |
|---|---|---|---|
| Cluster state (`cluster/state.py`, `models.py`, `generator.py`) | the server map: two versions, status, history per server; one lock | `update_server_status`, `update_server_version`, `override_version`, `rollback_server`, `update_server_resources`, queries | `ClusterState`; resource figures in `HealthAnalysis` |
| Deployment engine (`deploy/engine.py`, `state.py`, `config.py`) | the current deployment: status, updated and pending servers, stage | `deploy()`: stages, health checks and retries, governance checkpoints, inter-stage wait, abort, rollback, recovery | `DeploymentEngine`, `CanaryRollout`, `EngineInvariant`, `EngineClaims`, `DeploymentEngine_proofs` |
| Server selection (`_select_servers_for_stage`) | queues per region, rotating index | pick N servers, round-robin | `ServerSelection`, `EngineParts_proofs` |
| Manual rollback (`deploy/rollback.py`) | none of its own; the deployment and the cluster | validate, revert, save, load | `ManualRollback`, `ManualRollback_proofs` |
| Abort listener (`deploy/abort_listener.py`) | reader thread, stop request, registered event; one lock | start, stop, set, clear, the reading loop | `AbortListener`, `EngineParts_proofs` |
| Quarantine (`resilience/quarantine.py`) | region to quarantine state; one lock | quarantine, release, auto-quarantine | `HealthAnalysis`, `HealthAnalysis_proofs`; also in `DeploymentEngine` and `RecoveryPlans` |
| Recovery planning (`resilience/recovery.py`) | plans, step index | generate (four strategies), execute with approvals | `RecoveryPlans`, `RecoveryPlans_proofs`; the engine's two strategies also in `DeploymentEngine` |
| Failure injection (`health/failure_injection.py`) | none | degrade, fail or spike servers | `HealthAnalysis`; elsewhere its effect, `ChangeStatus` |
| Governance (`governance/*`, `resilience/policies.py`) | last risk category | four checkpoints over nine policies, approval gate | `Governance`, `Governance_proofs` (in `DeploymentEngine` any decision is possible) |
| Health analysis (`health/analyzer.py`, `metrics.py`, `thresholds.py`) | none | one server's metrics against its limits, the cluster's shares against theirs | `HealthAnalysis`, `HealthAnalysis_proofs` (in `DeploymentEngine` any result is possible) |
| Audit log (`deploy/audit.py`) | events in memory and on disk; one lock | log, read, clear | `AuditTrail`, `AuditTrail_proofs` |
| Event replay (`resilience/replay.py`) | none | load, rebuild the timeline, verify lineage, reconstruct | `EventReplay`, used by `AuditTrail`; `AuditTrail_proofs` |
| Snapshots (`resilience/snapshots.py`) | snapshot copies | create, restore with undo, export, load | `Snapshots`, `Snapshots_proofs` |
| Observability, inspector, `main.py`, `logging_config.py` | none | counting, formatting, demonstration script, logger set-up | not modelled: display and wiring only |

How they interact. One thread runs `deploy()`. It calls the cluster state (each method is one
critical section, so a step of its own), the governance coordinator, the health check callback,
the quarantine system and, when a rollback runs with a quarantine system, the recovery planner.
The abort listener's thread sets a `threading.Event` that the engine looks at in some places and
waits on in one. Chaos injection, health callbacks and operators change server statuses and
quarantine or release regions at any time. Operators call `rollback()` from other threads,
possibly several at once, possibly beside the engine.

What is hard about it, and what must hold:

* the engine reads the abort event, the quarantined regions and the servers' statuses at certain
  places and acts on them later; others change them in between;
* a rollout can be stopped at any of twenty places, and whatever was changed must be recorded
  and, unless governance forbids it, undone exactly once: `rollback_server` *swaps* two versions,
  so doing it twice would deploy again;
* several rollbacks of one deployment run at once, each looking and then acting;
* a governance checkpoint reads the cluster, then counts events in a log that other engines and
  manual rollbacks write to, then asks nine policies, any of which may raise, and perhaps a human;
  the engine acts on the answer afterwards, and not on all of it at every checkpoint;
* stage percentages are rounded up and cumulative, so neighbouring stages may coincide;
* the listener's thread outlives `stop()` while it is blocked in `readline()`, and any exception ends it,
  on a live stream too;
* health checks, auto-quarantine, snapshots and backups walk over *live* `Server` objects without
  the cluster's lock, while chaos injection and deployments change them;
* a restore writes the servers under the lock and the deployment outside it, after a backup taken
  before it, and must undo whatever part it got to; the histories it brings back decide what later
  rollbacks do;
* a recovery plan is a list of steps fixed when it was generated, can be refused or fail half-way
  through a batch and be executed again, and may race with another plan or with `deploy()`;
* one audit log is written by several deployments, by governance and by manual rollbacks; writes
  that fail are swallowed, and replay has to make out from parent links what happened in what order.

`PROJECT.json` lists the hazards at their lines, with the properties that cover them.

## 2. Modules

**ClusterState** has no variables: a method of `ClusterState` holds the lock for its whole body,
so it is an operator from the server map before it to the map after it. Modules of the callers own
the variable `servers`. A server keeps what callers can tell apart: both versions, its status and
the *last* action of its history, the only entry code looks at. Host names, addresses, CPU,
memory and timestamps are left out.

**DeploymentEngine** is `deploy()`. `pc` names the place the engine's thread has reached. A step
ends where the thread next reads or writes what others can change, or calls code it does not own.
Places and code:

| `pc` | code |
|---|---|
| `start` | first checkpoint, before the `try` (what it raises reaches the caller) |
| `stage`, `gate` | head of the loop: abort check; stage-start checkpoint |
| `select`, `update`, `install` | `_execute_stage`: selection; abort check before each server; the update itself |
| `stage_error` | a stage that stopped short: the event is read *again* |
| `health`, `unhealthy` | health check and retries; auto-quarantine |
| `complete_gate`, `wait` | last checkpoint of the stage; `_wait_between_stages` |
| `finish`, `heal` | `mark_completed`, then HEALTHY for each updated server |
| `rollback_gate`, `revert` | `_rollback_updated_servers`: checkpoint; plain loop |
| `plan`, `isolate`, `recover` | the same with a quarantine system: a recovery plan |
| `idle`, `done` | before the first deployment (or after drift); after `deploy()` returned |

Whether a deployment has an abort event (`listens`) is chosen at each `Deploy`: with one, the wait
between stages is `Event.wait`, without one it sleeps in increments. Other actors are `SetAbort`,
`ClearAbort`, `ChangeStatus`, `QuarantineRegion`, `ReleaseRegion` and, between deployments, `DriftBetween`. Health results, governance decisions and which servers a stage
selects are nondeterministic: the model has every outcome the code may have. Three history
variables serve the properties: `before` (versions when `deploy()` began), `late` (updates made
with the abort set) and `deployments`.

**CanaryRollout** is the abstract specification: servers move to the goal one by one; the rollout
is complete only when all run it, and reverted only when all servers in scope run what they ran
before. `DeploymentEngine!ImplementsRollout` states the refinement: the phase is computed from `pc`
and `status`, the versions from the server map, the scope from the recovery's region.

**EngineInvariant** holds the inductive invariant, **EngineClaims** what documents say and the code
does not do, **MCDeploymentEngine** the instances for TLC: three servers in two regions.

**ServerSelection** is the round-robin of `_select_servers_for_stage`, one turn of its loop per
step, over any sizes of the regions' queues. The list the index goes around is always in the order of
the regions' names, so `regions` is a set of numbers in that order, and `At(idx)` is its element with
`idx % Cardinality(regions)` others before it. `ReturnsASelection` is what `DeploymentEngine`'s
`Selections` assumes of it.

**ManualRollback** is `rollback()` of one finished (or, beside an engine, unfinished) deployment by
any number of threads. Validation takes one step per server; reverting takes two, the look at
the version and the call. `Drift` is `override_version`. A deployment loaded from a file may name
servers the cluster does not have. An engine thread takes part while the deployment is still in
progress, through `_handle_rollback` or `_handle_abort` (`SweepStarts`): it marks the deployment, asks
governance, which may forbid it (`Block`: FAILED, nothing reverted), goes over the same servers
(`Sweep`), and marks ROLLED_BACK at the end, but for an abort, which marks nothing any more
(`AbortReturns`). `Raise` is the exception handler of `rollback()` and of `deploy()`: FAILED, what is done
stays done. Servers may have run several versions before (`Mixed`): one that never ran the source
version cannot be told from one still to be reverted, and only the swap's own check protects it.
`SourceTells` excludes the one case in which the test at rollback.py:238 misleads: the target is the
majority's version already.

**AbortListener** is the reader thread, one step between two lock acquisitions, beside the owner's
calls and the console. A line carries, as history, the event registered when it was typed. `ReadRaises`
is `readline()` raising at any time, with lines still to come, of which any number may be lost with it:
the reader ends (abort_listener.py:121), silently, and what is typed then is heard only if `start()` is
called again. `AbortDelivered` promises what is left: an abort typed while a reader is in its loop
arrives, unless a read raises first.
`OneReader` says that the thread the listener holds is alive and no other is. Its specification is
`ListenerSpec`, so that one module can hold the proofs about it and about `ServerSelection`.

**Governance** is the coordinator with the standard policies, and what the engine does with its
decisions. A thread's record `call` holds its place (`pc`: before `_build_context`, before the
events are counted, at the `at`-th policy, at the approval gate, decided, or in the engine between
two checkpoints), the checkpoint (`cp`) and the context the policies see. One policy is asked per
step; `HealthPolicy` reads one server per step. The deployment window (`RiskPolicy`) and the number
of quarantined regions may say anything. The engine's stages are reduced to the servers they add
(`StageRuns`), the log to three counts; the last count, `manual`, belongs to `rollback()`, which
records ROLLBACK_START as the engine does. History fields: `said`, `approved`, `healthy`.
**MCGovernance** is its instance for TLC, with the coordinator's own list of policies.

**HealthAnalysis** is a stage's health check and what follows when it fails, on one server map:
`analyze` (`check`), `inject_failures` (`chaos`) and `check_and_auto_quarantine` by the engine and by
any set of operators (`Operators`, `auto`), each as the frame of one call: its place, its locals and the servers or regions
it has yet to visit. A server is visited in one step; the victims of chaos take three (the status
is read, written, the figures written), a region that is at the threshold two more, since
`is_quarantined` and `quarantine_region` take the lock separately. Figures drawn from a range are one
of its ends, and what chaos injects the lower one, the hardest to notice: a comparison with a limit
cannot tell more apart. The histories `seen` and `released` hold what
each call could have seen: the conditions every server was in since the call began, the regions
somebody has released.

**Snapshots** is `create_snapshot` server by server, and `restore_snapshot` by several threads, each
with a frame (`call`): backup of the servers, backup of the deployment, the critical section that
applies the servers (`Apply`, or `ApplyFails` at a malformed entry, with any part of the servers done
and the failing one written up to its history), the deployment's status and then its other fields
(`Mark`, `Fill`), and the handler (`Undo`, `UndoRecord`). Around it a deployment installs and stops
anywhere, and is rolled back as often as anybody likes; that is where restored histories and records
must still fit. A frame's history `others` says who else acted since the call began.

**EventReplay** has the operators of `resilience/replay.py`, `Loaded` to `Reconstructed`. The events that
were read are a set: ids number them in the order in which they were written, which is the order of the
code's list and matters only where timestamps are equal (`Sooner`: the sort is stable and its result
popped from the end). The depth-first search (`Search`) and the fold over the timeline (`Replay`) are
recursive functions of the turns of their loops. **AuditTrail** is the `AuditLogger` and
its writers: each deployment goes from one event that replay looks at to the next, through any number of
stages (`Stage`), with what it does to its servers in between (`on`, and `updated`, which a recovery plan
empties and the engine's own loop does not) and the status it has then; events of no consequence are
`Note`s, linked, or `UnlinkedNote`s of governance. An exception in a stage or in a reversal
(`FailStaging`, `FailUnwinding`) leaves servers changed of which no event tells, and one in `rollback()`
writes no event at all (`ManualRaise`); the history `unreported` has those servers until a rollback has
reported them. A failing write leaves the file as it was or adds `Torn`, half a
line. A coarse clock may give successive events the same timestamp.

**RecoveryPlans** is `generate_plan` and `execute_recovery_plan` for one deployment and any number of
plans. A server is reverted in two steps (`Revert`, `Discard`), as in the code; a step may be denied,
its approval callback may raise, a batch may raise at any server, and every plan may be executed again
from the step it had reached. `deploy()` runs beside it until it ends. The history `since` holds what
was installed after a plan was generated.

## 3. Runs

Passing runs:

| Run | What it shows | Bounds |
|---|---|---|
| `EngineSafety` | Type invariant; every changed server is recorded; the blast radius; COMPLETED means everywhere; rolled back or aborted means restored; none left UPDATING | 3 stages of 1, 2 and 3 servers, governed, exceptions, 2 deployments, 2 disturbances, 1 retry |
| `EngineQuarantine` | The inductive invariant, and the refinement of `CanaryRollout`, with recovery plans and aborts that are withdrawn | 2 stages, 2 deployments, 2 disturbances |
| `EngineLiveness` | Every `deploy()` returns in a final state, with an abort event and without one (sleeping wait: interval 2, delay 3); an abort is followed by at most one update, and one raised before the last stage is opened keeps the deployment from completing, also when that stage has nothing left to update; every step brings `deploy()` nearer to its end (`EngineWindsDown`), and no step takes the engine past its last look at an abort that is set (`AbortIsNotPassed`) | 3 stages (the third finds its target reached), governed, with a quarantine system, 1 deployment, 1 disturbance |
| `SelectionRoundRobin` | The selection is distinct, eligible and large enough; its spread is even up to one server per exhausted region | 4 regions of 0 to 3 servers, up to 8 asked for |
| `Listener` | The thread that the listener holds is its only reader, and alive, however often start and stop are called; an abort typed while a reader listens reaches the deployment it was typed in, unless the listener is stopped or a read raises first; nothing is signalled between `stop()` and the next `start()` | 3 starts, 2 events, 2 lines, 1 read that raises |
| `RollbackCallers` | Two simultaneous rollbacks, forced or not, also beside the engine's own reversal after a failed stage or an abort, any of them blocked or ended by an exception, in clusters of one or of several versions: nothing flips back, reports are true, the last mark is ROLLED_BACK, or ABORTED or FAILED where one of them was aborting, blocked or raised (`SettledMark`), the guard holds | 2 servers and a missing one, 3 versions, 2 callers, 1 engine, 1 drift; exceptions and blocks without a bound |
| `GovernanceChecks` | The decision is the severest thing any policy said; automatic rollbacks and recoveries stay within their limits over any number of deployments; high risk is never allowed without a human, critical risk never; a stage is passed only if each strict server was healthy during its last checkpoint | 1 engine thread deploying again and again, 2 servers, limits 2 rollbacks and 1 recovery, 1 manual rollback |
| `SnapshotRestore` | A restore that fails anywhere leaves what it found (`FailedRestoreUndone`); restores that overlap leave one of their snapshots, not a mixture (`WholeSnapshots`); after any sequence of installs, reversals and whole restores, a rollback brings every server back (`RollbackStaysExact`) | 2 servers, 2 restoring threads, 2 snapshots, 1 changed status or deleted server, malformed content |
| `AuditReplay` | The lineage check finds exactly the gaps in the engines' chains, however the writers interleave (`GapsAreReported`); a deployment's timeline is the order in which things were done (`TimelineIsRecordedOrder`); what replay reconstructs is true at every step, after several stages, reversals and exceptions (`ReplayIsExact`) | 2 deployments sharing a log, 2 servers each, 5 events, 1 note, 1 fault (a failed or torn write, or a manual rollback that raises), 1 repeated timestamp |
| `Recovery` | What runs the target is always named by the record; a COMPLETED plan has done all it names, after whatever failures (`CompletedPlanDidItsWork`), and a staged or region recovery has left nothing of its scope (`RecoveryIsTotal`) | 3 servers in 2 regions (a batch of two and one of one), 2 plans of any strategies, 1 changed status; executions, refusals and exceptions without a bound |
| `HealthChecks` | A cluster that is calm throughout passes, one with too many servers degraded, failed or in any way sick throughout does not (`VerdictIsRight`); a region whose share is at the threshold throughout gets quarantined, and only one that can have been at it (`RegionsAreIsolated`) | 3 servers in 2 regions, limits of 10/0/10 and 34/34/67 %, thresholds 30 and 50 %, 1 injection (40 or 100 % of two candidates), 1 other change; checks and quarantines without a bound |

Why these bounds are enough to be interesting: three servers in two regions let a region be
isolated, exhausted or left out alone; they make stages of 30, 60 and 100 % need 1, 2 and 3 servers,
and stages of 30, 70 and 100 % need 1, 3 and 3, so that the last finds its target already reached;
two deployments let the second meet
what the first left (servers left UPDATING, quarantined regions, drifted or mixed versions); two
disturbances let a region be quarantined and released, or two servers degrade, around one step
of the engine. Aborts are not counted against the bound. Where a property is proved (section 4),
the proof removes the bounds altogether. Two servers reach all four risk categories and both halves of
`ApprovalPolicy`; a second engine thread would multiply their states beyond what TLC can finish.
`GovernanceEngines.cfg` (module `MCGovernance`, not among the runs) has two engines on one server, whose
checkpoints interleave: each limit is exceeded by one at most, and by one it is. What is said of several
threads otherwise is left to the proof. `MaxDeployments`, `MaxDisturbances`, `MaxDrifts`, `MaxStarts`,
`MaxEvents`, `MaxLines`, `MaxFailures`, `MaxManual`, `MaxPerRegion`, `MaxCount`, `MaxSnapshots`, `MaxChanges`, `MaxInjections`,
`MaxNotes`, `MaxFaults` and `MaxStands` are the bounds the models introduce; all other constants are parameters of
the code. Two restoring threads, two plans and two quarantine callers are the least that race; a third
would meet nothing the second does not. Five events are a deployment's start, two stages and its
completion, failure or reversal, or one stage, its reversal and a manual rollback; or they put one engine's
events between two of the other's. A region of two servers is at a threshold of
50 % exactly with one, and the limits of 34 and 67 % separate one, two and three of three servers.

Deadlock checking is off where the system may simply be done, which is everywhere but in
`HealthChecks` and `Recovery`. Symmetry is used in `EngineSafety`, `RollbackCallers`,
`SnapshotRestore`, `AuditReplay` and `Recovery`, over servers, threads, deployments, plans and (`RollbackCallers`) the versions other than the target, which the models nowhere
tell apart; none of them checks a liveness property.

Fairness. `DeploymentEngine!FairSpec` assumes weak fairness of the engine's thread and nothing of
the environment: `deploy()` is synchronous code whose thread is scheduled, and the callbacks it
calls return. No fairness is assumed *between* outcomes: nothing says a health check ever passes.
`AbortListener!FairListenerSpec` assumes that a reader that can take a step does; it does not assume
that anybody types.

One run ends in a violation: `RolledBackLeavesNoTarget`, ROLLED_BACK after reverting one region only
(`PROJECT.json`, "findings", quotes the lines). Six more configurations, which are not among the runs,
state what a document or comment says and the code does not do; TLC refutes each:

| Configuration, module | What is written | What the code does |
|---|---|---|
| `ZeroIntervalTerminates`, `MCDeploymentEngine` | deploy/engine.py:600 "Returns True if the wait completed normally" | with `health_check_interval` 0, which deploy/config.py:93 accepts, and no abort event, the wait sleeps 0 seconds and adds 0 for ever (engine.py:622) |
| `RestartIsHeard`, `AbortListener` | deploy/abort_listener.py:46: `start()` does nothing only "if the thread is already running" | after `stop()` the old thread stays until its next line; `start()` in that time starts nothing and leaves the stop request set, and nobody reads the stream (:49) |
| `MixedClusterRestored`, `MCManualRollback` | deploy/rollback.py:183 "to their pre-deployment versions" | `source_version` is the majority's; when most servers already ran the target, all look reverted and none is restored (:238): `EveryServerRestored`, which `AllRestored` states under `SourceTells` |
| `StagesAreApproved`, `MCGovernance` | governance/policies.py:99 "Determines when manual approval gates are required" | if `HealthPolicy` has said ROLLBACK the gate is not asked (coordinator.py:297), and ROLLBACK at the start of a stage is no BLOCK (engine.py:195): a stage of high risk is opened without approval |
| `FailedRestoreLeavesNothing`, `MCSnapshots` | README.md:352 "leave zero half-updated states" | a server that a restore has created again stays when the restore fails, half filled if its own entry was the malformed one (snapshots.py:164, :222) |
| `ReplayedStatusIsExact`, `MCAuditTrail` | README.md:351 "exact timeline state machines" | an aborted deployment replays as rolled back, one that governance blocked as in progress or rolling back (replay.py:196) |

Smaller disagreements, which the models have as behaviours and no run is kept for:

* an abort during the wait takes PAUSED to ABORTED, and a start block takes PENDING to FAILED, edges
  README 2's diagram lacks; a manual rollback takes COMPLETED to ROLLING_BACK, ABORTED becomes FAILED
  when governance blocks the rollback of an aborted deployment, though the diagram draws both as final;
* the terminal status ABORTED is set before the servers are rolled back (`DeploymentState.is_terminal`);
* an abort set during the last stage's last update, health check or checkpoint is not looked at
  and the deployment completes (`DeploymentConfig.abort_event`: "immediately"); one that is cleared
  right after it stopped a stage leaves a failed stage, and ROLLED_BACK;
* a line typed during one deployment and handled during the next aborts the next;
* when a region runs dry, the selection's rotation skips its neighbour: of regions with 2, 1 and 1
  servers, three selections take two from the first and none from the third ("maximum coverage",
  `_select_servers_for_stage`);
* "recent" rollbacks are all rollbacks since the logger was made, manual ones included, and both
  ceilings block every checkpoint, the start of a deployment too, not only rollbacks;
* degradations and failures can add far more than the "Max 50 points" of `risk.py`'s comment;
* a region quarantined after a stage selected its servers is still updated in that stage;
* a server that drifts between the validation of a manual rollback and its own reversal is
  overridden without force, and one that was rolled back and has drifted since is reported as
  rolled back and left alone;
* `rollback_server` and `update_server_status` leave the resource figures alone: a server that chaos
  has loaded and a rollback has made HEALTHY fails its own health check for ever after;
* a resource spike, meant to "retain current status" (failure_injection.py:93), reads it twice and
  writes an older one back over another thread's change, as does the end of `deploy()` with HEALTHY;
* auto-quarantine acts *at* the threshold (README.md:236: "degradation > 30%"); two callers may both
  report the same region as newly quarantined;
* `safe_resume` sets IN_PROGRESS whatever the status was, a final one too; a denied plan goes on at the
  denied step when it is executed again; an approval callback that raises leaves a plan EXECUTING;
* of two roots with the same timestamp the timeline tells the later one first, though its docstring
  promises a stable order (replay.py:45); the events of governance, which have no parent, come after all of
  the engine's; `verify_event_lineage` starts at the roots and so finds no cycle that none leads to; a line
  that does not parse hides all later ones, and the lineage of the rest is valid;
* after a failed health check followed by a passing retry, replayed servers stay "degraded";
* two restores of one deployment that overlap may leave a mixture of their two records, for those are
  written without a lock; a change that another thread makes after a restore has read its backup is
  undone when the restore fails; a restore without the deployment (`main.py` does one) leaves
  `servers_updated` as it was, and a later rollback acts on that.

## 4. Proofs

`DeploymentEngine_proofs` proves, for every finite cluster, every legal stage plan and
configuration, and every value of the bounds:

* `TypeCorrect`: `Spec => []TypeOK`;
* `InvariantHolds`: `Spec => [](TypeInvariant /\ RolloutInvariant)`;
* from it `RecordIsComplete`, `RadiusIsBounded`, `CompletionIsFull`, `RollbackIsFull`,
  `UpdatesAreFinished`, each `Spec => []P` for an invariant of `EngineSafety`;
* `AbortsArePrompt`: `AbortIsPrompt` when nobody clears abort events;
* `EngineIsRollout`: `Spec => ImplementsRollout`, the refinement;
* `DeployWindsDown` and `AbortsAreAwaited`, the safe halves of two liveness properties (below).

Assumptions: `ClusterAssumption` and `EngineAssumption`, which say that the cluster is finite and not
empty (`_init_deployment` raises on an empty one) and what `DeploymentConfig.__post_init__` enforces
(stages strictly increasing, within 1 to 100, ending at 100; delays and retries not negative).
TLC evaluates both in every engine run.

The argument. None of the promises is inductive alone: that a rollback restores a server depends on
what its `previous_version` and last history entry are *before* the rollback, so the invariant must
carry them from the update on. `EngineInvariant` does: while the rollout goes forward every server in
`servers_updated` is `Carried` (runs the target, remembers `before`, last action a deploy) and all
others are untouched (`RecordFits`, `VersionsFit`); a status change disturbs neither. In a reversal
the servers still to do are `Carried` and those done are `Restored`, so the swap is applied to each
exactly once. `CountFits` ties the number of updated servers to the stage, so that a stage that is
not short ends at its target and the last one at the whole cluster. `StatusFits` and `StageFits`
tie the status and the stage to the place, and with them `EndFits`, the three
promises about the end, follows at the step that makes them true. `LateFits` is a separate small
invariant: once an update was made with the event set, the thread is past every check that
could let another through.

`InvariantNext` has one step per action of `Next`; actions that only move the engine on are
treated together. The lemmas about cardinalities rest on the library's `FiniteSetTheorems`.
The refinement proof maps each action to a step of `CanaryRollout` or to a stutter.

Liveness itself cannot be proved here, but what it rests on besides fairness can. `Terminates` needs
that the thread cannot go round for ever: `DeployWindsDown` orders what is left of `deploy()` as
`Effort`, the rounds of its loop, then the places of the round, then the work at the place (servers to
do, retries, time to sleep), and shows that each of the thread's steps that changes anything makes it
less, and that nobody else's makes it more. The order is well-founded, so `deploy()` returns if its
thread is scheduled and `Sleep` passes time (`EffortFalls`, from `PlacesFollow`, which says where each
place leads). `AbortPrevailsEarly` needs that an abort is looked at in time: `AbortsAreAwaited` shows
that an event that is set before the last stage is opened still has a look at it ahead, or has stopped
the deployment, at every step, and that a stopped deployment is never revived.

`Governance_proofs` proves, for any number of engine threads, any finite cluster, any limits and any
list of standard policies that has each of them, in any order and with repetitions
(`GovernanceAssumption`; TLC evaluates it in the governance runs): `TypeCorrect`, `SeverestDecides`,
`CeilingsAreKept`, `HighRiskIsApproved` and `StagesAdvanceHealthy`, all from `InvariantHolds`. The
invariant says of every thread what each policy already asked implies for the decision (`Heeded`):
unless the decision is BLOCK, the count that the storm policy saw was below its limit, and so on.
That alone does not bound the log, since a thread's count is out of date when it writes. `LogFits`
closes the gap: once a limit is reached, no thread can join those that may still write (they would
count the limit), each of them writes once, and there are at most n - 1 of them, since the thread that
reached the limit was one. So n threads exceed a limit by n - 1 at most; with one engine, as
`main.py` has it, limits are exact. Manual rollbacks count towards the limit and are not limited.

`RecoveryPlans_proofs` (`RecoveryAssumption`), for any finite cluster, any number of plans and changes:
`TypeCorrect`, `NothingIsForgotten`, `CompletionIsHonest`, `RecoveryReachesAll`. That a completed plan
has restored its servers must survive the other plans, which revert the same servers by a swap, and
`deploy()`. So `RecordFits` tells the three things that can have become of a server apart (never
installed, on the target, rolled back, each with its history) and ties the second to the record; a
rolled-back server's last action makes a second reversal refuse. `Behind` says the engine will not
install a plan's targets again, and with it what a plan has passed stays `Restored` (`DoneFits`), the
batch it is in included (`BatchFits`).

`ManualRollback_proofs` (`RollbackAssumption`), for any number of callers and engine threads, any of them
blocked, aborting or ended by an exception, and in any cluster: `TypeCorrect`, `MarkSettles` and
`ValidationGuards` with any drifts, from `CallInvariant`; `RollbacksRestore` and `CallsReportTruly`, from
`RestoreInvariant`. The latter two properties have `SourceTells` as a premise, as they stand in the runs;
without it they are false, as `MixedClusterRestored` shows. `CallInvariant` ties the deployment's mark to
the calls (`MarkFits`): while it is ROLLING_BACK a call is under way that will mark it again, ABORTED
names an engine that aborts, and once a reversal has begun FAILED names a thread that was blocked or raised. `RestoreInvariant`: while nothing has drifted, a server
of the deployment either remembers what it ran or runs it (`Recoverable`), whichever threads have looked
at it and not yet acted; and what a call has neither to do nor in hand it has reported (`ReportFits`).
`GuardHolds` speaks of servers that were inconsistent *all the while*: the history `stale` loses a server
as soon as it is consistent.

`Snapshots_proofs` (`SnapshotAssumption`), for any cluster and any number of restores, at once and one
after the other: `TypeCorrect`, `FailuresAreUndone`, `RestoresDoNotMix`, `RollbacksStayExact`. Three
strengthenings, one per promise: `UndoFits` says how much of a restore's change its two backups can
still take back at each of its steps; `WholeFits` that among restores that overlap the last to hold the
lock has left its snapshot entire; `CleanFits` that every map of servers there is (the live one, each
snapshot, a backup) goes with the record it is paired with: a server of the record can still be brought
back, or has been, and any other runs the initial version (`Exact`).

`HealthAnalysis_proofs` (`HealthAssumption`), for any number of servers and regions, any limits and
thresholds, and the engine with any set of operators as callers of the quarantine (`CallersApart`): `TypeCorrect`, and the action properties `VerdictsAreRight` and
`QuarantinesIsolate`. Counts are taken over time while servers change, so `CheckFits` and `RegionFits`
bound them by what each call has *seen*: a count of degraded servers is at least the number of servers
already read that were degraded throughout, a count of unstable ones at most the number that were not
calm throughout; with no server left to read these are the shares the properties speak of. They rest on
`CurrentSeen` (a call under way has seen every server's present condition), and `Settled` and `Justified`
carry a region's outcome on through the regions that follow.

`EngineParts_proofs` has the theorems about the two parts that `DeploymentEngine` takes for granted.
Of the listener (`ListenerAssumption`), for any number of starts, events, lines and reads that raise: `ListenerTypeCorrect`,
`ReaderIsSingle`, `StopIsSilent`. `OneReader` is inductive as it stands; `StoppedIsSilent` needs that no
event is registered from `stop()` to the next `start()` (`Withdrawn`), since a reader may still hold a line.

Of the selection (`SelectionAssumption`), for any number of regions, servers and places: `TypeCorrect`, `SelectionIsRight`, `RotationIsEven`. `QueuesFit` and `SelectedFit` split each region's
servers into those selected, each once, and those queued. Evenness is the harder part: an exhausted region
leaves the loop and moves the index to an arbitrary place. `TurnsFit` bounds the lead of one region over
another by whether either has had its turn in this round and by how many have run dry: a region that has
had its turn may lead one that has not by one more, the other way round by one less. A turn that leaves
the region servers moves the index to the next one (`StandsAtNext`, from lemmas about ranks in a set and
about remainders); one that empties it raises the allowance by one, which pays for any place the index
lands at.

`AuditTrail_proofs` (`AuditAssumption`), for any number of deployments, servers, events and failing or
torn writes, and deployments of any number of stages: `TypeCorrect`, `LossesAreReported`,
`TimelineIsTheOrder`, `ReplayIsTrue`; every safety property of the run. They come in three layers.

* The writers (`TrailIsLinked`). `TrailInv` says what the log in memory looks like whatever the writers'
  interleaving: ids are positions, times follow them, each engine's last event is what it takes for it,
  each linked event has the one before it in its chain as its parent, and what is unlinked and means
  something to replay comes after the whole chain. Of what is lost, only that the file holds nothing
  memory does not. `LossesAreReported` follows from it alone.
* The algorithms, on *any* set of events (`TimelineIsInOrder`, `ReplayReproduces`), with no writers in
  sight. `Explores` is the loop invariant of the depth-first search: what is told and what is on the
  stack do not overlap, and whatever is not told hangs on something on the stack; so the search takes one
  turn per event (`SearchTellsAll`). `InOrder` is the one for the order: below its top, the stack holds
  beginnings only, in the order of their ids, and nothing that is placed was passed over. It needs
  `IsChained`: no placed event comes between another and its parent, which `ToldIsChained` gets from
  `TrailInv` for every file that can be left. A replay in the order of the ids yields what the events say
  together (`LeftOn`, `LastTold`).
* What the events say is true (`ToldIsTrue`): `ToldInv` relates the servers and the status of each
  deployment to `LeftOn` and `LastTold` of its events in memory, step by step, but for the servers that are
`unreported` and the mark of a rollback that raised. `ReplayIsTrue` puts the
  three together; the events that may be missing from the file are notes, which say nothing.

The loops are functions defined by recursion over the number of turns. That they exist, and that their
invariants hold at every turn, is an induction that the library's theorems cannot give here (they take
the induction hypothesis as an operator); it is done by the least counterexample instead
(`LeastExists`, from the well-foundedness of `<`), as in `SearchIsComputed` and `ReplayIsComputed`.

What is only model-checked: the liveness properties `Terminates`, `AbortPrevailsEarly` and
`AbortDelivered`, for fairness and ENABLED are outside this prover's reach (of the first two, the safe
halves are proved). Every invariant and every action property of the passing runs is a theorem; some type
invariants are theorems only.

## 5. What is left out, and why

* Events, snapshots taken by the engine and log lines change nothing the engine reads. Governance
  *does* read the audit log; as long as governance decisions are arbitrary, this is covered.
* In `Governance`: a configuration without an audit logger (all counts are 0 and the ceilings never
  hold anything back, as the policies' notes say), `_last_risk_category` (only logged), the aborts
  and failures inside a stage (each is one of `StageRuns`' outcomes) and `retry_count` (no checkpoint
  passes it on).
* A failing `update_server_version` (unknown id) cannot happen in the engine: servers are never
  removed from a cluster.
* Assignments to a live `Server` object outside the lock (tests do this; `get_server` returns the
  instance) are covered by `DriftBetween` and `Drift` for the version and `ChangeStatus` for the status.
* Drift *during* a deployment is left out of `DeploymentEngine`: a rollback would then restore neither
  version. `ManualRollback` has drift at every step.
* A manual rollback during the recovery plan of an engine (which discards from `servers_updated`
  while validation iterates over it) is not modelled: Python's check of a set that changes under an
  iteration is below the models' grain.
* In `HealthAnalysis`: the per-server limits and the limits on averages other than the defaults, the
  regional breakdown of the report, and floating point. Shares are compared as integers; in the code
  count / total * 100 differs from the exact share by a rounding error at some limits (7 of 25 at 28 %),
  and not at 0, 10, 30 and 50 %. Updates of a server are `ChangeStatus` there,
  to a status of `Observed` (healthy and failed in the instance; chaos adds degraded).
* In `Snapshots`: a restore during `deploy()` or `rollback()` (its undo would take back what they did);
  the fields of one server are read in one step; the resource figures and the deployment's other fields
  stand and fall with those modelled. A server is deleted only between calls. Export and load: a loaded
  snapshot is one that was taken, whose content may be malformed from some entry on.
* In `AuditTrail`: failing `os.makedirs` (a failing write like any other), `clear()`, and an exception
  while a completed deployment's servers are set HEALTHY, which would record both a completion and a
  failure. In `EventReplay`: trails no logger writes (events without id, cycles), steps other than the
  last, the replayed servers' health.
* In `RecoveryPlans`: two threads that execute the same plan (nothing in `src/` does; each would
  advance the index, and a step could be skipped), execution without the deployment, and a completed
  deployment. `generate_plan`'s scan is one read.
* The inspector, observability, `main.py` and logging: they display, count and wire things up, and keep
  no state that anything else reads.

## 6. Plan

All parts with logic of their own are modelled, and every safety property of a run is a theorem. What
is left:

* `Snapshots` beside a running `deploy()`, and the record's fields one by one.
