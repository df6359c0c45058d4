---------------------------- MODULE ManualRollback ----------------------------
(***************************************************************************)
(* deploy/rollback.py: rollback() of a finished deployment, called by      *)
(* several threads at once (operators through DeploymentEngine.rollback,   *)
(* and an engine thread that reverts the same deployment itself), while    *)
(* versions drift underneath.  A call validates every server first, one    *)
(* read each, then reverts them one by one; the lock of ClusterState is    *)
(* free between any two of these steps.  The engine's reversal follows an  *)
(* abort or a failed stage; governance may forbid it (the engine has no    *)
(* quarantine system here: RecoveryPlans has the plans it would make).     *)
(***************************************************************************)
EXTENDS ClusterState, Integers, FiniteSets

CONSTANTS
    Missing,        \* ids a loaded deployment names and the cluster does not have
    Target,         \* DeploymentState.target_version
    Callers,        \* threads that call rollback()
    Engines,        \* threads in _rollback_updated_servers of this deployment
    ForceFlags,     \* values of the parameter force
    Governed,       \* a governance coordinator is configured
    MayRaise,       \* may an unexpected exception end a loop
    Mixed,          \* may the cluster have run several versions before
    MaxDrifts       \* bound: out-of-band version changes

ASSUME RollbackAssumption ==
    /\ IsFiniteSet(Servers) /\ Servers # {} /\ Missing \cap Servers = {}
    /\ Target \in Versions
    /\ Callers \cap Engines = {} /\ ForceFlags \subseteq BOOLEAN
    /\ {Governed, MayRaise, Mixed} \subseteq BOOLEAN /\ MaxDrifts \in Nat

VARIABLES
    servers,    \* ClusterState._servers
    status,     \* DeploymentState.status
    updated,    \* DeploymentState.servers_updated
    source,     \* DeploymentState.source_version
    call,       \* the frame of each thread
    before,     \* history: what each server ran before the deployment
    drifts      \* counter for the bound

vars == <<servers, status, updated, source, call, before, drifts>>

Threads == Callers \cup Engines

\* A thread's place and locals: errors is not empty (bad), the servers the loop
\* has left, the one it holds, rolled_back_ids, what an engine's handler has marked;
\* and, for the properties, the servers inconsistent since the call began (stale).
Frame == [pc    : {"absent", "idle", "validate", "revert", "act", "checkpoint", "sweep",
                   "returned", "refused", "blocked", "raised"},
          force : BOOLEAN,
          bad   : BOOLEAN,
          todo  : SUBSET (Servers \cup Missing),
          at    : SUBSET Servers,
          ids   : SUBSET Servers,
          mark  : {"none", "rolling_back", "aborted"},
          stale : SUBSET (Servers \cup Missing)]

Uncalled == [pc |-> "idle", force |-> FALSE, bad |-> FALSE, todo |-> {}, at |-> {},
             ids |-> {}, mark |-> "none", stale |-> {}]

\* max(versions, key=...) of _init_deployment: a version most servers ran.
MajorityVersions(running) ==
    LET count(v) == Cardinality({s \in Servers : running[s] = v})
    IN  {v \in Versions : \A w \in Versions : count(w) <= count(v)}

\* What update_server_version left of a server that ran version v.
Deployed(v, st) == [cur |-> Target, prev |-> v, status |-> st, last |-> "deploy"]

Generated(v) ==
    [cur |-> v, prev |-> NoVersion, status |-> "healthy", last |-> "initial_deployment"]

\* The deployments rollback() is given: one that completed, one that a governance
\* block or an error left half-way, either of them possibly loaded from a file
\* that names servers this cluster does not have; or one whose engine is about to
\* revert it, the only one an engine thread is still busy with.
Deployments(touched) ==
    [st  : {"failed"} \cup (IF touched = Servers THEN {"completed"} ELSE {}),
     ids : {touched, touched \cup Missing}]
    \cup [st : IF Engines = {} THEN {} ELSE {"in_progress"}, ids : {touched}]

Absent == [Uncalled EXCEPT !.pc = "absent"]

\* The call finds deployment d, which has touched these servers.
Finds(touched, d) ==
    /\ status = d.st
    /\ updated = d.ids
    /\ servers = [s \in Servers |->
                    IF s \in touched
                    THEN Deployed(before[s], IF d.st = "completed" THEN "healthy" ELSE "updating")
                    ELSE Generated(before[s])]
    /\ call = [c \in Threads |-> IF c \in Callers \/ d.st = "in_progress"
                                 THEN Uncalled ELSE Absent]

Init ==
    /\ before \in [Servers -> IF Mixed THEN Versions ELSE {InitialVersion}]
    /\ source \in MajorityVersions(before)
    /\ \E touched \in SUBSET Servers \ {{}} : \E d \in Deployments(touched) : Finds(touched, d)
    /\ drifts = 0

Inconsistent(map, id) == id \notin Servers \/ map[id].cur # Target

\* The frames with their history once the cluster is map.
Noticed(frames, map) ==
    [c \in Threads |-> [frames[c] EXCEPT !.stale = {id \in @ : Inconsistent(map, id)}]]

-----------------------------------------------------------------------------
\* rollback() is entered.
Call(c, force) ==
    /\ c \in Callers /\ call[c].pc = "idle"
    /\ call' = [call EXCEPT ![c] = [Uncalled EXCEPT
                    !.pc = "validate", !.force = force, !.todo = updated,
                    !.stale = {id \in updated : Inconsistent(servers, id)}]]
    /\ UNCHANGED <<servers, status, updated, source, before, drifts>>

\* Mutant: only the last server looked at counts.
ValidateLastOnly(c, id) ==
    /\ call[c].pc = "validate" /\ id \in call[c].todo
    /\ call' = [call EXCEPT ![c].todo = @ \ {id}, ![c].bad = Inconsistent(servers, id)]
    /\ UNCHANGED <<servers, status, updated, source, before, drifts>>

\* validate_rollback_consistency looks at one server.
Validate(c, id) ==
    /\ call[c].pc = "validate" /\ id \in call[c].todo
    /\ call' = [call EXCEPT ![c].todo = @ \ {id}, ![c].bad = @ \/ Inconsistent(servers, id)]
    /\ UNCHANGED <<servers, status, updated, source, before, drifts>>

\* RollbackConsistencyError.
Refuse(c) ==
    /\ call[c].pc = "validate" /\ call[c].todo = {}
    /\ call[c].bad /\ ~call[c].force
    /\ call' = [call EXCEPT ![c] = [Uncalled EXCEPT !.pc = "refused"]]
    /\ UNCHANGED <<servers, status, updated, source, before, drifts>>

Proceed(c) ==
    /\ call[c].pc = "validate" /\ call[c].todo = {}
    /\ call[c].bad => call[c].force
    /\ status' = "rolling_back"
    /\ call' = [call EXCEPT ![c].pc = "revert", ![c].todo = updated]
    /\ UNCHANGED <<servers, updated, source, before, drifts>>

\* Mutant: a server that is gone is reported like one that was reverted.
SkipMissingReported(c, id) ==
    /\ call[c].pc = "revert" /\ id \in call[c].todo \ Servers
    /\ call' = [call EXCEPT ![c].todo = @ \ {id}, ![c].ids = @ \cup {id}]
    /\ UNCHANGED <<servers, status, updated, source, before, drifts>>

\* A server that is gone is skipped.
SkipMissing(c, id) ==
    /\ call[c].pc = "revert" /\ id \in call[c].todo \ Servers
    /\ call' = [call EXCEPT ![c].todo = @ \ {id}]
    /\ UNCHANGED <<servers, status, updated, source, before, drifts>>

\* One that already runs the source version is reported and left alone ...
AlreadyReverted(c, id) ==
    /\ call[c].pc = "revert" /\ id \in call[c].todo \cap Servers
    /\ servers[id].cur = source
    /\ call' = [call EXCEPT ![c].todo = @ \ {id}, ![c].ids = @ \cup {id}]
    /\ UNCHANGED <<servers, status, updated, source, before, drifts>>

\* ... and any other is reverted, a step after it was looked at.
LookAt(c, id) ==
    /\ call[c].pc = "revert" /\ id \in call[c].todo \cap Servers
    /\ servers[id].cur # source
    /\ call' = [call EXCEPT ![c].pc = "act", ![c].todo = @ \ {id}, ![c].at = {id}]
    /\ UNCHANGED <<servers, status, updated, source, before, drifts>>

\* rolled_back_ids, after a call of rollback_server.
Reverted(ids, id) == IF RollbackReturns(servers, id) THEN ids \cup {id} ELSE ids

Act(c, id) ==
    /\ call[c].pc = "act" /\ id \in call[c].at
    /\ servers' = RollbackServer(servers, id)
    /\ call' = Noticed([call EXCEPT ![c].pc = "revert", ![c].at = {},
                                    ![c].ids = Reverted(@, id)], servers')
    /\ UNCHANGED <<status, updated, source, before, drifts>>

\* The engine's own reversal: _handle_rollback or _handle_abort ...
SweepStarts(c, mark) ==
    /\ c \in Engines /\ call[c].pc = "idle"
    /\ mark \in {"rolling_back", "aborted"} /\ status' = mark
    /\ call' = [call EXCEPT ![c].pc = "checkpoint", ![c].mark = mark]
    /\ UNCHANGED <<servers, updated, source, before, drifts>>

\* ... asks governance first; a block ends deploy() with nothing reverted ...
Block(c) ==
    /\ Governed
    /\ call[c].pc = "checkpoint"
    /\ status' = "failed"
    /\ call' = [call EXCEPT ![c] = [Uncalled EXCEPT !.pc = "blocked"]]
    /\ UNCHANGED <<servers, updated, source, before, drifts>>

\* ... and goes over the servers without validation, and without a look at one.
SweepBegins(c) ==
    /\ call[c].pc = "checkpoint"
    /\ call' = [call EXCEPT ![c].pc = "sweep", ![c].todo = updated]
    /\ UNCHANGED <<servers, status, updated, source, before, drifts>>

Sweep(c, id) ==
    /\ call[c].pc = "sweep" /\ id \in call[c].todo
    /\ servers' = RollbackServer(servers, id)
    /\ call' = Noticed([call EXCEPT ![c].todo = @ \ {id}, ![c].ids = Reverted(@, id)],
                       servers')
    /\ UNCHANGED <<status, updated, source, before, drifts>>

\* Mutant: the caller returns without marking the deployment.
ReturnUnmarked(c) ==
    /\ call[c].pc \in {"revert", "sweep"} /\ call[c].todo = {} /\ call[c].mark # "aborted"
    /\ call' = [call EXCEPT ![c].pc = "returned"]
    /\ UNCHANGED <<servers, status, updated, source, before, drifts>>

Return(c) ==
    /\ call[c].pc \in {"revert", "sweep"} /\ call[c].todo = {} /\ call[c].mark # "aborted"
    /\ status' = "rolled_back"
    /\ call' = [call EXCEPT ![c].pc = "returned"]
    /\ UNCHANGED <<servers, updated, source, before, drifts>>

\* After an abort the deployment keeps the mark it has got by now.
AbortReturns(c) ==
    /\ call[c].pc = "sweep" /\ call[c].todo = {} /\ call[c].mark = "aborted"
    /\ call' = [call EXCEPT ![c].pc = "returned"]
    /\ UNCHANGED <<servers, status, updated, source, before, drifts>>

\* The handlers at the end of rollback() and of deploy(): what is done stays done.
Raise(c) ==
    /\ MayRaise
    /\ call[c].pc \in {"revert", "act", "checkpoint", "sweep"}
    /\ status' = "failed"
    /\ call' = [call EXCEPT ![c] = [Uncalled EXCEPT !.pc = "raised"]]
    /\ UNCHANGED <<servers, updated, source, before, drifts>>

\* override_version, by whoever changes servers out of band.
Drift(s, v) ==
    /\ drifts < MaxDrifts /\ v # servers[s].cur
    /\ servers' = OverrideVersion(servers, s, v)
    /\ call' = Noticed(call, servers')
    /\ drifts' = drifts + 1
    /\ UNCHANGED <<status, updated, source, before>>

Thread(c) ==
    \/ \E force \in ForceFlags : Call(c, force)
    \/ \E mark \in {"rolling_back", "aborted"} : SweepStarts(c, mark)
    \/ Refuse(c) \/ Proceed(c) \/ Block(c) \/ SweepBegins(c)
    \/ Return(c) \/ AbortReturns(c) \/ Raise(c)
    \/ \E id \in Servers \cup Missing :
          Validate(c, id) \/ SkipMissing(c, id) \/ AlreadyReverted(c, id) \/ LookAt(c, id)
            \/ Act(c, id) \/ Sweep(c, id)

Next ==
    \/ \E c \in Threads : Thread(c)
    \/ \E s \in Servers, v \in Versions : Drift(s, v)

Spec == Init /\ [][Next]_vars

-----------------------------------------------------------------------------
\* The type of every variable.
TypeOK ==
    /\ servers \in [Servers -> Server]
    /\ status \in {"completed", "failed", "in_progress", "rolling_back", "rolled_back",
                  "aborted"}
    /\ updated \subseteq Servers \cup Missing
    /\ source \in Versions
    /\ call \in [Threads -> Frame]
    /\ before \in [Servers -> Versions]
    /\ drifts \in 0..MaxDrifts

Quiet ==
    \A c \in Threads :
        call[c].pc \in {"absent", "idle", "refused", "returned", "blocked", "raised"}

Returned == {c \in Threads : call[c].pc = "returned"}

\* A server that runs the source version is not one that waits to be reverted: so it
\* is unless the deployment's target is the version that most servers ran already,
\* and not all that it updated did.
SourceTells == source = Target => \A s \in updated \cap Servers : before[s] = source

\* What callers of rollback() may take for granted, whatever the cluster ran.
EveryServerRestored ==
    drifts = 0 /\ Quiet /\ Returned # {} =>
        \A s \in updated \cap Servers : servers[s].cur = before[s]

\* Rollbacks of one deployment by any number of threads at once, some of them blocked
\* or ended by an exception half-way: when they are through, and one has returned,
\* every server the deployment updated runs again what it ran before, none flipped
\* back to the target by a second call; also one that never ran the source version,
\* and so is taken for not reverted yet.
AllRestored == SourceTells => EveryServerRestored

\* Every call that returns reports every server of the deployment the cluster
\* has, whichever of the calls reverted it, and they have been reverted by then.
ReportsAreTrue ==
    drifts = 0 /\ SourceTells =>
        \A c \in Returned : /\ call[c].ids = updated \cap Servers
                            /\ \A s \in call[c].ids : servers[s].cur = before[s]

\* However the marks of several calls interleave, the deployment does not rest in
\* ROLLING_BACK once one has returned: ROLLED_BACK is the last mark, unless the engine
\* itself was aborting, and marked it ABORTED, or a thread was blocked or raised.
SettledMark ==
    Quiet /\ Returned # {} =>
        \/ status = "rolled_back"
        \/ status = "aborted" /\ \E c \in Engines : call[c].mark = "aborted"
        \/ status = "failed" /\ \E c \in Threads : call[c].pc \in {"blocked", "raised"}

\* The guard: a call without force gets past its validation only if no server
\* was missing, drifted or already reverted all the while.
GuardHolds ==
    \A c \in Callers :
        call[c].pc \in {"revert", "act", "returned"} /\ ~call[c].force => call[c].stale = {}

=============================================================================
