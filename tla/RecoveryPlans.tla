---------------------------- MODULE RecoveryPlans ----------------------------
(***************************************************************************)
(* resilience/recovery.py: recovery plans for one deployment, generated    *)
(* from what its record names and executed step by step, by its engine and *)
(* by operators, while the engine may still install and servers degrade.   *)
(* A step may be refused by the human asked first, and may fail half-way;  *)
(* a plan is then executed again from the step it stopped at.  A plan is   *)
(* executed by one thread at a time.                                       *)
(***************************************************************************)
EXTENDS ClusterState, Integers, FiniteSets, SequencesExt

CONSTANTS
    Regions, RegionOf,  \* the region of each server
    NoRegion,           \* target_region is None
    Target,             \* DeploymentState.target_version
    Ends,               \* the statuses deploy() may leave the deployment with
    Plans,              \* the plans that may be generated
    Observed,           \* the statuses chaos injection, health callbacks, operators set
    Reviewed,           \* an approval_callback is registered
    MayRaise,           \* the cluster's methods may raise
    MaxChanges          \* bound: statuses changed by others

ASSUME RecoveryAssumption ==
    /\ IsFiniteSet(Servers)
    /\ RegionOf \in [Servers -> Regions] /\ NoRegion \notin Regions
    /\ Target \in Versions \ {InitialVersion}
    /\ Ends \subseteq {"rolling_back", "aborted", "failed"}
    /\ Observed \subseteq ServerStatus
    /\ {Reviewed, MayRaise} \subseteq BOOLEAN /\ MaxChanges \in Nat

VARIABLES
    servers,    \* ClusterState._servers
    status,     \* DeploymentState.status
    updated,    \* DeploymentState.servers_updated
    pending,    \* the servers a running deploy() has yet to update
    running,    \* deploy() may still install, and has not marked its end
    installed,  \* the one it has updated and not yet added to servers_updated
    quarantined,\* the regions with an ACTIVE quarantine
    plan,       \* the plans, each with the frame of its execution
    changes     \* counter for the bound

deployment == <<status, updated, pending, running, installed>>
vars == <<servers, deployment, quarantined, plan, changes>>

Strategy == {"partial_rollback", "staged_recovery", "region_quarantine", "safe_resume"}

Rollback(ids) == [action |-> "rollback", on |-> ids, region |-> NoRegion]
Isolate(r)    == [action |-> "quarantine_region", on |-> {}, region |-> r]
Return(r)     == [action |-> "release_quarantine", on |-> {}, region |-> r]
ResumeStep    == [action |-> "resume_deployment", on |-> {}, region |-> NoRegion]

Step == {Rollback(ids) : ids \in SUBSET Servers}
            \cup {Isolate(r) : r \in Regions} \cup {Return(r) : r \in Regions}
            \cup {ResumeStep}

\* left and undone are the loop over a batch; since is a history: the servers
\* deploy() has recorded after a staged or a region's plan was generated.
Plan == [strategy : Strategy \cup {"none"},
         status   : {"pending", "executing", "completed", "failed"},
         region   : Regions \cup {NoRegion},
         steps    : Seq(Step),
         index    : Nat,
         pc       : {"idle", "next", "batch"},
         left     : SUBSET Servers,
         undone   : SUBSET Servers,
         since    : SUBSET Servers]

NotMade == [strategy |-> "none", status |-> "pending", region |-> NoRegion, steps |-> << >>,
            index |-> 0, pc |-> "idle", left |-> {}, undone |-> {}, since |-> {}]

Init ==
    /\ servers = GeneratedCluster
    /\ status = "in_progress"
    /\ updated = {} /\ pending = Servers /\ running = TRUE /\ installed = {}
    /\ quarantined = {}
    /\ plan = [p \in Plans |-> NotMade]
    /\ changes = 0

-----------------------------------------------------------------------------
(***************************************************************************)
(* The deployment, until deploy() stops for good: a recovery marks it      *)
(* IN_PROGRESS again, but no loop goes on.                                 *)
(***************************************************************************)
Install(s) ==
    /\ running /\ s \in pending /\ installed = {}
    /\ servers' = UpdateServerVersion(servers, s, Target)
    /\ pending' = pending \ {s} /\ installed' = {s}
    /\ UNCHANGED <<status, updated, running, quarantined, plan, changes>>

RecordInstall ==
    /\ installed # {}
    /\ updated' = updated \cup installed
    /\ installed' = {}
    /\ plan' = [p \in Plans |->
                   IF plan[p].strategy \in {"staged_recovery", "region_quarantine"}
                   THEN [plan[p] EXCEPT !.since = @ \cup installed]
                   ELSE plan[p]]
    /\ UNCHANGED <<servers, status, pending, running, quarantined, changes>>

EndDeploy(st) ==
    /\ running /\ installed = {}
    /\ running' = FALSE /\ pending' = {} /\ status' = st
    /\ UNCHANGED <<servers, updated, installed, quarantined, plan, changes>>

-----------------------------------------------------------------------------
(***************************************************************************)
(* generate_plan.  The scan of the live servers is one read: a status that *)
(* changes during it could as well have changed before or after.           *)
(***************************************************************************)
\* Mutant: the last server of an odd number is left out.
BatchesOfTwo(ids) ==
    {[i \in 1..(Len(q) \div 2) |-> Rollback({q[2 * i - 1], q[2 * i]})] : q \in SetToSeqs(ids)}

\* list(servers_updated) in any order, cut into batches of two.
Batches(ids) ==
    {[i \in 1..((Len(q) + 1) \div 2) |->
        Rollback({q[j] : j \in {2 * i - 1, 2 * i} \cap DOMAIN q})] : q \in SetToSeqs(ids)}

\* One step for each server, in the order of the cluster.
OneByOne(ids) == {[i \in DOMAIN q |-> Rollback({q[i]})] : q \in SetToSeqs(ids)}

InRegion(r) == {s \in Servers : RegionOf[s] = r}

\* Mutant: the region is isolated whether or not one is given.
RegionStepsRegardless(r) == {<<Isolate(r), Rollback(updated \cap InRegion(r))>>}

RegionSteps(r) ==
    IF r = NoRegion THEN {<< >>}
    ELSE {<<Isolate(r), Rollback(updated \cap InRegion(r))>>}

StepsFor(strategy, r) ==
    CASE strategy = "partial_rollback"  -> OneByOne({s \in updated : IsUnstable(servers[s])})
      [] strategy = "staged_recovery"   -> Batches(updated)
      [] strategy = "region_quarantine" -> RegionSteps(r)
      [] strategy = "safe_resume" ->
            {IF r = NoRegion THEN <<ResumeStep>> ELSE <<Return(r), ResumeStep>>}

\* The strategies that do not look at target_region are called without one.
Generate(p, strategy, r) ==
    /\ plan[p].strategy = "none"
    /\ strategy \in {"partial_rollback", "staged_recovery"} => r = NoRegion
    /\ \E steps \in StepsFor(strategy, r) :
          plan' = [plan EXCEPT ![p] = [NotMade EXCEPT !.strategy = strategy, !.region = r,
                                                      !.steps = steps]]
    /\ UNCHANGED <<servers, deployment, quarantined, changes>>

-----------------------------------------------------------------------------
(***************************************************************************)
(* execute_recovery_plan.                                                  *)
(***************************************************************************)
\* Whatever its status, a plan goes on at the step it has reached.
Execute(p) ==
    /\ plan[p].strategy # "none" /\ plan[p].pc = "idle"
    /\ plan' = [plan EXCEPT ![p].status = "executing", ![p].pc = "next"]
    /\ UNCHANGED <<servers, deployment, quarantined, changes>>

AtStep(p, action) ==
    /\ plan[p].pc = "next" /\ plan[p].index < Len(plan[p].steps)
    /\ plan[p].steps[plan[p].index + 1].action = action

Current(p) == plan[p].steps[plan[p].index + 1]

Advanced(p) == [plan EXCEPT ![p].index = @ + 1, ![p].pc = "next"]

Deny(p) ==
    /\ Reviewed
    /\ plan[p].pc = "next" /\ plan[p].index < Len(plan[p].steps)
    /\ plan' = [plan EXCEPT ![p].status = "failed", ![p].pc = "idle"]
    /\ UNCHANGED <<servers, deployment, quarantined, changes>>

\* The callback is called outside the try: the plan stays EXECUTING.
ApprovalRaises(p) ==
    /\ Reviewed
    /\ plan[p].pc = "next" /\ plan[p].index < Len(plan[p].steps)
    /\ plan' = [plan EXCEPT ![p].pc = "idle"]
    /\ UNCHANGED <<servers, deployment, quarantined, changes>>

\* The other steps begin with the approval granted, or with nobody to ask.
StartRollback(p) ==
    /\ AtStep(p, "rollback")
    /\ plan' = IF Current(p).on = {} THEN Advanced(p)
               ELSE [plan EXCEPT ![p].pc = "batch", ![p].left = Current(p).on]
    /\ UNCHANGED <<servers, deployment, quarantined, changes>>

\* Mutant: the server leaves the record before it is rolled back.
RevertDiscardFirst(p, s) ==
    /\ plan[p].pc = "batch" /\ s \in plan[p].left
    /\ IF s \in updated
       THEN updated' = updated \ {s} /\ UNCHANGED <<servers, plan>>
       ELSE /\ servers' = RollbackServer(servers, s)
            /\ plan' = IF plan[p].left = {s} THEN [Advanced(p) EXCEPT ![p].left = {}]
                       ELSE [plan EXCEPT ![p].left = @ \ {s}]
            /\ UNCHANGED updated
    /\ UNCHANGED <<status, pending, running, installed, quarantined, changes>>

Revert(p, s) ==
    /\ plan[p].pc = "batch" /\ plan[p].undone = {} /\ s \in plan[p].left
    /\ servers' = RollbackServer(servers, s)
    /\ plan' = [plan EXCEPT ![p].left = @ \ {s}, ![p].undone = {s}]
    /\ UNCHANGED <<deployment, quarantined, changes>>

\* With the last server of the batch the step is done.
Discard(p) ==
    /\ plan[p].undone # {}
    /\ updated' = updated \ plan[p].undone
    /\ plan' = IF plan[p].left = {} THEN [Advanced(p) EXCEPT ![p].undone = {}]
               ELSE [plan EXCEPT ![p].undone = {}]
    /\ UNCHANGED <<servers, status, pending, running, installed, quarantined, changes>>

\* Mutant: the step counts as done when it has been tried.
StepRaisesAdvancing(p) ==
    /\ MayRaise
    /\ plan[p].pc = "batch" /\ plan[p].left # {} /\ plan[p].undone = {}
    /\ plan' = [plan EXCEPT ![p].status = "failed", ![p].pc = "idle", ![p].left = {},
                            ![p].index = @ + 1]
    /\ UNCHANGED <<servers, deployment, quarantined, changes>>

\* rollback_server raises: what the batch has done stays done.
StepRaises(p) ==
    /\ MayRaise
    /\ plan[p].pc = "batch" /\ plan[p].left # {} /\ plan[p].undone = {}
    /\ plan' = [plan EXCEPT ![p].status = "failed", ![p].pc = "idle", ![p].left = {}]
    /\ UNCHANGED <<servers, deployment, quarantined, changes>>

QuarantineRegion(p) ==
    /\ AtStep(p, "quarantine_region")
    /\ quarantined' = quarantined \cup {Current(p).region}
    /\ plan' = Advanced(p)
    /\ UNCHANGED <<servers, deployment, changes>>

ReleaseRegion(p) ==
    /\ AtStep(p, "release_quarantine")
    /\ quarantined' = quarantined \ {Current(p).region}
    /\ plan' = Advanced(p)
    /\ UNCHANGED <<servers, deployment, changes>>

\* Whatever the deployment's status was, terminal or not.
ResumeDeployment(p) ==
    /\ AtStep(p, "resume_deployment")
    /\ status' = "in_progress"
    /\ plan' = Advanced(p)
    /\ UNCHANGED <<servers, updated, pending, running, installed, quarantined, changes>>

Complete(p) ==
    /\ plan[p].pc = "next" /\ plan[p].index >= Len(plan[p].steps)
    /\ plan' = [plan EXCEPT ![p].status = "completed", ![p].pc = "idle"]
    /\ UNCHANGED <<servers, deployment, quarantined, changes>>

-----------------------------------------------------------------------------
ChangeStatus(s, st) ==
    /\ changes < MaxChanges /\ servers[s].status # st
    /\ servers' = UpdateServerStatus(servers, s, st)
    /\ changes' = changes + 1
    /\ UNCHANGED <<deployment, quarantined, plan>>

Executor(p) ==
    \/ Execute(p) \/ Deny(p) \/ ApprovalRaises(p)
    \/ StartRollback(p) \/ (\E s \in Servers : Revert(p, s)) \/ Discard(p)
    \/ StepRaises(p)
    \/ QuarantineRegion(p) \/ ReleaseRegion(p) \/ ResumeDeployment(p)
    \/ Complete(p)

Next ==
    \/ (\E s \in Servers : Install(s)) \/ RecordInstall
    \/ \E st \in Ends : EndDeploy(st)
    \/ \E p \in Plans, strategy \in Strategy, r \in Regions \cup {NoRegion} :
          Generate(p, strategy, r)
    \/ \E p \in Plans : Executor(p)
    \/ \E s \in Servers, st \in Observed : ChangeStatus(s, st)

Spec == Init /\ [][Next]_vars

-----------------------------------------------------------------------------
\* The type of every variable.
TypeOK ==
    /\ servers \in [Servers -> Server]
    /\ status \in Ends \cup {"in_progress"}
    /\ {updated, pending, installed} \subseteq SUBSET Servers /\ running \in BOOLEAN
    /\ quarantined \subseteq Regions
    /\ plan \in [Plans -> Plan]
    /\ \A p \in Plans : plan[p].index \in 0..Len(plan[p].steps)
    /\ changes \in 0..MaxChanges

Targets(p) == UNION {plan[p].steps[i].on : i \in DOMAIN plan[p].steps}

Restored(s) == servers[s].cur = InitialVersion /\ s \notin updated

\* While plans race with one another and with the engine, and fail between any two
\* of their steps, a server that runs the target is one the record names (or that
\* the engine is about to record): it can still be found and rolled back.
ChangesAreRecorded ==
    \A s \in Servers : servers[s].cur # InitialVersion => s \in updated \cup installed

\* A plan that is COMPLETED, after however many refusals, exceptions half-way
\* through a batch and further executions, has rolled back every server its steps
\* name, and none is flipped back by another plan that names it too.
CompletedPlanDidItsWork ==
    \A p \in Plans : plan[p].status = "completed" => \A s \in Targets(p) : Restored(s)

\* A COMPLETED staged recovery has left nothing of the deployment but what has been
\* installed since it was generated, a region's plan nothing in its region.
RecoveryIsTotal ==
    \A p \in Plans :
        LET scope == CASE plan[p].strategy = "staged_recovery" -> Servers
                       [] plan[p].strategy = "region_quarantine" -> InRegion(plan[p].region)
                       [] OTHER -> {}
        IN  plan[p].status = "completed" =>
                \A s \in scope \ (plan[p].since \cup installed) : Restored(s)

=============================================================================
