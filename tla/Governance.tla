------------------------------ MODULE Governance ------------------------------
(***************************************************************************)
(* governance/ and resilience/policies.py: the coordinator's checkpoints,  *)
(* called by several engine threads that share a cluster, a coordinator    *)
(* and an audit log, as deploy/engine.py calls them.  A checkpoint reads   *)
(* the cluster (risk), then the log (earlier rollbacks and recoveries),    *)
(* then asks one policy after another, then perhaps a human; servers       *)
(* degrade and other rollbacks begin at any point in between.  The risk's  *)
(* view of the servers is taken in one step: only its category matters.    *)
(***************************************************************************)
EXTENDS Integers, FiniteSets, Sequences

CONSTANTS
    Servers,
    CriticalServers,        \* in RiskEngine.critical_regions
    StrictServers,          \* in HealthPolicy.zero_degraded_regions
    Threads,                \* engine threads, one deployment at a time each
    Policies,               \* names of GovernanceCoordinator.policies, in order
    MaxRecoveryAttempts,    \* RecoveryRetryCeilingPolicy.max_recovery_attempts
    MaxRecentRollbacks,     \* RollbackStormPreventionPolicy.max_recent_rollbacks
    MaxManual               \* bound: manual rollbacks on record

\* The policies that only look at the risk category.
CriticalPolicies == {"RollbackPolicy", "AbortPolicy", "UnsafeRecoveryPreventionPolicy"}

\* Those whose answer depends on the clock or on the quarantined regions.
WindowPolicies == {"RiskPolicy", "QuarantineEscalationPolicy"}

StandardPolicies ==
    CriticalPolicies \cup WindowPolicies \cup
    {"HealthPolicy", "ApprovalPolicy", "RecoveryRetryCeilingPolicy",
     "RollbackStormPreventionPolicy"}

\* The default coordinator has all of them, each once.
ASSUME GovernanceAssumption ==
    /\ IsFiniteSet(Servers) /\ Servers # {}
    /\ CriticalServers \subseteq Servers /\ StrictServers \subseteq Servers
    /\ IsFiniteSet(Threads) /\ Threads # {}
    /\ Policies \in Seq(StandardPolicies)
    /\ \A p \in StandardPolicies : \E i \in 1..Len(Policies) : Policies[i] = p
    /\ MaxRecoveryAttempts \in Nat \ {0} /\ MaxRecentRollbacks \in Nat \ {0}
    /\ MaxManual \in Nat

VARIABLES
    status,         \* the health of each server
    rollbacks,      \* ROLLBACK_START events in the audit log, of automatic rollbacks
    manual,         \* ... and of manual ones
    recoveries,     \* RECOVERY_PLAN_EXECUTE events in the audit log
    attended,       \* the approval gate has a callback
    updated,        \* servers_updated of each thread's deployment
    call            \* where each thread is in which checkpoint

log == <<rollbacks, manual, recoveries>>
vars == <<status, log, attended, updated, call>>

Health == {"ok", "degraded", "failed"}
Checkpoint == {"start", "stage_start", "stage_complete", "rollback"}
Category == {"LOW", "MEDIUM", "HIGH", "CRITICAL"}
Decision == {"ALLOW", "BLOCK", "ROLLBACK"}

\* A thread's place, the checkpoint it is at, the context (risk_category,
\* recent_rollbacks, recovery_attempts), the policy it is about to ask, the servers
\* HealthPolicy has passed over, the decision so far and whether approval is
\* required; as history, what the policies have said, whether a human approved, and
\* which servers were healthy some time since the checkpoint after a stage began.
Call == [pc       : {"idle", "context", "count", "evaluate", "gate", "decided", "stage",
                     "begin", "recover"},
         cp       : Checkpoint,
         category : Category,
         recent   : Nat,
         attempts : Nat,
         at       : 1..(Len(Policies) + 1),
         looked   : SUBSET Servers,
         decision : Decision,
         asks     : BOOLEAN,
         said     : SUBSET {"block", "rollback"},
         approved : BOOLEAN,
         healthy  : SUBSET Servers]

At(place, checkpoint) ==
    [pc |-> place, cp |-> checkpoint, category |-> "LOW", recent |-> 0, attempts |-> 0,
     at |-> 1, looked |-> {}, decision |-> "ALLOW", asks |-> FALSE, said |-> {},
     approved |-> FALSE, healthy |-> {}]

Idle == At("idle", "start")

-----------------------------------------------------------------------------
(***************************************************************************)
(* RiskEngine.calculate_risk, retry_count and previous_failures_count      *)
(* being 0 at every checkpoint.  The score is kept multiplied by the size  *)
(* of the cluster, which makes progress a whole number.                    *)
(***************************************************************************)
Size == Cardinality(Servers)
HowMany(st) == Cardinality({s \in Servers : status[s] = st})

RiskScore(t) ==
    LET score == Size * (15 * HowMany("degraded") + 30 * HowMany("failed"))
                 + 30 * Cardinality(updated[t])
                 + IF updated[t] \cap CriticalServers # {} THEN 15 * Size ELSE 0
    IN  IF score < 100 * Size THEN score ELSE 100 * Size

RiskCategory(t) ==
    LET score == RiskScore(t)
    IN  IF score <= 25 * Size THEN "LOW"
        ELSE IF score <= 50 * Size THEN "MEDIUM"
        ELSE IF score <= 75 * Size THEN "HIGH"
        ELSE "CRITICAL"

\* progress_percentage >= progress_threshold (75)
NearlyDone(t) == 100 * Cardinality(updated[t]) >= 75 * Size

\* The updated servers of zero-degradation regions, and those of them that
\* HealthPolicy has yet to look at.
Strict(t) == updated[t] \cap StrictServers
Unlooked(t) == Strict(t) \ call[t].looked

\* History, kept for the checkpoints after a stage.
Healthy(t) == IF call[t].cp = "stage_complete" THEN {s \in Strict(t) : status[s] = "ok"} ELSE {}

\* What a policy may say.
Results(t, p) ==
    LET c == call[t]
        unless(bad, result) == {IF bad THEN result ELSE "pass"}
    IN  CASE p \in CriticalPolicies -> unless(c.category = "CRITICAL", "block")
          [] p \in WindowPolicies -> {"pass", "block"}
          [] p = "HealthPolicy" ->
                {"rollback" : s \in {u \in Unlooked(t) : status[u] # "ok"}}
                \cup (IF Unlooked(t) = {} THEN {"pass"} ELSE {})
          [] p = "ApprovalPolicy" ->
                unless(c.category \in {"HIGH", "CRITICAL"} \/ NearlyDone(t), "approval")
          [] p = "RecoveryRetryCeilingPolicy" ->
                unless(c.attempts >= MaxRecoveryAttempts, "block")
          [] p = "RollbackStormPreventionPolicy" ->
                unless(c.recent >= MaxRecentRollbacks, "block")

-----------------------------------------------------------------------------
Init ==
    /\ status = [s \in Servers |-> "ok"]
    /\ rollbacks = 0 /\ manual = 0 /\ recoveries = 0
    /\ attended \in BOOLEAN
    /\ updated = [t \in Threads |-> {}]
    /\ call = [t \in Threads |-> Idle]

Move(t, new) ==
    /\ call' = [call EXCEPT ![t] = new]
    /\ UNCHANGED <<status, log, attended, updated>>

\* deploy() comes to its first checkpoint.
Deploy(t) ==
    /\ call[t].pc = "idle"
    /\ call' = [call EXCEPT ![t] = At("context", "start")]
    /\ updated' = [updated EXCEPT ![t] = {}]
    /\ UNCHANGED <<status, log, attended>>

\* _build_context
BuildContext(t) ==
    /\ call[t].pc = "context"
    /\ Move(t, [call[t] EXCEPT !.pc = "count", !.category = RiskCategory(t),
                               !.healthy = Healthy(t)])

\* Mutant: the coordinator counts the recoveries only.
CountRecoveriesOnly(t) ==
    /\ call[t].pc = "count"
    /\ Move(t, [call[t] EXCEPT !.pc = "evaluate", !.attempts = recoveries])

\* _evaluate_checkpoint counts the events in the log.
CountEvents(t) ==
    /\ call[t].pc = "count"
    /\ Move(t, [call[t] EXCEPT !.pc = "evaluate", !.recent = rollbacks + manual,
                               !.attempts = recoveries])

\* Mutant: the last objection counts, whatever came before.
AfterLast(decision, result) ==
    IF result = "block" THEN "BLOCK"
    ELSE IF result = "rollback" THEN "ROLLBACK"
    ELSE decision

\* A BLOCK stays; a ROLLBACK gives way to it.
After(decision, result) ==
    IF result = "block" THEN "BLOCK"
    ELSE IF result = "rollback" /\ decision # "BLOCK" THEN "ROLLBACK"
    ELSE decision

\* HealthPolicy reads the servers one after another.
LookAt(t, s) ==
    /\ call[t].pc = "evaluate" /\ call[t].at <= Len(Policies)
    /\ Policies[call[t].at] = "HealthPolicy"
    /\ s \in Unlooked(t) /\ status[s] = "ok"
    /\ Move(t, [call[t] EXCEPT !.looked = @ \cup {s}])

Evaluate(t) ==
    /\ call[t].pc = "evaluate" /\ call[t].at <= Len(Policies)
    /\ \E result \in Results(t, Policies[call[t].at]) :
          Move(t, [call[t] EXCEPT !.at = @ + 1, !.looked = {},
                                  !.decision = After(@, result),
                                  !.asks = @ \/ result = "approval",
                                  !.said = @ \cup ({result} \cap {"block", "rollback"})])

\* A policy that raises blocks.
PolicyRaises(t) ==
    /\ call[t].pc = "evaluate" /\ call[t].at <= Len(Policies)
    /\ Move(t, [call[t] EXCEPT !.at = @ + 1, !.looked = {}, !.decision = "BLOCK",
                               !.said = @ \cup {"block"}])

\* Approval is asked for only if nothing else stands in the way.
LoopEnds(t) ==
    /\ call[t].pc = "evaluate" /\ call[t].at = Len(Policies) + 1
    /\ Move(t, [call[t] EXCEPT
                  !.pc = IF call[t].decision = "ALLOW" /\ call[t].asks THEN "gate"
                         ELSE "decided"])

\* Mutant: HIGH counts as below the threshold HIGH.
BypassedAtThreshold(t) ==
    /\ call[t].pc = "gate" /\ ~attended
    /\ call[t].category \in {"LOW", "MEDIUM", "HIGH"}
    /\ Move(t, [call[t] EXCEPT !.pc = "decided"])

\* ApprovalGate.evaluate_request, with auto_approve_below_risk = HIGH.
Bypassed(t) ==
    /\ call[t].pc = "gate" /\ ~attended
    /\ call[t].category \in {"LOW", "MEDIUM"}
    /\ Move(t, [call[t] EXCEPT !.pc = "decided"])

Approved(t) ==
    /\ call[t].pc = "gate" /\ attended
    /\ Move(t, [call[t] EXCEPT !.pc = "decided", !.approved = TRUE])

\* The callback refuses or raises, or there is nobody to ask.
Denied(t) ==
    /\ call[t].pc = "gate"
    /\ attended \/ call[t].category \in {"HIGH", "CRITICAL"}
    /\ Move(t, [call[t] EXCEPT !.pc = "decided", !.decision = "BLOCK"])

-----------------------------------------------------------------------------
(***************************************************************************)
(* What the engine does with a decision.                                   *)
(***************************************************************************)
DecidedAt(t, checkpoint) == call[t].pc = "decided" /\ call[t].cp = checkpoint

Blocked(t) ==
    /\ call[t].pc = "decided" /\ call[t].decision = "BLOCK"
    /\ Move(t, Idle)

\* evaluate_start: anything but BLOCK lets the first stage come, unless an abort
\* comes first.
Started(t, next) ==
    /\ DecidedAt(t, "start") /\ call[t].decision # "BLOCK"
    /\ Move(t, At("context", next))

\* evaluate_stage_start: likewise.
StageOpens(t) ==
    /\ DecidedAt(t, "stage_start") /\ call[t].decision # "BLOCK"
    /\ Move(t, At("stage", "stage_start"))

\* A stage updates some servers; it may fall short, be aborted, or fail its
\* health checks, and a rollback is prepared.
StageRuns(t, more, outcome) ==
    /\ call[t].pc = "stage"
    /\ updated' = [updated EXCEPT ![t] = @ \cup more]
    /\ call' = [call EXCEPT ![t] = At("context", outcome)]
    /\ UNCHANGED <<status, log, attended>>

\* Mutant: ROLLBACK is treated like ALLOW after a stage, too.
StagePassesRegardless(t, next) ==
    /\ DecidedAt(t, "stage_complete") /\ call[t].decision # "BLOCK"
    /\ Move(t, At("context", next))

\* The next stage comes, or an abort.
StagePasses(t, next) ==
    /\ DecidedAt(t, "stage_complete") /\ call[t].decision = "ALLOW"
    /\ Move(t, At("context", next))

Completes(t) ==
    /\ DecidedAt(t, "stage_complete") /\ call[t].decision = "ALLOW"
    /\ updated[t] = Servers
    /\ Move(t, Idle)

StageMustBeUndone(t) ==
    /\ DecidedAt(t, "stage_complete") /\ call[t].decision = "ROLLBACK"
    /\ Move(t, At("context", "rollback"))

\* evaluate_rollback: anything but BLOCK lets the rollback begin.
RollbackAllowed(t) ==
    /\ DecidedAt(t, "rollback") /\ call[t].decision # "BLOCK"
    /\ Move(t, At("begin", "rollback"))

\* ROLLBACK_START is recorded; a configuration with a quarantine system goes on
\* to a recovery plan.
RollbackStarts(t, place) ==
    /\ call[t].pc = "begin"
    /\ rollbacks' = rollbacks + 1
    /\ call' = [call EXCEPT ![t] = At(place, "start")]
    /\ UNCHANGED <<status, manual, recoveries, attended, updated>>

\* RECOVERY_PLAN_EXECUTE is recorded.
RecoveryStarts(t) ==
    /\ call[t].pc = "recover"
    /\ recoveries' = recoveries + 1
    /\ call' = [call EXCEPT ![t] = Idle]
    /\ UNCHANGED <<status, rollbacks, manual, attended, updated>>

-----------------------------------------------------------------------------
\* rollback() of deploy/rollback.py records the same event and asks nobody.
ManualRollback ==
    /\ manual < MaxManual
    /\ manual' = manual + 1
    /\ UNCHANGED <<status, rollbacks, recoveries, attended, updated, call>>

ChangeStatus(s, st) ==
    /\ status[s] # st
    /\ status' = [status EXCEPT ![s] = st]
    /\ call' = [t \in Threads |->
                  [call[t] EXCEPT !.healthy =
                      IF /\ call[t].pc \in {"count", "evaluate", "gate"}
                         /\ call[t].cp = "stage_complete" /\ st = "ok"
                      THEN @ \cup ({s} \cap Strict(t)) ELSE @]]
    /\ UNCHANGED <<log, attended, updated>>

Checks(t) ==
    \/ BuildContext(t) \/ CountEvents(t) \/ (\E s \in Servers : LookAt(t, s)) \/ Evaluate(t) \/ PolicyRaises(t) \/ LoopEnds(t)
    \/ Bypassed(t) \/ Approved(t) \/ Denied(t)

Acts(t) ==
    \/ Deploy(t) \/ Blocked(t) \/ StageOpens(t)
    \/ \E next \in {"stage_start", "rollback"} : Started(t, next) \/ StagePasses(t, next)
    \/ \E more \in SUBSET Servers, outcome \in {"stage_complete", "rollback"} :
          StageRuns(t, more, outcome)
    \/ Completes(t) \/ StageMustBeUndone(t) \/ RollbackAllowed(t)
    \/ \E place \in {"recover", "idle"} : RollbackStarts(t, place)
    \/ RecoveryStarts(t)

Next ==
    \/ \E t \in Threads : Checks(t) \/ Acts(t)
    \/ ManualRollback
    \/ \E s \in Servers, st \in Health : ChangeStatus(s, st)

Spec == Init /\ [][Next]_vars

-----------------------------------------------------------------------------
\* The type of every variable.
TypeOK ==
    /\ status \in [Servers -> Health]
    /\ rollbacks \in Nat /\ manual \in 0..MaxManual /\ recoveries \in Nat
    /\ attended \in BOOLEAN
    /\ updated \in [Threads -> SUBSET Servers]
    /\ call \in [Threads -> Call]

\* Whatever the order of the policies, and whichever of them raised: the decision
\* is the severest thing any of them said.
DecisionIsSeverest ==
    \A t \in Threads : call[t].pc = "decided" =>
        /\ "block" \in call[t].said => call[t].decision = "BLOCK"
        /\ "rollback" \in call[t].said => call[t].decision \in {"BLOCK", "ROLLBACK"}

\* Storm prevention and the recovery ceiling hold across deployments and threads:
\* each thread that has counted and not yet recorded its own event can add one.
CeilingsHold ==
    /\ rollbacks <= MaxRecentRollbacks + Cardinality(Threads) - 1
    /\ recoveries <= MaxRecoveryAttempts + Cardinality(Threads) - 1

\* Nothing of high risk is allowed without a human, nothing of critical risk at
\* all.
RiskIsApproved ==
    \A t \in Threads :
        call[t].pc = "decided" /\ call[t].decision = "ALLOW" =>
            \/ call[t].category \in {"LOW", "MEDIUM"}
            \/ call[t].category = "HIGH" /\ call[t].approved

\* A stage is passed, and the deployment goes on, only if every updated server of a
\* zero-degradation region was healthy some time during the stage's last checkpoint.
AdvancesHealthy ==
    [][\A t \in Threads :
          DecidedAt(t, "stage_complete") /\ call'[t].pc = "context"
              /\ call'[t].cp = "stage_start" =>
                  Strict(t) \subseteq call[t].healthy]_vars

\* governance/policies.py: ApprovalPolicy "determines when manual approval gates
\* are required"; a stage of high risk is not opened without one.
StagesAreApproved ==
    [][\A t \in Threads :
          call[t].pc = "decided" /\ call'[t].pc = "stage" =>
              call[t].category \in {"LOW", "MEDIUM"} \/ call[t].approved]_vars

=============================================================================
