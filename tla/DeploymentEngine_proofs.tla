----------------------- MODULE DeploymentEngine_proofs -----------------------
(***************************************************************************)
(* Proofs about the deployment engine, for every cluster, stage list and   *)
(* configuration the assumptions admit.                                    *)
(***************************************************************************)
EXTENDS EngineInvariant, FiniteSetTheorems, SequenceTheorems, TLAPS

\* The methods of ClusterState keep a server map a server map.
LEMMA ServerMapType ==
    ASSUME NEW map \in [Servers -> Server], NEW s \in Servers
    PROVE  /\ \A v \in Versions : UpdateServerVersion(map, s, v) \in [Servers -> Server]
           /\ \A v \in Versions : OverrideVersion(map, s, v) \in [Servers -> Server]
           /\ \A st \in ServerStatus : UpdateServerStatus(map, s, st) \in [Servers -> Server]
           /\ RollbackServer(map, s) \in [Servers -> Server]
<1>1. map[s] \in Server
  OBVIOUS
<1>2. \A v \in Versions : UpdateServerVersion(map, s, v) \in [Servers -> Server]
  BY <1>1 DEF UpdateServerVersion, Server, ServerStatus, HistoryAction
<1>3. \A v \in Versions : OverrideVersion(map, s, v) \in [Servers -> Server]
  BY <1>1 DEF OverrideVersion, Server, ServerStatus, HistoryAction
<1>4. \A st \in ServerStatus : UpdateServerStatus(map, s, st) \in [Servers -> Server]
  BY <1>1 DEF UpdateServerStatus, Server, ServerStatus, HistoryAction
<1>5. RollbackServer(map, s) \in [Servers -> Server]
  BY <1>1 DEF RollbackServer, RollbackReturns, Flipped, Server, ServerStatus, HistoryAction
<1> QED BY <1>2, <1>3, <1>4, <1>5

\* The stage counter stays within the list because a wait is always a wait for a
\* further stage, and a region is isolated only if the plan has one.
TypeInvariant == TypeOK /\ StageFits /\ (pc = "isolate" => region # NoRegion)

LEMMA StagesType ==
    /\ Len(Stages) \in Nat \ {0}
    /\ \A k \in 1..Len(Stages) : Stages[k] \in 1..100
<1>1. Stages \in Seq(1..100) /\ Stages # << >>
  BY EngineAssumption
<1> QED BY <1>1, EmptySeq, ElementOfSeq

LEMMA TypeInit == Init => TypeInvariant
<1> SUFFICES ASSUME Init PROVE TypeInvariant
  OBVIOUS
<1>1. servers \in [Servers -> Server]
  BY ClusterAssumption
  DEF Init, GeneratedCluster, Server, ServerStatus, HistoryAction
<1>2. stage \in 0..Len(Stages) /\ retries \in 0..MaxRetries
  BY StagesType, EngineAssumption DEF Init
<1>3. before \in [Servers -> Versions] /\ target \in Versions
  BY ClusterAssumption DEF Init
<1>4. status \in DeploymentStatus /\ pc \in Place
  BY DEF Init, DeploymentStatus, Place
<1>5. StageFits
  BY DEF Init, StageFits, Forward, Place, Resting, Reverting
<1>6. pc # "isolate"
  BY DEF Init
<1> QED BY <1>1, <1>2, <1>3, <1>4, <1>5, <1>6 DEF Init, TypeInvariant, TypeOK

\* The numbers and flags of the configuration.
LEMMA ConfigType ==
    /\ RegionOf \in [Servers -> Regions] /\ NoRegion \notin Regions
    /\ MaxRetries \in Nat /\ StageDelay \in Nat /\ CheckInterval \in Nat
    /\ \A k \in 1..Len(Stages) : TargetCount(k) \in Nat
<1>1. Cardinality(Servers) \in Nat
  BY EngineAssumption, FS_CardinalityType
<1>2. ASSUME NEW k \in 1..Len(Stages) PROVE TargetCount(k) \in Nat
  <2>1. Stages[k] \in Nat
    <3>1. Stages[k] \in 1..100
      BY <1>2, StagesType
    <3>2. \A n \in 1..100 : n \in Nat
      OBVIOUS
    <3> QED BY <3>1, <3>2
  <2>2. \A a, b \in Nat : a * b \in Nat
    OBVIOUS
  <2>3. Cardinality(Servers) * Stages[k] \in Nat
    BY <1>1, <2>1, <2>2
  <2> QED BY <2>3 DEF TargetCount
<1> QED BY <1>2, EngineAssumption

LEMMA TypeNext == TypeInvariant /\ [Next]_vars => TypeInvariant'
<1> SUFFICES ASSUME TypeInvariant, [Next]_vars PROVE TypeInvariant'
  OBVIOUS
<1> USE StagesType, ConfigType
    DEF TypeInvariant, TypeOK, StageFits, Forward, Resting, Reverting, world, record, deploymentState, loopState, callState, rest,
        Goto, Mark, HandleAbort, HandleRollback, HandleGovernanceBlock, 
        DeploymentStatus, Place
<1>1. CASE UNCHANGED vars
  BY <1>1 DEF vars
<1>2. CASE StartBlocked \/ StartRaises \/ StageAborted \/ StageProceeds \/ StageBlocked \/ StageOpens
  <2>1. CASE StartBlocked
    BY <2>1 DEF StartBlocked
  <2>2. CASE StartRaises
    BY <2>2 DEF StartRaises
  <2>3. CASE StageAborted
    BY <2>3 DEF StageAborted
  <2>4. CASE StageProceeds
    BY <2>4 DEF StageProceeds
  <2>5. CASE StageBlocked
    BY <2>5 DEF StageBlocked
  <2>6. CASE StageOpens
    BY <2>6 DEF StageOpens
  <2> QED BY <1>2, <2>1, <2>2, <2>3, <2>4, <2>5, <2>6
<1>3. CASE StartAllowed
  BY <1>3 DEF StartAllowed
<1>4. CASE StageAlreadyReached
  BY <1>4 DEF StageAlreadyReached
<1>5. CASE SelectServers
  <2>1. Cardinality(updated) \in Nat
    BY EngineAssumption, FS_Subset, FS_CardinalityType
  <2>2. TargetCount(stage) \in Nat
    BY <1>5 DEF SelectServers
  <2>3. needed' \in Nat
    BY <1>5, <2>1, <2>2 DEF SelectServers
  <2>4. todo' \in SUBSET Servers
    BY <1>5 DEF SelectServers, Selections, Eligible
  <2> QED BY <1>5, <2>3, <2>4 DEF SelectServers
<1>6. CASE CheckAborted \/ CheckPassed \/ StageDone \/ StageErrorAborts \/ StageErrorRollsBack
  <2>1. CASE CheckAborted
    BY <2>1 DEF CheckAborted
  <2>2. CASE CheckPassed
    BY <2>2 DEF CheckPassed
  <2>3. CASE StageDone
    BY <2>3 DEF StageDone
  <2>4. CASE StageErrorAborts
    BY <2>4 DEF StageErrorAborts
  <2>5. CASE StageErrorRollsBack
    BY <2>5 DEF StageErrorRollsBack
  <2> QED BY <1>6, <2>1, <2>2, <2>3, <2>4, <2>5
<1>7. CASE HealthPasses \/ HealthRetries \/ HealthFails \/ HealthFailureRollsBack
  <2>1. CASE HealthPasses
    BY <2>1 DEF HealthPasses
  <2>2. CASE HealthRetries
    BY <2>2 DEF HealthRetries
  <2>3. CASE HealthFails
    BY <2>3 DEF HealthFails
  <2>4. CASE HealthFailureRollsBack
    BY <2>4 DEF HealthFailureRollsBack, UnstableRegions
  <2> QED BY <1>7, <2>1, <2>2, <2>3, <2>4
<1>8. CASE CompletionBlocked \/ CompletionRollsBack \/ StageCompletes \/ LastStageCompletes
  <2>1. CASE CompletionBlocked
    BY <2>1 DEF CompletionBlocked
  <2>2. CASE CompletionRollsBack
    BY <2>2 DEF CompletionRollsBack
  <2>3. CASE StageCompletes
    BY <2>3 DEF StageCompletes
  <2>4. CASE LastStageCompletes
    BY <2>4 DEF LastStageCompletes
  <2> QED BY <1>8, <2>1, <2>2, <2>3, <2>4
<1>9. CASE WaitAborted \/ Sleep \/ WaitOver
  <2>1. CASE WaitAborted
    BY <2>1 DEF WaitAborted
  <2>2. CASE Sleep
    BY <2>2 DEF Sleep, Increment
  <2>3. CASE WaitOver
    BY <2>3 DEF WaitOver
  <2> QED BY <1>9, <2>1, <2>2, <2>3
<1>10. CASE Finish \/ Healed
  <2>1. CASE Finish
    BY <2>1 DEF Finish
  <2>2. CASE Healed
    BY <2>2 DEF Healed
  <2> QED BY <1>10, <2>1, <2>2
<1>11. ASSUME NEW s \in Servers, Install(s) \/ Heal(s) \/ Revert(s) \/ Recover(s)
       PROVE  TypeInvariant'
  <2>1. CASE Install(s)
    <3>1. servers' \in [Servers -> Server]
      BY <2>1, ServerMapType DEF Install
    <3>2. late' \in Nat
      BY <2>1 DEF Install
    <3> QED BY <2>1, <3>1, <3>2 DEF Install
  <2>2. CASE Heal(s)
    <3>1. servers' \in [Servers -> Server]
      BY <2>2, ServerMapType DEF Heal, ServerStatus
    <3> QED BY <2>2, <3>1 DEF Heal
  <2>3. CASE Revert(s)
    <3>1. servers' \in [Servers -> Server]
      BY <2>3, ServerMapType DEF Revert
    <3> QED BY <2>3, <3>1 DEF Revert
  <2>4. CASE Recover(s)
    <3>1. servers' \in [Servers -> Server]
      BY <2>4, ServerMapType DEF Recover
    <3> QED BY <2>4, <3>1 DEF Recover
  <2> QED BY <1>11, <2>1, <2>2, <2>3, <2>4
<1>12. CASE RollbackBlocked \/ RollbackStarts \/ PlanStagedRecovery \/ IsolateRegion
            \/ RollbackEnds \/ UnexpectedError
  <2>1. CASE RollbackBlocked
    BY <2>1 DEF RollbackBlocked
  <2>2. CASE RollbackStarts
    BY <2>2 DEF RollbackStarts
  <2>3. CASE PlanStagedRecovery
    BY <2>3 DEF PlanStagedRecovery
  <2>4. CASE IsolateRegion
    BY <2>4 DEF IsolateRegion
  <2>5. CASE RollbackEnds
    BY <2>5 DEF RollbackEnds
  <2>6. CASE UnexpectedError
    BY <2>6 DEF UnexpectedError
  <2> QED BY <1>12, <2>1, <2>2, <2>3, <2>4, <2>5, <2>6
<1>13. ASSUME NEW r \in Regions, PlanRegionQuarantine(r)
       PROVE  TypeInvariant'
  BY <1>13 DEF PlanRegionQuarantine
<1>14. CASE SetAbort \/ ClearAbort
  <2>1. CASE SetAbort
    <3>1. woken' \in BOOLEAN
      BY <2>1, Zenon DEF SetAbort
    <3> QED BY <2>1, <3>1 DEF SetAbort
  <2>2. CASE ClearAbort
    <3>1. abort' \in BOOLEAN
      BY <2>2, Zenon DEF ClearAbort
    <3> QED BY <2>2, <3>1 DEF ClearAbort
  <2> QED BY <1>14, <2>1, <2>2
<1>15. ASSUME NEW s \in Servers, NEW st \in ServerStatus \ {"updating"}, ChangeStatus(s, st)
       PROVE  TypeInvariant'
  BY <1>15, ServerMapType DEF ChangeStatus
<1>16. ASSUME NEW r \in Regions, QuarantineRegion(r) \/ ReleaseRegion(r)
       PROVE  TypeInvariant'
  <2>1. quarantined' \in SUBSET Regions
    BY <1>16 DEF QuarantineRegion, ReleaseRegion
  <2>2. disturbances' \in Nat
    BY <1>16 DEF QuarantineRegion, ReleaseRegion
  <2>3. UNCHANGED <<servers, abort, deploymentState, pc, loopState, slept, woken, region, callState>>
    BY <1>16 DEF QuarantineRegion, ReleaseRegion
  <2> QED BY <2>1, <2>2, <2>3
<1>17. ASSUME NEW s \in Servers, NEW v \in Versions, DriftBetween(s, v)
       PROVE  TypeInvariant'
  BY <1>17, ServerMapType DEF DriftBetween
<1>18. ASSUME NEW v \in Versions, Deploy(v)
       PROVE  TypeInvariant'
  <2>1. before' \in [Servers -> Versions]
    BY <1>18 DEF Deploy, Server
  <2>2. abort' \in BOOLEAN /\ woken' \in BOOLEAN
    BY <1>18, Zenon DEF Deploy
  <2>3. stage' \in 0..Len(Stages) /\ retries' \in 0..MaxRetries
    BY <1>18 DEF Deploy
  <2>4. listens' \in BOOLEAN
    <3>1. AbortEvents \subseteq BOOLEAN
      BY EngineAssumption
    <3>2. listens' \in AbortEvents
      BY <1>18, Zenon DEF Deploy
    <3> QED BY <3>1, <3>2, Zenon
  <2> QED BY <1>18, <2>1, <2>2, <2>3, <2>4 DEF Deploy
<1> QED
  BY <1>1, <1>2, <1>3, <1>4, <1>5, <1>6, <1>7, <1>8, <1>9, <1>10, <1>11, <1>12, <1>13,
     <1>14, <1>15, <1>16, <1>17, <1>18
  DEF Next, Engine, Environment

\* Type correctness.
THEOREM TypeCorrect == Spec => []TypeOK
<1>1. TypeInvariant => TypeOK
  BY DEF TypeInvariant
<1> QED BY <1>1, TypeInit, TypeNext, PTL DEF Spec

-----------------------------------------------------------------------------
(***************************************************************************)
(* The rollout invariant.  Each part is preserved by every step; a lemma   *)
(* shows it from the parts it rests on.                                    *)
(***************************************************************************)
\* The steps that write neither the servers nor the deployment's record: they
\* move the engine, mark the deployment, or touch what only they read.
Advance ==
    \/ StartBlocked \/ StartRaises \/ StartAllowed
    \/ StageAborted \/ StageProceeds \/ StageBlocked \/ StageOpens
    \/ CheckAborted \/ CheckPassed \/ StageDone \/ StageErrorAborts \/ StageErrorRollsBack
    \/ HealthPasses \/ HealthRetries \/ HealthFails \/ HealthFailureRollsBack
    \/ CompletionBlocked \/ CompletionRollsBack \/ StageCompletes \/ LastStageCompletes
    \/ WaitAborted \/ Sleep \/ WaitOver \/ Healed
    \/ RollbackBlocked \/ PlanStagedRecovery \/ IsolateRegion \/ RollbackEnds \/ UnexpectedError

Disturb ==
    \/ SetAbort \/ ClearAbort
    \/ \E r \in Regions : QuarantineRegion(r) \/ ReleaseRegion(r)

\* Every step is one of these.
LEMMA StepCases ==
    ASSUME [Next]_vars
    PROVE  \/ UNCHANGED vars
           \/ Advance
           \/ StageAlreadyReached \/ SelectServers \/ Finish \/ RollbackStarts
           \/ \E s \in Servers : Install(s) \/ Heal(s) \/ Revert(s) \/ Recover(s)
           \/ \E r \in Regions : PlanRegionQuarantine(r)
           \/ Disturb
           \/ \E s \in Servers, st \in ServerStatus \ {"updating"} : ChangeStatus(s, st)
           \/ \E s \in Servers, v \in Versions : DriftBetween(s, v)
           \/ \E v \in Versions : Deploy(v)
  BY DEF Next, Engine, Environment, Advance, Disturb

LEMMA AdvanceKeeps ==
    ASSUME Advance
    PROVE  UNCHANGED <<servers, record, todo, fresh, needed, region, before>>
<1> USE DEF world, record, deploymentState, loopState, callState, rest, Goto, Mark, HandleAbort,
        HandleRollback, HandleGovernanceBlock
<1>1. CASE StartBlocked \/ StartRaises \/ StartAllowed \/ StageAborted \/ StageProceeds
           \/ StageBlocked \/ StageOpens
  BY <1>1 DEF StartBlocked, StartRaises, StartAllowed, StageAborted, StageProceeds, 
              StageBlocked, StageOpens
<1>2. CASE CheckAborted \/ CheckPassed \/ StageDone \/ StageErrorAborts \/ StageErrorRollsBack
  BY <1>2 DEF CheckAborted, CheckPassed, StageDone, StageErrorAborts, StageErrorRollsBack
<1>3. CASE HealthPasses \/ HealthRetries \/ HealthFails \/ HealthFailureRollsBack
           \/ CompletionBlocked \/ CompletionRollsBack \/ StageCompletes \/ LastStageCompletes
  BY <1>3 DEF HealthPasses, HealthRetries, HealthFails, HealthFailureRollsBack,
              CompletionBlocked, CompletionRollsBack, StageCompletes, LastStageCompletes
<1>4. CASE WaitAborted \/ Sleep \/ WaitOver \/ Healed
  BY <1>4 DEF WaitAborted, Sleep, WaitOver, Healed
<1>5. CASE RollbackBlocked \/ PlanStagedRecovery \/ IsolateRegion \/ RollbackEnds \/ UnexpectedError
  BY <1>5 DEF RollbackBlocked, PlanStagedRecovery, IsolateRegion, RollbackEnds, UnexpectedError
<1> QED BY <1>1, <1>2, <1>3, <1>4, <1>5 DEF Advance

\* Where those steps lead: none goes back to a forward place, or into a plan.
LEMMA AdvancePlaces ==
    ASSUME Advance
    PROVE  /\ pc \notin Resting /\ pc' # "idle"
           /\ pc' \in Forward => pc \in Forward
           /\ \/ pc' \in Forward \cup {"rollback_gate", "done"}
              \/ pc' = "recover" /\ pc \in {"plan", "isolate"}
           /\ pc' = "rollback_gate" => pc \in Forward
           /\ pc' # "heal"
<1> USE DEF world, record, deploymentState, loopState, callState, rest, Goto, Mark, HandleAbort,
        HandleRollback, HandleGovernanceBlock, Place, Forward, Resting, Reverting
<1>1. CASE StartBlocked \/ StartRaises \/ StartAllowed \/ StageAborted \/ StageProceeds
           \/ StageBlocked \/ StageOpens
  BY <1>1 DEF StartBlocked, StartRaises, StartAllowed, StageAborted, StageProceeds, 
              StageBlocked, StageOpens
<1>2. CASE CheckAborted \/ CheckPassed \/ StageDone \/ StageErrorAborts \/ StageErrorRollsBack
  BY <1>2 DEF CheckAborted, CheckPassed, StageDone, StageErrorAborts, StageErrorRollsBack
<1>3. CASE HealthPasses \/ HealthRetries \/ HealthFails \/ HealthFailureRollsBack
           \/ CompletionBlocked \/ CompletionRollsBack \/ StageCompletes \/ LastStageCompletes
  BY <1>3 DEF HealthPasses, HealthRetries, HealthFails, HealthFailureRollsBack,
              CompletionBlocked, CompletionRollsBack, StageCompletes, LastStageCompletes
<1>4. CASE WaitAborted \/ Sleep \/ WaitOver \/ Healed
  BY <1>4 DEF WaitAborted, Sleep, WaitOver, Healed
<1>5. CASE RollbackBlocked \/ PlanStagedRecovery \/ IsolateRegion \/ RollbackEnds \/ UnexpectedError
  BY <1>5 DEF RollbackBlocked, PlanStagedRecovery, IsolateRegion, RollbackEnds, UnexpectedError
<1> QED BY <1>1, <1>2, <1>3, <1>4, <1>5 DEF Advance

LEMMA DisturbKeeps ==
    ASSUME Disturb
    PROVE  UNCHANGED <<servers, deploymentState, pc, loopState, region, before>>
  BY DEF Disturb, SetAbort, ClearAbort, QuarantineRegion, ReleaseRegion, callState

LEMMA StatusNext ==
    ASSUME StatusFits, [Next]_vars PROVE StatusFits'
<1> USE DEF StatusFits, IsTerminal, Place, Forward, Resting, Reverting, deploymentState,
        world, record, loopState, callState, rest
<1>1. CASE UNCHANGED vars
  BY <1>1 DEF vars
<1>2. CASE Advance
  BY <1>2 DEF Advance, Goto, Mark, HandleAbort, HandleRollback, HandleGovernanceBlock,
     StartBlocked, StartRaises, StartAllowed, StageAborted, StageProceeds, StageBlocked, 
     StageOpens, CheckAborted, CheckPassed, StageDone, StageErrorAborts, StageErrorRollsBack,
     HealthPasses, HealthRetries, HealthFails, HealthFailureRollsBack,
     CompletionBlocked, CompletionRollsBack, StageCompletes, LastStageCompletes,
     WaitAborted, Sleep, WaitOver, Healed,
     RollbackBlocked, PlanStagedRecovery, IsolateRegion, RollbackEnds, UnexpectedError
<1>3. CASE StageAlreadyReached \/ SelectServers \/ Finish \/ RollbackStarts
  BY <1>3 DEF StageAlreadyReached, SelectServers, Finish, RollbackStarts
<1>4. ASSUME NEW s \in Servers, Install(s) \/ Heal(s) \/ Revert(s) \/ Recover(s)
      PROVE  StatusFits'
  BY <1>4 DEF Install, Heal, Revert, Recover
<1>5. ASSUME NEW r \in Regions, PlanRegionQuarantine(r) PROVE StatusFits'
  BY <1>5 DEF PlanRegionQuarantine
<1>6. CASE Disturb
  BY <1>6, DisturbKeeps
<1>7. ASSUME NEW s \in Servers, NEW st \in ServerStatus \ {"updating"}, ChangeStatus(s, st)
      PROVE  StatusFits'
  BY <1>7 DEF ChangeStatus
<1>8. ASSUME NEW s \in Servers, NEW v \in Versions, DriftBetween(s, v) PROVE StatusFits'
  BY <1>8 DEF DriftBetween
<1>9. ASSUME NEW v \in Versions, Deploy(v) PROVE StatusFits'
  BY <1>9 DEF Deploy
<1> QED
  BY <1>1, <1>2, <1>3, <1>4, <1>5, <1>6, <1>7, <1>8, <1>9, StepCases

\* update_server_status touches no version.
LEMMA StatusOnly ==
    ASSUME NEW map \in [Servers -> Server], NEW s \in Servers, NEW st,
           NEW t \in Servers
    PROVE  LET new == UpdateServerStatus(map, s, st)[t]
           IN  /\ new.cur = map[t].cur /\ new.prev = map[t].prev /\ new.last = map[t].last
               /\ new.status = IF t = s THEN st ELSE map[t].status
<1>1. map[t] \in Server /\ map[s] \in Server
  OBVIOUS
<1> QED BY <1>1 DEF UpdateServerStatus, Server

\* rollback_server gives a carried server back the version it ran before.
LEMMA CarriedReverts ==
    ASSUME TypeOK, NEW s \in Servers, Carried(s)
    PROVE  /\ RollbackServer(servers, s)[s].cur = before[s]
           /\ RollbackServer(servers, s)[s].status = "healthy"
           /\ \A t \in Servers \ {s} : RollbackServer(servers, s)[t] = servers[t]
<1>1. servers[s].prev # NoVersion
  BY ClusterAssumption DEF TypeOK, Carried
<1>2. RollbackServer(servers, s) = [servers EXCEPT ![s] = Flipped(servers[s])]
  BY <1>1 DEF RollbackServer, RollbackReturns, Carried, TypeOK
<1> QED BY <1>2 DEF Flipped, Carried, TypeOK

\* update_server_version makes a server that runs its old version a carried one.
LEMMA InstalledIsCarried ==
    ASSUME TypeOK, NEW s \in Servers, Restored(s)
    PROVE  LET new == UpdateServerVersion(servers, s, target)
           IN  /\ new[s].cur = target /\ new[s].prev = before[s] /\ new[s].last = "deploy"
               /\ \A t \in Servers \ {s} : new[t] = servers[t]
  BY DEF UpdateServerVersion, Restored, TypeOK

LEMMA RecordNext ==
    ASSUME TypeOK, RecordFits, VersionsFit, CountFits, [Next]_vars PROVE RecordFits'
<1> USE DEF RecordFits, Restored, Place, Forward, Resting, Reverting, deploymentState,
        world, record, loopState, callState, rest
<1>1. CASE UNCHANGED vars
  BY <1>1 DEF vars
<1>2. CASE Advance
  BY <1>2, AdvanceKeeps, AdvancePlaces
<1>3. CASE StageAlreadyReached \/ SelectServers \/ Finish \/ RollbackStarts
  BY <1>3 DEF StageAlreadyReached, SelectServers, Finish, RollbackStarts
<1>4. ASSUME NEW s \in Servers, Install(s) PROVE RecordFits'
  <2>1. s \in pending /\ s \notin updated /\ pc \in Forward /\ Restored(s)
    BY <1>4 DEF Install, CountFits
  <2> QED BY <1>4, <2>1, InstalledIsCarried DEF Install
<1>5. ASSUME NEW s \in Servers, Heal(s) PROVE RecordFits'
  <2>1. \A t \in Servers : servers'[t].cur = servers[t].cur
    BY <1>5, StatusOnly DEF Heal, TypeOK
  <2> QED BY <1>5, <2>1 DEF Heal
<1>6. ASSUME NEW s \in Servers, Revert(s) \/ Recover(s) PROVE RecordFits'
  <2>1. s \in updated /\ Carried(s)
    BY <1>6 DEF Revert, Recover, VersionsFit
  <2>2. servers'[s].cur = before[s] /\ \A t \in Servers \ {s} : servers'[t] = servers[t]
    BY <1>6, <2>1, CarriedReverts DEF Revert, Recover
  <2> QED BY <1>6, <2>1, <2>2 DEF Revert, Recover
<1>7. ASSUME NEW r \in Regions, PlanRegionQuarantine(r) PROVE RecordFits'
  BY <1>7 DEF PlanRegionQuarantine
<1>8. CASE Disturb
  BY <1>8, DisturbKeeps
<1>9. ASSUME NEW s \in Servers, NEW st \in ServerStatus \ {"updating"}, ChangeStatus(s, st)
      PROVE  RecordFits'
  <2>1. \A t \in Servers : servers'[t].cur = servers[t].cur
    BY <1>9, StatusOnly DEF ChangeStatus, TypeOK
  <2> QED BY <1>9, <2>1 DEF ChangeStatus
<1>10. ASSUME NEW s \in Servers, NEW v \in Versions, DriftBetween(s, v) PROVE RecordFits'
  BY <1>10 DEF DriftBetween
<1>11. ASSUME NEW v \in Versions, Deploy(v) PROVE RecordFits'
  BY <1>11 DEF Deploy
<1> QED
  BY <1>1, <1>2, <1>3, <1>4, <1>5, <1>6, <1>7, <1>8, <1>9, <1>10, <1>11, StepCases

LEMMA ScopeNext ==
    ASSUME TypeOK, ScopeFits, RecordFits, VersionsFit, [Next]_vars PROVE ScopeFits'
<1> USE DEF ScopeFits, Scope, Place, Forward, Resting, Reverting, deploymentState,
        world, record, loopState, callState, rest
<1>1. CASE UNCHANGED vars
  BY <1>1 DEF vars
<1>2. CASE Advance
  BY <1>2, AdvanceKeeps, AdvancePlaces
<1>3. CASE StageAlreadyReached \/ SelectServers \/ Finish
  BY <1>3 DEF StageAlreadyReached, SelectServers, Finish
<1>4. CASE RollbackStarts
  <2>1. region = NoRegion /\ updated \subseteq Servers
    BY <1>4 DEF RollbackStarts, TypeOK
  <2> QED BY <1>4, <2>1 DEF RollbackStarts
<1>5. ASSUME NEW s \in Servers, Install(s) \/ Heal(s) \/ Revert(s) \/ Recover(s)
      PROVE  ScopeFits'
  BY <1>5 DEF Install, Heal, Revert, Recover
<1>6. ASSUME NEW r \in Regions, PlanRegionQuarantine(r) PROVE ScopeFits'
  <2>1. r # NoRegion /\ updated \subseteq Servers
    BY ConfigType DEF TypeOK
  <2> QED BY <1>6, <2>1 DEF PlanRegionQuarantine
<1>7. CASE Disturb
  BY <1>7, DisturbKeeps
<1>8. ASSUME NEW s \in Servers, NEW st \in ServerStatus \ {"updating"}, ChangeStatus(s, st)
      PROVE  ScopeFits'
  BY <1>8 DEF ChangeStatus
<1>9. ASSUME NEW s \in Servers, NEW v \in Versions, DriftBetween(s, v) PROVE ScopeFits'
  BY <1>9 DEF DriftBetween
<1>10. ASSUME NEW v \in Versions, Deploy(v) PROVE ScopeFits'
  BY <1>10 DEF Deploy
<1> QED
  BY <1>1, <1>2, <1>3, <1>4, <1>5, <1>6, <1>7, <1>8, <1>9, <1>10, StepCases

LEMMA VersionsNext ==
    ASSUME TypeOK, VersionsFit, ScopeFits, RecordFits, CountFits, [Next]_vars
    PROVE  VersionsFit'
<1> USE DEF VersionsFit, Carried, Restored, Scope, Place, Forward, Resting, Reverting,
        deploymentState, world, record, loopState, callState, rest
<1>1. CASE UNCHANGED vars
  BY <1>1 DEF vars
<1>2. CASE Advance
  <2>1. pc' = "recover" => todo = updated \cap Scope
    BY <1>2, AdvancePlaces DEF ScopeFits
  <2> QED BY <1>2, <2>1, AdvanceKeeps, AdvancePlaces
<1>3. CASE StageAlreadyReached \/ SelectServers \/ Finish \/ RollbackStarts
  BY <1>3 DEF StageAlreadyReached, SelectServers, Finish, RollbackStarts
<1>4. ASSUME NEW s \in Servers, Install(s) PROVE VersionsFit'
  <2>1. s \notin updated /\ Restored(s)
    BY <1>4 DEF Install, CountFits, RecordFits
  <2>2. /\ servers'[s].cur = target /\ servers'[s].prev = before[s]
        /\ servers'[s].last = "deploy"
        /\ \A t \in Servers \ {s} : servers'[t] = servers[t]
    BY <1>4, <2>1, InstalledIsCarried DEF Install
  <2> QED BY <1>4, <2>1, <2>2 DEF Install, TypeOK
<1>5. ASSUME NEW s \in Servers, Heal(s) PROVE VersionsFit'
  <2>1. \A t \in Servers : /\ servers'[t].cur = servers[t].cur
                           /\ servers'[t].prev = servers[t].prev
                           /\ servers'[t].last = servers[t].last
    BY <1>5, StatusOnly DEF Heal, TypeOK
  <2> QED BY <1>5, <2>1 DEF Heal, TypeOK
<1>6. ASSUME NEW s \in Servers, Revert(s) \/ Recover(s) PROVE VersionsFit'
  <2>1. s \in updated /\ Carried(s)
    BY <1>6 DEF Revert, Recover
  <2>2. servers'[s].cur = before[s] /\ \A t \in Servers \ {s} : servers'[t] = servers[t]
    BY <1>6, <2>1, CarriedReverts DEF Revert, Recover
  <2>3. CASE Revert(s)
    BY <2>1, <2>2, <2>3 DEF Revert, TypeOK
  <2>4. CASE Recover(s)
    BY <2>1, <2>2, <2>4 DEF Recover, TypeOK
  <2> QED BY <1>6, <2>3, <2>4
<1>7. ASSUME NEW r \in Regions, PlanRegionQuarantine(r) PROVE VersionsFit'
  BY <1>7 DEF PlanRegionQuarantine
<1>8. CASE Disturb
  BY <1>8, DisturbKeeps
<1>9. ASSUME NEW s \in Servers, NEW st \in ServerStatus \ {"updating"}, ChangeStatus(s, st)
      PROVE  VersionsFit'
  <2>1. \A t \in Servers : /\ servers'[t].cur = servers[t].cur
                           /\ servers'[t].prev = servers[t].prev
                           /\ servers'[t].last = servers[t].last
    BY <1>9, StatusOnly DEF ChangeStatus, TypeOK
  <2> QED BY <1>9, <2>1 DEF ChangeStatus, TypeOK
<1>10. ASSUME NEW s \in Servers, NEW v \in Versions, DriftBetween(s, v) PROVE VersionsFit'
  BY <1>10 DEF DriftBetween
<1>11. ASSUME NEW v \in Versions, Deploy(v) PROVE VersionsFit'
  BY <1>11 DEF Deploy
<1> QED
  BY <1>1, <1>2, <1>3, <1>4, <1>5, <1>6, <1>7, <1>8, <1>9, <1>10, <1>11, StepCases

\* Later stages want no fewer servers, and the last one wants all of them.
LEMMA TargetCounts ==
    /\ \A k \in 1..Len(Stages) : k + 1 \in 1..Len(Stages) => TargetCount(k) <= TargetCount(k + 1)
    /\ TargetCount(Len(Stages)) = Cardinality(Servers)
<1> DEFINE N == Cardinality(Servers)
<1>1. N \in Nat
  BY EngineAssumption, FS_CardinalityType
<1>2. ASSUME NEW k \in 1..Len(Stages), k + 1 \in 1..Len(Stages)
      PROVE  TargetCount(k) <= TargetCount(k + 1)
  <2>1. Stages[k] \in Nat /\ Stages[k + 1] \in Nat
    <3>1. Stages[k] \in 1..100 /\ Stages[k + 1] \in 1..100
      BY <1>2, StagesType
    <3>2. \A n \in 1..100 : n \in Nat
      OBVIOUS
    <3> QED BY <3>1, <3>2
  <2>2. Stages[k] < Stages[k + 1]
    BY <1>2, StagesType, EngineAssumption
  <2> DEFINE a == Stages[k]
             b == Stages[k + 1]
  <2> HIDE DEF N, a, b
  <2>3. a \in Nat /\ b \in Nat /\ a <= b
    BY <2>1, <2>2 DEF a, b
  <2>4. N * a \in Nat /\ N * b \in Nat /\ N * a <= N * b
    BY <1>1, <2>3
  <2>5. \A x, y \in Nat : x <= y => (x + 99) \div 100 <= (y + 99) \div 100
    OBVIOUS
  <2>6. (N * a + 99) \div 100 <= (N * b + 99) \div 100
    BY <2>4, <2>5
  <2> QED BY <2>6 DEF TargetCount, N, a, b
<1>3. TargetCount(Len(Stages)) = N
  <2>1. Stages[Len(Stages)] = 100
    BY EngineAssumption
  <2>2. \A n \in Nat : (n * 100 + 99) \div 100 = n
    OBVIOUS
  <2> QED BY <1>1, <2>1, <2>2 DEF TargetCount
<1> QED BY <1>2, <1>3

\* The sets of servers are finite, with sizes that are numbers.
LEMMA ServerSets ==
    ASSUME NEW S \in SUBSET Servers
    PROVE  /\ IsFiniteSet(S) /\ Cardinality(S) \in Nat
           /\ Cardinality(S) <= Cardinality(Servers)
           /\ Cardinality(S) = Cardinality(Servers) => S = Servers
  BY EngineAssumption, FS_Subset, FS_CardinalityType

LEMMA CountNext ==
    ASSUME TypeInvariant, TypeInvariant', CountFits, RecordFits, VersionsFit, [Next]_vars
    PROVE  CountFits'
<1> USE DEF CountFits, Place, Forward, Resting, Reverting, deploymentState, world, record,
        loopState, callState, rest
<1> DEFINE U == Cardinality(updated)
<1>a. /\ updated \in SUBSET Servers /\ todo \in SUBSET Servers /\ fresh \in SUBSET Servers
      /\ needed \in Nat /\ stage \in 0..Len(Stages) /\ stage' \in 0..Len(Stages)
  BY DEF TypeInvariant, TypeOK
<1>b. U \in Nat /\ Cardinality(fresh) \in Nat /\ Cardinality(todo) \in Nat
  BY <1>a, ServerSets
<1>c. stage # 0 => TargetCount(stage) \in Nat
  BY <1>a, ConfigType, StagesType
<1>1. CASE UNCHANGED vars
  BY <1>1 DEF vars
<1>2. CASE Advance
  <2>1. UNCHANGED <<updated, pending, todo, fresh, needed>>
    BY <1>2, AdvanceKeeps
  <2>2. CASE StartAllowed
    <3>1. updated = {} /\ stage' = 1 /\ pc' = "stage"
      BY <2>2 DEF StartAllowed, TypeInvariant, StageFits
    <3>2. Cardinality(updated') = 0 /\ TargetCount(1) \in Nat
      BY <2>1, <3>1, FS_EmptySet, ConfigType, StagesType
    <3> QED BY <2>1, <3>1, <3>2
  <2>3. CASE WaitOver
    <3>1. stage' = stage + 1 /\ pc' = "stage" /\ pc = "wait"
      BY <2>3 DEF WaitOver
    <3>2. stage # 0 /\ stage < Len(Stages)
      BY <3>1 DEF TypeInvariant, StageFits
    <3>3. stage \in 1..Len(Stages) /\ stage + 1 \in 1..Len(Stages)
      BY <1>a, <3>2, StagesType
    <3>4. TargetCount(stage) <= TargetCount(stage + 1) /\ TargetCount(stage + 1) \in Nat
      BY <3>3, TargetCounts, ConfigType
    <3> QED BY <1>b, <1>c, <2>1, <3>1, <3>2, <3>4
  <2>4. CASE StageDone
    <3>1. UNCHANGED stage /\ pc = "update" /\ todo = {}
      BY <2>4 DEF StageDone, Goto
    <3>2. pc' = "stage_error" \/ (pc' = "health" /\ ~(Cardinality(fresh) < needed))
      BY <2>4 DEF StageDone, Goto
    <3>3. stage # 0
      BY <3>1 DEF TypeInvariant, StageFits
    <3> QED BY <1>a, <1>b, <1>c, <2>1, <3>1, <3>2, <3>3
  <2>5. CASE Advance /\ ~StartAllowed /\ ~WaitOver /\ ~StageDone
    <3>1. /\ UNCHANGED stage /\ pc # "idle" /\ pc' \notin {"update", "heal"}
          /\ pc' = "install" => pc = "update"
          /\ pc' \in {"health", "unhealthy", "complete_gate", "wait", "finish"}
                => pc \in {"health", "unhealthy", "complete_gate", "wait", "finish"}
      BY <2>5 DEF Advance, Goto, Mark, HandleAbort, HandleRollback, HandleGovernanceBlock,
         StartBlocked, StartRaises, StageAborted, StageProceeds, StageBlocked, StageOpens,
         CheckAborted, CheckPassed, StageErrorAborts, StageErrorRollsBack,
         HealthPasses, HealthRetries, HealthFails, HealthFailureRollsBack,
         CompletionBlocked, CompletionRollsBack, StageCompletes, LastStageCompletes,
         WaitAborted, Sleep, Healed,
         RollbackBlocked, PlanStagedRecovery, IsolateRegion, RollbackEnds, UnexpectedError
    <3> QED BY <2>1, <3>1
  <2> QED BY <1>2, <2>2, <2>3, <2>4, <2>5
<1>3. CASE StageAlreadyReached
  BY <1>3 DEF StageAlreadyReached
<1>4. CASE SelectServers
  <2>1. /\ UNCHANGED <<updated, stage, pending>> /\ pc = "select" /\ pc' = "update"
        /\ fresh' = {} /\ needed' = TargetCount(stage) - U /\ todo' \in Selections(needed')
        /\ TargetCount(stage) > U
    BY <1>4 DEF SelectServers
  <2>2. Cardinality(fresh') = 0
    BY <2>1, FS_EmptySet
  <2>3. todo' \subseteq pending /\ Cardinality(todo') <= needed'
    <3>1. todo' \subseteq Eligible /\ todo' \in SUBSET Servers
      BY <2>1 DEF Selections, TypeInvariant, TypeOK
    <3>2. Cardinality(todo') \in Nat
      BY <3>1, ServerSets
    <3>3. Cardinality(todo') = needed' \/ Cardinality(todo') < needed'
      BY <2>1 DEF Selections
    <3>4. needed' \in Nat
      BY DEF TypeInvariant, TypeOK
    <3> QED BY <3>1, <3>2, <3>3, <3>4 DEF Eligible
  <2>4. stage # 0 /\ Cardinality(todo') \in Nat
    BY <2>1, ServerSets DEF TypeInvariant, TypeOK, StageFits
  <2> QED BY <1>b, <1>c, <2>1, <2>2, <2>3, <2>4
<1>5. CASE Finish
  <2>1. stage = Len(Stages) /\ TargetCount(stage) <= U
    BY <1>5 DEF Finish, TypeInvariant, StageFits
  <2>2. U = Cardinality(Servers)
    BY <1>a, <1>b, <2>1, TargetCounts, ServerSets, EngineAssumption, FS_CardinalityType
  <2>3. updated = Servers
    BY <1>a, <2>2, ServerSets
  <2> QED BY <1>5, <2>3 DEF Finish
<1>6. CASE RollbackStarts
  BY <1>6 DEF RollbackStarts
<1>7. ASSUME NEW s \in Servers, Install(s) PROVE CountFits'
  <2>1. /\ updated' = updated \cup {s} /\ pending' = pending \ {s} /\ pc = "install"
        /\ fresh' = fresh \cup {s} /\ todo' = todo \ {s} /\ s \in todo /\ pc' = "update"
        /\ UNCHANGED <<stage, needed>>
    BY <1>7 DEF Install
  <2>2. s \notin updated /\ s \notin fresh
    BY <2>1 DEF RecordFits
  <2>3. /\ Cardinality(updated') = U + 1
        /\ Cardinality(fresh') = Cardinality(fresh) + 1
        /\ Cardinality(todo') = Cardinality(todo) - 1
    BY <1>a, <2>1, <2>2, ServerSets, FS_AddElement, FS_RemoveElement
  <2>4. stage # 0 /\ TargetCount(stage) \in Nat
    BY <1>c, <2>1 DEF TypeInvariant, StageFits
  <2>5. todo' \subseteq pending' /\ fresh' \subseteq updated'
    BY <2>1, <2>2
  <2>6. Cardinality(updated') + needed' = TargetCount(stage') + Cardinality(fresh')
    <3>1. U + needed = TargetCount(stage) + Cardinality(fresh)
      BY <2>1
    <3>2. needed' = needed /\ TargetCount(stage') = TargetCount(stage)
      BY <2>1
    <3> HIDE DEF CountFits, U
    <3>3. U + 1 + needed = TargetCount(stage) + (Cardinality(fresh) + 1)
      BY <1>a, <1>b, <2>4, <3>1
    <3> QED BY <2>3, <3>2, <3>3
  <2>7. /\ Cardinality(updated') + Cardinality(todo') <= TargetCount(stage')
        /\ Cardinality(updated') <= TargetCount(stage')
    <3>1. Cardinality(updated) + Cardinality(todo) <= TargetCount(stage)
      BY <2>1
    <3>2. Cardinality(todo) >= 1
      BY <1>a, <1>b, <2>1, ServerSets, FS_EmptySet
    <3> QED BY <1>b, <2>1, <2>3, <2>4, <3>1, <3>2
  <2> QED BY <2>1, <2>5, <2>6, <2>7
<1>8. ASSUME NEW s \in Servers, Heal(s) \/ Revert(s) PROVE CountFits'
  BY <1>8 DEF Heal, Revert
<1>9. ASSUME NEW s \in Servers, Recover(s) PROVE CountFits'
  <2>1. updated' = updated \ {s} /\ pc = "recover" /\ pc' = "recover" /\ UNCHANGED stage
    BY <1>9 DEF Recover
  <2>2. Cardinality(updated') <= U /\ Cardinality(updated') \in Nat
    BY <1>a, <2>1, ServerSets, FS_Subset
  <2> QED BY <1>b, <1>c, <2>1, <2>2
<1>10. ASSUME NEW r \in Regions, PlanRegionQuarantine(r) PROVE CountFits'
  BY <1>10 DEF PlanRegionQuarantine
<1>11. CASE Disturb
  BY <1>11, DisturbKeeps
<1>12. ASSUME NEW s \in Servers, NEW st \in ServerStatus \ {"updating"}, ChangeStatus(s, st)
       PROVE  CountFits'
  BY <1>12 DEF ChangeStatus
<1>13. ASSUME NEW s \in Servers, NEW v \in Versions, DriftBetween(s, v) PROVE CountFits'
  BY <1>13 DEF DriftBetween
<1>14. ASSUME NEW v \in Versions, Deploy(v) PROVE CountFits'
  BY <1>14 DEF Deploy
<1> QED
  BY <1>1, <1>2, <1>3, <1>4, <1>5, <1>6, <1>7, <1>8, <1>9, <1>10, <1>11, <1>12, <1>13,
     <1>14, StepCases

LEMMA UpdatingNext ==
    ASSUME TypeOK, UpdatingFits, RecordFits, VersionsFit, [Next]_vars PROVE UpdatingFits'
<1> USE DEF UpdatingFits, Place, Forward, Resting, Reverting, deploymentState, world, record,
        loopState, callState, rest
<1>1. CASE UNCHANGED vars
  BY <1>1 DEF vars
<1>2. CASE Advance
  BY <1>2, AdvanceKeeps, AdvancePlaces
<1>3. CASE StageAlreadyReached \/ SelectServers \/ Finish \/ RollbackStarts
  BY <1>3 DEF StageAlreadyReached, SelectServers, Finish, RollbackStarts
<1>4. ASSUME NEW s \in Servers, Install(s) PROVE UpdatingFits'
  <2>1. \A t \in Servers \ {s} : servers'[t] = servers[t]
    BY <1>4 DEF Install, UpdateServerVersion, TypeOK
  <2> QED BY <1>4, <2>1 DEF Install
<1>5. ASSUME NEW s \in Servers, Heal(s) PROVE UpdatingFits'
  <2>1. \A t \in Servers : servers'[t].status = IF t = s THEN "healthy" ELSE servers[t].status
    BY <1>5, StatusOnly DEF Heal, TypeOK
  <2> QED BY <1>5, <2>1 DEF Heal, TypeOK
<1>6. ASSUME NEW s \in Servers, Revert(s) \/ Recover(s) PROVE UpdatingFits'
  <2>1. s \in updated /\ Carried(s)
    BY <1>6 DEF Revert, Recover, VersionsFit
  <2>2. /\ servers'[s].status = "healthy"
        /\ \A t \in Servers \ {s} : servers'[t] = servers[t]
    BY <1>6, <2>1, CarriedReverts DEF Revert, Recover
  <2>3. CASE Revert(s)
    BY <2>1, <2>2, <2>3 DEF Revert, TypeOK
  <2>4. CASE Recover(s)
    BY <2>1, <2>2, <2>4 DEF Recover, TypeOK
  <2> QED BY <1>6, <2>3, <2>4
<1>7. ASSUME NEW r \in Regions, PlanRegionQuarantine(r) PROVE UpdatingFits'
  BY <1>7 DEF PlanRegionQuarantine
<1>8. CASE Disturb
  BY <1>8, DisturbKeeps
<1>9. ASSUME NEW s \in Servers, NEW st \in ServerStatus \ {"updating"}, ChangeStatus(s, st)
      PROVE  UpdatingFits'
  <2>1. \A t \in Servers : servers'[t].status = IF t = s THEN st ELSE servers[t].status
    BY <1>9, StatusOnly DEF ChangeStatus, TypeOK
  <2> QED BY <1>9, <2>1 DEF ChangeStatus, TypeOK
<1>10. ASSUME NEW s \in Servers, NEW v \in Versions, DriftBetween(s, v) PROVE UpdatingFits'
  BY <1>10 DEF DriftBetween
<1>11. ASSUME NEW v \in Versions, Deploy(v) PROVE UpdatingFits'
  BY <1>11 DEF Deploy
<1> QED
  BY <1>1, <1>2, <1>3, <1>4, <1>5, <1>6, <1>7, <1>8, <1>9, <1>10, <1>11, StepCases

\* How deploy() returns: after the last server is healed, after the reversal
\* has run out of servers, or without having promised anything.
LEMMA Returns ==
    ASSUME Advance, pc' = "done"
    PROVE  Healed \/ RollbackEnds \/ StartRaises \/ status' = "failed"
  BY DEF Advance, Goto, Mark, HandleAbort, HandleRollback, HandleGovernanceBlock,
     StartBlocked, StartAllowed, StageAborted, StageProceeds, StageBlocked, StageOpens,
     CheckAborted, CheckPassed, StageDone, StageErrorAborts, StageErrorRollsBack,
     HealthPasses, HealthRetries, HealthFails, HealthFailureRollsBack, CompletionBlocked,
     CompletionRollsBack, StageCompletes, LastStageCompletes, WaitAborted, Sleep, WaitOver,
     RollbackBlocked, PlanStagedRecovery, IsolateRegion, UnexpectedError,
     world, record, deploymentState, loopState, callState, rest

LEMMA EndNext ==
    ASSUME TypeInvariant, TypeInvariant', RolloutInvariant, StatusFits', RecordFits',
           VersionsFit', CountFits', [Next]_vars
    PROVE  EndFits'
<1> USE DEF EndFits, CompletedEverywhere, RolledBackRestores, NoneLeftUpdating, Resting
<1>h. StatusFits /\ RecordFits /\ ScopeFits /\ VersionsFit /\ CountFits /\ UpdatingFits /\ EndFits
  BY DEF RolloutInvariant
<1>a. CASE pc' # "done"
  <2>1. CASE pc' # "idle" /\ status' = "completed"
    <3>1. pc' = "heal"
      BY <1>a, <2>1 DEF StatusFits, TypeInvariant, TypeOK, Place, Forward, Reverting
    <3>2. updated' = Servers /\ \A s \in updated' : Carried(s)'
      BY <3>1 DEF CountFits, VersionsFit
    <3> QED BY <1>a, <3>2 DEF Carried
  <2> QED BY <1>a, <2>1
<1>b. CASE pc' = "done" /\ pc # "done"
  <2>1. Advance
    BY <1>b, StepCases DEF vars, StageAlreadyReached, SelectServers, Finish, RollbackStarts,
       Install, Heal, Revert, Recover, PlanRegionQuarantine, Disturb, SetAbort, ClearAbort,
       QuarantineRegion, ReleaseRegion, ChangeStatus, DriftBetween, Deploy
  <2>2. UNCHANGED <<servers, target, updated, pending, region, before>>
    BY <2>1, AdvanceKeeps DEF record
  <2>3. CASE Healed
    <3>1. pc = "heal" /\ todo = {} /\ status' = status
      BY <2>3 DEF Healed, Goto, deploymentState
    <3>2. status = "completed" /\ updated = Servers
      BY <1>h, <3>1 DEF StatusFits, CountFits
    <3>3. \A s \in Servers : servers[s].cur = target /\ servers[s].status # "updating"
      BY <1>h, <3>1, <3>2 DEF VersionsFit, UpdatingFits, Carried
    <3> QED BY <2>2, <3>1, <3>2, <3>3 DEF Scope
  <2>4. CASE RollbackEnds
    <3>1. /\ pc \in {"revert", "recover"} /\ todo = {}
          /\ status' = IF status = "rolling_back" THEN "rolled_back" ELSE status
      BY <2>4 DEF RollbackEnds, Mark
    <3>2. status' # "completed"
      BY <1>h, <3>1 DEF StatusFits, Reverting
    <3>3. \A s \in Scope : servers[s].cur = before[s]
      BY <1>h, <3>1 DEF RecordFits, VersionsFit, Restored, Scope
    <3>4. \A s \in Scope \ pending : servers[s].status # "updating"
      BY <1>h, <3>1 DEF VersionsFit, UpdatingFits, Scope
    <3> QED BY <2>2, <3>2, <3>3, <3>4 DEF Scope
  <2>5. CASE StartRaises
    <3>1. status' = "pending"
      BY <1>h, <2>5 DEF StartRaises, Goto, deploymentState, StatusFits
    <3> QED BY <3>1
  <2>6. CASE status' = "failed"
    BY <2>6
  <2> QED BY <1>b, <2>1, <2>3, <2>4, <2>5, <2>6, Returns
<1>c. CASE pc' = "done" /\ pc = "done"
  <2>1. \/ UNCHANGED vars \/ Disturb
        \/ \E s \in Servers, st \in ServerStatus \ {"updating"} : ChangeStatus(s, st)
    BY <1>c, StepCases, AdvancePlaces
    DEF StageAlreadyReached, SelectServers, Finish, RollbackStarts, Install, Heal, Revert,
        Recover, PlanRegionQuarantine, DriftBetween, Deploy
  <2>2. CASE UNCHANGED vars \/ Disturb
    <3>1. UNCHANGED <<servers, status, target, pending, pc, region, before>>
      BY <2>2, DisturbKeeps DEF vars, world, record, deploymentState, rest, callState
    <3> QED BY <1>h, <1>c, <3>1 DEF Scope
  <2>3. ASSUME NEW s \in Servers, NEW st \in ServerStatus \ {"updating"}, ChangeStatus(s, st)
        PROVE  EndFits'
    <3>1. UNCHANGED <<status, target, pending, region, before>>
      BY <2>3 DEF ChangeStatus, deploymentState, record, callState
    <3>2. \A t \in Servers : /\ servers'[t].cur = servers[t].cur
                             /\ servers'[t].status \in {servers[t].status, st}
      BY <2>3, StatusOnly DEF ChangeStatus, TypeInvariant, TypeOK
    <3> QED BY <1>h, <1>c, <3>1, <3>2 DEF Scope
  <2> QED BY <2>1, <2>2, <2>3
<1> QED BY <1>a, <1>b, <1>c

LEMMA InvariantInit == Init => RolloutInvariant
<1> SUFFICES ASSUME Init PROVE RolloutInvariant
  OBVIOUS
<1>1. StatusFits /\ StageFits /\ RecordFits /\ ScopeFits /\ VersionsFit /\ CountFits
      /\ UpdatingFits
  BY DEF Init, StatusFits, StageFits, RecordFits, ScopeFits, VersionsFit, CountFits,
     UpdatingFits, Place, Forward, Resting, Reverting
<1>2. EndFits
  BY DEF Init, EndFits, CompletedEverywhere, RolledBackRestores, NoneLeftUpdating
<1> QED BY <1>1, <1>2 DEF RolloutInvariant

LEMMA InvariantNext ==
    TypeInvariant /\ RolloutInvariant /\ [Next]_vars => TypeInvariant' /\ RolloutInvariant'
<1> SUFFICES ASSUME TypeInvariant, RolloutInvariant, [Next]_vars
             PROVE  TypeInvariant' /\ RolloutInvariant'
  OBVIOUS
<1>1. TypeInvariant'
  BY TypeNext
<1>2. StageFits'
  BY <1>1 DEF TypeInvariant
<1>3. StatusFits' /\ RecordFits' /\ ScopeFits' /\ VersionsFit' /\ CountFits' /\ UpdatingFits'
  BY <1>1, StatusNext, RecordNext, ScopeNext, VersionsNext, CountNext, UpdatingNext
  DEF RolloutInvariant, TypeInvariant
<1>4. EndFits'
  BY <1>1, <1>3, EndNext
<1> QED BY <1>1, <1>2, <1>3, <1>4 DEF RolloutInvariant

\* The rollout invariant holds of every behaviour of the engine: the record in
\* DeploymentState and the versions on the servers stay in step through every
\* stage, abort, rollback and recovery, whatever the other threads do.
THEOREM InvariantHolds == Spec => [](TypeInvariant /\ RolloutInvariant)
  BY TypeInit, InvariantInit, TypeNext, InvariantNext, PTL DEF Spec

\* servers_updated names every server whose version the deployment has changed.
THEOREM RecordIsComplete == Spec => []ChangesAreRecorded
<1>1. TypeInvariant /\ RolloutInvariant => ChangesAreRecorded
  BY DEF RolloutInvariant, RecordFits, Restored, ChangesAreRecorded, Changed
<1> QED BY <1>1, InvariantHolds, PTL

\* No more servers have changed version than the current stage allows.
THEOREM RadiusIsBounded == Spec => []BlastRadius
<1>1. TypeInvariant /\ RolloutInvariant => BlastRadius
  <2> SUFFICES ASSUME TypeInvariant, RolloutInvariant, pc # "idle"
               PROVE  Cardinality(Changed) <= IF stage = 0 THEN 0 ELSE TargetCount(stage)
    BY DEF BlastRadius
  <2>1. Changed \subseteq updated /\ updated \in SUBSET Servers
    BY DEF RolloutInvariant, RecordFits, Restored, Changed, TypeInvariant, TypeOK
  <2>2. /\ Cardinality(Changed) <= Cardinality(updated)
        /\ Cardinality(Changed) \in Nat /\ Cardinality(updated) \in Nat
    BY <2>1, ServerSets, FS_Subset, FS_CardinalityType
  <2>3. CASE stage = 0
    <3>1. updated = {}
      BY <2>3 DEF TypeInvariant, StageFits
    <3> QED BY <2>2, <2>3, <3>1, FS_EmptySet
  <2>4. CASE stage # 0
    <3>1. Cardinality(updated) <= TargetCount(stage)
      BY <2>4 DEF RolloutInvariant, CountFits
    <3>2. TargetCount(stage) \in Nat
      BY <2>4, ConfigType, StagesType DEF TypeInvariant, TypeOK
    <3> QED BY <2>2, <2>4, <3>1, <3>2
  <2> QED BY <2>3, <2>4
<1> QED BY <1>1, InvariantHolds, PTL

\* A completed deployment reached every server of the cluster.
THEOREM CompletionIsFull == Spec => []CompletedEverywhere
<1>1. RolloutInvariant => CompletedEverywhere
  BY DEF RolloutInvariant, EndFits
<1> QED BY <1>1, InvariantHolds, PTL

\* A rolled back or aborted deployment left no server in its scope changed.
THEOREM RollbackIsFull == Spec => []RolledBackRestores
<1>1. RolloutInvariant => RolledBackRestores
  BY DEF RolloutInvariant, EndFits
<1> QED BY <1>1, InvariantHolds, PTL

\* A deployment that did not fail leaves none of its servers in UPDATING.
THEOREM UpdatesAreFinished == Spec => []NoneLeftUpdating
<1>1. RolloutInvariant => NoneLeftUpdating
  BY DEF RolloutInvariant, EndFits
<1> QED BY <1>1, InvariantHolds, PTL

-----------------------------------------------------------------------------
(***************************************************************************)
(* Aborts.                                                                 *)
(***************************************************************************)
LEMMA LateNext ==
    ASSUME MayClear = FALSE, LateFits, [Next]_vars PROVE LateFits'
<1> USE DEF LateFits, world, record, deploymentState, loopState, callState, rest
<1>1. CASE UNCHANGED vars
  BY <1>1 DEF vars
<1>2. CASE Advance
  <2>1. UNCHANGED late
    BY <1>2 DEF Advance, Goto, Mark, HandleAbort, HandleRollback, HandleGovernanceBlock,
       StartBlocked, StartRaises, StartAllowed, StageAborted, StageProceeds, StageBlocked,
       StageOpens, CheckAborted, CheckPassed, StageDone, StageErrorAborts,
       StageErrorRollsBack, HealthPasses, HealthRetries, HealthFails, HealthFailureRollsBack,
       CompletionBlocked, CompletionRollsBack, StageCompletes, LastStageCompletes,
       WaitAborted, Sleep, WaitOver, Healed, RollbackBlocked, PlanStagedRecovery,
       IsolateRegion, RollbackEnds, UnexpectedError
  <2>2. UNCHANGED abort /\ (pc' = "install" => ~abort)
    BY <1>2 DEF Advance, Goto, Mark, HandleAbort, HandleRollback, HandleGovernanceBlock,
       StartBlocked, StartRaises, StartAllowed, StageAborted, StageProceeds, StageBlocked,
       StageOpens, CheckAborted, CheckPassed, StageDone, StageErrorAborts,
       StageErrorRollsBack, HealthPasses, HealthRetries, HealthFails, HealthFailureRollsBack,
       CompletionBlocked, CompletionRollsBack, StageCompletes, LastStageCompletes,
       WaitAborted, Sleep, WaitOver, Healed, RollbackBlocked, PlanStagedRecovery,
       IsolateRegion, RollbackEnds, UnexpectedError
  <2> QED BY <2>1, <2>2
<1>3. CASE StageAlreadyReached \/ SelectServers \/ Finish \/ RollbackStarts
  BY <1>3 DEF StageAlreadyReached, SelectServers, Finish, RollbackStarts
<1>4. ASSUME NEW s \in Servers, Install(s) PROVE LateFits'
  BY <1>4 DEF Install
<1>5. ASSUME NEW s \in Servers, Heal(s) \/ Revert(s) \/ Recover(s) PROVE LateFits'
  BY <1>5 DEF Heal, Revert, Recover
<1>6. ASSUME NEW r \in Regions, PlanRegionQuarantine(r) PROVE LateFits'
  BY <1>6 DEF PlanRegionQuarantine
<1>7. CASE Disturb
  <2>1. CASE SetAbort
    BY <2>1 DEF SetAbort
  <2>2. ~ClearAbort
    BY DEF ClearAbort
  <2>3. ASSUME NEW r \in Regions, QuarantineRegion(r) \/ ReleaseRegion(r) PROVE LateFits'
    BY <2>3 DEF QuarantineRegion, ReleaseRegion
  <2> QED BY <1>7, <2>1, <2>2, <2>3 DEF Disturb
<1>8. ASSUME NEW s \in Servers, NEW st \in ServerStatus \ {"updating"}, ChangeStatus(s, st)
      PROVE  LateFits'
  BY <1>8 DEF ChangeStatus
<1>9. ASSUME NEW s \in Servers, NEW v \in Versions, DriftBetween(s, v) PROVE LateFits'
  BY <1>9 DEF DriftBetween
<1>10. ASSUME NEW v \in Versions, Deploy(v) PROVE LateFits'
  BY <1>10 DEF Deploy
<1> QED
  BY <1>1, <1>2, <1>3, <1>4, <1>5, <1>6, <1>7, <1>8, <1>9, <1>10, StepCases

\* An abort nobody withdraws is followed by at most one more update, however
\* many servers the stage has left.
THEOREM AbortsArePrompt == (MayClear = FALSE) /\ Spec => []AbortIsPrompt
<1>1. Init => LateFits
  BY DEF Init, LateFits
<1>2. LateFits => AbortIsPrompt
  BY DEF LateFits, AbortIsPrompt
<1>3. CASE MayClear = FALSE
  <2>1. LateFits /\ [Next]_vars => LateFits'
    BY <1>3, LateNext
  <2> QED BY <1>1, <1>2, <2>1, PTL DEF Spec
<1> QED BY <1>3

-----------------------------------------------------------------------------
(***************************************************************************)
(* The engine implements CanaryRollout.                                    *)
(***************************************************************************)
Running == [s \in Servers |-> servers[s].cur]

LEMMA RolloutInit == Init => Rollout!Init
<1> SUFFICES ASSUME Init PROVE Rollout!Init
  OBVIOUS
<1>1. RolloutPhase = "idle"
  BY DEF Init, RolloutPhase, Resting
<1>2. target \in Versions /\ Running \in [Servers -> Versions] /\ before = Running
  BY ClusterAssumption DEF Init, GeneratedCluster, Running
<1>3. Scope = Servers
  BY DEF Init, Scope
<1> QED BY <1>1, <1>2, <1>3 DEF Rollout!Init, Running

\* A step that moves only the engine, or marks the deployment, is a stutter, a
\* turn of the rollout, or its end.
LEMMA AdvanceRefines ==
    ASSUME TypeInvariant, TypeInvariant', RolloutInvariant, RolloutInvariant', Advance
    PROVE  [Rollout!Next]_Rollout!rollout
<1>1. UNCHANGED <<target, before, Running, Scope>>
  BY AdvanceKeeps DEF record, Running, Scope
<1>2. CASE RolloutPhase' = RolloutPhase
  BY <1>1, <1>2 DEF Rollout!rollout, Running
<1>3. CASE RolloutPhase = "rolling" /\ RolloutPhase' = "reverting"
  BY <1>1, <1>3 DEF Rollout!GiveUp, Rollout!Next, Running
<1>4. CASE RolloutPhase \in {"rolling", "reverting"} /\ RolloutPhase' = "failed"
  BY <1>1, <1>4 DEF Rollout!Fail, Rollout!Next, Running
<1>5. CASE RolloutPhase = "reverting" /\ RolloutPhase' = "reverted"
  <2>1. pc' = "done" /\ status' \in {"rolled_back", "aborted"}
    BY <1>5 DEF RolloutPhase
  <2>2. \A s \in Scope : servers[s].cur = before[s]
    BY <1>1, <2>1, AdvanceKeeps DEF RolloutInvariant, EndFits, RolledBackRestores
  <2>3. \A s \in Scope : Running[s] = before[s]
    BY <2>2 DEF Running, Scope
  <2> QED BY <1>1, <1>5, <2>3 DEF Rollout!Settle, Rollout!Next, Running
<1>6. \/ RolloutPhase' = RolloutPhase
      \/ RolloutPhase = "rolling" /\ RolloutPhase' = "reverting"
      \/ RolloutPhase \in {"rolling", "reverting"} /\ RolloutPhase' = "failed"
      \/ RolloutPhase = "reverting" /\ RolloutPhase' = "reverted"
  <2> USE DEF RolloutPhase, StatusFits, IsTerminal, Place, Forward, Resting, Reverting, Goto,
          Mark, HandleAbort, HandleRollback, HandleGovernanceBlock, world, record,
          deploymentState, loopState, callState, rest
  <2>1. StatusFits /\ StatusFits'
    BY DEF RolloutInvariant
  <2>2. CASE StartBlocked \/ StartRaises \/ StartAllowed \/ StageAborted \/ StageProceeds
             \/ StageBlocked \/ StageOpens
    BY <2>1, <2>2 DEF StartBlocked, StartRaises, StartAllowed, StageAborted, StageProceeds,
                      StageBlocked, StageOpens
  <2>3. CASE CheckAborted \/ CheckPassed \/ StageDone \/ StageErrorAborts \/ StageErrorRollsBack
    BY <2>1, <2>3 DEF CheckAborted, CheckPassed, StageDone, StageErrorAborts,
                      StageErrorRollsBack
  <2>4. CASE HealthPasses \/ HealthRetries \/ HealthFails \/ HealthFailureRollsBack
             \/ CompletionBlocked \/ CompletionRollsBack \/ StageCompletes \/ LastStageCompletes
    BY <2>1, <2>4 DEF HealthPasses, HealthRetries, HealthFails, HealthFailureRollsBack,
                      CompletionBlocked, CompletionRollsBack, StageCompletes, LastStageCompletes
  <2>5. CASE WaitAborted \/ Sleep \/ WaitOver \/ Healed
    BY <2>1, <2>5 DEF WaitAborted, Sleep, WaitOver, Healed
  <2>6. CASE RollbackBlocked \/ PlanStagedRecovery \/ IsolateRegion \/ RollbackEnds
             \/ UnexpectedError
    BY <2>1, <2>6 DEF RollbackBlocked, PlanStagedRecovery, IsolateRegion, RollbackEnds,
                      UnexpectedError
  <2> QED BY <2>2, <2>3, <2>4, <2>5, <2>6 DEF Advance
<1> QED BY <1>2, <1>3, <1>4, <1>5, <1>6

LEMMA RolloutNext ==
    ASSUME TypeInvariant, TypeInvariant', RolloutInvariant, RolloutInvariant', [Next]_vars
    PROVE  [Rollout!Next]_Rollout!rollout
<1> USE DEF Resting, deploymentState, world, record, loopState, callState, rest
<1>t. /\ servers \in [Servers -> Server] /\ servers' \in [Servers -> Server]
      /\ StatusFits /\ StatusFits' /\ VersionsFit /\ VersionsFit' /\ CountFits'
  BY DEF TypeInvariant, TypeOK, RolloutInvariant
<1>1. CASE UNCHANGED vars
  BY <1>1 DEF vars, Rollout!rollout, RolloutPhase, Scope
<1>2. CASE Advance
  BY <1>2, AdvanceRefines
<1>3. CASE StageAlreadyReached \/ SelectServers \/ RollbackStarts
  <2>1. UNCHANGED <<target, before, servers, region>> /\ status' = status
    BY <1>3 DEF StageAlreadyReached, SelectServers, RollbackStarts
  <2>2. RolloutPhase' = RolloutPhase
    BY <1>3, <2>1 DEF StageAlreadyReached, SelectServers, RollbackStarts, RolloutPhase
  <2> QED BY <2>1, <2>2 DEF Rollout!rollout, Scope
<1>4. CASE Finish
  <2>1. UNCHANGED <<target, before, servers, region>> /\ status' = "completed" /\ pc = "finish"
        /\ pc' = "heal"
    BY <1>4 DEF Finish
  <2>2. RolloutPhase = "rolling" /\ RolloutPhase' = "complete"
    BY <1>t, <2>1 DEF RolloutPhase, StatusFits, Forward, Place, Reverting
  <2>3. \A s \in Servers : Running[s] = target
    BY <1>t, <2>1 DEF CountFits, VersionsFit, Carried, Running
  <2> QED BY <2>1, <2>2, <2>3 DEF Rollout!Complete, Rollout!Next, Running, Scope
<1>5. ASSUME NEW s \in Servers, Install(s) PROVE [Rollout!Next]_Rollout!rollout
  <2>1. UNCHANGED <<target, before, region, status>> /\ pc = "install" /\ pc' = "update"
    BY <1>5 DEF Install
  <2>2. RolloutPhase = "rolling" /\ RolloutPhase' = "rolling"
    BY <1>t, <2>1 DEF RolloutPhase, StatusFits, Forward, Place, Reverting
  <2>3. Running' = [Running EXCEPT ![s] = target]
    BY <1>t, <1>5 DEF Install, UpdateServerVersion, Running
  <2> QED BY <2>1, <2>2, <2>3 DEF Rollout!Carry, Rollout!Next, Running, Scope
<1>6. ASSUME NEW s \in Servers, Heal(s) PROVE [Rollout!Next]_Rollout!rollout
  <2>1. UNCHANGED <<target, before, region, status, pc>>
    BY <1>6 DEF Heal
  <2>2. Running' = Running
    BY <1>t, <1>6, StatusOnly DEF Heal, Running
  <2> QED BY <2>1, <2>2 DEF Rollout!rollout, RolloutPhase, Running, Scope
<1>7. ASSUME NEW s \in Servers, Revert(s) \/ Recover(s) PROVE [Rollout!Next]_Rollout!rollout
  <2>1. UNCHANGED <<target, before, region, status, pc>> /\ pc \in {"revert", "recover"}
        /\ Carried(s)
    BY <1>t, <1>7 DEF Revert, Recover, VersionsFit
  <2>2. RolloutPhase = "reverting" /\ RolloutPhase' = "reverting"
    BY <1>t, <2>1 DEF RolloutPhase, StatusFits, Reverting
  <2>3. servers'[s].cur = before[s] /\ \A t \in Servers \ {s} : servers'[t] = servers[t]
    BY <1>7, <2>1, CarriedReverts DEF Revert, Recover, TypeInvariant
  <2>4. Running' = [Running EXCEPT ![s] = before[s]]
    BY <1>t, <2>3 DEF Running
  <2> QED BY <2>1, <2>2, <2>4 DEF Rollout!Drop, Rollout!Next, Running, Scope
<1>8. ASSUME NEW r \in Regions, PlanRegionQuarantine(r) PROVE [Rollout!Next]_Rollout!rollout
  <2>1. UNCHANGED <<target, before, servers, status>> /\ pc = "plan" /\ pc' = "isolate"
    BY <1>8 DEF PlanRegionQuarantine
  <2>2. RolloutPhase = "reverting" /\ RolloutPhase' = "reverting"
    BY <1>t, <2>1 DEF RolloutPhase, StatusFits, Reverting
  <2>3. Scope' \in SUBSET Servers /\ HasQuarantine
    BY <2>1 DEF RolloutInvariant, ScopeFits, Scope
  <2> QED BY <2>1, <2>2, <2>3 DEF Rollout!Isolate, Rollout!Next, Running, Scope
<1>9. CASE Disturb
  BY <1>9, DisturbKeeps DEF Rollout!rollout, RolloutPhase, Scope
<1>10. ASSUME NEW s \in Servers, NEW st \in ServerStatus \ {"updating"}, ChangeStatus(s, st)
       PROVE  [Rollout!Next]_Rollout!rollout
  <2>1. UNCHANGED <<target, before, region, status, pc>>
    BY <1>10 DEF ChangeStatus
  <2>2. Running' = Running
    BY <1>t, <1>10, StatusOnly DEF ChangeStatus, Running
  <2> QED BY <2>1, <2>2 DEF Rollout!rollout, RolloutPhase, Running, Scope
<1>11. ASSUME NEW s \in Servers, NEW v \in Versions, DriftBetween(s, v)
       PROVE  [Rollout!Next]_Rollout!rollout
  <2>1. UNCHANGED <<target, before, region, status>> /\ pc \in Resting /\ pc' = "idle"
    BY <1>11 DEF DriftBetween
  <2>2. RolloutPhase \notin {"rolling", "reverting"} /\ RolloutPhase' = "idle"
    BY <2>1 DEF RolloutPhase
  <2>3. Running' = [Running EXCEPT ![s] = v]
    <3>1. servers[s] \in Server /\ servers' = [servers EXCEPT ![s].cur = v]
      BY <1>t, <1>11 DEF DriftBetween, OverrideVersion
    <3> QED BY <1>t, <3>1 DEF Running, Server
  <2> QED BY <2>1, <2>2, <2>3 DEF Rollout!Drift, Rollout!Next, Running, Scope
<1>12. ASSUME NEW v \in Versions, Deploy(v) PROVE [Rollout!Next]_Rollout!rollout
  <2>1. /\ target' \in Versions /\ before' = Running /\ UNCHANGED servers
        /\ region' = NoRegion /\ status' = "pending" /\ pc \in Resting /\ pc' = "start"
    BY <1>12 DEF Deploy, Running
  <2>2. RolloutPhase \notin {"rolling", "reverting"} /\ RolloutPhase' = "rolling"
    BY <2>1 DEF RolloutPhase
  <2>3. Scope' = Servers
    BY <2>1 DEF Scope
  <2> QED BY <2>1, <2>2, <2>3 DEF Rollout!Begin, Rollout!Next, Running
<1> QED
  BY <1>1, <1>2, <1>3, <1>4, <1>5, <1>6, <1>7, <1>8, <1>9, <1>10, <1>11, <1>12, StepCases

\* Whatever the engine and the threads around it do, the versions on the
\* servers behave as a canary rollout: it completes everywhere, or it is
\* reverted everywhere in its scope, or it fails.
THEOREM EngineIsRollout == Spec => ImplementsRollout
<1>1. TypeInvariant /\ RolloutInvariant /\ TypeInvariant' /\ RolloutInvariant' /\ [Next]_vars
        => [Rollout!Next]_Rollout!rollout
  BY RolloutNext
<1> QED
  BY <1>1, RolloutInit, InvariantHolds, PTL DEF Spec, ImplementsRollout, Rollout!Spec

-----------------------------------------------------------------------------
(***************************************************************************)
(* What the engine's liveness rests on: every step of its thread reduces   *)
(* the effort that is left, and none passes an abort by.                   *)
(***************************************************************************)
\* The places in the loop over the stages.
Looping == Place \ (Resting \cup Reverting \cup {"start", "finish", "heal"})

LEMMA EffortType ==
    ASSUME TypeInvariant
    PROVE  /\ RoundsLeft \in Nat /\ PlacesLeft \in Nat /\ WorkLeft \in Nat
           /\ Cardinality(todo) \in Nat /\ IsFiniteSet(todo)
           /\ pc \in Looping => RoundsLeft = Len(Stages) - stage + 1 /\ RoundsLeft > 0
           /\ pc = "start" => RoundsLeft = Len(Stages) + 1
           /\ pc \notin Looping \cup {"start"} => RoundsLeft = 0
<1>1. stage \in 0..Len(Stages) /\ Len(Stages) \in Nat /\ pc \in Place
  BY StagesType DEF TypeInvariant, TypeOK
<1>2. /\ pc \in Looping => RoundsLeft = Len(Stages) - stage + 1
      /\ pc = "start" => RoundsLeft = Len(Stages) + 1
      /\ pc \notin Looping \cup {"start"} => RoundsLeft = 0
  BY <1>1 DEF RoundsLeft, Looping, Resting, Reverting, Place
<1>3. RoundsLeft \in Nat /\ (pc \in Looping => RoundsLeft > 0)
  BY <1>1, <1>2
<1>4. PlacesLeft \in Nat
  BY DEF PlacesLeft
<1>5. IsFiniteSet(todo) /\ Cardinality(todo) \in Nat
  BY EngineAssumption, FS_Subset, FS_CardinalityType DEF TypeInvariant, TypeOK
<1>6. retries \in 0..MaxRetries /\ MaxRetries \in Nat /\ slept \in Nat /\ StageDelay \in Nat
  BY ConfigType DEF TypeInvariant, TypeOK
<1>7. WorkLeft \in Nat
  BY <1>5, <1>6 DEF WorkLeft
<1> QED BY <1>2, <1>3, <1>4, <1>5, <1>7

LEMMA EffortBounds ==
    TypeInvariant =>
        /\ RoundsLeft \in Nat /\ PlacesLeft \in Nat /\ WorkLeft \in Nat
        /\ pc \in Looping => RoundsLeft = Len(Stages) - stage + 1
        /\ pc \notin Looping \cup {"start"} => RoundsLeft = 0
<1> QED BY EffortType

LEMMA Lexicographic ==
    ASSUME NEW a \in Nat, NEW b \in Nat, NEW c \in Nat, NEW x \in Nat, NEW y \in Nat, NEW z \in Nat,
           a < x \/ (a = x /\ b < y) \/ (a = x /\ b = y /\ c < z)
    PROVE  Less(<<a, b, c>>, <<x, y, z>>)
<1> PICK e, f : e = <<a, b, c>> /\ f = <<x, y, z>>
  OBVIOUS
<1>1. e \in Nat \X Nat \X Nat
  OBVIOUS
<1>2. e[1] = a /\ e[2] = b /\ e[3] = c /\ f[1] = x /\ f[2] = y /\ f[3] = z
  OBVIOUS
<1>3. \E i \in 1..3 : e[i] < f[i] /\ \A j \in 1..(i - 1) : e[j] = f[j]
  <2>1. CASE a < x
    <3>1. 1 \in 1..3 /\ \A j \in 1..(1 - 1) : e[j] = f[j]
      OBVIOUS
    <3> QED BY <1>2, <2>1, <3>1
  <2>2. CASE a = x /\ b < y
    <3>1. 2 \in 1..3 /\ \A j \in 1..(2 - 1) : j = 1
      OBVIOUS
    <3> QED BY <1>2, <2>2, <3>1
  <2>3. CASE a = x /\ b = y /\ c < z
    <3>1. 3 \in 1..3 /\ \A j \in 1..(3 - 1) : j = 1 \/ j = 2
      OBVIOUS
    <3> QED BY <1>2, <2>3, <3>1
  <2> QED BY <2>1, <2>2, <2>3
<1>4. Less(e, f)
  BY <1>1, <1>3 DEF Less
<1> QED BY <1>4

\* On to the next place of a round, out of the loop, into another round, and on after
\* the loop.
LEMMA PlacesFollow ==
    ASSUME Engine
    PROVE  \/ /\ stage' = stage
              /\ <<pc, pc'>> \in {<<"stage", "gate">>, <<"gate", "select">>, <<"select", "health">>,
                     <<"select", "update">>, <<"update", "stage_error">>, <<"update", "health">>,
                     <<"health", "complete_gate">>, <<"health", "unhealthy">>,
                     <<"complete_gate", "wait">>}
           \/ /\ pc \in Looping \cup {"start"} /\ stage' = stage
              /\ pc' \in {"rollback_gate", "finish", "done"}
           \/ pc \in {"start", "wait"} /\ pc' = "stage"
              /\ stage' = IF pc = "start" THEN 1 ELSE stage + 1
           \/ <<pc, pc'>> \in {<<"finish", "heal">>, <<"heal", "done">>, <<"rollback_gate", "done">>,
                     <<"rollback_gate", "plan">>, <<"rollback_gate", "revert">>,
                     <<"plan", "recover">>, <<"plan", "isolate">>, <<"isolate", "recover">>,
                     <<"revert", "done">>, <<"recover", "done">>}
           \/ CheckPassed \/ HealthRetries \/ Sleep
           \/ \E s \in Servers : Install(s) \/ Heal(s) \/ Revert(s) \/ Recover(s)
<1> USE DEF world, record, deploymentState, loopState, callState, rest, Goto, Mark, HandleAbort,
        HandleRollback, HandleGovernanceBlock, Looping, Place, Resting, Reverting
<1>1. CASE StartBlocked \/ StartRaises \/ StartAllowed
  BY <1>1 DEF StartBlocked, StartRaises, StartAllowed
<1>2. CASE StageAborted \/ StageProceeds \/ StageBlocked \/ StageOpens
  BY <1>2 DEF StageAborted, StageProceeds, StageBlocked, StageOpens
<1>3. CASE StageAlreadyReached \/ SelectServers \/ CheckAborted \/ StageDone
  BY <1>3 DEF StageAlreadyReached, SelectServers, CheckAborted, StageDone
<1>4. CASE StageErrorAborts \/ StageErrorRollsBack
  BY <1>4 DEF StageErrorAborts, StageErrorRollsBack
<1>5. CASE HealthPasses \/ HealthFails \/ HealthFailureRollsBack
  BY <1>5 DEF HealthPasses, HealthFails, HealthFailureRollsBack
<1>6. CASE CompletionBlocked \/ CompletionRollsBack \/ StageCompletes \/ LastStageCompletes
  BY <1>6 DEF CompletionBlocked, CompletionRollsBack, StageCompletes, LastStageCompletes
<1>7. CASE WaitAborted \/ WaitOver
  BY <1>7 DEF WaitAborted, WaitOver
<1>8. CASE Finish \/ Healed \/ RollbackBlocked \/ RollbackStarts
  BY <1>8 DEF Finish, Healed, RollbackBlocked, RollbackStarts
<1>9. CASE PlanStagedRecovery \/ IsolateRegion \/ \E r \in Regions : PlanRegionQuarantine(r)
  BY <1>9 DEF PlanStagedRecovery, IsolateRegion, PlanRegionQuarantine
<1>10. CASE RollbackEnds \/ UnexpectedError
  BY <1>10 DEF RollbackEnds, UnexpectedError
<1> QED BY <1>1, <1>2, <1>3, <1>4, <1>5, <1>6, <1>7, <1>8, <1>9, <1>10 DEF Engine

LEMMA EffortFalls ==
    ASSUME TypeInvariant, TypeInvariant', Engine, ~UNCHANGED vars
    PROVE  Less(Effort', Effort)
<1> DEFINE Falls == \/ RoundsLeft' < RoundsLeft
                    \/ RoundsLeft' = RoundsLeft /\ PlacesLeft' < PlacesLeft
                    \/ RoundsLeft' = RoundsLeft /\ PlacesLeft' = PlacesLeft /\ WorkLeft' < WorkLeft
<1>1. /\ RoundsLeft \in Nat /\ PlacesLeft \in Nat /\ WorkLeft \in Nat
      /\ pc \in Looping => RoundsLeft = Len(Stages) - stage + 1 /\ RoundsLeft > 0
      /\ pc = "start" => RoundsLeft = Len(Stages) + 1
      /\ pc \notin Looping \cup {"start"} => RoundsLeft = 0
      /\ Cardinality(todo) \in Nat /\ IsFiniteSet(todo)
  BY EffortType
<1>2. /\ RoundsLeft' \in Nat /\ PlacesLeft' \in Nat /\ WorkLeft' \in Nat
      /\ pc' \in Looping => RoundsLeft' = Len(Stages) - stage' + 1
      /\ pc' \notin Looping \cup {"start"} => RoundsLeft' = 0
  <2>1. (/\ RoundsLeft \in Nat /\ PlacesLeft \in Nat /\ WorkLeft \in Nat
         /\ pc \in Looping => RoundsLeft = Len(Stages) - stage + 1
         /\ pc \notin Looping \cup {"start"} => RoundsLeft = 0)'
    BY EffortBounds, PTL
  <2> QED BY <2>1
<1>3. stage \in Nat /\ stage' \in Nat /\ Len(Stages) \in Nat
  BY StagesType DEF TypeInvariant, TypeOK
<1>4. ASSUME stage' = stage,
             <<pc, pc'>> \in {<<"stage", "gate">>, <<"gate", "select">>, <<"select", "health">>,
                <<"select", "update">>, <<"update", "stage_error">>, <<"update", "health">>,
                <<"health", "complete_gate">>, <<"health", "unhealthy">>,
                <<"complete_gate", "wait">>}
      PROVE  Falls
  <2>1. pc \in Looping /\ pc' \in Looping
    BY <1>4 DEF Looping, Place, Resting, Reverting
  <2>2. RoundsLeft' = RoundsLeft
    BY <1>1, <1>2, <1>4, <2>1
  <2>3. PlacesLeft' < PlacesLeft
    BY <1>4 DEF PlacesLeft
  <2> QED BY <2>2, <2>3
<1>5. ASSUME pc \in Looping \cup {"start"}, pc' \in {"rollback_gate", "finish", "done"}
      PROVE  Falls
  <2>1. RoundsLeft > 0
    BY <1>1, <1>3, <1>5
  <2>2. pc' \notin Looping \cup {"start"}
    BY <1>5 DEF Looping, Resting, Reverting
  <2> QED BY <1>2, <2>1, <2>2
<1>6. ASSUME pc \in {"start", "wait"}, pc' = "stage",
             stage' = IF pc = "start" THEN 1 ELSE stage + 1
      PROVE  Falls
  <2>1. pc' \in Looping /\ (pc = "wait" => pc \in Looping)
    BY <1>6 DEF Looping, Place, Resting, Reverting
  <2>2. RoundsLeft' = Len(Stages) - stage' + 1
    BY <1>2, <2>1
  <2>3. RoundsLeft = IF pc = "start" THEN Len(Stages) + 1 ELSE Len(Stages) - stage + 1
    BY <1>1, <1>6, <2>1
  <2> QED BY <1>3, <1>6, <2>2, <2>3
<1>7. ASSUME <<pc, pc'>> \in {<<"finish", "heal">>, <<"heal", "done">>, <<"rollback_gate", "done">>,
                <<"rollback_gate", "plan">>, <<"rollback_gate", "revert">>,
                <<"plan", "recover">>, <<"plan", "isolate">>, <<"isolate", "recover">>,
                <<"revert", "done">>, <<"recover", "done">>}
      PROVE  Falls
  <2>1. pc \notin Looping \cup {"start"} /\ pc' \notin Looping \cup {"start"}
    BY <1>7 DEF Looping, Resting, Reverting
  <2>2. RoundsLeft' = RoundsLeft
    BY <1>1, <1>2, <2>1
  <2>3. PlacesLeft' < PlacesLeft
    BY <1>7 DEF PlacesLeft
  <2> QED BY <2>2, <2>3
\* The work at a place.
<1>8. ASSUME NEW s \in todo, todo' = todo \ {s}
      PROVE  Cardinality(todo)' = Cardinality(todo) - 1 /\ Cardinality(todo) > 0
  <2>1. Cardinality(todo \ {s}) = Cardinality(todo) - 1
    BY <1>1, <1>8, FS_RemoveElement
  <2>2. IsFiniteSet(todo \ {s})
    BY <1>1, FS_Subset
  <2>3. Cardinality(todo \ {s}) \in Nat
    BY <2>2, FS_CardinalityType
  <2> QED BY <1>1, <1>8, <2>1, <2>3
<1>9. ASSUME pc' = pc, stage' = stage PROVE RoundsLeft' = RoundsLeft /\ PlacesLeft' = PlacesLeft
  BY <1>9 DEF RoundsLeft, PlacesLeft
<1> USE DEF world, record, deploymentState, loopState, callState, rest, Goto
<1>10. ASSUME CheckPassed PROVE Falls
  <2>1. pc = "update" /\ pc' = "install" /\ stage' = stage /\ todo' = todo
    BY <1>10 DEF CheckPassed
  <2>2. RoundsLeft' = RoundsLeft /\ PlacesLeft' = PlacesLeft
    BY <2>1 DEF RoundsLeft, PlacesLeft, Resting, Reverting
  <2>3. WorkLeft = 2 * Cardinality(todo) + 1 /\ WorkLeft' = 2 * Cardinality(todo)
    BY <2>1 DEF WorkLeft
  <2>4. WorkLeft' < WorkLeft
    <3> PICK n \in Nat : n = Cardinality(todo)
      BY <1>1
    <3> QED BY <2>3
  <2> QED BY <2>2, <2>4
<1>11. ASSUME NEW s \in Servers, Install(s) PROVE Falls
  <2>1. pc = "install" /\ pc' = "update" /\ stage' = stage /\ s \in todo /\ todo' = todo \ {s}
    BY <1>11 DEF Install
  <2>2. RoundsLeft' = RoundsLeft /\ PlacesLeft' = PlacesLeft
    BY <2>1 DEF RoundsLeft, PlacesLeft, Resting, Reverting
  <2>3. WorkLeft = 2 * Cardinality(todo) /\ WorkLeft' = 2 * Cardinality(todo)' + 1
    BY <2>1 DEF WorkLeft
  <2>4. Cardinality(todo)' = Cardinality(todo) - 1
    BY <1>8, <2>1
  <2> QED BY <1>1, <2>2, <2>3, <2>4
<1>12. ASSUME HealthRetries PROVE Falls
  <2>1. pc = "health" /\ pc' = pc /\ stage' = stage /\ retries' = retries + 1
    BY <1>12 DEF HealthRetries
  <2>2. WorkLeft = MaxRetries - retries /\ WorkLeft' = MaxRetries - retries'
    BY <2>1 DEF WorkLeft
  <2>3. retries \in Nat /\ MaxRetries \in Nat
    BY ConfigType DEF TypeInvariant, TypeOK
  <2>4. WorkLeft' < WorkLeft
    BY <2>1, <2>2, <2>3
  <2> QED BY <1>9, <2>1, <2>4
<1>13. ASSUME Sleep PROVE Falls
  <2>1. pc = "wait" /\ pc' = pc /\ stage' = stage /\ slept < StageDelay
        /\ slept' = slept + Increment
    BY <1>13 DEF Sleep
  <2>2. slept \in Nat /\ StageDelay \in Nat /\ Increment \in Nat
    BY ConfigType DEF TypeInvariant, TypeOK, Increment
  <2>3. Increment # 0
    BY <1>13, <2>2 DEF Sleep, vars
  <2>4. /\ WorkLeft = StageDelay - slept
        /\ WorkLeft' = IF slept' < StageDelay THEN StageDelay - slept' ELSE 0
    BY <2>1 DEF WorkLeft
  <2>5. WorkLeft' < WorkLeft
    <3> HIDE DEF Increment
    <3>1. CASE slept' < StageDelay
      BY <2>1, <2>2, <2>3, <2>4, <3>1
    <3>2. CASE ~(slept' < StageDelay)
      BY <2>1, <2>2, <2>4, <3>2
    <3> QED BY <3>1, <3>2
  <2> QED BY <1>9, <2>1, <2>5
<1>14. ASSUME NEW s \in Servers, Heal(s) \/ Revert(s) \/ Recover(s) PROVE Falls
  <2>1. pc \in {"heal", "revert", "recover"} /\ pc' = pc /\ stage' = stage /\ s \in todo
        /\ todo' = todo \ {s}
    BY <1>14 DEF Heal, Revert, Recover
  <2>2. WorkLeft = Cardinality(todo) /\ WorkLeft' = Cardinality(todo)'
    BY <2>1 DEF WorkLeft
  <2>3. Cardinality(todo)' = Cardinality(todo) - 1
    BY <1>8, <2>1
  <2> QED BY <1>1, <1>9, <2>1, <2>2, <2>3
<1>15. Falls
  <2> DEFINE Moves(S) == <<pc, pc'>> \in S
             Round == {<<"stage", "gate">>, <<"gate", "select">>, <<"select", "health">>,
                <<"select", "update">>, <<"update", "stage_error">>, <<"update", "health">>,
                <<"health", "complete_gate">>, <<"health", "unhealthy">>,
                <<"complete_gate", "wait">>}
             After == {<<"finish", "heal">>, <<"heal", "done">>, <<"rollback_gate", "done">>,
                <<"rollback_gate", "plan">>, <<"rollback_gate", "revert">>,
                <<"plan", "recover">>, <<"plan", "isolate">>, <<"isolate", "recover">>,
                <<"revert", "done">>, <<"recover", "done">>}
  <2>1. CASE stage' = stage /\ Moves(Round)
    BY <1>4, <2>1
  <2>2. CASE pc \in Looping \cup {"start"} /\ pc' \in {"rollback_gate", "finish", "done"}
    BY <1>5, <2>2
  <2>3. CASE pc \in {"start", "wait"} /\ pc' = "stage"
             /\ stage' = IF pc = "start" THEN 1 ELSE stage + 1
    BY <1>6, <2>3
  <2>4. CASE Moves(After)
    BY <1>7, <2>4
  <2>5. \/ stage' = stage /\ Moves(Round)
        \/ pc \in Looping \cup {"start"} /\ pc' \in {"rollback_gate", "finish", "done"}
        \/ pc \in {"start", "wait"} /\ pc' = "stage"
           /\ stage' = IF pc = "start" THEN 1 ELSE stage + 1
        \/ Moves(After)
        \/ CheckPassed \/ HealthRetries \/ Sleep
        \/ \E s \in Servers : Install(s) \/ Heal(s) \/ Revert(s) \/ Recover(s)
    BY PlacesFollow
  <2> HIDE DEF Falls, Moves, Round, After
  <2>6. CASE \E s \in Servers : Install(s) \/ Heal(s) \/ Revert(s) \/ Recover(s)
    BY <1>11, <1>14, <2>6
  <2> QED BY <1>10, <1>12, <1>13, <2>1, <2>2, <2>3, <2>4, <2>5, <2>6
<1> QED BY <1>1, <1>2, <1>15, Lexicographic DEF Effort

\* Health checks, retries, checkpoints and aborts lead deploy() nowhere but on, for
\* every cluster, stage list and configuration: with its thread scheduled and a wait
\* that passes time, it returns.
THEOREM DeployWindsDown == Spec => EngineWindsDown
<1>1. ASSUME TypeInvariant, TypeInvariant', [Next]_vars
      PROVE  [/\ Engine => Less(Effort', Effort)
              /\ Environment => Effort' = Effort]_vars
  <2> SUFFICES ASSUME ~UNCHANGED vars PROVE /\ Engine => Less(Effort', Effort)
                                            /\ Environment => Effort' = Effort
    OBVIOUS
  <2>1. Engine => Less(Effort', Effort)
    BY <1>1, EffortFalls
  <2>2. ASSUME Environment, pc' = pc, UNCHANGED <<stage, todo, retries, slept>>
        PROVE  Effort' = Effort
    BY <2>2 DEF Effort, RoundsLeft, PlacesLeft, WorkLeft
  <2>3. ASSUME Environment PROVE Effort' = Effort
    <3> USE DEF world, record, deploymentState, loopState, callState, rest
    <3>1. CASE SetAbort \/ ClearAbort
      BY <2>2, <2>3, <3>1 DEF SetAbort, ClearAbort
    <3>2. CASE \E s \in Servers, st \in ServerStatus \ {"updating"} : ChangeStatus(s, st)
      BY <2>2, <2>3, <3>2 DEF ChangeStatus
    <3>3. CASE \E r \in Regions : QuarantineRegion(r) \/ ReleaseRegion(r)
      BY <2>2, <2>3, <3>3 DEF QuarantineRegion, ReleaseRegion
    <3>4. CASE \E s \in Servers, v \in Versions : DriftBetween(s, v)
      <4>1. pc \in Resting /\ pc' \in Resting
        BY <3>4 DEF DriftBetween, Resting
      <4>2. RoundsLeft = 0 /\ RoundsLeft' = 0 /\ PlacesLeft = 0 /\ PlacesLeft' = 0
            /\ WorkLeft = 0 /\ WorkLeft' = 0
        BY <4>1 DEF RoundsLeft, PlacesLeft, WorkLeft, Resting
      <4> QED BY <4>2 DEF Effort
    <3> QED BY <2>3, <3>1, <3>2, <3>3, <3>4 DEF Environment
  <2> QED BY <2>1, <2>3
<1> QED BY <1>1, TypeInit, TypeNext, PTL DEF Spec, EngineWindsDown

LEMMA AbortsWait ==
    ASSUME StatusFits, [Next]_vars, pc \notin Resting
    PROVE  /\ AbortAwaits /\ abort' => AbortAwaits' \/ Stopped'
           /\ Stopped => Stopped'
<1> USE DEF AbortAwaits, Stopped, StatusFits, Forward, Place, Resting, Reverting, world, record,
        deploymentState, loopState, callState, rest
<1>1. CASE UNCHANGED vars
  BY <1>1 DEF vars
<1>2. CASE Advance
  <2> USE DEF Goto, Mark, HandleAbort, HandleRollback, HandleGovernanceBlock
  <2>1. CASE StartBlocked \/ StartRaises \/ StartAllowed
    BY <2>1 DEF StartBlocked, StartRaises, StartAllowed
  <2>2. CASE StageAborted \/ StageProceeds \/ StageBlocked \/ StageOpens
    BY <2>2 DEF StageAborted, StageProceeds, StageBlocked, StageOpens
  <2>3. CASE CheckAborted \/ CheckPassed \/ StageDone \/ StageErrorAborts \/ StageErrorRollsBack
    BY <2>3 DEF CheckAborted, CheckPassed, StageDone, StageErrorAborts, StageErrorRollsBack
  <2>4. CASE HealthPasses \/ HealthRetries \/ HealthFails \/ HealthFailureRollsBack
    BY <2>4 DEF HealthPasses, HealthRetries, HealthFails, HealthFailureRollsBack
  <2>5. CASE CompletionBlocked \/ CompletionRollsBack \/ StageCompletes \/ LastStageCompletes
    BY <2>5 DEF CompletionBlocked, CompletionRollsBack, StageCompletes, LastStageCompletes
  <2>6. CASE WaitAborted \/ Sleep \/ WaitOver \/ Healed
    BY <2>6 DEF WaitAborted, Sleep, WaitOver, Healed
  <2>7. CASE RollbackBlocked \/ PlanStagedRecovery \/ IsolateRegion \/ RollbackEnds
             \/ UnexpectedError
    BY <2>7 DEF RollbackBlocked, PlanStagedRecovery, IsolateRegion, RollbackEnds, UnexpectedError
  <2> QED BY <1>2, <2>1, <2>2, <2>3, <2>4, <2>5, <2>6, <2>7 DEF Advance
<1>3. CASE StageAlreadyReached \/ SelectServers \/ Finish \/ RollbackStarts
  BY <1>3 DEF StageAlreadyReached, SelectServers, Finish, RollbackStarts
<1>4. CASE \E s \in Servers : Install(s) \/ Heal(s) \/ Revert(s) \/ Recover(s)
  BY <1>4 DEF Install, Heal, Revert, Recover
<1>5. CASE \E r \in Regions : PlanRegionQuarantine(r)
  BY <1>5 DEF PlanRegionQuarantine
<1>6. CASE Disturb
  BY <1>6, DisturbKeeps
<1>7. CASE \E s \in Servers, st \in ServerStatus \ {"updating"} : ChangeStatus(s, st)
  BY <1>7 DEF ChangeStatus
<1>8. CASE \/ \E s \in Servers, v \in Versions : DriftBetween(s, v)
           \/ \E v \in Versions : Deploy(v)
  BY <1>8 DEF DriftBetween, Deploy
<1> QED BY <1>1, <1>2, <1>3, <1>4, <1>5, <1>6, <1>7, <1>8, StepCases

\* Between an abort raised before the last stage is opened and the end of deploy(),
\* there is always a place left at which the engine sees it; and nothing revives a
\* deployment that was stopped.
THEOREM AbortsAreAwaited == Spec => AbortIsNotPassed
<1>1. ASSUME StatusFits, [Next]_vars
      PROVE  [pc \notin Resting =>
                 /\ AbortAwaits /\ abort' => AbortAwaits' \/ Stopped'
                 /\ Stopped => Stopped']_vars
  BY <1>1, AbortsWait
<1>2. TypeInvariant /\ RolloutInvariant => StatusFits
  BY DEF RolloutInvariant
<1> QED BY <1>1, <1>2, InvariantHolds, PTL DEF Spec, AbortIsNotPassed

=============================================================================
