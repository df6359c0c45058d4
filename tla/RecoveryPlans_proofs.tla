------------------------- MODULE RecoveryPlans_proofs -------------------------
(***************************************************************************)
(* Proofs about recovery plans, for any number of plans of one deployment  *)
(* on any finite cluster, with any number of changed statuses.             *)
(***************************************************************************)
EXTENDS RecoveryPlans, FiniteSetTheorems, SequenceTheorems, TLAPS

(***************************************************************************)
(* The inductive invariant.  First, what a plan's place says about its     *)
(* locals.                                                                 *)
(***************************************************************************)
FrameFits(p) ==
    /\ plan[p].pc = "batch" =>
          /\ plan[p].index < Len(plan[p].steps)
          /\ plan[p].left \cup plan[p].undone \subseteq Current(p).on
          /\ plan[p].left \cap plan[p].undone = {}
    /\ plan[p].pc # "batch" => plan[p].left = {} /\ plan[p].undone = {}

FramesFit == \A p \in Plans : FrameFits(p)

(***************************************************************************)
(* Then what has become of a server: never installed, on the target, or    *)
(* rolled back; and how the deployment's record says so.                   *)
(***************************************************************************)
Fresh(s) == servers[s].cur = InitialVersion /\ servers[s].prev = NoVersion

Deployed(s) ==
    /\ servers[s].cur = Target /\ servers[s].prev = InitialVersion
    /\ servers[s].last = "deploy"

Reverted(s) ==
    /\ servers[s].cur = InitialVersion /\ servers[s].prev # NoVersion
    /\ servers[s].last = "rollback"

RecordFits ==
    /\ \A s \in Servers : Fresh(s) \/ Deployed(s) \/ Reverted(s)
    /\ \A s \in Servers : Deployed(s) => s \in updated \cup installed
    /\ \A s \in pending : Fresh(s)
    /\ \A s \in updated \cup installed : ~Fresh(s)
    /\ updated \cap installed = {}

(***************************************************************************)
(* And how much of its work a plan has done.                               *)
(***************************************************************************)
\* The engine will not record this server any more, for it has done so.
Behind(s) == ~Fresh(s) /\ s \notin installed

TargetsFit(p) == \A s \in Targets(p) : Behind(s)

DoneFits(p) == \A i \in 1..plan[p].index : \A s \in plan[p].steps[i].on : Restored(s)

BatchFits(p) ==
    plan[p].pc = "batch" =>
        \A s \in Current(p).on \ plan[p].left :
            /\ servers[s].cur = InitialVersion
            /\ s \notin plan[p].undone => s \notin updated

EndFits(p) == plan[p].status = "completed" => plan[p].index = Len(plan[p].steps)

Scope(p) ==
    CASE plan[p].strategy = "staged_recovery" -> Servers
      [] plan[p].strategy = "region_quarantine" -> InRegion(plan[p].region)
      [] OTHER -> {}

ScopeFits(p) == updated \cap Scope(p) \subseteq Targets(p) \cup plan[p].since

PlanFits(p) ==
    TargetsFit(p) /\ DoneFits(p) /\ BatchFits(p) /\ EndFits(p) /\ ScopeFits(p)

RecoveryInvariant == RecordFits /\ \A p \in Plans : PlanFits(p)

-----------------------------------------------------------------------------
(***************************************************************************)
(* What generate_plan puts into a plan.                                    *)
(***************************************************************************)
\* An ordering of a finite set names every element of it.
LEMMA OrderingIsOnto ==
    ASSUME NEW ids \in SUBSET Servers, NEW q \in SetToSeqs(ids)
    PROVE  /\ q \in Seq(ids) /\ DOMAIN q = 1..Len(q)
           /\ \A s \in ids : \E i \in 1..Len(q) : q[i] = s
<1> DEFINE n == Cardinality(ids)
<1>1. IsFiniteSet(ids) /\ n \in Nat
  BY RecoveryAssumption, FS_Subset, FS_CardinalityType
<1>2. /\ q \in [1..n -> ids]
      /\ \A i, j \in 1..n : i # j => q[i] # q[j]
  BY DEF SetToSeqs
<1>3. q \in Injection(1..n, ids)
  BY <1>2 DEF Injection, IsInjective
<1>4. IsFiniteSet(1..n) /\ Cardinality(1..n) = n
  BY <1>1, FS_Interval
<1>5. q \in Surjection(1..n, ids)
  BY <1>1, <1>3, <1>4, FS_Injection
<1>6. q \in Seq(ids) /\ DOMAIN q = 1..n /\ Len(q) = n
  BY <1>1, <1>2, IsASeq, LenProperties
<1> QED BY <1>5, <1>6 DEF Surjection

LEMMA RollbackIsStep ==
    ASSUME NEW ids \in SUBSET Servers
    PROVE  Rollback(ids) \in Step /\ Rollback(ids).on = ids
  BY DEF Rollback, Step

\* Every batch names servers of the set, and every server is in one.
LEMMA BatchesReach ==
    ASSUME NEW ids \in SUBSET Servers, NEW steps \in Batches(ids)
    PROVE  /\ steps \in Seq(Step)
           /\ \A i \in 1..Len(steps) : steps[i].on \subseteq ids
           /\ \A s \in ids : \E i \in 1..Len(steps) : s \in steps[i].on
<1>1. PICK q \in SetToSeqs(ids) :
          steps = [i \in 1..((Len(q) + 1) \div 2) |->
                      Rollback({q[j] : j \in {2 * i - 1, 2 * i} \cap DOMAIN q})]
  BY DEF Batches
<1>2. /\ q \in Seq(ids) /\ DOMAIN q = 1..Len(q) /\ Len(q) \in Nat
      /\ \A s \in ids : \E i \in 1..Len(q) : q[i] = s
  BY OrderingIsOnto, LenProperties
<1> DEFINE batch(i) == {q[j] : j \in {2 * i - 1, 2 * i} \cap DOMAIN q}
           n == (Len(q) + 1) \div 2
<1>3. n \in Nat
  BY <1>2
<1>4. \A i \in 1..n : batch(i) \subseteq ids
  BY <1>2, ElementOfSeq
<1>5. \A i \in 1..n : Rollback(batch(i)) \in Step /\ Rollback(batch(i)).on = batch(i)
  BY <1>4, RollbackIsStep
<1>6. steps = [i \in 1..n |-> Rollback(batch(i))]
  BY <1>1
<1>7. ASSUME NEW s \in ids PROVE \E i \in 1..n : s \in batch(i)
  <2>1. PICK j \in 1..Len(q) : q[j] = s
    BY <1>2
  <2>2. (j + 1) \div 2 \in 1..n /\ j \in {2 * ((j + 1) \div 2) - 1, 2 * ((j + 1) \div 2)}
    BY <1>2, <2>1
  <2> QED BY <1>2, <2>1, <2>2
<1> HIDE DEF batch, n
<1>8. steps \in [1..n -> Step] /\ \A i \in 1..n : steps[i].on = batch(i)
  BY <1>5, <1>6
<1>9. steps \in Seq(Step) /\ Len(steps) = n
  BY <1>3, <1>8, IsASeq, LenProperties
<1> QED BY <1>4, <1>7, <1>8, <1>9

\* A step of its own for each server of the set.
LEMMA OneByOneNames ==
    ASSUME NEW ids \in SUBSET Servers, NEW steps \in OneByOne(ids)
    PROVE  steps \in Seq(Step) /\ \A i \in 1..Len(steps) : steps[i].on \subseteq ids
<1>1. PICK q \in SetToSeqs(ids) : steps = [i \in DOMAIN q |-> Rollback({q[i]})]
  BY DEF OneByOne
<1>2. q \in Seq(ids) /\ DOMAIN q = 1..Len(q) /\ Len(q) \in Nat
  BY OrderingIsOnto, LenProperties
<1>3. \A i \in 1..Len(q) : {q[i]} \in SUBSET ids
  BY <1>2, ElementOfSeq
<1>4. \A i \in 1..Len(q) : Rollback({q[i]}) \in Step /\ Rollback({q[i]}).on = {q[i]}
  BY <1>3, RollbackIsStep
<1>5. steps \in Seq(Step) /\ Len(steps) = Len(q)
  BY <1>1, <1>2, <1>4, IsASeq, LenProperties
<1> QED BY <1>1, <1>2, <1>3, <1>4, <1>5

\* The steps of any plan name servers of the record; those of a staged recovery all
\* of them, those of a region's plan all in the region.
LEMMA StepsReach ==
    ASSUME TypeOK, NEW strategy \in Strategy, NEW r \in Regions \cup {NoRegion},
           NEW steps \in StepsFor(strategy, r)
    PROVE  /\ steps \in Seq(Step)
           /\ \A i \in 1..Len(steps) : steps[i].on \subseteq updated
           /\ strategy = "staged_recovery" =>
                 \A s \in updated : \E i \in 1..Len(steps) : s \in steps[i].on
           /\ strategy = "region_quarantine" =>
                 \A s \in updated \cap InRegion(r) : \E i \in 1..Len(steps) : s \in steps[i].on
<1>0. updated \in SUBSET Servers
  BY DEF TypeOK
<1>1. CASE strategy = "partial_rollback"
  <2> DEFINE ids == {s \in updated : IsUnstable(servers[s])}
  <2>1. steps \in OneByOne(ids)
    BY <1>1 DEF StepsFor
  <2>2. ids \in SUBSET Servers /\ ids \subseteq updated
    BY <1>0
  <2> HIDE DEF ids
  <2> QED BY <1>1, <2>1, <2>2, OneByOneNames
<1>2. CASE strategy = "staged_recovery"
  BY <1>0, <1>2, BatchesReach DEF StepsFor
<1>3. CASE strategy = "region_quarantine"
  <2>1. CASE r = NoRegion
    <3>1. steps = << >>
      BY <1>3, <2>1 DEF StepsFor, RegionSteps
    <3>2. InRegion(r) = {}
      BY <2>1, RecoveryAssumption DEF InRegion
    <3> QED BY <1>3, <3>1, <3>2
  <2>2. CASE r \in Regions
    <3> DEFINE ids == updated \cap InRegion(r)
    <3>1. steps = <<Isolate(r), Rollback(ids)>>
      BY <1>3, <2>2, RecoveryAssumption DEF StepsFor, RegionSteps
    <3>2. /\ Isolate(r) \in Step /\ Isolate(r).on = {}
          /\ Rollback(ids) \in Step /\ Rollback(ids).on = ids
      BY <1>0, <2>2, RollbackIsStep DEF Isolate, Step
    <3> HIDE DEF ids
    <3>3. /\ steps \in Seq(Step) /\ Len(steps) = 2
          /\ steps[1].on = {} /\ steps[2].on = ids
      BY <3>1, <3>2
    <3>4. ids = updated \cap InRegion(r)
      BY DEF ids
    <3> QED BY <1>3, <3>3, <3>4
  <2> QED BY <2>1, <2>2
<1>4. CASE strategy = "safe_resume"
  <2>1. ResumeStep \in Step /\ ResumeStep.on = {}
    BY DEF ResumeStep, Step
  <2>2. r \in Regions => Return(r) \in Step /\ Return(r).on = {}
    BY DEF Return, Step
  <2>3. steps = (IF r = NoRegion THEN <<ResumeStep>> ELSE <<Return(r), ResumeStep>>)
    BY <1>4 DEF StepsFor
  <2>4. CASE r = NoRegion
    BY <1>4, <2>1, <2>3, <2>4
  <2>5. CASE r # NoRegion
    BY <1>4, <2>1, <2>2, <2>3, <2>5
  <2> QED BY <2>4, <2>5
<1> QED BY <1>1, <1>2, <1>3, <1>4 DEF Strategy

-----------------------------------------------------------------------------
(***************************************************************************)
(* Types, and with them the places of plans: a batch is that of a step.    *)
(***************************************************************************)
LEMMA MethodTypes ==
    ASSUME TypeOK, NEW s \in Servers
    PROVE  /\ UpdateServerVersion(servers, s, Target) \in [Servers -> Server]
           /\ RollbackServer(servers, s) \in [Servers -> Server]
           /\ \A st \in ServerStatus :
                 UpdateServerStatus(servers, s, st) \in [Servers -> Server]
<1> USE DEF TypeOK, Server, HistoryAction, ServerStatus
<1>1. UpdateServerVersion(servers, s, Target) \in [Servers -> Server]
  BY RecoveryAssumption DEF UpdateServerVersion
<1>2. RollbackServer(servers, s) \in [Servers -> Server]
  BY ClusterAssumption DEF RollbackServer, RollbackReturns, Flipped
<1>3. ASSUME NEW st \in ServerStatus
      PROVE  UpdateServerStatus(servers, s, st) \in [Servers -> Server]
  BY DEF UpdateServerStatus
<1> QED BY <1>1, <1>2, <1>3

\* The step a plan stands at; none but a rollback names servers.
LEMMA CurrentStep ==
    ASSUME TypeOK, NEW p \in Plans, plan[p].index < Len(plan[p].steps)
    PROVE  /\ plan[p].index + 1 \in 1..Len(plan[p].steps)
           /\ Current(p).on \subseteq Servers
           /\ Current(p).action # "rollback" => Current(p).on = {}
           /\ Current(p).action = "quarantine_region" => Current(p).region \in Regions
<1>1. plan[p].steps \in Seq(Step) /\ plan[p].index \in Nat
  BY DEF TypeOK, Plan
<1>2. Len(plan[p].steps) \in Nat
  BY <1>1, LenProperties
<1>3. Current(p) \in Step
  BY <1>1, <1>2, ElementOfSeq DEF Current
<1> QED BY <1>1, <1>2, <1>3 DEF Step, Rollback, Isolate, Return, ResumeStep

LEMMA TypeInit == Init => TypeOK /\ FramesFit
<1> SUFFICES ASSUME Init PROVE TypeOK /\ FramesFit
  OBVIOUS
<1>1. servers \in [Servers -> Server]
  BY ClusterAssumption DEF Init, GeneratedCluster, Server, HistoryAction, ServerStatus
<1>2. << >> \in Seq(Step) /\ Len(<< >>) = 0
  OBVIOUS
<1>3. NotMade \in Plan
  BY <1>2 DEF NotMade, Plan
<1>4. plan \in [Plans -> Plan] /\ \A p \in Plans : plan[p] = NotMade
  BY <1>3 DEF Init
<1>5. \A p \in Plans : plan[p].index \in 0..Len(plan[p].steps) /\ FrameFits(p)
  BY <1>2, <1>4 DEF NotMade, FrameFits
<1> QED BY <1>1, <1>4, <1>5, RecoveryAssumption DEF Init, TypeOK, FramesFit

LEMMA PlanFields ==
    ASSUME TypeOK, NEW p \in Plans
    PROVE  /\ plan[p] \in Plan
           /\ plan[p].index \in 0..Len(plan[p].steps)
           /\ plan[p].index \in Nat /\ Len(plan[p].steps) \in Nat
  BY LenProperties DEF TypeOK, Plan

(***************************************************************************)
(* The steps of execute_recovery_plan, by what they do to their own plan   *)
(* and to the servers: stop or go on in place, enter a batch, pass a step  *)
(* that names no server, revert one, take it out of the record, and finish *)
(* the batch with it.                                                      *)
(***************************************************************************)
Standing(p) ==
    /\ plan'[p].index = plan[p].index
    /\ plan'[p].pc # "batch" /\ plan'[p].left = {} /\ plan'[p].undone = {}
    /\ UNCHANGED <<servers, updated>>

Entering(p) ==
    /\ plan[p].index < Len(plan[p].steps)
    /\ plan'[p].index = plan[p].index /\ plan'[p].pc = "batch"
    /\ plan'[p].left = Current(p).on /\ plan'[p].undone = {}
    /\ UNCHANGED <<servers, updated>>

Passing(p) ==
    /\ plan[p].index < Len(plan[p].steps) /\ Current(p).on = {}
    /\ plan'[p].index = plan[p].index + 1
    /\ plan'[p].pc # "batch" /\ plan'[p].left = {} /\ plan'[p].undone = {}
    /\ UNCHANGED <<servers, updated>>

Reverting(p, s) ==
    /\ plan[p].pc = "batch" /\ s \in plan[p].left /\ plan[p].undone = {}
    /\ plan'[p].index = plan[p].index /\ plan'[p].pc = "batch"
    /\ plan'[p].left = plan[p].left \ {s} /\ plan'[p].undone = {s}
    /\ servers' = RollbackServer(servers, s) /\ UNCHANGED updated

Discarding(p) ==
    /\ plan[p].pc = "batch"
    /\ plan'[p].index = plan[p].index /\ plan'[p].pc = "batch"
    /\ plan'[p].left = plan[p].left /\ plan'[p].undone = {}
    /\ updated' = updated \ plan[p].undone /\ UNCHANGED servers

Finishing(p) ==
    /\ plan[p].pc = "batch" /\ plan[p].left = {}
    /\ plan'[p].index = plan[p].index + 1
    /\ plan'[p].pc # "batch" /\ plan'[p].left = {} /\ plan'[p].undone = {}
    /\ updated' = updated \ plan[p].undone /\ UNCHANGED servers

Moves(p) ==
    /\ plan' \in [Plans -> Plan]
    /\ \A q \in Plans \ {p} : plan'[q] = plan[q]
    /\ plan'[p].steps = plan[p].steps /\ plan'[p].strategy = plan[p].strategy
    /\ plan'[p].region = plan[p].region /\ plan'[p].since = plan[p].since
    /\ plan'[p].status = "completed" =>
          plan[p].status = "completed" \/ plan'[p].index >= Len(plan[p].steps)
    /\ UNCHANGED <<pending, running, installed, changes>>
    /\ status' \in {status, "in_progress"} /\ quarantined' \subseteq Regions
    /\ \/ Standing(p) \/ Entering(p) \/ Passing(p)
       \/ \E s \in Servers : Reverting(p, s)
       \/ Discarding(p) \/ Finishing(p)

LEMMA AdvancedFields ==
    ASSUME TypeOK, NEW p \in Plans
    PROVE  LET new == Advanced(p)
           IN  /\ new \in [Plans -> Plan] /\ \A q \in Plans \ {p} : new[q] = plan[q]
               /\ new[p].index = plan[p].index + 1 /\ new[p].pc = "next"
               /\ new[p].steps = plan[p].steps /\ new[p].strategy = plan[p].strategy
               /\ new[p].region = plan[p].region /\ new[p].since = plan[p].since
               /\ new[p].status = plan[p].status
               /\ new[p].left = plan[p].left /\ new[p].undone = plan[p].undone
<1>1. plan \in [Plans -> Plan] /\ plan[p] \in Plan /\ plan[p].index + 1 \in Nat
  BY PlanFields DEF TypeOK
<1> QED BY <1>1 DEF Advanced, Plan

LEMMA ExecutorMoves ==
    ASSUME TypeOK, FramesFit, NEW p \in Plans, Executor(p)
    PROVE  Moves(p)
<1>0. /\ plan \in [Plans -> Plan] /\ plan[p] \in Plan /\ FrameFits(p)
      /\ plan[p].index \in Nat /\ Len(plan[p].steps) \in Nat
      /\ quarantined \subseteq Regions
  BY PlanFields DEF TypeOK, FramesFit
<1> USE DEF Moves, deployment
<1>1. CASE Execute(p)
  BY <1>0, <1>1 DEF Execute, Standing, FrameFits, Plan
<1>2. CASE Deny(p)
  BY <1>0, <1>2 DEF Deny, Standing, FrameFits, Plan
<1>3. CASE ApprovalRaises(p)
  BY <1>0, <1>3 DEF ApprovalRaises, Standing, FrameFits, Plan
<1>4. CASE Complete(p)
  BY <1>0, <1>4 DEF Complete, Standing, FrameFits, Plan
<1>5. CASE StepRaises(p)
  BY <1>0, <1>5 DEF StepRaises, Standing, FrameFits, Plan
<1>6. CASE StartRollback(p)
  <2>1. Current(p).on \subseteq Servers
    BY <1>6, CurrentStep DEF StartRollback, AtStep
  <2>2. CASE Current(p).on = {}
    <3>1. plan' = Advanced(p) /\ plan[p].pc = "next" /\ plan[p].index < Len(plan[p].steps)
      BY <1>6, <2>2 DEF StartRollback, AtStep
    <3> QED BY <1>0, <1>6, <2>2, <3>1, AdvancedFields DEF StartRollback, Passing, FrameFits
  <2>3. CASE Current(p).on # {}
    BY <1>0, <1>6, <2>1, <2>3 DEF StartRollback, AtStep, Entering, FrameFits, Plan
  <2> QED BY <2>2, <2>3
<1>7. ASSUME NEW s \in Servers, Revert(p, s) PROVE Moves(p)
  BY <1>0, <1>7 DEF Revert, Reverting, Plan
<1>8. CASE Discard(p)
  <2>1. CASE plan[p].left = {}
    BY <1>0, <1>8, <2>1 DEF Discard, Advanced, Finishing, FrameFits, Plan
  <2>2. CASE plan[p].left # {}
    BY <1>0, <1>8, <2>2 DEF Discard, Discarding, FrameFits, Plan
  <2> QED BY <2>1, <2>2
<1>9. CASE QuarantineRegion(p) \/ ReleaseRegion(p) \/ ResumeDeployment(p)
  <2>1. /\ plan[p].index < Len(plan[p].steps) /\ Current(p).action # "rollback"
        /\ plan[p].pc = "next" /\ plan' = Advanced(p)
    BY <1>9 DEF QuarantineRegion, ReleaseRegion, ResumeDeployment, AtStep, Current
  <2>2. Current(p).on = {} /\ (Current(p).action = "quarantine_region" =>
                                  Current(p).region \in Regions)
    BY <2>1, CurrentStep
  <2>3. /\ UNCHANGED <<servers, updated, pending, running, installed, changes>>
        /\ status' \in {status, "in_progress"} /\ quarantined' \subseteq Regions
    BY <1>0, <1>9, <2>2 DEF QuarantineRegion, ReleaseRegion, ResumeDeployment, AtStep, Current
  <2> QED BY <1>0, <2>1, <2>2, <2>3, AdvancedFields DEF Passing, FrameFits
<1> QED BY <1>1, <1>2, <1>3, <1>4, <1>5, <1>6, <1>7, <1>8, <1>9 DEF Executor

LEMMA TypeNext == TypeOK /\ FramesFit /\ [Next]_vars => (TypeOK /\ FramesFit)'
<1> SUFFICES ASSUME TypeOK, FramesFit, [Next]_vars PROVE TypeOK' /\ FramesFit'
  OBVIOUS
<1> USE DEF deployment
<1>0. \A p \in Plans : /\ plan[p] \in Plan /\ FrameFits(p)
                       /\ plan[p].index \in 0..Len(plan[p].steps)
                       /\ plan[p].index \in Nat /\ Len(plan[p].steps) \in Nat
  BY PlanFields DEF FramesFit
<1>1. ASSUME NEW s \in Servers, Install(s) PROVE TypeOK' /\ FramesFit'
  BY <1>1, MethodTypes DEF Install, TypeOK, FramesFit, FrameFits, Current
<1>2. CASE RecordInstall
  <2>1. \A p \in Plans :
          /\ plan'[p] \in Plan
          /\ plan'[p].pc = plan[p].pc /\ plan'[p].index = plan[p].index
          /\ plan'[p].steps = plan[p].steps
          /\ plan'[p].left = plan[p].left /\ plan'[p].undone = plan[p].undone
    <3> SUFFICES ASSUME NEW p \in Plans
                 PROVE  /\ plan'[p] \in Plan
                        /\ plan'[p].pc = plan[p].pc /\ plan'[p].index = plan[p].index
                        /\ plan'[p].steps = plan[p].steps
                        /\ plan'[p].left = plan[p].left /\ plan'[p].undone = plan[p].undone
      OBVIOUS
    <3>1. plan'[p] \in {plan[p], [plan[p] EXCEPT !.since = @ \cup installed]}
      BY <1>2 DEF RecordInstall
    <3>2. plan[p] \in Plan /\ installed \in SUBSET Servers
      BY <1>0 DEF TypeOK
    <3>3. CASE plan'[p] = plan[p]
      BY <3>2, <3>3
    <3>4. CASE plan'[p] = [plan[p] EXCEPT !.since = @ \cup installed]
      BY <3>2, <3>4 DEF Plan
    <3> QED BY <3>1, <3>3, <3>4
  <2>2. plan' \in [Plans -> Plan]
    BY <1>2, <2>1 DEF RecordInstall
  <2>3. FramesFit'
    BY <1>0, <2>1 DEF FramesFit, FrameFits, Current
  <2> QED BY <1>0, <1>2, <2>1, <2>2, <2>3 DEF RecordInstall, TypeOK
<1>3. ASSUME NEW st \in Ends, EndDeploy(st) PROVE TypeOK' /\ FramesFit'
  BY <1>3 DEF EndDeploy, TypeOK, FramesFit, FrameFits, Current
<1>4. ASSUME NEW p \in Plans, NEW strategy \in Strategy, NEW r \in Regions \cup {NoRegion},
             Generate(p, strategy, r)
      PROVE  TypeOK' /\ FramesFit'
  <2>1. PICK steps \in StepsFor(strategy, r) :
          plan' = [plan EXCEPT ![p] = [NotMade EXCEPT !.strategy = strategy, !.region = r,
                                                      !.steps = steps]]
    BY <1>4 DEF Generate
  <2>2. steps \in Seq(Step) /\ Len(steps) \in Nat
    BY StepsReach, LenProperties
  <2>3. /\ plan' \in [Plans -> Plan]
        /\ \A q \in Plans \ {p} : plan'[q] = plan[q]
        /\ plan'[p].index = 0 /\ plan'[p].steps = steps /\ plan'[p].pc = "idle"
        /\ plan'[p].left = {} /\ plan'[p].undone = {}
    BY <1>0, <2>1, <2>2 DEF NotMade, Plan, TypeOK
  <2>4. \A q \in Plans : plan'[q].index \in 0..Len(plan'[q].steps)
    BY <1>0, <2>2, <2>3
  <2>5. FramesFit'
    BY <1>0, <2>3 DEF FramesFit, FrameFits, Current
  <2> QED BY <1>4, <2>3, <2>4, <2>5 DEF Generate, TypeOK
<1>5. ASSUME NEW p \in Plans, Executor(p) PROVE TypeOK' /\ FramesFit'
  <2>1. Moves(p)
    BY <1>5, ExecutorMoves
  <2>2. plan'[p].index \in 0..Len(plan'[p].steps) /\ FrameFits(p)'
    BY <1>0, <2>1 DEF Moves, Standing, Entering, Passing, Reverting, Discarding, Finishing,
                      FrameFits, Current
  <2>3. FramesFit' /\ \A q \in Plans : plan'[q].index \in 0..Len(plan'[q].steps)
    BY <1>0, <2>1, <2>2 DEF Moves, FramesFit, FrameFits, Current
  <2>4. /\ servers' \in [Servers -> Server] /\ updated' \in SUBSET Servers
    BY <2>1, MethodTypes DEF Moves, Standing, Entering, Passing, Reverting, Discarding,
                             Finishing, TypeOK
  <2> QED BY <2>1, <2>3, <2>4 DEF Moves, TypeOK
<1>6. ASSUME NEW s \in Servers, NEW st \in Observed, ChangeStatus(s, st)
      PROVE  TypeOK' /\ FramesFit'
  <2>1. changes' \in 0..MaxChanges /\ servers' \in [Servers -> Server]
    BY <1>6, MethodTypes, RecoveryAssumption DEF ChangeStatus, TypeOK
  <2> QED BY <1>6, <2>1 DEF ChangeStatus, TypeOK, FramesFit, FrameFits, Current
<1>7. CASE UNCHANGED vars
  BY <1>7 DEF vars, TypeOK, FramesFit, FrameFits, Current
<1> QED BY <1>1, <1>2, <1>3, <1>4, <1>5, <1>6, <1>7 DEF Next

-----------------------------------------------------------------------------
(***************************************************************************)
(* The servers.  What a plan has rolled back stays so: whoever acts, a     *)
(* server once recorded is not installed again, and a second rollback of   *)
(* it does nothing.                                                        *)
(***************************************************************************)
Steady(s) ==
    Behind(s) =>
        /\ Behind(s)'
        /\ servers[s].cur = InitialVersion => servers'[s].cur = InitialVersion
        /\ Restored(s) => Restored(s)'

\* rollback_server, of a server in any of its three states.
LEMMA RollbackEffect ==
    ASSUME TypeOK, RecordFits, NEW s \in Servers
    PROVE  LET after == RollbackServer(servers, s)
           IN  /\ \A u \in Servers \ {s} : after[u] = servers[u]
               /\ Fresh(s) \/ Reverted(s) => after = servers
               /\ Deployed(s) => /\ after[s].cur = InitialVersion
                                 /\ after[s].prev # NoVersion
                                 /\ after[s].last = "rollback"
<1>1. servers \in [Servers -> Server] /\ servers[s] \in Server
  BY DEF TypeOK
<1>2. CASE Fresh(s) \/ Reverted(s)
  BY <1>1, <1>2, ClusterAssumption, RecoveryAssumption
     DEF RollbackServer, RollbackReturns, Fresh, Reverted, Deployed
<1>3. CASE Deployed(s)
  <2>1. RollbackServer(servers, s) = [servers EXCEPT ![s] = Flipped(servers[s])]
    BY <1>1, <1>3, ClusterAssumption DEF RollbackServer, RollbackReturns, Deployed
  <2> QED BY <1>1, <1>3, <2>1, ClusterAssumption, RecoveryAssumption
          DEF Flipped, Deployed, Fresh, Reverted
<1> QED BY <1>2, <1>3 DEF RecordFits

LEMMA ServersNext ==
    ASSUME TypeOK, FramesFit, RecoveryInvariant, [Next]_vars
    PROVE  RecordFits' /\ \A s \in Servers : Steady(s)
<1>0. /\ servers \in [Servers -> Server] /\ RecordFits
      /\ updated \subseteq Servers /\ installed \subseteq Servers /\ pending \subseteq Servers
  BY DEF TypeOK, RecoveryInvariant
<1> USE DEF RecordFits, Steady, Behind, Restored, Fresh, Deployed, Reverted, deployment
<1>1. ASSUME UNCHANGED <<servers, updated, pending, installed>>
      PROVE  RecordFits' /\ \A s \in Servers : Steady(s)
  BY <1>0, <1>1
<1>2. ASSUME NEW s \in Servers, Install(s) PROVE RecordFits' /\ \A u \in Servers : Steady(u)
  <2>1. /\ servers'[s].cur = Target /\ servers'[s].prev = servers[s].cur
        /\ servers'[s].last = "deploy"
        /\ \A u \in Servers \ {s} : servers'[u] = servers[u]
        /\ s \in pending /\ installed = {} /\ installed' = {s} /\ pending' = pending \ {s}
        /\ UNCHANGED updated
    BY <1>0, <1>2 DEF Install, UpdateServerVersion
  <2>2. Fresh(s) /\ s \notin updated
    BY <1>0, <2>1
  <2> QED BY <1>0, <2>1, <2>2, ClusterAssumption, RecoveryAssumption
<1>3. CASE RecordInstall
  BY <1>0, <1>3 DEF RecordInstall
<1>4. ASSUME NEW st \in Ends, EndDeploy(st) PROVE RecordFits' /\ \A s \in Servers : Steady(s)
  BY <1>0, <1>4 DEF EndDeploy
<1>5. ASSUME NEW p \in Plans, NEW strategy \in Strategy, NEW r \in Regions \cup {NoRegion},
             Generate(p, strategy, r)
      PROVE  RecordFits' /\ \A s \in Servers : Steady(s)
  BY <1>1, <1>5 DEF Generate
<1>6. ASSUME NEW p \in Plans, Executor(p) PROVE RecordFits' /\ \A s \in Servers : Steady(s)
  <2>1. Moves(p)
    BY <1>6, ExecutorMoves
  <2>2. CASE Standing(p) \/ Entering(p) \/ Passing(p)
    BY <1>1, <2>1, <2>2 DEF Moves, Standing, Entering, Passing
  <2>3. ASSUME NEW s \in Servers, Reverting(p, s)
        PROVE  RecordFits' /\ \A u \in Servers : Steady(u)
    <3>1. servers' = RollbackServer(servers, s) /\ UNCHANGED <<updated, pending, installed>>
      BY <2>1, <2>3 DEF Moves, Reverting
    <3>2. CASE Fresh(s) \/ Reverted(s)
      <4>1. UNCHANGED servers
        BY <3>1, <3>2, RollbackEffect, <1>0
      <4> QED BY <1>1, <3>1, <4>1
    <3>3. CASE Deployed(s)
      <4>1. /\ servers'[s].cur = InitialVersion /\ servers'[s].prev # NoVersion
            /\ servers'[s].last = "rollback"
            /\ \A u \in Servers \ {s} : servers'[u] = servers[u]
        BY <1>0, <3>1, <3>3, RollbackEffect
      <4>2. s \notin pending
        BY <1>0, <3>3, RecoveryAssumption
      <4> QED BY <1>0, <3>1, <3>3, <4>1, <4>2, RecoveryAssumption
    <3> QED BY <1>0, <3>2, <3>3
  <2>4. CASE Discarding(p) \/ Finishing(p)
    <3>1. /\ plan[p].pc = "batch" /\ UNCHANGED <<servers, pending, installed>>
          /\ updated' = updated \ plan[p].undone
      BY <2>1, <2>4 DEF Moves, Discarding, Finishing
    <3>2. \A s \in plan[p].undone : servers[s].cur = InitialVersion
      BY <3>1 DEF RecoveryInvariant, PlanFits, BatchFits, FramesFit, FrameFits
    <3> QED BY <1>0, <3>1, <3>2, RecoveryAssumption
  <2> QED BY <2>1, <2>2, <2>3, <2>4 DEF Moves
<1>7. ASSUME NEW s \in Servers, NEW st \in Observed, ChangeStatus(s, st)
      PROVE  RecordFits' /\ \A u \in Servers : Steady(u)
  <2>1. /\ UNCHANGED <<updated, pending, installed>>
        /\ \A u \in Servers : /\ servers'[u].cur = servers[u].cur
                              /\ servers'[u].prev = servers[u].prev
                              /\ servers'[u].last = servers[u].last
    BY <1>0, <1>7 DEF ChangeStatus, UpdateServerStatus, Server
  <2> QED BY <1>0, <2>1
<1>8. CASE UNCHANGED vars
  BY <1>1, <1>8 DEF vars
<1> QED BY <1>2, <1>3, <1>4, <1>5, <1>6, <1>7, <1>8 DEF Next

-----------------------------------------------------------------------------
(***************************************************************************)
(* The plans.                                                              *)
(***************************************************************************)
\* A plan that a step leaves alone keeps what it has done.
LEMMA PlanKept ==
    ASSUME TypeOK, FramesFit, RecoveryInvariant, [Next]_vars, NEW p \in Plans,
           plan'[p].steps = plan[p].steps, plan'[p].index = plan[p].index,
           plan'[p].pc = plan[p].pc, plan'[p].left = plan[p].left,
           plan'[p].undone = plan[p].undone, plan'[p].status = plan[p].status,
           plan'[p].strategy = plan[p].strategy, plan'[p].region = plan[p].region,
           updated' \cap Scope(p) \subseteq (updated \cap Scope(p)) \cup plan'[p].since,
           plan[p].since \subseteq plan'[p].since
    PROVE  PlanFits(p)'
<1>0. /\ \A s \in Servers : Steady(s)
      /\ PlanFits(p) /\ FrameFits(p)
      /\ plan[p].index \in 0..Len(plan[p].steps) /\ Len(plan[p].steps) \in Nat
      /\ plan[p].steps \in Seq(Step)
  BY ServersNext, PlanFields DEF RecoveryInvariant, FramesFit, Plan
<1>1. DOMAIN plan[p].steps = 1..Len(plan[p].steps)
  BY <1>0
<1>2. \A i \in 1..Len(plan[p].steps) : plan[p].steps[i].on \subseteq Targets(p) \cap Servers
  <2>1. \A i \in 1..Len(plan[p].steps) : plan[p].steps[i] \in Step
    BY <1>0
  <2> QED BY <1>1, <2>1 DEF Targets, Step, Rollback, Isolate, Return, ResumeStep
<1>3. Targets(p)' = Targets(p) /\ Scope(p)' = Scope(p)
  BY DEF Targets, Scope
<1>4. \A s \in Targets(p) : s \in Servers
  BY <1>1, <1>2 DEF Targets
<1>5. TargetsFit(p)'
  BY <1>0, <1>3, <1>4 DEF PlanFits, TargetsFit, Steady
<1>6. DoneFits(p)'
  BY <1>0, <1>2 DEF PlanFits, DoneFits, TargetsFit, Steady
<1>7. BatchFits(p)'
  BY <1>0, <1>2 DEF PlanFits, BatchFits, TargetsFit, Steady, FrameFits, Current, Restored
<1>8. EndFits(p)' /\ ScopeFits(p)'
  BY <1>0, <1>3 DEF PlanFits, EndFits, ScopeFits
<1> QED BY <1>5, <1>6, <1>7, <1>8 DEF PlanFits

\* The steps of a plan name servers, each of them a target of the plan.
LEMMA StepsName ==
    ASSUME TypeOK, NEW p \in Plans, NEW i \in 1..Len(plan[p].steps)
    PROVE  /\ DOMAIN plan[p].steps = 1..Len(plan[p].steps)
           /\ plan[p].steps[i].on \subseteq Targets(p) \cap Servers
<1>1. plan[p].steps \in Seq(Step)
  BY PlanFields DEF Plan
<1>2. DOMAIN plan[p].steps = 1..Len(plan[p].steps) /\ plan[p].steps[i] \in Step
  BY <1>1
<1> QED BY <1>2 DEF Targets, Step, Rollback, Isolate, Return, ResumeStep

\* The plan that a step of its execution moves: what it has passed is restored, and
\* what it has reverted in its batch as well.
LEMMA PlanMoved ==
    ASSUME TypeOK, FramesFit, RecoveryInvariant, NEW p \in Plans, Executor(p)
    PROVE  PlanFits(p)'
<1>0. /\ [Next]_vars /\ Moves(p) /\ RecordFits /\ PlanFits(p) /\ FrameFits(p)
      /\ plan[p].index \in Nat /\ Len(plan[p].steps) \in Nat
      /\ plan[p].index \in 0..Len(plan[p].steps)
  BY ExecutorMoves, PlanFields DEF RecoveryInvariant, FramesFit, Next
<1>1. /\ \A s \in Servers : Steady(s)
      /\ plan'[p].index \in 0..Len(plan[p].steps)
  <2>1. TypeOK' /\ plan'[p].steps = plan[p].steps
    BY <1>0, TypeNext DEF Moves
  <2> QED BY <1>0, <2>1, ServersNext DEF TypeOK
<1>2. \A i \in 1..Len(plan[p].steps) :
          \A s \in plan[p].steps[i].on : s \in Targets(p) /\ s \in Servers
  BY StepsName
<1>3. Targets(p)' = Targets(p) /\ Scope(p)' = Scope(p)
  BY <1>0 DEF Moves, Targets, Scope
<1>4. \A s \in Targets(p) : s \in Servers /\ Behind(s)
  <2>1. PlanFits(p) /\ plan[p].steps \in Seq(Step)
    BY <1>0, PlanFields DEF Plan
  <2>2. DOMAIN plan[p].steps = 1..Len(plan[p].steps)
    BY <2>1
  <2> QED BY <1>2, <2>1, <2>2 DEF PlanFits, TargetsFit, Targets
<1>5. TargetsFit(p)'
  BY <1>1, <1>3, <1>4 DEF TargetsFit, Steady
<1>6. \A i \in 1..plan[p].index : \A s \in plan[p].steps[i].on : Restored(s)'
  BY <1>0, <1>1, <1>2, <1>4 DEF PlanFits, DoneFits, Steady
<1>7. plan[p].index < Len(plan[p].steps) => \A s \in Current(p).on :
          s \in Targets(p) /\ s \in Servers
  BY <1>0, <1>2 DEF Current
<1>8. ScopeFits(p)'
  <2>1. updated' \subseteq updated /\ plan'[p].since = plan[p].since
    BY <1>0 DEF Moves, Standing, Entering, Passing, Reverting, Discarding, Finishing
  <2> QED BY <1>0, <1>3, <2>1 DEF PlanFits, ScopeFits
<1>9. EndFits(p)'
  BY <1>0, <1>1 DEF Moves, Standing, Entering, Passing, Reverting, Discarding, Finishing,
                    PlanFits, EndFits, FrameFits
<1>10. DoneFits(p)' /\ BatchFits(p)'
  <2>0. plan'[p].steps = plan[p].steps
    BY <1>0 DEF Moves
  <2>1. CASE Standing(p)
    BY <1>6, <2>0, <2>1 DEF Standing, DoneFits, BatchFits
  <2>2. CASE Entering(p)
    BY <1>6, <2>0, <2>2 DEF Entering, DoneFits, BatchFits, Current
  <2>3. ASSUME plan[p].index < Len(plan[p].steps), plan'[p].pc # "batch",
               plan'[p].index = plan[p].index + 1,
               \A s \in Current(p).on : Restored(s)'
        PROVE  DoneFits(p)' /\ BatchFits(p)'
    <3>1. \A i \in 1..plan'[p].index : i \in 1..plan[p].index \/ i = plan[p].index + 1
      BY <1>0, <2>3
    <3> QED BY <1>6, <2>0, <2>3, <3>1 DEF DoneFits, BatchFits, Current
  <2>4. CASE Passing(p)
    BY <2>3, <2>4 DEF Passing
  <2>5. CASE Finishing(p)
    <3>1. \A s \in Current(p).on : Restored(s)'
      BY <1>0, <2>5 DEF Finishing, PlanFits, BatchFits, Restored
    <3> QED BY <1>0, <2>3, <2>5, <3>1 DEF Finishing, FrameFits
  <2>6. CASE Discarding(p)
    <3>1. \A s \in Current(p).on \ plan[p].left : Restored(s)'
      BY <1>0, <2>6 DEF Discarding, PlanFits, BatchFits, Restored
    <3> QED BY <1>6, <2>0, <2>6, <3>1 DEF Discarding, DoneFits, BatchFits, Current, Restored
  <2>7. ASSUME NEW s \in Servers, Reverting(p, s) PROVE DoneFits(p)' /\ BatchFits(p)'
    <3>1. servers'[s].cur = InitialVersion
      <4>1. ~Fresh(s) /\ servers' = RollbackServer(servers, s)
        BY <1>0, <1>4, <1>7, <2>7 DEF Reverting, FrameFits, Behind
      <4>2. Deployed(s) \/ Reverted(s)
        BY <1>0, <4>1 DEF RecordFits
      <4> QED BY <1>0, <4>1, <4>2, RollbackEffect DEF Reverted
    <3>2. ASSUME NEW u \in Current(p).on \ plan[p].left
          PROVE  servers'[u].cur = InitialVersion /\ u \notin updated'
      <4>1. Restored(u)
        BY <1>0, <2>7, <3>2 DEF Reverting, PlanFits, BatchFits, Restored
      <4>2. Behind(u) /\ u \in Servers
        BY <1>0, <1>4, <1>7, <2>7 DEF Reverting, FrameFits
      <4> QED BY <1>1, <4>1, <4>2 DEF Steady, Restored
    <3> QED BY <1>6, <2>0, <2>7, <3>1, <3>2 DEF Reverting, DoneFits, BatchFits, Current
  <2> QED BY <1>0, <2>1, <2>2, <2>4, <2>5, <2>6, <2>7 DEF Moves
<1> QED BY <1>5, <1>8, <1>9, <1>10 DEF PlanFits

\* A plan just generated names recorded servers only, and all there are in its scope.
LEMMA PlanMade ==
    ASSUME TypeOK, FramesFit, RecoveryInvariant,
           NEW p \in Plans, NEW strategy \in Strategy, NEW r \in Regions \cup {NoRegion},
           Generate(p, strategy, r)
    PROVE  PlanFits(p)' /\ \A q \in Plans \ {p} : plan'[q] = plan[q]
<1>1. PICK steps \in StepsFor(strategy, r) :
          plan' = [plan EXCEPT ![p] = [NotMade EXCEPT !.strategy = strategy, !.region = r,
                                                      !.steps = steps]]
  BY DEF Generate
<1>2. /\ steps \in Seq(Step) /\ DOMAIN steps = 1..Len(steps)
      /\ \A i \in 1..Len(steps) : steps[i].on \subseteq updated
      /\ strategy = "staged_recovery" =>
            \A s \in updated : \E i \in 1..Len(steps) : s \in steps[i].on
      /\ strategy = "region_quarantine" =>
            \A s \in updated \cap InRegion(r) : \E i \in 1..Len(steps) : s \in steps[i].on
  BY StepsReach
<1>3. plan \in [Plans -> Plan]
  BY DEF TypeOK
<1>4. /\ \A q \in Plans \ {p} : plan'[q] = plan[q]
      /\ plan'[p].steps = steps /\ plan'[p].strategy = strategy /\ plan'[p].region = r
      /\ plan'[p].index = 0 /\ plan'[p].pc = "idle" /\ plan'[p].status = "pending"
      /\ UNCHANGED <<servers, updated, installed>>
  BY <1>1, <1>3 DEF Generate, NotMade, deployment
<1>5. Targets(p)' = UNION {steps[i].on : i \in 1..Len(steps)}
  BY <1>2, <1>4 DEF Targets
<1>6. TargetsFit(p)'
  <2>1. Targets(p)' \subseteq updated
    BY <1>2, <1>5
  <2>2. \A s \in updated : ~Fresh(s) /\ s \notin installed
    BY DEF RecoveryInvariant, RecordFits
  <2> QED BY <1>4, <2>1, <2>2 DEF TargetsFit, Behind, Fresh
<1>7. ScopeFits(p)'
  <2>1. strategy = "staged_recovery" => updated \subseteq Targets(p)'
    BY <1>2, <1>5
  <2>2. strategy = "region_quarantine" => updated \cap InRegion(r) \subseteq Targets(p)'
    BY <1>2, <1>5
  <2> QED BY <1>4, <2>1, <2>2 DEF ScopeFits, Scope
<1>8. DoneFits(p)' /\ BatchFits(p)' /\ EndFits(p)'
  BY <1>4 DEF DoneFits, BatchFits, EndFits
<1> QED BY <1>4, <1>6, <1>7, <1>8 DEF PlanFits

LEMMA RecoveryInit == Init => RecoveryInvariant
<1> SUFFICES ASSUME Init PROVE RecoveryInvariant
  OBVIOUS
<1>1. RecordFits
  BY ClusterAssumption, RecoveryAssumption
     DEF Init, GeneratedCluster, RecordFits, Fresh, Deployed, Reverted
<1>2. \A p \in Plans : plan[p] = NotMade
  BY DEF Init
<1>3. ASSUME NEW p \in Plans PROVE PlanFits(p)
  <2>1. /\ plan[p].steps = << >> /\ plan[p].index = 0 /\ plan[p].pc = "idle"
        /\ plan[p].status = "pending" /\ updated = {}
    BY <1>2 DEF NotMade, Init
  <2>2. Targets(p) = {}
    BY <2>1 DEF Targets
  <2> QED BY <2>1, <2>2 DEF PlanFits, TargetsFit, DoneFits, BatchFits, EndFits, ScopeFits
<1> QED BY <1>1, <1>3 DEF RecoveryInvariant

LEMMA RecoveryNext ==
    TypeOK /\ FramesFit /\ RecoveryInvariant /\ [Next]_vars => RecoveryInvariant'
<1> SUFFICES ASSUME TypeOK, FramesFit, RecoveryInvariant, [Next]_vars
             PROVE  \A p \in Plans : PlanFits(p)'
  BY ServersNext DEF RecoveryInvariant
<1>1. ASSUME UNCHANGED plan, updated' \subseteq updated, NEW p \in Plans
      PROVE  PlanFits(p)'
  BY <1>1, PlanKept
<1>2. ASSUME NEW s \in Servers, Install(s) PROVE \A p \in Plans : PlanFits(p)'
  BY <1>1, <1>2 DEF Install
<1>3. CASE RecordInstall
  <2> SUFFICES ASSUME NEW p \in Plans PROVE PlanFits(p)'
    OBVIOUS
  <2>1. plan[p] \in Plan
    BY PlanFields
  <2>2. CASE plan[p].strategy \in {"staged_recovery", "region_quarantine"}
    <3>1. /\ plan'[p] = [plan[p] EXCEPT !.since = @ \cup installed]
          /\ updated' = updated \cup installed
      BY <1>3, <2>2 DEF RecordInstall
    <3> QED BY <2>1, <3>1, PlanKept DEF Plan
  <2>3. CASE plan[p].strategy \notin {"staged_recovery", "region_quarantine"}
    <3>1. plan'[p] = plan[p] /\ Scope(p) = {}
      BY <1>3, <2>3 DEF RecordInstall, Scope
    <3> QED BY <3>1, PlanKept
  <2> QED BY <2>2, <2>3
<1>4. ASSUME NEW st \in Ends, EndDeploy(st) PROVE \A p \in Plans : PlanFits(p)'
  BY <1>1, <1>4 DEF EndDeploy
<1>5. ASSUME NEW p \in Plans, NEW strategy \in Strategy, NEW r \in Regions \cup {NoRegion},
             Generate(p, strategy, r)
      PROVE  \A q \in Plans : PlanFits(q)'
  <2>1. PlanFits(p)' /\ \A q \in Plans \ {p} : plan'[q] = plan[q]
    BY <1>5, PlanMade
  <2>2. UNCHANGED updated
    BY <1>5 DEF Generate, deployment
  <2>3. ASSUME NEW q \in Plans \ {p} PROVE PlanFits(q)'
    BY <2>1, <2>2, <2>3, PlanKept
  <2> QED BY <2>1, <2>3
<1>6. ASSUME NEW p \in Plans, Executor(p) PROVE \A q \in Plans : PlanFits(q)'
  <2>1. PlanFits(p)'
    BY <1>6, PlanMoved
  <2>2. updated' \subseteq updated /\ \A q \in Plans \ {p} : plan'[q] = plan[q]
    BY <1>6, ExecutorMoves DEF Moves, Standing, Entering, Passing, Reverting, Discarding,
                               Finishing
  <2>3. ASSUME NEW q \in Plans \ {p} PROVE PlanFits(q)'
    BY <2>2, <2>3, PlanKept
  <2> QED BY <2>1, <2>3
<1>7. ASSUME NEW s \in Servers, NEW st \in Observed, ChangeStatus(s, st)
      PROVE  \A p \in Plans : PlanFits(p)'
  BY <1>1, <1>7 DEF ChangeStatus, deployment
<1>8. CASE UNCHANGED vars
  BY <1>1, <1>8 DEF vars, deployment
<1> QED BY <1>2, <1>3, <1>4, <1>5, <1>6, <1>7, <1>8 DEF Next

-----------------------------------------------------------------------------
(***************************************************************************)
(* The theorems.                                                           *)
(***************************************************************************)
\* Every variable keeps its type, whatever plans are made and however they end.
THEOREM TypeCorrect == Spec => []TypeOK
<1>1. Init => TypeOK /\ FramesFit
  BY TypeInit
<1>2. TypeOK /\ FramesFit /\ [Next]_vars => (TypeOK /\ FramesFit)'
  BY TypeNext
<1> QED BY <1>1, <1>2, PTL DEF Spec

\* The inductive invariant holds throughout: the record fits the servers, and every
\* plan has done what the place it has reached says.
THEOREM InvariantHolds == Spec => [](TypeOK /\ FramesFit /\ RecoveryInvariant)
<1>1. Init => TypeOK /\ FramesFit /\ RecoveryInvariant
  BY TypeInit, RecoveryInit
<1>2. TypeOK /\ FramesFit /\ RecoveryInvariant /\ [Next]_vars
        => (TypeOK /\ FramesFit /\ RecoveryInvariant)'
  BY TypeNext, RecoveryNext
<1> QED BY <1>1, <1>2, PTL DEF Spec

\* A server on another version than the one before the deployment is in
\* servers_updated, or about to be added by deploy(), at every point of any number of
\* recovery plans run concurrently: it can still be found and rolled back.
THEOREM NothingIsForgotten == Spec => []ChangesAreRecorded
<1>1. RecoveryInvariant => ChangesAreRecorded
  BY DEF RecoveryInvariant, RecordFits, Fresh, Deployed, Reverted, ChangesAreRecorded
<1> QED BY <1>1, InvariantHolds, PTL

\* execute_recovery_plan marks a plan COMPLETED only when every server its steps name
\* is restored, however often it was refused, raised and was executed again, and
\* nothing undoes that later.
THEOREM CompletionIsHonest == Spec => []CompletedPlanDidItsWork
<1>1. TypeOK /\ RecoveryInvariant => CompletedPlanDidItsWork
  <2> SUFFICES ASSUME TypeOK, RecoveryInvariant, NEW p \in Plans,
                      plan[p].status = "completed"
               PROVE  \A s \in Targets(p) : Restored(s)
    BY DEF CompletedPlanDidItsWork
  <2>1. DOMAIN plan[p].steps = 1..plan[p].index
    <3>1. plan[p].index = Len(plan[p].steps) /\ plan[p].steps \in Seq(Step)
      BY PlanFields DEF RecoveryInvariant, PlanFits, EndFits, Plan
    <3> QED BY <3>1
  <2> QED BY <2>1 DEF RecoveryInvariant, PlanFits, DoneFits, Targets
<1> QED BY <1>1, InvariantHolds, PTL

\* A COMPLETED staged recovery leaves nothing of the deployment anywhere, a COMPLETED
\* region's plan nothing in its region, but what deploy() installed afterwards.
THEOREM RecoveryReachesAll == Spec => []RecoveryIsTotal
<1>1. TypeOK /\ RecoveryInvariant /\ CompletedPlanDidItsWork => RecoveryIsTotal
  <2> SUFFICES ASSUME TypeOK, RecoveryInvariant, CompletedPlanDidItsWork,
                      NEW p \in Plans, plan[p].status = "completed",
                      NEW s \in Scope(p) \ (plan[p].since \cup installed)
               PROVE  Restored(s)
    BY DEF RecoveryIsTotal, Scope
  <2>1. s \in Servers
    BY DEF Scope, InRegion
  <2>2. CASE s \in updated
    BY <2>2 DEF RecoveryInvariant, PlanFits, ScopeFits, CompletedPlanDidItsWork
  <2>3. CASE s \notin updated
    BY <2>1, <2>3 DEF RecoveryInvariant, RecordFits, Fresh, Deployed, Reverted, Restored
  <2> QED BY <2>2, <2>3
<1> QED BY <1>1, InvariantHolds, CompletionIsHonest, PTL

=============================================================================
