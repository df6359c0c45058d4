-------------------------- MODULE Governance_proofs --------------------------
(***************************************************************************)
(* Proofs about governance checkpoints, for any number of engine threads,  *)
(* any cluster, any limits, and the standard policies in any order.        *)
(***************************************************************************)
EXTENDS Governance, FiniteSetTheorems, SequenceTheorems, TLAPS

LEMMA PolicyType ==
    /\ Len(Policies) \in Nat
    /\ \A i \in 1..Len(Policies) : Policies[i] \in StandardPolicies
<1>1. Policies \in Seq(StandardPolicies)
  BY GovernanceAssumption
<1> QED BY <1>1, ElementOfSeq, LenProperties

\* What each policy may say.
LEMMA ResultsAre ==
    ASSUME NEW t \in Threads, NEW p \in StandardPolicies, NEW result \in Results(t, p)
    PROVE  /\ result \in {"pass", "block", "rollback", "approval"}
           /\ p \in CriticalPolicies /\ call[t].category = "CRITICAL" => result = "block"
           /\ p = "HealthPolicy" => result = "rollback" \/ Unlooked(t) = {}
           /\ p = "ApprovalPolicy" /\ call[t].category \in {"HIGH", "CRITICAL"} =>
                result = "approval"
           /\ p = "RecoveryRetryCeilingPolicy" /\ call[t].attempts >= MaxRecoveryAttempts =>
                result = "block"
           /\ p = "RollbackStormPreventionPolicy" /\ call[t].recent >= MaxRecentRollbacks =>
                result = "block"
<1> USE DEF CriticalPolicies, WindowPolicies
<1>1. CASE p \in CriticalPolicies
  <2>1. Results(t, p) = {IF call[t].category = "CRITICAL" THEN "block" ELSE "pass"}
    BY <1>1 DEF Results
  <2> QED BY <1>1, <2>1
<1>2. CASE p \in WindowPolicies
  <2>1. Results(t, p) = {"pass", "block"}
    BY <1>2 DEF Results
  <2> QED BY <1>2, <2>1
<1>3. CASE p = "HealthPolicy"
  <2>1. Results(t, p) = {"rollback" : s \in {u \in Unlooked(t) : status[u] # "ok"}}
                        \cup (IF Unlooked(t) = {} THEN {"pass"} ELSE {})
    BY <1>3 DEF Results
  <2> QED BY <1>3, <2>1
<1>4. CASE p = "ApprovalPolicy"
  <2>1. Results(t, p) = {IF call[t].category \in {"HIGH", "CRITICAL"} \/ NearlyDone(t)
                         THEN "approval" ELSE "pass"}
    BY <1>4 DEF Results
  <2> QED BY <1>4, <2>1
<1>5. CASE p = "RecoveryRetryCeilingPolicy"
  <2>1. Results(t, p) = {IF call[t].attempts >= MaxRecoveryAttempts
                         THEN "block" ELSE "pass"}
    BY <1>5 DEF Results
  <2> QED BY <1>5, <2>1
<1>6. CASE p = "RollbackStormPreventionPolicy"
  <2>1. Results(t, p) = {IF call[t].recent >= MaxRecentRollbacks THEN "block" ELSE "pass"}
    BY <1>6 DEF Results
  <2> QED BY <1>6, <2>1
<1> QED BY <1>1, <1>2, <1>3, <1>4, <1>5, <1>6 DEF StandardPolicies

LEMMA AtType ==
    ASSUME NEW checkpoint \in Checkpoint,
           NEW place \in {"idle", "context", "count", "evaluate", "gate", "decided", "stage",
                          "begin", "recover"}
    PROVE  At(place, checkpoint) \in Call
  BY PolicyType DEF At, Call, Category, Decision

-----------------------------------------------------------------------------
LEMMA TypeInit == Init => TypeOK
<1> SUFFICES ASSUME Init PROVE TypeOK
  OBVIOUS
<1>1. Idle \in Call
  BY AtType DEF Idle, Checkpoint
<1> QED BY <1>1, GovernanceAssumption DEF Init, TypeOK, Health

LEMMA TypeNext == TypeOK /\ [Next]_vars => TypeOK'
<1> SUFFICES ASSUME TypeOK, [Next]_vars PROVE TypeOK'
  OBVIOUS
<1> USE DEF TypeOK, log
<1>1. ASSUME NEW t \in Threads, NEW new \in Call, Move(t, new) PROVE TypeOK'
  BY <1>1 DEF Move
<1>2. ASSUME NEW t \in Threads, Checks(t) PROVE TypeOK'
  <2>0. call[t] \in Call
    OBVIOUS
  <2>1. CASE BuildContext(t)
    <3>1. RiskCategory(t) \in Category
      BY DEF RiskCategory, Category
    <3>2. Healthy(t) \in SUBSET Servers
      BY DEF Healthy, Strict
    <3> QED BY <2>0, <2>1, <3>1, <3>2, <1>1 DEF BuildContext, Call
  <2>2. CASE CountEvents(t)
    <3>1. rollbacks + manual \in Nat
      BY GovernanceAssumption
    <3> QED BY <2>0, <2>2, <3>1, <1>1 DEF CountEvents, Call
  <2>3. ASSUME NEW s \in Servers, LookAt(t, s) PROVE TypeOK'
    BY <2>0, <2>3, <1>1 DEF LookAt, Call
  <2>4. CASE Evaluate(t)
    <3>1. call[t].at + 1 \in 1..(Len(Policies) + 1)
      BY <2>0, <2>4, PolicyType DEF Evaluate, Call
    <3>2. \A result : After(call[t].decision, result) \in Decision
      BY <2>0 DEF After, Call, Decision
    <3>3. \A result : (call[t].asks \/ result = "approval") \in BOOLEAN
      OBVIOUS
    <3> QED BY <2>0, <2>4, <3>1, <3>2, <3>3, <1>1 DEF Evaluate, Call
  <2>5. CASE PolicyRaises(t)
    <3>1. call[t].at + 1 \in 1..(Len(Policies) + 1)
      BY <2>0, <2>5, PolicyType DEF PolicyRaises, Call
    <3> QED BY <2>0, <2>5, <3>1, <1>1 DEF PolicyRaises, Call, Decision
  <2>6. CASE LoopEnds(t)
    BY <2>0, <2>6, <1>1 DEF LoopEnds, Call
  <2>7. CASE Bypassed(t) \/ Approved(t) \/ Denied(t)
    BY <2>0, <2>7, <1>1 DEF Bypassed, Approved, Denied, Call, Decision
  <2> QED BY <1>2, <2>1, <2>2, <2>3, <2>4, <2>5, <2>6, <2>7 DEF Checks
<1>3. ASSUME NEW t \in Threads, Acts(t) PROVE TypeOK'
  <2>1. Idle \in Call
    BY AtType DEF Idle, Checkpoint
  <2>2. CASE Deploy(t)
    BY <2>2, AtType DEF Deploy, Checkpoint
  <2>3. CASE Blocked(t) \/ Completes(t)
    BY <2>1, <2>3, <1>1 DEF Blocked, Completes
  <2>4. CASE StageOpens(t) \/ StageMustBeUndone(t) \/ RollbackAllowed(t)
    BY <2>4, <1>1, AtType DEF StageOpens, StageMustBeUndone, RollbackAllowed, Checkpoint
  <2>5. ASSUME NEW next \in {"stage_start", "rollback"}, Started(t, next) \/ StagePasses(t, next)
        PROVE TypeOK'
    BY <2>5, <1>1, AtType DEF Started, StagePasses, Checkpoint
  <2>6. ASSUME NEW more \in SUBSET Servers, NEW outcome \in {"stage_complete", "rollback"},
               StageRuns(t, more, outcome)
        PROVE TypeOK'
    <3>1. At("context", outcome) \in Call
      BY AtType DEF Checkpoint
    <3>2. updated[t] \cup more \in SUBSET Servers
      OBVIOUS
    <3>3. updated' \in [Threads -> SUBSET Servers]
      BY <2>6, <3>2 DEF StageRuns
    <3>4. call' \in [Threads -> Call]
      BY <2>6, <3>1 DEF StageRuns
    <3> QED BY <2>6, <3>3, <3>4 DEF StageRuns
  <2>7. ASSUME NEW place \in {"recover", "idle"}, RollbackStarts(t, place) PROVE TypeOK'
    BY <2>7, AtType DEF RollbackStarts, Checkpoint
  <2>8. CASE RecoveryStarts(t)
    BY <2>1, <2>8 DEF RecoveryStarts
  <2> QED BY <1>3, <2>2, <2>3, <2>4, <2>5, <2>6, <2>7, <2>8 DEF Acts
<1>4. CASE ManualRollback
  BY <1>4, GovernanceAssumption DEF ManualRollback
<1>5. ASSUME NEW s \in Servers, NEW st \in Health, ChangeStatus(s, st) PROVE TypeOK'
  <2>1. \A c \in Call : \A seen \in SUBSET Servers : [c EXCEPT !.healthy = seen] \in Call
    BY DEF Call
  <2>2. \A t \in Threads :
          /\ call[t] \in Call /\ call[t].healthy \in SUBSET Servers
          /\ call[t].healthy \cup ({s} \cap Strict(t)) \in SUBSET Servers
    BY DEF Call, Strict
  <2>3. call' \in [Threads -> Call]
    BY <1>5, <2>1, <2>2 DEF ChangeStatus
  <2> QED BY <1>5, <2>3 DEF ChangeStatus
<1>6. CASE UNCHANGED vars
  BY <1>6 DEF vars
<1> QED BY <1>2, <1>3, <1>4, <1>5, <1>6 DEF Next

\* Every variable keeps its type, at every checkpoint of every thread.
THEOREM TypeCorrect == Spec => []TypeOK
<1> QED BY TypeInit, TypeNext, PTL DEF Spec

-----------------------------------------------------------------------------
(***************************************************************************)
(* What a thread's checkpoint record says, given the updated servers of    *)
(* zero-degradation regions and the health of all servers.                 *)
(***************************************************************************)
Asked(c) == c.pc \in {"evaluate", "gate", "decided"}

\* What is known once the i-th policy has been asked.
Heeded(c, strict, i) ==
    /\ c.decision # "BLOCK" =>
          /\ Policies[i] = "RollbackStormPreventionPolicy" => c.recent < MaxRecentRollbacks
          /\ Policies[i] = "RecoveryRetryCeilingPolicy" => c.attempts < MaxRecoveryAttempts
          /\ Policies[i] \in CriticalPolicies => c.category # "CRITICAL"
    /\ c.decision = "ALLOW" =>
          /\ Policies[i] = "ApprovalPolicy" => c.category \in {"LOW", "MEDIUM"} \/ c.asks
          /\ Policies[i] = "HealthPolicy" /\ c.cp = "stage_complete" => strict \subseteq c.healthy

Places(c) ==
    /\ c.pc \in {"context", "count"} =>
          c.at = 1 /\ c.looked = {} /\ c.said = {} /\ c.decision = "ALLOW"
    /\ c.pc \in {"gate", "decided"} => c.at = Len(Policies) + 1
    /\ c.pc = "gate" => c.decision = "ALLOW" /\ c.asks
    /\ c.pc = "begin" => c.cp = "rollback"
    /\ c.pc \in {"begin", "recover"} => c.recent = 0 /\ c.attempts = 0

Severest(c) ==
    Asked(c) =>
        /\ "block" \in c.said => c.decision = "BLOCK"
        /\ "rollback" \in c.said => c.decision \in {"BLOCK", "ROLLBACK"}

Vouched(c) ==
    c.pc = "decided" /\ c.decision = "ALLOW" /\ c.asks =>
        c.category \in {"LOW", "MEDIUM"} \/ c.approved

Watched(c, strict, health) ==
    c.cp = "stage_complete" /\ c.pc \in {"count", "evaluate", "gate"} =>
        /\ {s \in strict : health[s] = "ok"} \subseteq c.healthy
        /\ c.looked \cap strict \subseteq c.healthy

Fits(c, strict, health) ==
    /\ Places(c) /\ Severest(c) /\ Vouched(c) /\ Watched(c, strict, health)
    /\ Asked(c) => \A i \in 1..(c.at - 1) : Heeded(c, strict, i)

CallsFit == \A t \in Threads : Fits(call[t], Strict(t), status)

\* The threads that may still add a rollback, or a recovery, to the log although
\* the limit has been reached since they counted.
MayRoll(c) ==
    /\ c.cp = "rollback" /\ c.pc \in {"evaluate", "gate", "decided", "begin"}
    /\ c.recent < MaxRecentRollbacks

MayRecover(c) ==
    /\ \/ c.cp = "rollback" /\ c.pc \in {"evaluate", "gate", "decided", "begin"}
       \/ c.pc = "recover"
    /\ c.attempts < MaxRecoveryAttempts

Rolling == {t \in Threads : MayRoll(call[t])}
Recovering == {t \in Threads : MayRecover(call[t])}

LogFits ==
    /\ rollbacks >= MaxRecentRollbacks =>
          rollbacks + Cardinality(Rolling) < MaxRecentRollbacks + Cardinality(Threads)
    /\ recoveries >= MaxRecoveryAttempts =>
          recoveries + Cardinality(Recovering) < MaxRecoveryAttempts + Cardinality(Threads)

GovernanceInvariant == TypeOK /\ CallsFit /\ LogFits

-----------------------------------------------------------------------------
\* When the policies have all been asked, each of them has been heeded.
LEMMA AllHeeded ==
    ASSUME CallsFit, NEW t \in Threads, call[t].pc = "decided"
    PROVE  \A p \in StandardPolicies :
              \E i \in 1..Len(Policies) : Policies[i] = p /\ Heeded(call[t], Strict(t), i)
<1> DEFINE c == call[t]
<1>1. c.at = Len(Policies) + 1 /\ \A i \in 1..(c.at - 1) : Heeded(c, Strict(t), i)
  BY DEF CallsFit, Fits, Places, Asked
<1>2. 1..(c.at - 1) = 1..Len(Policies)
  BY <1>1, PolicyType
<1>3. \A p \in StandardPolicies : \E i \in 1..Len(Policies) : Policies[i] = p
  BY GovernanceAssumption
<1> QED BY <1>1, <1>2, <1>3

LEMMA AtFits ==
    ASSUME NEW place \in {"idle", "context", "stage", "begin", "recover"}, NEW checkpoint,
           place = "begin" => checkpoint = "rollback", NEW strict, NEW health
    PROVE  Fits(At(place, checkpoint), strict, health)
  BY DEF At, Fits, Places, Severest, Vouched, Watched, Asked

LEMMA CallsInit == Init => CallsFit
  BY AtFits DEF Init, CallsFit, Idle

\* Only the thread that takes the step changes its record or its updated servers.
LEMMA OneMoves ==
    ASSUME TypeOK, CallsFit, NEW t \in Threads, NEW new,
           call' = [call EXCEPT ![t] = new], status' = status,
           \A u \in Threads \ {t} : updated'[u] = updated[u],
           Fits(new, Strict(t)', status)
    PROVE  CallsFit'
<1>1. \A u \in Threads : call'[u] = IF u = t THEN new ELSE call[u]
  BY DEF TypeOK
<1>2. ASSUME NEW u \in Threads PROVE Fits(call'[u], Strict(u)', status')
  <2>1. CASE u = t
    BY <1>1, <2>1
  <2>2. CASE u # t
    <3>1. Strict(u)' = Strict(u) /\ call'[u] = call[u]
      BY <1>1, <2>2 DEF Strict
    <3> QED BY <3>1 DEF CallsFit
  <2> QED BY <2>1, <2>2
<1> QED BY <1>2 DEF CallsFit

LEMMA MoveFits ==
    ASSUME TypeOK, CallsFit, NEW t \in Threads, NEW new, Move(t, new),
           Fits(new, Strict(t), status)
    PROVE  CallsFit'
<1>1. Strict(t)' = Strict(t)
  BY DEF Move, Strict
<1> QED BY <1>1, OneMoves DEF Move

\* Asking a policy: what it says is heeded, and nothing heeded before is lost.
LEMMA EvaluateFits ==
    ASSUME TypeOK, CallsFit, NEW t \in Threads, Evaluate(t)
    PROVE  CallsFit'
<1> DEFINE c == call[t]
           p == Policies[c.at]
<1>1. c \in Call /\ Fits(c, Strict(t), status)
  BY DEF TypeOK, CallsFit
<1>2. c.pc = "evaluate" /\ c.at \in 1..Len(Policies) /\ p \in StandardPolicies
  BY <1>1, PolicyType DEF Evaluate, Call
<1>3. PICK result \in Results(t, p) :
        Move(t, [c EXCEPT !.at = @ + 1, !.looked = {}, !.decision = After(@, result),
                          !.asks = @ \/ result = "approval",
                          !.said = @ \cup ({result} \cap {"block", "rollback"})])
  BY DEF Evaluate
<1> DEFINE new == [c EXCEPT !.at = @ + 1, !.looked = {}, !.decision = After(@, result),
                            !.asks = @ \/ result = "approval",
                            !.said = @ \cup ({result} \cap {"block", "rollback"})]
<1>4. /\ new.pc = "evaluate" /\ new.cp = c.cp /\ new.category = c.category
      /\ new.recent = c.recent /\ new.attempts = c.attempts /\ new.healthy = c.healthy
      /\ new.at = c.at + 1 /\ new.looked = {} /\ new.decision = After(c.decision, result)
      /\ new.said = c.said \cup ({result} \cap {"block", "rollback"})
      /\ new.asks = (c.asks \/ result = "approval")
  BY <1>1, <1>2 DEF Call
<1>5. Places(new) /\ Vouched(new)
  BY <1>4 DEF Places, Vouched
<1>6. Severest(new)
  BY <1>1, <1>2, <1>4 DEF Fits, Severest, Asked, After
<1>7. Watched(new, Strict(t), status)
  BY <1>1, <1>2, <1>4 DEF Fits, Watched
<1>8. ASSUME NEW i \in 1..(new.at - 1) PROVE Heeded(new, Strict(t), i)
  <2>1. CASE i = c.at
    <3>1. /\ p = "RollbackStormPreventionPolicy" /\ c.recent >= MaxRecentRollbacks =>
                 new.decision = "BLOCK"
          /\ p = "RecoveryRetryCeilingPolicy" /\ c.attempts >= MaxRecoveryAttempts =>
                 new.decision = "BLOCK"
          /\ p \in CriticalPolicies /\ c.category = "CRITICAL" => new.decision = "BLOCK"
      BY <1>2, <1>4, ResultsAre DEF After
    <3>2. p = "ApprovalPolicy" => new.category \in {"LOW", "MEDIUM"} \/ new.asks
      <4>1. p = "ApprovalPolicy" /\ c.category \in {"HIGH", "CRITICAL"} => result = "approval"
        BY <1>2, ResultsAre
      <4>2. c.category \in {"LOW", "MEDIUM", "HIGH", "CRITICAL"}
        BY <1>1 DEF Call, Category
      <4> QED BY <1>4, <4>1, <4>2
    <3>3. p = "HealthPolicy" /\ c.cp = "stage_complete" /\ new.decision = "ALLOW" =>
            Strict(t) \subseteq c.healthy
      <4> SUFFICES ASSUME p = "HealthPolicy", c.cp = "stage_complete", new.decision = "ALLOW"
                   PROVE  Strict(t) \subseteq c.healthy
        OBVIOUS
      <4>1. result = "rollback" \/ Unlooked(t) = {}
        BY <1>2, ResultsAre
      <4>2. result # "rollback"
        BY <1>4 DEF After
      <4>3. c.looked \cap Strict(t) \subseteq c.healthy
        BY <1>1, <1>2 DEF Fits, Watched
      <4> QED BY <4>1, <4>2, <4>3 DEF Unlooked
    <3>4. /\ c.recent \in Nat /\ c.attempts \in Nat
          /\ MaxRecentRollbacks \in Nat /\ MaxRecoveryAttempts \in Nat
      BY <1>1, GovernanceAssumption DEF Call
    <3> QED BY <2>1, <1>4, <3>1, <3>2, <3>3, <3>4 DEF Heeded
  <2>2. CASE i # c.at
    <3>1. i \in 1..c.at /\ c.at \in Nat
      BY <1>2, <1>4
    <3>2. i \in 1..(c.at - 1)
      BY <2>2, <3>1
    <3>3. Heeded(c, Strict(t), i)
      BY <1>1, <1>2, <3>2 DEF Fits, Asked
    <3>4. /\ new.decision # "BLOCK" => c.decision # "BLOCK"
          /\ new.decision = "ALLOW" => c.decision = "ALLOW"
      BY <1>4 DEF After
    <3> QED BY <1>4, <3>3, <3>4 DEF Heeded
  <2> QED BY <2>1, <2>2
<1>9. Fits(new, Strict(t), status)
  BY <1>5, <1>6, <1>7, <1>8 DEF Fits
<1> QED BY <1>3, <1>9, MoveFits

LEMMA ChecksFit ==
    ASSUME TypeOK, CallsFit, NEW t \in Threads, Checks(t)
    PROVE  CallsFit'
<1> DEFINE c == call[t]
<1>0. c \in Call /\ Fits(c, Strict(t), status)
  BY DEF TypeOK, CallsFit
<1>1. CASE BuildContext(t)
  <2> DEFINE new == [c EXCEPT !.pc = "count", !.category = RiskCategory(t),
                              !.healthy = Healthy(t)]
  <2>1. /\ new.pc = "count" /\ new.cp = c.cp /\ new.at = 1 /\ new.looked = {}
        /\ new.said = {} /\ new.decision = "ALLOW" /\ new.healthy = Healthy(t)
    BY <1>0, <1>1 DEF BuildContext, Call, Fits, Places
  <2>2. Fits(new, Strict(t), status)
    BY <2>1 DEF Fits, Places, Severest, Vouched, Watched, Asked, Healthy
  <2> QED BY <1>1, <2>2, MoveFits DEF BuildContext
<1>2. CASE CountEvents(t)
  <2> DEFINE new == [c EXCEPT !.pc = "evaluate", !.recent = rollbacks + manual,
                              !.attempts = recoveries]
  <2>1. /\ new.pc = "evaluate" /\ new.cp = c.cp /\ new.at = 1 /\ new.looked = {}
        /\ new.said = {} /\ new.decision = "ALLOW" /\ new.healthy = c.healthy /\ c.pc = "count"
    BY <1>0, <1>2 DEF CountEvents, Call, Fits, Places
  <2>2. Fits(new, Strict(t), status)
    BY <1>0, <2>1 DEF Fits, Places, Severest, Vouched, Watched, Asked
  <2> QED BY <1>2, <2>2, MoveFits DEF CountEvents
<1>3. ASSUME NEW s \in Servers, LookAt(t, s) PROVE CallsFit'
  <2> DEFINE new == [c EXCEPT !.looked = @ \cup {s}]
  <2>1. /\ new.pc = "evaluate" /\ c.pc = "evaluate" /\ new.cp = c.cp /\ new.at = c.at
        /\ new.said = c.said /\ new.decision = c.decision /\ new.healthy = c.healthy
        /\ new.category = c.category /\ new.recent = c.recent /\ new.attempts = c.attempts
        /\ new.asks = c.asks /\ new.looked = c.looked \cup {s}
    BY <1>0, <1>3 DEF LookAt, Call
  <2>2. Watched(new, Strict(t), status)
    BY <1>0, <1>3, <2>1 DEF LookAt, Unlooked, Fits, Watched
  <2>3. Places(new) /\ Severest(new) /\ Vouched(new)
    BY <1>0, <2>1 DEF Fits, Places, Severest, Vouched, Asked
  <2>4. \A i \in 1..(new.at - 1) : Heeded(new, Strict(t), i)
    BY <1>0, <2>1 DEF Fits, Asked, Heeded
  <2>5. Fits(new, Strict(t), status)
    BY <2>2, <2>3, <2>4 DEF Fits
  <2> QED BY <1>3, <2>5, MoveFits DEF LookAt
<1>4. CASE Evaluate(t)
  BY <1>4, EvaluateFits
<1>5. CASE PolicyRaises(t)
  <2> DEFINE new == [c EXCEPT !.at = @ + 1, !.looked = {}, !.decision = "BLOCK",
                              !.said = @ \cup {"block"}]
  <2>1. /\ new.pc = "evaluate" /\ c.pc = "evaluate" /\ new.cp = c.cp
        /\ new.decision = "BLOCK" /\ new.healthy = c.healthy /\ new.looked = {}
    BY <1>0, <1>5 DEF PolicyRaises, Call
  <2>2. Watched(new, Strict(t), status)
    BY <1>0, <2>1 DEF Fits, Watched
  <2>3. Fits(new, Strict(t), status)
    BY <2>1, <2>2 DEF Fits, Places, Severest, Vouched, Heeded
  <2> QED BY <1>5, <2>3, MoveFits DEF PolicyRaises
<1>6. CASE LoopEnds(t)
  <2> DEFINE place == IF c.decision = "ALLOW" /\ c.asks THEN "gate" ELSE "decided"
             new == [c EXCEPT !.pc = place]
  <2>1. /\ new.pc = place /\ c.pc = "evaluate" /\ new.cp = c.cp
        /\ new.at = c.at /\ c.at = Len(Policies) + 1
        /\ new.said = c.said /\ new.decision = c.decision /\ new.healthy = c.healthy
        /\ new.category = c.category /\ new.recent = c.recent /\ new.attempts = c.attempts
        /\ new.asks = c.asks /\ new.looked = c.looked
    BY <1>0, <1>6 DEF LoopEnds, Call
  <2>2. Watched(new, Strict(t), status)
    BY <1>0, <2>1 DEF Fits, Watched
  <2>3. Places(new) /\ Severest(new) /\ Vouched(new)
    BY <1>0, <2>1 DEF Fits, Places, Severest, Vouched, Asked
  <2>4. \A i \in 1..(new.at - 1) : Heeded(new, Strict(t), i)
    BY <1>0, <2>1 DEF Fits, Asked, Heeded
  <2>5. Fits(new, Strict(t), status)
    BY <2>2, <2>3, <2>4 DEF Fits
  <2> QED BY <1>6, <2>5, MoveFits DEF LoopEnds
<1>7. ASSUME NEW new \in Call, Move(t, new), c.pc = "gate", new.pc = "decided",
             new.at = c.at, new.said = c.said, new.cp = c.cp, new.healthy = c.healthy,
             new.category = c.category, new.recent = c.recent, new.attempts = c.attempts,
             new.asks = c.asks,
             \/ new.decision = "BLOCK"
             \/ new.decision = c.decision
                /\ (new.category \in {"LOW", "MEDIUM"} \/ new.approved)
      PROVE CallsFit'
  <2>1. Places(new) /\ Vouched(new) /\ Watched(new, Strict(t), status)
    BY <1>0, <1>7 DEF Fits, Places, Vouched, Watched
  <2>2. Severest(new)
    BY <1>0, <1>7 DEF Fits, Severest, Asked
  <2>3. \A i \in 1..(new.at - 1) : Heeded(new, Strict(t), i)
    BY <1>0, <1>7 DEF Fits, Asked, Heeded
  <2> QED BY <1>7, <2>1, <2>2, <2>3, MoveFits DEF Fits
<1>8. CASE Bypassed(t)
  <2>1. [c EXCEPT !.pc = "decided"] \in Call
    BY <1>0 DEF Call
  <2> QED BY <1>0, <1>8, <2>1, <1>7 DEF Bypassed, Call
<1>9. CASE Approved(t)
  <2>1. [c EXCEPT !.pc = "decided", !.approved = TRUE] \in Call
    BY <1>0 DEF Call
  <2> QED BY <1>0, <1>9, <2>1, <1>7 DEF Approved, Call
<1>10. CASE Denied(t)
  <2>1. [c EXCEPT !.pc = "decided", !.decision = "BLOCK"] \in Call
    BY <1>0 DEF Call, Decision
  <2> QED BY <1>0, <1>10, <2>1, <1>7 DEF Denied, Call
<1> QED BY <1>1, <1>2, <1>3, <1>4, <1>5, <1>6, <1>8, <1>9, <1>10 DEF Checks

LEMMA ActsFit ==
    ASSUME TypeOK, CallsFit, NEW t \in Threads, Acts(t)
    PROVE  CallsFit'
<1>1. ASSUME NEW place \in {"idle", "context", "stage", "begin", "recover"},
             NEW checkpoint, place = "begin" => checkpoint = "rollback",
             call' = [call EXCEPT ![t] = At(place, checkpoint)], status' = status,
             \A u \in Threads \ {t} : updated'[u] = updated[u]
      PROVE CallsFit'
  BY <1>1, AtFits, OneMoves
<1>2. CASE Deploy(t)
  BY <1>2, <1>1 DEF Deploy, TypeOK
<1>3. CASE Blocked(t) \/ Completes(t)
  BY <1>3, <1>1 DEF Blocked, Completes, Move, Idle
<1>4. CASE StageOpens(t) \/ StageMustBeUndone(t) \/ RollbackAllowed(t)
  BY <1>4, <1>1 DEF StageOpens, StageMustBeUndone, RollbackAllowed, Move
<1>5. ASSUME NEW next, Started(t, next) \/ StagePasses(t, next)
      PROVE CallsFit'
  BY <1>5, <1>1 DEF Started, StagePasses, Move
<1>6. ASSUME NEW more \in SUBSET Servers, NEW outcome, StageRuns(t, more, outcome)
      PROVE CallsFit'
  BY <1>6, <1>1 DEF StageRuns, TypeOK
<1>7. ASSUME NEW place \in {"recover", "idle"}, RollbackStarts(t, place)
      PROVE CallsFit'
  BY <1>7, <1>1 DEF RollbackStarts
<1>8. CASE RecoveryStarts(t)
  BY <1>8, <1>1 DEF RecoveryStarts, Idle
<1> QED BY <1>2, <1>3, <1>4, <1>5, <1>6, <1>7, <1>8 DEF Acts

\* A server that is healthy again is recorded as seen healthy wherever it matters.
LEMMA StatusFits ==
    ASSUME TypeOK, CallsFit, NEW s \in Servers, NEW st \in Health, ChangeStatus(s, st)
    PROVE  CallsFit'
<1> SUFFICES ASSUME NEW t \in Threads PROVE Fits(call'[t], Strict(t), status')
  BY DEF ChangeStatus, CallsFit, Strict
<1> DEFINE c == call[t]
           new == call'[t]
<1>1. c \in Call /\ Fits(c, Strict(t), status)
  BY DEF TypeOK, CallsFit
<1>2. /\ new.pc = c.pc /\ new.cp = c.cp /\ new.at = c.at /\ new.said = c.said
      /\ new.category = c.category /\ new.recent = c.recent /\ new.attempts = c.attempts
      /\ new.asks = c.asks /\ new.looked = c.looked /\ new.decision = c.decision
      /\ new.approved = c.approved /\ c.healthy \subseteq new.healthy
  BY <1>1 DEF ChangeStatus, Call
<1>3. c.cp = "stage_complete" /\ c.pc \in {"count", "evaluate", "gate"} /\ st = "ok" =>
        {s} \cap Strict(t) \subseteq new.healthy
  BY <1>1 DEF ChangeStatus, Call
<1>4. \A u \in Servers : status'[u] = IF u = s THEN st ELSE status[u]
  BY DEF ChangeStatus, TypeOK
<1>5. Strict(t) \subseteq Servers
  BY GovernanceAssumption DEF Strict
<1>6. Watched(new, Strict(t), status')
  BY <1>1, <1>2, <1>3, <1>4, <1>5 DEF Fits, Watched
<1>7. Places(new) /\ Severest(new) /\ Vouched(new)
  BY <1>1, <1>2 DEF Fits, Places, Severest, Vouched, Asked
<1>8. Asked(new) => \A i \in 1..(new.at - 1) : Heeded(new, Strict(t), i)
  BY <1>1, <1>2 DEF Fits, Asked, Heeded
<1> QED BY <1>6, <1>7, <1>8 DEF Fits

LEMMA CallsNext == TypeOK /\ CallsFit /\ [Next]_vars => CallsFit'
<1> SUFFICES ASSUME TypeOK, CallsFit, [Next]_vars PROVE CallsFit'
  OBVIOUS
<1>1. CASE ManualRollback \/ UNCHANGED vars
  BY <1>1 DEF ManualRollback, vars, CallsFit, Strict
<1> QED BY <1>1, ChecksFit, ActsFit, StatusFits DEF Next

-----------------------------------------------------------------------------
LEMMA NumberType ==
    TypeOK => /\ rollbacks \in Nat /\ manual \in Nat /\ recoveries \in Nat
              /\ MaxRecentRollbacks \in Nat \ {0} /\ MaxRecoveryAttempts \in Nat \ {0}
              /\ \A t \in Threads : call[t].recent \in Nat /\ call[t].attempts \in Nat
  BY GovernanceAssumption DEF TypeOK, Call

\* How many threads there are in a set of threads, and in one that leaves one out.
LEMMA ThreadCount ==
    /\ Cardinality(Threads) \in Nat
    /\ \A S, T : S \subseteq T /\ T \subseteq Threads =>
          Cardinality(S) \in Nat /\ Cardinality(T) \in Nat /\ Cardinality(S) <= Cardinality(T)
    /\ \A S, T, t : S \subseteq T \ {t} /\ T \subseteq Threads /\ t \in T =>
          Cardinality(S) < Cardinality(T)
<1>1. \A T : T \subseteq Threads => IsFiniteSet(T)
  BY FS_Subset, GovernanceAssumption
<1>2. \A S, T : S \subseteq T /\ T \subseteq Threads =>
        Cardinality(S) \in Nat /\ Cardinality(T) \in Nat /\ Cardinality(S) <= Cardinality(T)
  BY <1>1, FS_Subset, FS_CardinalityType
<1>3. ASSUME NEW S, NEW T, NEW t, S \subseteq T \ {t}, T \subseteq Threads, t \in T
      PROVE Cardinality(S) < Cardinality(T)
  <2>1. Cardinality(T \ {t}) = Cardinality(T) - 1
    BY <1>1, <1>3, FS_RemoveElement
  <2>2. Cardinality(S) <= Cardinality(T \ {t}) /\ Cardinality(S) \in Nat
    BY <1>2, <1>3
  <2> QED BY <2>1, <2>2, <1>2, <1>3
<1> QED BY <1>2, <1>3

LEMMA LogInit == Init => LogFits
  BY GovernanceAssumption DEF Init, LogFits

\* A step that leaves the log alone, and adds no thread to those that may still
\* write to it beyond the limit.
LEMMA LogStays ==
    ASSUME TypeOK, LogFits, rollbacks' = rollbacks, recoveries' = recoveries,
           rollbacks >= MaxRecentRollbacks => Rolling' \subseteq Rolling,
           recoveries >= MaxRecoveryAttempts => Recovering' \subseteq Recovering
    PROVE  LogFits'
<1>1. Rolling \subseteq Threads /\ Recovering \subseteq Threads
  BY DEF Rolling, Recovering
<1>2. rollbacks >= MaxRecentRollbacks =>
        /\ Cardinality(Rolling') <= Cardinality(Rolling)
        /\ Cardinality(Rolling') \in Nat /\ Cardinality(Rolling) \in Nat
  BY <1>1, ThreadCount
<1>3. recoveries >= MaxRecoveryAttempts =>
        /\ Cardinality(Recovering') <= Cardinality(Recovering)
        /\ Cardinality(Recovering') \in Nat /\ Cardinality(Recovering) \in Nat
  BY <1>1, ThreadCount
<1> QED BY <1>2, <1>3, NumberType, ThreadCount DEF LogFits

LEMMA MoveStays ==
    ASSUME TypeOK, LogFits, NEW t \in Threads, NEW new, call' = [call EXCEPT ![t] = new],
           rollbacks' = rollbacks, recoveries' = recoveries,
           rollbacks >= MaxRecentRollbacks /\ MayRoll(new) => MayRoll(call[t]),
           recoveries >= MaxRecoveryAttempts /\ MayRecover(new) => MayRecover(call[t])
    PROVE  LogFits'
<1>1. \A u \in Threads : call'[u] = IF u = t THEN new ELSE call[u]
  BY DEF TypeOK
<1>2. rollbacks >= MaxRecentRollbacks => Rolling' \subseteq Rolling
  BY <1>1 DEF Rolling
<1>3. recoveries >= MaxRecoveryAttempts => Recovering' \subseteq Recovering
  BY <1>1 DEF Recovering
<1> QED BY <1>2, <1>3, LogStays

LEMMA ChecksLog ==
    ASSUME TypeOK, LogFits, NEW t \in Threads, Checks(t)
    PROVE  LogFits'
<1> DEFINE c == call[t]
<1>0. c \in Call
  BY DEF TypeOK
<1>1. ASSUME NEW new \in Call, Move(t, new), c.pc \in {"evaluate", "gate"},
             new.cp = c.cp, new.recent = c.recent, new.attempts = c.attempts,
             new.pc # "recover"
      PROVE LogFits'
  BY <1>1, MoveStays DEF Move, log, MayRoll, MayRecover
<1>2. CASE BuildContext(t)
  <2> DEFINE new == [c EXCEPT !.pc = "count", !.category = RiskCategory(t),
                              !.healthy = Healthy(t)]
  <2>1. new.pc = "count"
    BY <1>0 DEF Call
  <2> QED BY <1>2, <2>1, MoveStays DEF BuildContext, Move, log, MayRoll, MayRecover
<1>3. CASE CountEvents(t)
  <2> DEFINE new == [c EXCEPT !.pc = "evaluate", !.recent = rollbacks + manual,
                              !.attempts = recoveries]
  <2>1. new.pc = "evaluate" /\ new.recent = rollbacks + manual /\ new.attempts = recoveries
    BY <1>0 DEF Call
  <2>2. /\ rollbacks >= MaxRecentRollbacks => ~MayRoll(new)
        /\ recoveries >= MaxRecoveryAttempts => ~MayRecover(new)
    BY <2>1, NumberType DEF MayRoll, MayRecover
  <2> QED BY <1>3, <2>2, MoveStays DEF CountEvents, Move, log
<1>4. ASSUME NEW s \in Servers, LookAt(t, s) PROVE LogFits'
  <2>1. [c EXCEPT !.looked = @ \cup {s}] \in Call
    BY <1>0 DEF Call
  <2> QED BY <1>0, <1>1, <1>4, <2>1 DEF LookAt, Call
<1>5. CASE Evaluate(t)
  <2>1. PICK result :
          Move(t, [c EXCEPT !.at = @ + 1, !.looked = {}, !.decision = After(@, result),
                            !.asks = @ \/ result = "approval",
                            !.said = @ \cup ({result} \cap {"block", "rollback"})])
    BY <1>5 DEF Evaluate
  <2> DEFINE new == [c EXCEPT !.at = @ + 1, !.looked = {}, !.decision = After(@, result),
                              !.asks = @ \/ result = "approval",
                              !.said = @ \cup ({result} \cap {"block", "rollback"})]
  <2>2. /\ new.pc = c.pc /\ new.cp = c.cp /\ new.recent = c.recent
        /\ new.attempts = c.attempts
    BY <1>0 DEF Call
  <2>3. MayRoll(new) = MayRoll(c) /\ MayRecover(new) = MayRecover(c)
    BY <2>2 DEF MayRoll, MayRecover
  <2> QED BY <2>1, <2>3, MoveStays DEF Move, log
<1>6. CASE PolicyRaises(t)
  <2> DEFINE new == [c EXCEPT !.at = @ + 1, !.looked = {}, !.decision = "BLOCK",
                              !.said = @ \cup {"block"}]
  <2>1. /\ new.pc = c.pc /\ new.cp = c.cp /\ new.recent = c.recent
        /\ new.attempts = c.attempts
    BY <1>0 DEF Call
  <2>2. MayRoll(new) = MayRoll(c) /\ MayRecover(new) = MayRecover(c)
    BY <2>1 DEF MayRoll, MayRecover
  <2> QED BY <1>6, <2>2, MoveStays DEF PolicyRaises, Move, log
<1>7. CASE LoopEnds(t)
  <2>1. \A place \in {"gate", "decided"} : [c EXCEPT !.pc = place] \in Call
    BY <1>0 DEF Call
  <2> QED BY <1>0, <1>1, <1>7, <2>1 DEF LoopEnds, Call
<1>8. CASE Bypassed(t)
  <2>1. [c EXCEPT !.pc = "decided"] \in Call
    BY <1>0 DEF Call
  <2> QED BY <1>0, <1>1, <1>8, <2>1 DEF Bypassed, Call
<1>9. CASE Approved(t)
  <2>1. [c EXCEPT !.pc = "decided", !.approved = TRUE] \in Call
    BY <1>0 DEF Call
  <2> QED BY <1>0, <1>1, <1>9, <2>1 DEF Approved, Call
<1>10. CASE Denied(t)
  <2>1. [c EXCEPT !.pc = "decided", !.decision = "BLOCK"] \in Call
    BY <1>0 DEF Call, Decision
  <2> QED BY <1>0, <1>1, <1>10, <2>1 DEF Denied, Call
<1> QED BY <1>2, <1>3, <1>4, <1>5, <1>6, <1>7, <1>8, <1>9, <1>10 DEF Checks

LEMMA ActsLog ==
    ASSUME TypeOK, CallsFit, LogFits, NEW t \in Threads, Acts(t)
    PROVE  LogFits'
<1> DEFINE c == call[t]
<1>1. ASSUME NEW place \in {"idle", "context", "stage"}, NEW checkpoint,
             call' = [call EXCEPT ![t] = At(place, checkpoint)], UNCHANGED log
      PROVE LogFits'
  <2>1. ~MayRoll(At(place, checkpoint)) /\ ~MayRecover(At(place, checkpoint))
    BY DEF At, MayRoll, MayRecover
  <2> QED BY <1>1, <2>1, MoveStays DEF log
<1>2. CASE Deploy(t)
  BY <1>2, <1>1 DEF Deploy
<1>3. CASE Blocked(t) \/ Completes(t)
  BY <1>3, <1>1 DEF Blocked, Completes, Move, Idle
<1>4. CASE StageOpens(t) \/ StageMustBeUndone(t)
  BY <1>4, <1>1 DEF StageOpens, StageMustBeUndone, Move
<1>5. ASSUME NEW next, Started(t, next) \/ StagePasses(t, next)
      PROVE LogFits'
  BY <1>5, <1>1 DEF Started, StagePasses, Move
<1>6. ASSUME NEW more \in SUBSET Servers, NEW outcome, StageRuns(t, more, outcome)
      PROVE LogFits'
  BY <1>6, <1>1 DEF StageRuns
<1>7. CASE RollbackAllowed(t)
  <2>1. c.pc = "decided" /\ c.cp = "rollback" /\ c.decision # "BLOCK"
    BY <1>7 DEF RollbackAllowed, DecidedAt
  <2>2. PICK i \in 1..Len(Policies) :
          Policies[i] = "RollbackStormPreventionPolicy" /\ Heeded(c, Strict(t), i)
    BY <2>1, AllHeeded DEF StandardPolicies
  <2>3. PICK j \in 1..Len(Policies) :
          Policies[j] = "RecoveryRetryCeilingPolicy" /\ Heeded(c, Strict(t), j)
    BY <2>1, AllHeeded DEF StandardPolicies
  <2>4. c.recent < MaxRecentRollbacks /\ c.attempts < MaxRecoveryAttempts
    BY <2>1, <2>2, <2>3 DEF Heeded
  <2>5. MayRoll(c) /\ MayRecover(c)
    BY <2>1, <2>4 DEF MayRoll, MayRecover
  <2> QED BY <1>7, <2>5, MoveStays DEF RollbackAllowed, Move, log
<1>8. ASSUME NEW place \in {"recover", "idle"}, RollbackStarts(t, place)
      PROVE LogFits'
  <2>1. c.pc = "begin" /\ c.cp = "rollback" /\ c.recent = 0 /\ c.attempts = 0
    BY <1>8 DEF RollbackStarts, CallsFit, Fits, Places
  <2>2. t \in Rolling /\ t \in Recovering
    BY <2>1, NumberType DEF Rolling, Recovering, MayRoll, MayRecover
  <2>3. \A u \in Threads : call'[u] = IF u = t THEN At(place, "start") ELSE call[u]
    BY <1>8 DEF RollbackStarts, TypeOK
  <2>4. Rolling' \subseteq Rolling \ {t}
    BY <2>3 DEF Rolling, MayRoll, At
  <2>5. Recovering' \subseteq Recovering
    BY <2>2, <2>3 DEF Recovering
  <2>6. Rolling \subseteq Threads /\ Recovering \subseteq Threads
    BY DEF Rolling, Recovering
  <2>7. /\ Cardinality(Rolling') < Cardinality(Rolling)
        /\ Cardinality(Rolling) <= Cardinality(Threads)
        /\ Cardinality(Recovering') <= Cardinality(Recovering)
        /\ Cardinality(Rolling') \in Nat /\ Cardinality(Rolling) \in Nat
        /\ Cardinality(Recovering') \in Nat /\ Cardinality(Recovering) \in Nat
    BY <2>2, <2>4, <2>5, <2>6, ThreadCount
  <2>8. rollbacks' = rollbacks + 1 /\ recoveries' = recoveries
    BY <1>8 DEF RollbackStarts
  <2> QED BY <2>7, <2>8, NumberType, ThreadCount DEF LogFits
<1>9. CASE RecoveryStarts(t)
  <2>1. c.pc = "recover" /\ c.attempts = 0
    BY <1>9 DEF RecoveryStarts, CallsFit, Fits, Places
  <2>2. t \in Recovering
    BY <2>1, NumberType DEF Recovering, MayRecover
  <2>3. \A u \in Threads : call'[u] = IF u = t THEN Idle ELSE call[u]
    BY <1>9 DEF RecoveryStarts, TypeOK
  <2>4. Rolling' \subseteq Rolling
    BY <2>3 DEF Rolling, MayRoll, At, Idle
  <2>5. Recovering' \subseteq Recovering \ {t}
    BY <2>3 DEF Recovering, MayRecover, At, Idle
  <2>6. Rolling \subseteq Threads /\ Recovering \subseteq Threads
    BY DEF Rolling, Recovering
  <2>7. /\ Cardinality(Rolling') <= Cardinality(Rolling)
        /\ Cardinality(Recovering) <= Cardinality(Threads)
        /\ Cardinality(Recovering') < Cardinality(Recovering)
        /\ Cardinality(Rolling') \in Nat /\ Cardinality(Rolling) \in Nat
        /\ Cardinality(Recovering') \in Nat /\ Cardinality(Recovering) \in Nat
    BY <2>2, <2>4, <2>5, <2>6, ThreadCount
  <2>8. recoveries' = recoveries + 1 /\ rollbacks' = rollbacks
    BY <1>9 DEF RecoveryStarts
  <2> QED BY <2>7, <2>8, NumberType, ThreadCount DEF LogFits
<1> QED BY <1>2, <1>3, <1>4, <1>5, <1>6, <1>7, <1>8, <1>9 DEF Acts

LEMMA LogNext == TypeOK /\ CallsFit /\ LogFits /\ [Next]_vars => LogFits'
<1> SUFFICES ASSUME TypeOK, CallsFit, LogFits, [Next]_vars PROVE LogFits'
  OBVIOUS
<1>1. CASE ManualRollback \/ UNCHANGED vars
  BY <1>1, LogStays DEF ManualRollback, vars, log, Rolling, Recovering
<1>2. ASSUME NEW s \in Servers, NEW st \in Health, ChangeStatus(s, st) PROVE LogFits'
  <2>1. \A t \in Threads :
          /\ call'[t].pc = call[t].pc /\ call'[t].cp = call[t].cp
          /\ call'[t].recent = call[t].recent /\ call'[t].attempts = call[t].attempts
    BY <1>2 DEF ChangeStatus, TypeOK, Call
  <2>2. Rolling' \subseteq Rolling /\ Recovering' \subseteq Recovering
    BY <2>1 DEF Rolling, Recovering, MayRoll, MayRecover
  <2> QED BY <1>2, <2>2, LogStays DEF ChangeStatus, log
<1> QED BY <1>1, <1>2, ChecksLog, ActsLog DEF Next

-----------------------------------------------------------------------------
\* What a thread has been told at a checkpoint, and what it may still add to the
\* log, holds in every reachable state.
THEOREM InvariantHolds == Spec => []GovernanceInvariant
<1>1. Init => GovernanceInvariant
  BY TypeInit, CallsInit, LogInit DEF GovernanceInvariant
<1>2. GovernanceInvariant /\ [Next]_vars => GovernanceInvariant'
  BY TypeNext, CallsNext, LogNext DEF GovernanceInvariant
<1> QED BY <1>1, <1>2, PTL DEF Spec

\* The decision of a checkpoint is the severest thing any policy said, in whatever
\* order the policies are asked and whichever of them raise.
THEOREM SeverestDecides == Spec => []DecisionIsSeverest
<1>1. GovernanceInvariant => DecisionIsSeverest
  BY DEF GovernanceInvariant, CallsFit, Fits, Severest, Asked, DecisionIsSeverest
<1> QED BY <1>1, InvariantHolds, PTL

\* With n threads, the automatic rollbacks and the recoveries exceed their limits
\* by n - 1 at most.
THEOREM CeilingsAreKept == Spec => []CeilingsHold
<1>1. GovernanceInvariant => CeilingsHold
  <2> SUFFICES ASSUME GovernanceInvariant PROVE CeilingsHold
    OBVIOUS
  <2>1. Cardinality(Threads) \in Nat \ {0}
    BY GovernanceAssumption, FS_EmptySet, FS_CardinalityType
  <2>2. Cardinality(Rolling) \in Nat /\ Cardinality(Recovering) \in Nat
    BY ThreadCount DEF Rolling, Recovering
  <2> QED BY <2>1, <2>2, NumberType DEF GovernanceInvariant, LogFits, CeilingsHold
<1> QED BY <1>1, InvariantHolds, PTL

\* No checkpoint allows high risk without a human, or critical risk at all.
THEOREM HighRiskIsApproved == Spec => []RiskIsApproved
<1>1. GovernanceInvariant => RiskIsApproved
  <2> SUFFICES ASSUME GovernanceInvariant, NEW t \in Threads,
                      call[t].pc = "decided", call[t].decision = "ALLOW"
               PROVE  \/ call[t].category \in {"LOW", "MEDIUM"}
                      \/ call[t].category = "HIGH" /\ call[t].approved
    BY DEF RiskIsApproved
  <2>1. call[t].category \in Category /\ Vouched(call[t]) /\ CallsFit
    BY DEF GovernanceInvariant, TypeOK, Call, CallsFit, Fits
  <2>2. PICK i \in 1..Len(Policies) :
          Policies[i] = "AbortPolicy" /\ Heeded(call[t], Strict(t), i)
    BY <2>1, AllHeeded DEF StandardPolicies, CriticalPolicies
  <2>3. PICK j \in 1..Len(Policies) :
          Policies[j] = "ApprovalPolicy" /\ Heeded(call[t], Strict(t), j)
    BY <2>1, AllHeeded DEF StandardPolicies
  <2>4. call[t].category # "CRITICAL"
    BY <2>2 DEF Heeded, CriticalPolicies
  <2>5. call[t].category \in {"LOW", "MEDIUM"} \/ call[t].asks
    BY <2>3 DEF Heeded
  <2> QED BY <2>1, <2>4, <2>5 DEF Vouched, Category
<1> QED BY <1>1, InvariantHolds, PTL

\* A stage is passed only if every updated server of a zero-degradation region was
\* healthy some time during the stage's last checkpoint.
THEOREM StagesAdvanceHealthy == Spec => AdvancesHealthy
<1> DEFINE Advances(t) == DecidedAt(t, "stage_complete") /\ call'[t].pc = "context"
                            /\ call'[t].cp = "stage_start"
           Advance == \A t \in Threads : Advances(t) => Strict(t) \subseteq call[t].healthy
<1>1. GovernanceInvariant /\ [Next]_vars => [Advance]_vars
  <2> SUFFICES ASSUME GovernanceInvariant, Next, NEW t \in Threads, Advances(t)
               PROVE  Strict(t) \subseteq call[t].healthy
    OBVIOUS
  <2>0. call[t].pc = "decided" /\ call[t].cp = "stage_complete" /\ TypeOK
    BY DEF DecidedAt, GovernanceInvariant
  <2>1. call'[t] # call[t]
    BY <2>0
  <2>2. ~ManualRollback
    BY <2>1 DEF ManualRollback
  <2>3. ASSUME NEW s \in Servers, NEW st \in Health, ChangeStatus(s, st) PROVE FALSE
    <3>1. call'[t].pc = call[t].pc
      BY <2>0, <2>3 DEF ChangeStatus, TypeOK, Call
    <3> QED BY <2>0, <3>1
  <2>4. ASSUME NEW u \in Threads, Checks(u) PROVE FALSE
    <3>1. CASE u = t
      BY <2>0, <2>4, <3>1 DEF Checks, BuildContext, CountEvents, LookAt, Evaluate,
         PolicyRaises, LoopEnds, Bypassed, Approved, Denied
    <3>2. CASE u # t
      BY <2>0, <2>1, <2>4, <3>2 DEF Checks, BuildContext, CountEvents, LookAt, Evaluate,
         PolicyRaises, LoopEnds, Bypassed, Approved, Denied, Move, TypeOK
    <3> QED BY <3>1, <3>2
  <2>5. ASSUME NEW u \in Threads, Acts(u) PROVE call[t].decision = "ALLOW"
    <3>1. CASE u # t
      BY <2>0, <2>1, <2>5, <3>1 DEF Acts, Deploy, Blocked, StageOpens, Started, StagePasses,
         StageRuns, Completes, StageMustBeUndone, RollbackAllowed, RollbackStarts,
         RecoveryStarts, Move, TypeOK
    <3>2. ASSUME NEW place, NEW checkpoint, call' = [call EXCEPT ![t] = At(place, checkpoint)]
          PROVE  place = "context" /\ checkpoint = "stage_start"
      BY <2>0, <3>2 DEF At, TypeOK
    <3>3. CASE u = t
      BY <2>0, <2>5, <3>2, <3>3 DEF Acts, Deploy, Blocked, StageOpens, Started, StagePasses,
         StageRuns, Completes, StageMustBeUndone, RollbackAllowed, RollbackStarts,
         RecoveryStarts, Move, DecidedAt, Idle
    <3> QED BY <3>1, <3>3
  <2>6. call[t].decision = "ALLOW"
    BY <2>2, <2>3, <2>4, <2>5 DEF Next
  <2>7. PICK i \in 1..Len(Policies) :
          Policies[i] = "HealthPolicy" /\ Heeded(call[t], Strict(t), i)
    BY <2>0, AllHeeded DEF GovernanceInvariant, StandardPolicies
  <2> QED BY <2>0, <2>6, <2>7 DEF Heeded
<1> QED BY <1>1, InvariantHolds, PTL DEF Spec, AdvancesHealthy

=============================================================================
