------------------------ MODULE ManualRollback_proofs ------------------------
(***************************************************************************)
(* Proofs about rollbacks of one deployment by any number of threads, on   *)
(* any cluster, with any number of drifts.                                 *)
(***************************************************************************)
EXTENDS ManualRollback, TLAPS

LEMMA RollbackType ==
    ASSUME NEW map \in [Servers -> Server], NEW id
    PROVE  RollbackServer(map, id) \in [Servers -> Server]
  BY ClusterAssumption DEF RollbackServer, RollbackReturns, Flipped, Server, ServerStatus,
                           HistoryAction

LEMMA NoticedFrames ==
    ASSUME NEW frames \in [Threads -> Frame], NEW map
    PROVE  /\ Noticed(frames, map) \in [Threads -> Frame]
           /\ \A c \in Threads :
                 LET new == Noticed(frames, map)[c]
                 IN  /\ new.stale = {id \in frames[c].stale : Inconsistent(map, id)}
                     /\ new.pc = frames[c].pc /\ new.force = frames[c].force
                     /\ new.bad = frames[c].bad /\ new.todo = frames[c].todo
                     /\ new.at = frames[c].at /\ new.ids = frames[c].ids
                     /\ new.mark = frames[c].mark
  BY DEF Noticed, Frame

-----------------------------------------------------------------------------
LEMMA TypeInit == Init => TypeOK
<1> SUFFICES ASSUME Init PROVE TypeOK
  OBVIOUS
<1>1. PICK touched \in SUBSET Servers \ {{}} :
          \E d \in Deployments(touched) : Finds(touched, d)
  BY DEF Init
<1>0. PICK d \in Deployments(touched) : Finds(touched, d)
  BY <1>1
<1>2. before \in [Servers -> Versions] /\ source \in Versions /\ drifts \in 0..MaxDrifts
  <2>1. (IF Mixed THEN Versions ELSE {InitialVersion}) \subseteq Versions
    BY ClusterAssumption, RollbackAssumption
  <2>2. MajorityVersions(before) \subseteq Versions
    BY DEF MajorityVersions
  <2>3. drifts \in 0..MaxDrifts
    BY RollbackAssumption DEF Init
  <2> QED BY <2>1, <2>2, <2>3 DEF Init
<1>3. /\ status \in {"completed", "failed", "in_progress"}
      /\ updated \subseteq Servers \cup Missing
  BY <1>0 DEF Deployments, Finds
<1>4. \A v \in Versions, st \in ServerStatus : Deployed(v, st) \in Server
  BY RollbackAssumption DEF Deployed, Server, HistoryAction
<1>5. \A v \in Versions : Generated(v) \in Server
  BY DEF Generated, Server, HistoryAction, ServerStatus
<1>6. servers \in [Servers -> Server]
  BY <1>0, <1>2, <1>4, <1>5 DEF ServerStatus, Finds
<1>7. call \in [Threads -> Frame]
  BY <1>0 DEF Uncalled, Absent, Frame, Finds
<1> QED BY <1>2, <1>3, <1>6, <1>7 DEF TypeOK

LEMMA TypeNext == TypeOK /\ [Next]_vars => TypeOK'
<1> SUFFICES ASSUME TypeOK, [Next]_vars PROVE TypeOK'
  OBVIOUS
<1> USE DEF TypeOK
<1>1. ASSUME NEW c \in Threads, Thread(c) PROVE TypeOK'
  <2>0. call[c] \in Frame
    OBVIOUS
  <2>1. ASSUME NEW force \in ForceFlags, Call(c, force) PROVE TypeOK'
    BY <2>0, <2>1, RollbackAssumption DEF Call, Uncalled, Frame
  <2>2. CASE Proceed(c) \/ Return(c) \/ AbortReturns(c) \/ SweepBegins(c)
    BY <2>0, <2>2 DEF Proceed, Return, AbortReturns, SweepBegins, Frame
  <2>5. CASE Refuse(c) \/ Block(c) \/ Raise(c)
    <3>1. \A pc \in {"refused", "blocked", "raised"} : [Uncalled EXCEPT !.pc = pc] \in Frame
      BY DEF Uncalled, Frame
    <3>2. call' \in [Threads -> Frame]
      BY <2>5, <3>1 DEF Refuse, Block, Raise
    <3> QED BY <2>5, <3>2 DEF Refuse, Block, Raise
  <2>6. ASSUME NEW mark \in {"rolling_back", "aborted"}, SweepStarts(c, mark) PROVE TypeOK'
    BY <2>0, <2>6 DEF SweepStarts, Frame
  <2>3. ASSUME NEW id \in Servers \cup Missing,
               Validate(c, id) \/ SkipMissing(c, id) \/ AlreadyReverted(c, id) \/ LookAt(c, id)
        PROVE TypeOK'
    <3>1. (call[c].bad \/ Inconsistent(servers, id)) \in BOOLEAN
      OBVIOUS
    <3> QED BY <2>0, <2>3, <3>1 DEF Validate, SkipMissing, AlreadyReverted, LookAt, Frame
  <2>4. ASSUME NEW id \in Servers \cup Missing, Act(c, id) \/ Sweep(c, id) PROVE TypeOK'
    <3>1. Reverted(call[c].ids, id) \in SUBSET Servers
      BY <2>0 DEF Reverted, RollbackReturns, Frame
    <3>2. servers' \in [Servers -> Server]
      BY <2>4, RollbackType DEF Act, Sweep
    <3>3. call' \in [Threads -> Frame]
      <4>1. CASE Act(c, id)
        <5> DEFINE frames == [call EXCEPT ![c].pc = "revert", ![c].at = {},
                                          ![c].ids = Reverted(@, id)]
        <5>1. frames \in [Threads -> Frame]
          BY <2>0, <3>1 DEF Frame
        <5> HIDE DEF frames
        <5>2. Noticed(frames, servers') \in [Threads -> Frame]
          BY <5>1, NoticedFrames
        <5> QED BY <4>1, <5>2 DEF Act, frames
      <4>2. CASE Sweep(c, id)
        <5> DEFINE frames == [call EXCEPT ![c].todo = @ \ {id}, ![c].ids = Reverted(@, id)]
        <5>1. frames \in [Threads -> Frame]
          BY <2>0, <3>1 DEF Frame
        <5> HIDE DEF frames
        <5>2. Noticed(frames, servers') \in [Threads -> Frame]
          BY <5>1, NoticedFrames
        <5> QED BY <4>2, <5>2 DEF Sweep, frames
      <4> QED BY <2>4, <4>1, <4>2
    <3> QED BY <2>4, <3>2, <3>3 DEF Act, Sweep
  <2> QED BY <1>1, <2>1, <2>2, <2>3, <2>4, <2>5, <2>6 DEF Thread
<1>2. ASSUME NEW s \in Servers, NEW v \in Versions, Drift(s, v) PROVE TypeOK'
  <2>1. servers' \in [Servers -> Server]
    BY <1>2 DEF Drift, OverrideVersion, Server
  <2>2. call' \in [Threads -> Frame]
    BY <1>2, NoticedFrames DEF Drift
  <2>3. drifts' \in 0..MaxDrifts
    BY <1>2, RollbackAssumption DEF Drift
  <2> QED BY <1>2, <2>1, <2>2, <2>3 DEF Drift
<1>3. CASE UNCHANGED vars
  BY <1>3 DEF vars
<1> QED BY <1>1, <1>2, <1>3 DEF Next

\* Every variable keeps its type, however calls, reversals and drifts interleave.
THEOREM TypeCorrect == Spec => []TypeOK
<1> QED BY TypeInit, TypeNext, PTL DEF Spec

-----------------------------------------------------------------------------
(***************************************************************************)
(* The inductive invariant: what a thread's place says about its locals,   *)
(* what the mark says about the threads, what validation has seen; and,    *)
(* as long as nothing has drifted, what has become of each server.         *)
(***************************************************************************)
Reverting(c) == call[c].pc \in {"revert", "act", "sweep"}

PlaceFits(c) ==
    /\ call[c].todo \subseteq updated /\ call[c].at \subseteq updated
    /\ \A s, u \in call[c].at : s = u
    /\ call[c].pc # "act" => call[c].at = {}
    /\ call[c].pc = "returned" => call[c].todo = {}
    /\ call[c].pc \in {"checkpoint", "sweep"} => c \in Engines
    /\ call[c].mark # "none" => call[c].pc \in {"checkpoint", "sweep", "returned"}

PlacesFit == \A c \in Threads : PlaceFits(c)

\* Threads that have marked the deployment, and those that still will.
Begun == {c \in Threads : \/ Reverting(c)
                          \/ call[c].pc \in {"checkpoint", "returned", "blocked", "raised"}}

Unmarked == {c \in Threads : /\ Reverting(c) \/ call[c].pc = "checkpoint"
                             /\ call[c].mark # "aborted"}

Aborting == {c \in Engines : call[c].mark = "aborted"}

MarkFits ==
    /\ status = "rolling_back" => Unmarked # {}
    /\ status = "aborted" => Aborting # {}
    /\ Begun # {} => \/ status \in {"rolling_back", "rolled_back", "aborted"}
                     \/ status = "failed" /\ \E c \in Threads : call[c].pc \in {"blocked", "raised"}

\* Up to now validation without a finding has passed over no stale server.
SightFits(c) ==
    /\ \A id \in call[c].stale : Inconsistent(servers, id)
    /\ call[c].pc = "validate" /\ ~call[c].bad => call[c].stale \subseteq call[c].todo
    /\ call[c].pc \in {"revert", "act", "returned"} /\ ~call[c].force => call[c].stale = {}

SightsFit == \A c \in Callers : SightFits(c)

CallInvariant == PlacesFit /\ MarkFits /\ SightsFit

Mine == updated \cap Servers

\* A server of the deployment that has not been reverted runs the target and remembers
\* what it ran before; one that has been reverted runs it.
Recoverable(s) ==
    /\ servers[s].prev # NoVersion
    /\ IF servers[s].last = "rollback" THEN servers[s].cur = before[s]
       ELSE servers[s].cur = Target /\ servers[s].prev = before[s]

\* What a thread has reported is reverted, and it has forgotten none.
ReportFits(c) ==
    /\ call[c].ids \subseteq {s \in Mine : servers[s].cur = before[s]}
    /\ Reverting(c) \/ call[c].pc = "returned" =>
          Mine \subseteq call[c].todo \cup call[c].at \cup call[c].ids

RestoreInvariant ==
    drifts = 0 /\ SourceTells =>
        /\ \A s \in Mine : Recoverable(s)
        /\ \A c \in Threads : ReportFits(c)

-----------------------------------------------------------------------------
\* Reverting one server: the effects of Act and Sweep on the other frames.
LEMMA ActFrames ==
    ASSUME TypeOK, NEW c \in Threads, NEW id \in Servers \cup Missing,
           Act(c, id) \/ Sweep(c, id)
    PROVE  /\ id \in call[c].at \cup call[c].todo
           /\ servers' = RollbackServer(servers, id)
           /\ UNCHANGED <<status, updated, source, before, drifts>>
           /\ \A d \in Threads :
                 /\ call'[d].stale = {i \in call[d].stale : Inconsistent(servers', i)}
                 /\ call'[d].force = call[d].force /\ call'[d].bad = call[d].bad
                 /\ call'[d].mark = call[d].mark
                 /\ d # c => /\ call'[d].pc = call[d].pc
                             /\ call'[d].todo = call[d].todo /\ call'[d].at = call[d].at
                             /\ call'[d].ids = call[d].ids
           /\ call'[c].ids = Reverted(call[c].ids, id)
           /\ \/ /\ call[c].pc = "act" /\ call'[c].pc = "revert"
                 /\ id \in call[c].at /\ call'[c].at = {} /\ call'[c].todo = call[c].todo
              \/ /\ call[c].pc = "sweep" /\ call'[c].pc = "sweep"
                 /\ call'[c].at = call[c].at /\ call'[c].todo = call[c].todo \ {id}
<1>0. call[c] \in Frame
  BY DEF TypeOK
<1>1. Reverted(call[c].ids, id) \in SUBSET Servers
  BY <1>0 DEF Reverted, RollbackReturns, Frame, TypeOK
<1>2. CASE Act(c, id)
  <2> DEFINE frames == [call EXCEPT ![c].pc = "revert", ![c].at = {},
                                    ![c].ids = Reverted(@, id)]
  <2>1. frames \in [Threads -> Frame]
    BY <1>0, <1>1 DEF Frame, TypeOK
  <2>2. /\ \A d \in Threads \ {c} : frames[d] = call[d]
        /\ frames[c].pc = "revert" /\ frames[c].at = {}
        /\ frames[c].ids = Reverted(call[c].ids, id) /\ frames[c].todo = call[c].todo
        /\ frames[c].force = call[c].force /\ frames[c].bad = call[c].bad
        /\ frames[c].stale = call[c].stale /\ frames[c].mark = call[c].mark
    BY <1>0, <1>1 DEF Frame, TypeOK
  <2>3. call' = Noticed(frames, servers')
    BY <1>2 DEF Act
  <2> HIDE DEF frames
  <2>4. \A d \in Threads :
           /\ call'[d].stale = {i \in frames[d].stale : Inconsistent(servers', i)}
           /\ call'[d].pc = frames[d].pc /\ call'[d].force = frames[d].force
           /\ call'[d].bad = frames[d].bad /\ call'[d].todo = frames[d].todo
           /\ call'[d].at = frames[d].at /\ call'[d].ids = frames[d].ids
           /\ call'[d].mark = frames[d].mark
    BY <2>1, <2>3, NoticedFrames
  <2>5. \A d \in Threads :
           /\ call'[d].stale = {i \in call[d].stale : Inconsistent(servers', i)}
           /\ call'[d].force = call[d].force /\ call'[d].bad = call[d].bad
           /\ call'[d].mark = call[d].mark
           /\ d # c => /\ call'[d].pc = call[d].pc
                       /\ call'[d].todo = call[d].todo /\ call'[d].at = call[d].at
                       /\ call'[d].ids = call[d].ids
    BY <2>2, <2>4
  <2> QED BY <1>2, <2>2, <2>4, <2>5 DEF Act
<1>3. CASE Sweep(c, id)
  <2> DEFINE frames == [call EXCEPT ![c].todo = @ \ {id}, ![c].ids = Reverted(@, id)]
  <2>1. frames \in [Threads -> Frame]
    BY <1>0, <1>1 DEF Frame, TypeOK
  <2>2. /\ \A d \in Threads \ {c} : frames[d] = call[d]
        /\ frames[c].pc = call[c].pc /\ frames[c].at = call[c].at
        /\ frames[c].ids = Reverted(call[c].ids, id)
        /\ frames[c].todo = call[c].todo \ {id}
        /\ frames[c].force = call[c].force /\ frames[c].bad = call[c].bad
        /\ frames[c].stale = call[c].stale /\ frames[c].mark = call[c].mark
    BY <1>0, <1>1 DEF Frame, TypeOK
  <2>3. call' = Noticed(frames, servers')
    BY <1>3 DEF Sweep
  <2> HIDE DEF frames
  <2>4. \A d \in Threads :
           /\ call'[d].stale = {i \in frames[d].stale : Inconsistent(servers', i)}
           /\ call'[d].pc = frames[d].pc /\ call'[d].force = frames[d].force
           /\ call'[d].bad = frames[d].bad /\ call'[d].todo = frames[d].todo
           /\ call'[d].at = frames[d].at /\ call'[d].ids = frames[d].ids
           /\ call'[d].mark = frames[d].mark
    BY <2>1, <2>3, NoticedFrames
  <2>5. \A d \in Threads :
           /\ call'[d].stale = {i \in call[d].stale : Inconsistent(servers', i)}
           /\ call'[d].force = call[d].force /\ call'[d].bad = call[d].bad
           /\ call'[d].mark = call[d].mark
           /\ d # c => /\ call'[d].pc = call[d].pc
                       /\ call'[d].todo = call[d].todo /\ call'[d].at = call[d].at
                       /\ call'[d].ids = call[d].ids
    BY <2>2, <2>4
  <2> QED BY <1>3, <2>2, <2>4, <2>5 DEF Sweep
<1> QED BY <1>2, <1>3

\* Drift changes of every frame its history only.
LEMMA DriftFrames ==
    ASSUME TypeOK, NEW s \in Servers, NEW v \in Versions, Drift(s, v)
    PROVE  \A d \in Threads :
              /\ call'[d].stale = {i \in call[d].stale : Inconsistent(servers', i)}
              /\ call'[d].force = call[d].force /\ call'[d].bad = call[d].bad
              /\ call'[d].pc = call[d].pc /\ call'[d].todo = call[d].todo
              /\ call'[d].at = call[d].at /\ call'[d].ids = call[d].ids
              /\ call'[d].mark = call[d].mark
  BY NoticedFrames DEF Drift, TypeOK

LEMMA CallInit == Init => CallInvariant
<1> SUFFICES ASSUME Init PROVE CallInvariant
  OBVIOUS
<1>1. \A c \in Threads : call[c] \in {Uncalled, Absent}
  BY DEF Init, Finds
<1>2. \A c \in Threads : /\ call[c].pc \in {"idle", "absent"} /\ call[c].mark = "none"
                         /\ call[c].todo = {} /\ call[c].at = {} /\ call[c].stale = {}
  BY <1>1 DEF Uncalled, Absent
<1>3. status \in {"completed", "failed", "in_progress"}
  BY DEF Init, Finds, Deployments
<1> QED BY <1>2, <1>3 DEF CallInvariant, PlacesFit, PlaceFits, MarkFits, Begun, Reverting,
                          SightsFit, SightFits, Threads

LEMMA CallNext == TypeOK /\ CallInvariant /\ [Next]_vars => CallInvariant'
<1> SUFFICES ASSUME TypeOK, CallInvariant, [Next]_vars PROVE CallInvariant'
  OBVIOUS
<1>0. /\ \A d \in Threads : call[d] \in Frame
      /\ \A d \in Callers : d \in Threads /\ d \notin Engines
      /\ Engines \subseteq Threads /\ DOMAIN call = Threads
  BY RollbackAssumption DEF TypeOK, Threads
<1> USE DEF CallInvariant, PlacesFit, PlaceFits, SightsFit, SightFits
<1>1. ASSUME NEW c \in Threads, Thread(c) PROVE CallInvariant'
  <2> USE DEF MarkFits, Begun, Unmarked, Aborting, Reverting
  <2>1. ASSUME NEW force \in ForceFlags, Call(c, force) PROVE CallInvariant'
    BY <1>0, <2>1 DEF Call, Uncalled, Frame
  <2>2. CASE Refuse(c)
    BY <1>0, <2>2 DEF Refuse, Uncalled, Frame
  <2>3. CASE Proceed(c)
    BY <1>0, <2>3 DEF Proceed, Frame
  <2>4. ASSUME NEW mark \in {"rolling_back", "aborted"}, SweepStarts(c, mark)
        PROVE  CallInvariant'
    BY <1>0, <2>4 DEF SweepStarts, Frame
  <2>5. CASE Block(c) \/ Raise(c)
    BY <1>0, <2>5 DEF Block, Raise, Uncalled, Frame
  <2>6. CASE SweepBegins(c)
    BY <1>0, <2>6 DEF SweepBegins, Frame
  <2>7. CASE Return(c)
    BY <1>0, <2>7 DEF Return, Frame
  <2>8. CASE AbortReturns(c)
    BY <1>0, <2>8 DEF AbortReturns, Frame
  <2>9. ASSUME NEW id \in Servers \cup Missing, Validate(c, id) PROVE CallInvariant'
    BY <1>0, <2>9 DEF Validate, Frame
  <2>10. ASSUME NEW id \in Servers \cup Missing,
                SkipMissing(c, id) \/ AlreadyReverted(c, id) \/ LookAt(c, id)
         PROVE  CallInvariant'
    BY <1>0, <2>10 DEF SkipMissing, AlreadyReverted, LookAt, Frame
  <2>11. ASSUME NEW id \in Servers \cup Missing, Act(c, id) \/ Sweep(c, id)
         PROVE  CallInvariant'
    <3>1. PlacesFit' /\ SightsFit'
      BY <1>0, <2>11, ActFrames
    <3>2. MarkFits'
      BY <1>0, <2>11, ActFrames
    <3> QED BY <3>1, <3>2
  <2> QED BY <1>1, <2>1, <2>2, <2>3, <2>4, <2>5, <2>6, <2>7, <2>8, <2>9, <2>10, <2>11
          DEF Thread
<1>2. ASSUME NEW s \in Servers, NEW v \in Versions, Drift(s, v) PROVE CallInvariant'
  <2>1. PlacesFit' /\ SightsFit'
    BY <1>0, <1>2, DriftFrames DEF Drift
  <2>2. MarkFits'
    BY <1>0, <1>2, DriftFrames DEF Drift, MarkFits, Begun, Unmarked, Aborting, Reverting
  <2> QED BY <2>1, <2>2
<1>3. CASE UNCHANGED vars
  BY <1>3 DEF vars, Inconsistent, MarkFits, Begun, Unmarked, Aborting, Reverting
<1> QED BY <1>1, <1>2, <1>3 DEF Next

-----------------------------------------------------------------------------
\* What no step changes, and what only drift does.
LEMMA Kept ==
    ASSUME [Next]_vars
    PROVE  /\ UNCHANGED <<updated, source, before>>
           /\ UNCHANGED drifts \/ \E s \in Servers, v \in Versions : Drift(s, v)
<1>1. ASSUME NEW c \in Threads, Thread(c)
      PROVE  UNCHANGED <<updated, source, before, drifts>>
  <2>1. ASSUME NEW force \in ForceFlags, Call(c, force)
        PROVE  UNCHANGED <<updated, source, before, drifts>>
    BY <2>1 DEF Call
  <2>2. ASSUME Refuse(c) \/ Proceed(c) \/ Return(c) \/ AbortReturns(c)
                 \/ Block(c) \/ SweepBegins(c) \/ Raise(c)
        PROVE  UNCHANGED <<updated, source, before, drifts>>
    BY <2>2 DEF Refuse, Proceed, Return, AbortReturns, Block, SweepBegins, Raise
  <2>4. ASSUME NEW mark \in {"rolling_back", "aborted"}, SweepStarts(c, mark)
        PROVE  UNCHANGED <<updated, source, before, drifts>>
    BY <2>4 DEF SweepStarts
  <2>3. ASSUME NEW id \in Servers \cup Missing,
               \/ Validate(c, id) \/ SkipMissing(c, id) \/ AlreadyReverted(c, id)
               \/ LookAt(c, id) \/ Act(c, id) \/ Sweep(c, id)
        PROVE  UNCHANGED <<updated, source, before, drifts>>
    BY <2>3 DEF Validate, SkipMissing, AlreadyReverted, LookAt, Act, Sweep
  <2> QED BY <1>1, <2>1, <2>2, <2>3, <2>4 DEF Thread
<1>2. ASSUME NEW s \in Servers, NEW v \in Versions, Drift(s, v)
      PROVE  UNCHANGED <<updated, source, before>>
  BY <1>2 DEF Drift
<1>3. CASE UNCHANGED vars
  BY <1>3 DEF vars
<1> QED BY <1>1, <1>2, <1>3 DEF Next

LEMMA RestoreInit == Init => RestoreInvariant
<1> SUFFICES ASSUME Init PROVE RestoreInvariant
  OBVIOUS
<1>1. PICK touched \in SUBSET Servers \ {{}} :
          \E d \in Deployments(touched) : Finds(touched, d)
  BY DEF Init
<1>2. PICK d \in Deployments(touched) : Finds(touched, d)
  BY <1>1
<1>3. Mine = touched
  BY <1>2, RollbackAssumption DEF Mine, Finds, Deployments
<1>4. ASSUME NEW s \in Mine PROVE Recoverable(s)
  <2>1. \E st : servers[s] = Deployed(before[s], st)
    BY <1>2, <1>3 DEF Finds
  <2>2. before[s] \in Versions
    BY TypeInit DEF TypeOK, Mine
  <2> QED BY <2>1, <2>2, ClusterAssumption DEF Deployed, Recoverable
<1>5. \A c \in Threads : call[c].ids = {} /\ call[c].pc \in {"idle", "absent"}
  BY <1>2 DEF Finds, Uncalled, Absent
<1> QED BY <1>4, <1>5 DEF RestoreInvariant, ReportFits, Reverting

\* A recoverable server that is rolled back runs what it ran before.
LEMMA RecoverableReverts ==
    ASSUME TypeOK, NEW s \in Servers, Recoverable(s)
    PROVE  LET after == RollbackServer(servers, s)
           IN  /\ after[s].cur = before[s] /\ after[s].prev # NoVersion
               /\ after[s].last = "rollback"
               /\ \A u \in Servers \ {s} : after[u] = servers[u]
               /\ RollbackReturns(servers, s)
<1>1. servers[s] \in Server /\ s \in DOMAIN servers
  BY DEF TypeOK
<1>2. CASE servers[s].last = "rollback"
  BY <1>1, <1>2 DEF RollbackServer, RollbackReturns, Recoverable, TypeOK
<1>3. CASE servers[s].last # "rollback"
  <2>1. RollbackReturns(servers, s)
    BY <1>1 DEF RollbackReturns, Recoverable
  <2>2. RollbackServer(servers, s) = [servers EXCEPT ![s] = Flipped(servers[s])]
    BY <1>3, <2>1 DEF RollbackServer
  <2> QED BY <1>1, <1>3, <2>1, <2>2, ClusterAssumption DEF Flipped, Recoverable, TypeOK, Server
<1> QED BY <1>2, <1>3

LEMMA RestoreNext ==
    TypeOK /\ CallInvariant /\ RestoreInvariant /\ [Next]_vars => RestoreInvariant'
<1> SUFFICES ASSUME TypeOK, CallInvariant, RestoreInvariant, [Next]_vars, drifts' = 0,
                    SourceTells'
             PROVE  /\ \A s \in Mine' : Recoverable(s)'
                    /\ \A c \in Threads : ReportFits(c)'
  BY DEF RestoreInvariant
<1>0. drifts = 0 /\ \A s \in Servers, v \in Versions : ~Drift(s, v)
  <2>1. \A s \in Servers, v \in Versions : Drift(s, v) => drifts' # 0
    BY DEF Drift, TypeOK
  <2>2. drifts' = drifts
    BY <2>1, Kept
  <2> QED BY <2>1, <2>2
<1>2. Mine' = Mine /\ before' = before /\ SourceTells
  BY Kept DEF Mine, SourceTells
<1>1. /\ \A s \in Mine : Recoverable(s)
      /\ \A c \in Threads : ReportFits(c)
  BY <1>0, <1>2 DEF RestoreInvariant
<1>3. \A c \in Threads : call[c] \in Frame /\ PlaceFits(c)
  BY DEF TypeOK, CallInvariant, PlacesFit
<1> USE DEF ReportFits, Reverting
<1>4. ASSUME NEW c \in Threads, Thread(c)
      PROVE  /\ \A s \in Mine' : Recoverable(s)'
             /\ \A d \in Threads : ReportFits(d)'
  <2>1. ASSUME NEW force \in ForceFlags, Call(c, force)
        PROVE  \A d \in Threads : ReportFits(d)'
    BY <1>1, <1>2, <1>3, <2>1 DEF Call, Uncalled, TypeOK, Frame
  <2>2. CASE Refuse(c)
    BY <1>1, <1>2, <1>3, <2>2 DEF Refuse, Uncalled, TypeOK, Frame, Recoverable
  <2>3. CASE Proceed(c) \/ SweepBegins(c)
    BY <1>1, <1>2, <1>3, <2>3 DEF Proceed, SweepBegins, TypeOK, Frame, Mine, Recoverable
  <2>4. CASE Return(c) \/ AbortReturns(c)
    BY <1>1, <1>2, <1>3, <2>4 DEF Return, AbortReturns, TypeOK, Frame, Recoverable, PlaceFits
  <2>9. CASE Block(c) \/ Raise(c)
    BY <1>1, <1>2, <1>3, <2>9 DEF Block, Raise, Uncalled, TypeOK, Frame, Recoverable
  <2>10. ASSUME NEW mark \in {"rolling_back", "aborted"}, SweepStarts(c, mark)
         PROVE  \A d \in Threads : ReportFits(d)'
    BY <1>1, <1>2, <1>3, <2>10 DEF SweepStarts, TypeOK, Frame
  <2>5. ASSUME NEW id \in Servers \cup Missing, Validate(c, id)
        PROVE  \A d \in Threads : ReportFits(d)'
    BY <1>1, <1>2, <1>3, <2>5 DEF Validate, TypeOK, Frame
  <2>6. ASSUME NEW id \in Servers \cup Missing, SkipMissing(c, id) \/ LookAt(c, id)
        PROVE  \A d \in Threads : ReportFits(d)'
    BY <1>1, <1>2, <1>3, <2>6 DEF SkipMissing, LookAt, TypeOK, Frame, Mine, PlaceFits
  <2>7. ASSUME NEW id \in Servers \cup Missing, AlreadyReverted(c, id)
        PROVE  \A d \in Threads : ReportFits(d)'
    <3>1. id \in Mine /\ servers[id].cur = before[id]
      BY <1>1, <1>2, <1>3, <2>7
         DEF AlreadyReverted, SourceTells, PlaceFits, Mine, Recoverable
    <3> QED BY <1>1, <1>2, <1>3, <2>7, <3>1 DEF AlreadyReverted, TypeOK, Frame
  <2>8. ASSUME NEW id \in Servers \cup Missing, Act(c, id) \/ Sweep(c, id)
        PROVE  /\ \A s \in Mine' : Recoverable(s)'
               /\ \A d \in Threads : ReportFits(d)'
    <3>1. id \in updated
      BY <1>3, <2>8, ActFrames DEF PlaceFits
    <3>2. CASE id \in Servers
      <4>1. id \in Mine /\ Recoverable(id)
        BY <1>1, <3>1, <3>2 DEF Mine
      <4>2. /\ servers'[id].cur = before[id] /\ Recoverable(id)'
            /\ \A u \in Servers \ {id} : servers'[u] = servers[u]
            /\ call'[c].ids = call[c].ids \cup {id}
        <5>1. /\ servers' = RollbackServer(servers, id)
              /\ call'[c].ids = Reverted(call[c].ids, id)
          BY <2>8, ActFrames
        <5>2. Recoverable(id)'
          BY <1>2, <3>2, <4>1, <5>1, RecoverableReverts DEF Recoverable
        <5> QED BY <3>2, <4>1, <5>1, <5>2, RecoverableReverts DEF Reverted
      <4>3. \A s \in Mine' : Recoverable(s)'
        BY <1>1, <1>2, <4>2 DEF Mine, Recoverable
      <4>4. \A s \in Mine : servers[s].cur = before[s] => servers'[s].cur = before[s]
        BY <4>2 DEF Mine
      <4>5. \A d \in Threads \ {c} : ReportFits(d)'
        BY <1>1, <1>2, <2>8, <4>4, ActFrames
      <4>6. call[c].at \cup call[c].todo \subseteq call'[c].at \cup call'[c].todo \cup {id}
        BY <1>3, <2>8, ActFrames DEF PlaceFits
      <4> QED BY <1>1, <1>2, <2>8, <4>1, <4>2, <4>3, <4>4, <4>5, <4>6, ActFrames
    <3>3. CASE id \notin Servers
      <4>1. servers' = servers /\ call'[c].ids = call[c].ids
        BY <2>8, <3>3, ActFrames DEF RollbackServer, RollbackReturns, Reverted, TypeOK
      <4>2. \A d \in Threads \ {c} : ReportFits(d)'
        BY <1>1, <1>2, <2>8, <4>1, ActFrames
      <4>3. /\ (call[c].at \cup call[c].todo) \cap Servers
                    \subseteq call'[c].at \cup call'[c].todo
            /\ Reverting(c)
        BY <1>3, <2>8, <3>3, ActFrames DEF PlaceFits
      <4>4. ReportFits(c)'
        BY <1>1, <1>2, <4>1, <4>3 DEF Mine
      <4> QED BY <1>1, <1>2, <4>1, <4>2, <4>4 DEF Recoverable
    <3> QED BY <3>2, <3>3
  <2> QED BY <1>1, <1>2, <1>4, <2>1, <2>2, <2>3, <2>4, <2>5, <2>6, <2>7, <2>8, <2>9, <2>10
          DEF Thread, Call, SweepStarts, Validate, SkipMissing, LookAt, AlreadyReverted,
              Recoverable
<1>5. CASE UNCHANGED vars
  BY <1>1, <1>2, <1>5 DEF vars, Recoverable
<1> QED BY <1>0, <1>4, <1>5 DEF Next

-----------------------------------------------------------------------------
\* In every reachable state each call's locals, the mark and what validation has
\* seen fit together.
THEOREM InvariantHolds == Spec => []CallInvariant
<1> QED BY CallInit, CallNext, TypeCorrect, PTL DEF Spec

\* As long as nothing drifts every server of the deployment is reverted or can still be,
\* and every report is true, whatever versions the cluster ran.
THEOREM RestoreHolds == Spec => []RestoreInvariant
<1> QED BY RestoreInit, RestoreNext, TypeCorrect, InvariantHolds, PTL DEF Spec

\* Any number of calls and engine threads at once, blocked or ended by an exception or
\* not, restore every server once one of them has returned, and none is flipped back
\* (rollback() and rollback_server).
THEOREM RollbacksRestore == Spec => []AllRestored
<1>1. CallInvariant /\ RestoreInvariant => AllRestored
  <2> SUFFICES ASSUME CallInvariant, RestoreInvariant, SourceTells, drifts = 0,
                      Returned # {}, NEW s \in updated \cap Servers
               PROVE  servers[s].cur = before[s]
    BY DEF AllRestored, EveryServerRestored
  <2>1. PICK c \in Threads : call[c].pc = "returned"
    BY DEF Returned
  <2>2. s \in call[c].ids
    BY <2>1 DEF RestoreInvariant, ReportFits, CallInvariant, PlacesFit, PlaceFits, Mine
  <2> QED BY <2>2 DEF RestoreInvariant, ReportFits
<1> QED BY <1>1, InvariantHolds, RestoreHolds, PTL

\* Every call that returns reports all servers of the deployment the cluster has.
THEOREM CallsReportTruly == Spec => []ReportsAreTrue
<1>1. CallInvariant /\ RestoreInvariant => ReportsAreTrue
  BY DEF ReportsAreTrue, RestoreInvariant, ReportFits, CallInvariant, PlacesFit, PlaceFits,
         Mine, Returned
<1> QED BY <1>1, InvariantHolds, RestoreHolds, PTL

\* Whatever the order in which calls mark the deployment, it comes to rest marked
\* ROLLED_BACK, or ABORTED by an engine that was aborting, or FAILED by a thread that was
\* blocked or raised; never in ROLLING_BACK.
THEOREM MarkSettles == Spec => []SettledMark
<1>1. CallInvariant => SettledMark
  BY DEF CallInvariant, MarkFits, SettledMark, Quiet, Reverting, Begun, Unmarked, Aborting,
         Returned
<1> QED BY <1>1, InvariantHolds, PTL

\* A call without force never gets past a server that was inconsistent all the while,
\* whatever drifts and other calls do meanwhile, in any cluster.
THEOREM ValidationGuards == Spec => []GuardHolds
<1>1. CallInvariant => GuardHolds
  BY DEF CallInvariant, SightsFit, SightFits, GuardHolds
<1> QED BY <1>1, InvariantHolds, PTL

=============================================================================
