--------------------------- MODULE AuditTrail_proofs ---------------------------
(***************************************************************************)
(* Proofs about the audit trail and its replay, for any number of          *)
(* deployments, servers, events and failing writes.                        *)
(***************************************************************************)
EXTENDS AuditTrail, SequenceTheorems, FiniteSetTheorems, WellFoundedInduction, TLAPS

\* What a step adds to the trail, and what becomes of the file.
Writes(d, e) ==
    /\ memory' = Append(memory, e)
    /\ e \in Event /\ e.id = Len(memory) + 1 /\ e.time = now' /\ e.deployment = d
    /\ file' \in {file, Append(file, e), Append(file, Torn)}
    /\ now' \in {now, now + 1}

\* Where an engine's deployment stands while deploy() runs, and where it stands after.
Ongoing == {"started", "staged", "short", "unwind"}
Ended == {"over", "raised"}

\* An event the engine of d links to its previous one.
WritesLinked(d, e) ==
    /\ e.parent = last[d] /\ last' = [last EXCEPT ![d] = e.id]
    /\ IF e.kind = "start" THEN pc[d] = "new" ELSE pc[d] \in Ongoing

\* An event without a parent.
WritesUnlinked(d, e) ==
    /\ e.parent = NoEvent /\ last' = last
    /\ pc[d] # "new" /\ (pc[d] \in Ended => pc'[d] \in Ended)
    /\ e.kind = "note" \/ (e.kind = "rolled_back" /\ pc[d] \in Ended)

\* A step leaves untold at most what was untold already; what it does to the other
\* servers is what an event of this kind, naming these servers, says of them.
MovedAs(d, kind, ids) ==
    \A c \in Deployments : \A s \in Servers \ unreported'[c] :
        /\ s \notin unreported[c] \/ (c = d /\ kind = "rolled_back" /\ s \in ids)
        /\ s \in on'[c] <=> \/ c = d /\ kind = "stage" /\ s \in ids
                            \/ s \in on[c] /\ ~(c = d /\ kind = "rolled_back" /\ s \in ids)

Moved(d, e) == MovedAs(d, e.kind, e.servers)

\* How far a step that writes an event of this kind takes a deployment, from place p and
\* status st to q and su.
Leads(kind, p, st, q, su) ==
    \/ kind = "start" /\ p = "new" /\ q = "started" /\ su = "in_progress"
    \/ kind = "stage" /\ p \in {"started", "staged"} /\ q \in {"staged", "short"} /\ su = st
    \/ kind = "completed" /\ q = "over" /\ su = "completed"
    \/ kind = "initiated" /\ q = "unwind" /\ su \in {"rolling_back", "aborted"}
    \/ kind = "rolled_back" /\ q = "over" /\ su \in {"rolled_back", "aborted"}
    \/ kind \in {"failed", "note"} /\ p \in Ongoing /\ q = "over" /\ su = "failed"
    \/ kind = "note" /\ p # "new" /\ q = p /\ su = st

Advances(d, e) ==
    \E q, su :
        /\ pc' = [pc EXCEPT ![d] = q] /\ status' = [status EXCEPT ![d] = su]
        /\ Leads(e.kind, pc[d], status[d], q, su)

\* Ids are positions in memory.
Numbered == \A i \in DOMAIN memory : memory[i].id = i

\* Timestamps never decrease.
Chronological ==
    /\ \A i \in DOMAIN memory : memory[i].time <= now
    /\ \A i, j \in DOMAIN memory : i < j => memory[i].time <= memory[j].time

\* An engine's last event is what it takes for it.
LastIsLast ==
    \A d \in Deployments :
        IF pc[d] = "new"
        THEN last[d] = NoEvent /\ \A i \in DOMAIN memory : memory[i].deployment # d
        ELSE last[d] \in Chain(d) /\ \A i \in Chain(d) : i <= last[d]

\* Each event of a chain but the first is linked to the one before it.
ChainIsLinked ==
    \A d \in Deployments : \A j \in Chain(d) :
        IF memory[j].parent = NoEvent
        THEN \A i \in Chain(d) : j <= i
        ELSE /\ memory[j].parent \in Chain(d) /\ memory[j].parent < j
             /\ \A i \in Chain(d) : i <= memory[j].parent \/ j <= i

\* What is not in a chain and means something to replay comes after it.
UnlinkedComesAfter ==
    \A i \in DOMAIN memory :
        \/ Linked(memory[i]) \/ memory[i].kind = "note"
        \/ /\ memory[i].kind = "rolled_back" /\ pc[memory[i].deployment] \in Ended
           /\ \A j \in Chain(memory[i].deployment) : j < i

\* The file holds what memory holds.
FileIsOfMemory == \A i \in DOMAIN file : file[i] = Torn \/ file[i] \in ToSet(memory)

TrailInv ==
    /\ Numbered /\ Chronological /\ LastIsLast /\ ChainIsLinked /\ UnlinkedComesAfter
    /\ FileIsOfMemory

\* The kinds that say something of the deployment's status.
Telling == {"start", "rolled_back", "completed", "initiated", "failed"}

\* The last of a set of events that says something of the status is of kind k.
LastTold(events, k) ==
    \E e \in events : /\ e.kind = k /\ k \in Telling
                      /\ \A f \in events : f.kind \in Telling => f.id <= e.id

\* The servers on which an event of the set put the target and no later one took it
\* away.
LeftOn(events) ==
    {s \in Servers : \E e \in events : /\ e.kind = "stage" /\ s \in e.servers
                                       /\ \A f \in events : f.kind = "rolled_back" /\ e.id < f.id
                                                             => s \notin f.servers}

Recorded(d) == ScopedTo(ToSet(memory), d)

OnIsTold ==
    \A d \in Deployments : \A s \in Servers \ unreported[d] :
        s \in on[d] <=> s \in LeftOn(Recorded(d))

StatusIsTold ==
    \A d \in Deployments :
        /\ pc[d] \in Ongoing \ {"unwind"} => LastTold(Recorded(d), "start")
        /\ pc[d] = "unwind" => LastTold(Recorded(d), "initiated")
        /\ pc[d] # "raised" =>
              /\ status[d] = "completed" <=> LastTold(Recorded(d), "completed")
              /\ status[d] = "rolled_back" => LastTold(Recorded(d), "rolled_back")
              /\ LastTold(Recorded(d), "rolled_back") => status[d] \in {"rolled_back", "aborted"}

-----------------------------------------------------------------------------
LEMMA TypeInit == Init => TypeOK
<1> SUFFICES ASSUME Init PROVE TypeOK
  OBVIOUS
<1>1. memory \in Seq(Event) /\ file \in Seq(Event \cup {Torn})
  BY DEF Init
<1>2. faults \in 0..MaxFaults /\ notes \in 0..MaxNotes
  BY AuditAssumption DEF Init
<1>3. /\ last \in [Deployments -> 1..MaxEvents \cup {NoEvent}]
      /\ pc \in [Deployments -> {"new", "started", "staged", "short", "unwind", "over", "raised"}]
      /\ status \in [Deployments -> {"pending", "in_progress", "completed", "rolling_back",
                                     "aborted", "rolled_back", "failed"}]
      /\ {on, updated, unreported} \subseteq [Deployments -> SUBSET Servers] /\ now \in Nat
  BY DEF Init
<1> QED BY <1>1, <1>2, <1>3 DEF TypeOK

\* What a call of log() does, with a parent or without.
LEMMA LogWrites ==
    ASSUME TypeOK, NEW d \in Deployments, NEW kind \in Kinds, NEW ids \in SUBSET Servers,
           NEW parent \in 1..MaxEvents \cup {NoEvent},
           NEW e, e = NewEvent(d, parent, kind, ids),
           Len(memory) < MaxEvents, ClockTicks, Log(e)
    PROVE  /\ e \in Event /\ Writes(d, e) /\ faults' \in 0..MaxFaults
           /\ e.kind = kind /\ e.servers = ids /\ e.parent = parent
<1>1. now' \in {now, now + 1} /\ now' \in Nat
  BY DEF ClockTicks, TypeOK
<1>2. Len(memory) + 1 \in 1..MaxEvents
  BY AuditAssumption DEF TypeOK
<1>3. e \in Event
  BY <1>1, <1>2 DEF NewEvent, Event
<1>4. /\ e.id = Len(memory) + 1 /\ e.time = now' /\ e.deployment = d
      /\ e.kind = kind /\ e.servers = ids /\ e.parent = parent
  BY DEF NewEvent
<1>5. /\ memory' = Append(memory, e)
      /\ file' \in {file, Append(file, e), Append(file, Torn)}
  BY DEF Log
<1>6. faults' \in 0..MaxFaults
  BY AuditAssumption DEF Log, TypeOK
<1> QED BY <1>1, <1>3, <1>4, <1>5, <1>6 DEF Writes

\* A step writes one event, and the event says what the step does.
Tells(d, e) ==
    /\ Writes(d, e) /\ Moved(d, e) /\ Advances(d, e)
    /\ WritesLinked(d, e) \/ WritesUnlinked(d, e)

LEMMA StepTells ==
    ASSUME TypeOK, Next
    PROVE  /\ \/ \E d \in Deployments : \E e \in Event : Tells(d, e)
              \/ \E d \in Deployments : \E ids \in SUBSET Servers : ManualRaise(d, ids)
           /\ faults' \in 0..MaxFaults /\ notes' \in 0..MaxNotes
<1> DEFINE Goal == /\ \/ \E d \in Deployments : \E e \in Event : Tells(d, e)
                      \/ \E d \in Deployments : \E ids \in SUBSET Servers : ManualRaise(d, ids)
                   /\ faults' \in 0..MaxFaults /\ notes' \in 0..MaxNotes
<1>0. PICK d \in Deployments :
        \/ Start(d) \/ Complete(d) \/ Violation(d)
        \/ Note(d) \/ UnlinkedNote(d) \/ ManualRollback(d)
        \/ \E st \in {"rolling_back", "aborted"} : Initiate(d, st)
        \/ \E ids \in SUBSET Servers :
              \/ FailStaging(d, ids) \/ ManualRaise(d, ids)
              \/ \E outcome \in {"staged", "short"} : Stage(d, ids, outcome)
              \/ \E forgotten \in {{}, ids} : Unwind(d, ids, forgotten) \/ FailUnwinding(d, ids, forgotten)
  BY DEF Next
<1>1. /\ status = [status EXCEPT ![d] = status[d]] /\ pc = [pc EXCEPT ![d] = pc[d]]
      /\ notes \in 0..MaxNotes /\ faults \in 0..MaxFaults
      /\ on[d] \subseteq Servers /\ updated[d] \subseteq Servers
      /\ on \in [Deployments -> SUBSET Servers] /\ unreported \in [Deployments -> SUBSET Servers]
  BY DEF TypeOK
<1>2. ASSUME NEW kind \in Kinds, NEW ids \in SUBSET Servers, Record(d, kind, ids),
             NEW q, NEW su, Moves(d, {pc[d]}, q), Marks(d, su),
             IF kind = "start" THEN pc[d] = "new" ELSE pc[d] \in Ongoing,
             MovedAs(d, kind, ids), notes' \in 0..MaxNotes,
             Leads(kind, pc[d], status[d], q, su)
      PROVE  Goal
  <2> PICK parent : parent = last[d]
    OBVIOUS
  <2> PICK e : e = NewEvent(d, parent, kind, ids)
    OBVIOUS
  <2>0. parent \in 1..MaxEvents \cup {NoEvent}
    BY DEF TypeOK
  <2>1. e = NewEvent(d, last[d], kind, ids)
    BY DEF NewEvent
  <2>2. Log(e) /\ Len(memory) < MaxEvents /\ ClockTicks
    BY <1>2, <2>1 DEF Record
  <2>3. /\ e \in Event /\ Writes(d, e) /\ faults' \in 0..MaxFaults
        /\ e.kind = kind /\ e.servers = ids /\ e.parent = last[d]
    BY <2>0, <2>2, LogWrites
  <2>4. e.id = Len(memory) + 1
    BY DEF NewEvent
  <2>5. e.parent = last[d] /\ last' = [last EXCEPT ![d] = e.id]
    BY <1>2, <2>3, <2>4 DEF Record
  <2>6. Moved(d, e)
    BY <1>2, <2>3 DEF Moved
  <2>7. Advances(d, e)
    BY <1>2, <2>3 DEF Advances, Moves, Marks
  <2>8. WritesLinked(d, e)
    BY <1>2, <2>3, <2>5 DEF WritesLinked
  <2> QED BY <1>2, <2>3, <2>6, <2>7, <2>8 DEF Tells
<1>3. ASSUME NEW kind \in {"note", "rolled_back"}, NEW ids \in SUBSET Servers,
             RecordUnlinked(d, kind, ids), pc[d] # "new",
             NEW q, NEW su, Moves(d, {pc[d]}, q), Marks(d, su), notes' \in 0..MaxNotes,
             MovedAs(d, kind, ids),
             IF kind = "note" THEN q = pc[d] /\ su = status[d]
             ELSE pc[d] \in Ended /\ q = "over" /\ su = "rolled_back"
      PROVE  Goal
  <2>0. kind \in Kinds
    BY DEF Kinds
  <2> PICK parent : parent = NoEvent
    OBVIOUS
  <2> PICK e : e = NewEvent(d, parent, kind, ids)
    OBVIOUS
  <2>1. parent \in 1..MaxEvents \cup {NoEvent} /\ e = NewEvent(d, NoEvent, kind, ids)
    BY DEF NewEvent
  <2>2. Log(e) /\ Len(memory) < MaxEvents /\ ClockTicks
    BY <1>3, <2>1 DEF RecordUnlinked
  <2>3. /\ e \in Event /\ Writes(d, e) /\ faults' \in 0..MaxFaults
        /\ e.kind = kind /\ e.servers = ids /\ e.parent = NoEvent
    BY <2>0, <2>2, <2>1, LogWrites
  <2>4. last' = last
    BY <1>3 DEF RecordUnlinked
  <2>5. Moved(d, e)
    BY <1>3, <2>3 DEF Moved
  <2>6. Advances(d, e)
    BY <1>3, <2>3 DEF Advances, Moves, Marks, Leads
  <2>7. WritesUnlinked(d, e)
    BY <1>3, <2>3, <2>4 DEF WritesUnlinked, Moves, Ended, TypeOK
  <2> QED BY <1>3, <2>3, <2>5, <2>6, <2>7 DEF Tells
<1>4. {} \in SUBSET Servers /\ "note" \in Kinds /\ "rolled_back" \in Kinds /\ "stage" \in Kinds
      /\ "start" \in Kinds /\ "completed" \in Kinds /\ "initiated" \in Kinds /\ "failed" \in Kinds
  BY DEF Kinds
\* What each way of changing the servers amounts to.
<1>5. ASSUME NEW kind \in Kinds \ {"stage", "rolled_back"}, UNCHANGED <<on, unreported>>
      PROVE  MovedAs(d, kind, {})
  BY <1>5 DEF MovedAs
<1>6. ASSUME NEW ids \in SUBSET Servers, Installs(d, ids), unreported' = unreported
      PROVE  MovedAs(d, "stage", ids)
  BY <1>1, <1>6 DEF MovedAs, Installs
<1>7. ASSUME NEW ids \in SUBSET Servers, NEW forgotten, Reverts(d, ids, forgotten),
             unreported' = unreported
      PROVE  MovedAs(d, "rolled_back", ids)
  BY <1>1, <1>7 DEF MovedAs, Reverts
<1>8. ASSUME NEW ids \in SUBSET Servers,
             \/ on' = [on EXCEPT ![d] = @ \cup ids] \/ on' = [on EXCEPT ![d] = @ \ ids],
             unreported' = [unreported EXCEPT ![d] = @ \cup ids]
      PROVE  MovedAs(d, "failed", {})
  BY <1>1, <1>8 DEF MovedAs
<1>9. CASE Start(d)
  BY <1>1, <1>2, <1>4, <1>5, <1>9 DEF Start, Moves, Leads, cluster
<1>10. CASE Complete(d)
  BY <1>1, <1>2, <1>4, <1>5, <1>10 DEF Complete, Moves, Leads, Ongoing, cluster
<1>11. CASE Violation(d)
  BY <1>1, <1>2, <1>4, <1>5, <1>11 DEF Violation, Moves, Leads, Ongoing, cluster
<1>12. ASSUME NEW st \in {"rolling_back", "aborted"}, Initiate(d, st) PROVE Goal
  BY <1>1, <1>2, <1>4, <1>5, <1>12 DEF Initiate, Moves, Leads, Ongoing, cluster
<1>13. ASSUME NEW ids \in SUBSET Servers, NEW outcome \in {"staged", "short"},
              Stage(d, ids, outcome)
       PROVE  Goal
  <2>1. MovedAs(d, "stage", ids)
    BY <1>6, <1>13 DEF Stage
  <2> QED BY <1>1, <1>2, <1>4, <1>13, <2>1 DEF Stage, Moves, Marks, Leads, Ongoing
<1>14. ASSUME NEW ids \in SUBSET Servers, NEW forgotten, Unwind(d, ids, forgotten) PROVE Goal
  <2>1. MovedAs(d, "rolled_back", ids)
    BY <1>7, <1>14 DEF Unwind
  <2> QED BY <1>1, <1>2, <1>4, <1>14, <2>1 DEF Unwind, Moves, Leads, Ongoing
<1>15. ASSUME NEW ids \in SUBSET Servers, Fail(d, ids), Moves(d, Ongoing, "over"),
              on' = [on EXCEPT ![d] = @ \cup ids] \/ on' = [on EXCEPT ![d] = @ \ ids]
       PROVE  Goal
  <2>1. MovedAs(d, "failed", {})
    BY <1>8, <1>15 DEF Fail
  <2> QED BY <1>1, <1>2, <1>4, <1>15, <2>1 DEF Fail, Moves, Leads, Ongoing
<1>16. ASSUME NEW ids \in SUBSET Servers, FailStaging(d, ids) PROVE Goal
  BY <1>15, <1>16 DEF FailStaging, Installs, Moves, Ongoing
<1>17. ASSUME NEW ids \in SUBSET Servers, NEW forgotten, FailUnwinding(d, ids, forgotten)
       PROVE  Goal
  BY <1>15, <1>17 DEF FailUnwinding, Reverts, Moves, Ongoing
<1>18. CASE Note(d)
  <2>1. notes' \in 0..MaxNotes
    BY <1>1, <1>18, AuditAssumption DEF Note
  <2>2. /\ pc[d] \in Ongoing /\ Moves(d, {pc[d]}, pc[d])
        /\ Marks(d, status[d]) /\ UNCHANGED <<on, unreported>> /\ Record(d, "note", {})
    BY <1>1, <1>18 DEF Note, Moves, Marks, Ongoing, cluster
  <2>3. MovedAs(d, "note", {})
    BY <1>4, <1>5, <2>2
  <2> QED BY <1>1, <1>2, <1>4, <2>1, <2>2, <2>3 DEF Leads, Ongoing
<1>19. CASE UnlinkedNote(d)
  <2>1. notes' \in 0..MaxNotes
    BY <1>1, <1>19, AuditAssumption DEF UnlinkedNote
  <2>2. /\ pc[d] # "new" /\ Moves(d, {pc[d]}, pc[d])
        /\ Marks(d, status[d]) /\ UNCHANGED <<on, unreported>> /\ RecordUnlinked(d, "note", {})
    BY <1>1, <1>19 DEF UnlinkedNote, Moves, Marks, cluster
  <2>3. MovedAs(d, "note", {})
    BY <1>4, <1>5, <2>2
  <2> QED BY <1>3, <1>4, <2>1, <2>2, <2>3
<1>20. CASE ManualRollback(d)
  <2>1. MovedAs(d, "rolled_back", updated[d])
    BY <1>1, <1>20 DEF ManualRollback, MovedAs
  <2> QED BY <1>1, <1>3, <1>4, <1>20, <2>1 DEF ManualRollback, Moves, Ended
<1>21. ASSUME NEW ids \in SUBSET Servers, ManualRaise(d, ids) PROVE Goal
  <2>1. faults < MaxFaults /\ faults' = faults + 1 /\ notes' = notes
    BY <1>21 DEF ManualRaise
  <2>2. faults' \in 0..MaxFaults /\ notes' \in 0..MaxNotes
    BY <1>1, <2>1, AuditAssumption
  <2> QED BY <1>21, <2>2
<1> QED BY <1>0, <1>9, <1>10, <1>11, <1>12, <1>13, <1>14, <1>16, <1>17, <1>18, <1>19, <1>20, <1>21

\* What becomes of the servers.
LEMMA ClusterType ==
    ASSUME TypeOK, Next
    PROVE  {on, updated, unreported}' \subseteq [Deployments -> SUBSET Servers]
<1>0. {on, updated, unreported} \subseteq [Deployments -> SUBSET Servers]
  BY DEF TypeOK
<1> DEFINE Goal == {on, updated, unreported}' \subseteq [Deployments -> SUBSET Servers]
<1>1. ASSUME UNCHANGED cluster PROVE Goal
  BY <1>0, <1>1 DEF cluster
<1>2. ASSUME NEW d \in Deployments, NEW ids \in SUBSET Servers, NEW forgotten,
             \/ Installs(d, ids) \/ Reverts(d, ids, forgotten)
             \/ /\ on' = [on EXCEPT ![d] = @ \ ids] /\ updated' = updated,
             \/ unreported' = unreported
             \/ unreported' = [unreported EXCEPT ![d] = @ \cup ids]
             \/ unreported' = [unreported EXCEPT ![d] = @ \ ids]
      PROVE  Goal
  BY <1>0, <1>2 DEF Installs, Reverts
<1>3. PICK d \in Deployments :
        \/ Start(d) \/ Complete(d) \/ Violation(d)
        \/ Note(d) \/ UnlinkedNote(d) \/ ManualRollback(d)
        \/ \E st \in {"rolling_back", "aborted"} : Initiate(d, st)
        \/ \E ids \in SUBSET Servers :
              \/ FailStaging(d, ids) \/ ManualRaise(d, ids)
              \/ \E outcome \in {"staged", "short"} : Stage(d, ids, outcome)
              \/ \E forgotten \in {{}, ids} : Unwind(d, ids, forgotten) \/ FailUnwinding(d, ids, forgotten)
  BY DEF Next
<1>4. CASE \/ Start(d) \/ Complete(d) \/ Violation(d) \/ Note(d) \/ UnlinkedNote(d)
           \/ \E st \in {"rolling_back", "aborted"} : Initiate(d, st)
  BY <1>1, <1>4 DEF Start, Complete, Violation, Note, UnlinkedNote, Initiate
<1>5. CASE ManualRollback(d)
  <2>1. updated[d] \in SUBSET Servers
    BY <1>0
  <2> QED BY <1>2, <1>5, <2>1 DEF ManualRollback
<1>6. ASSUME NEW ids \in SUBSET Servers, FailStaging(d, ids) \/ ManualRaise(d, ids) PROVE Goal
  BY <1>2, <1>6 DEF FailStaging, ManualRaise, Fail
<1>7. ASSUME NEW ids \in SUBSET Servers, NEW outcome \in {"staged", "short"},
             Stage(d, ids, outcome)
      PROVE  Goal
  BY <1>2, <1>7 DEF Stage
<1>8. ASSUME NEW ids \in SUBSET Servers, NEW forgotten,
             Unwind(d, ids, forgotten) \/ FailUnwinding(d, ids, forgotten)
      PROVE  Goal
  BY <1>2, <1>8 DEF Unwind, FailUnwinding, Fail
<1> QED BY <1>3, <1>4, <1>5, <1>6, <1>7, <1>8

LEMMA TypeNext == TypeOK /\ [Next]_vars => TypeOK'
<1> SUFFICES ASSUME TypeOK, [Next]_vars PROVE TypeOK'
  OBVIOUS
<1>0. ASSUME NEW d \in Deployments, NEW ids \in SUBSET Servers, ManualRaise(d, ids), Next
      PROVE  TypeOK'
  <2>1. {on, updated, unreported}' \subseteq [Deployments -> SUBSET Servers]
    BY <1>0, ClusterType
  <2>2. faults' \in 0..MaxFaults /\ notes' \in 0..MaxNotes
    BY <1>0, StepTells
  <2> QED BY <1>0, <2>1, <2>2 DEF ManualRaise, Moves, Marks, TypeOK
<1>1. ASSUME Next, NEW d \in Deployments, NEW e \in Event, Tells(d, e) PROVE TypeOK'
  <2>1. Tells(d, e)
    BY <1>1
  <2>2. faults' \in 0..MaxFaults /\ notes' \in 0..MaxNotes
    BY <1>1, StepTells
  <2>3. memory' \in Seq(Event) /\ file' \in Seq(Event \cup {Torn}) /\ now' \in Nat
    <3>1. /\ memory' = Append(memory, e) /\ now' \in {now, now + 1}
          /\ file' \in {file, Append(file, e), Append(file, Torn)}
      BY <2>1 DEF Tells, Writes
    <3>2. memory' \in Seq(Event) /\ now' \in Nat
      BY <3>1 DEF TypeOK
    <3>3. /\ file \in Seq(Event \cup {Torn})
          /\ e \in Event \cup {Torn} /\ Torn \in Event \cup {Torn}
      BY DEF TypeOK
    <3>4. Append(file, e) \in Seq(Event \cup {Torn}) /\ Append(file, Torn) \in Seq(Event \cup {Torn})
      BY <3>3, AppendProperties
    <3> QED BY <3>1, <3>2, <3>3, <3>4
  <2>4. last' \in [Deployments -> 1..MaxEvents \cup {NoEvent}]
    BY <2>1 DEF Tells, WritesLinked, WritesUnlinked, TypeOK, Event
  <2>5. {on, updated, unreported}' \subseteq [Deployments -> SUBSET Servers]
    BY <1>1, ClusterType
  <2>6. /\ pc' \in [Deployments -> {"new", "started", "staged", "short", "unwind", "over", "raised"}]
        /\ status' \in [Deployments -> {"pending", "in_progress", "completed", "rolling_back",
                                        "aborted", "rolled_back", "failed"}]
    BY <2>1 DEF Tells, Advances, Leads, TypeOK
  <2> QED BY <2>2, <2>3, <2>4, <2>5, <2>6 DEF TypeOK
<1>2. CASE UNCHANGED vars
  BY <1>2 DEF vars, cluster, TypeOK
<1> QED BY <1>0, <1>1, <1>2, StepTells

\* Every variable keeps its type: in particular an event's parent is an id, or absent.
THEOREM TypeCorrect == Spec => []TypeOK
<1> QED BY TypeInit, TypeNext, PTL DEF Spec

-----------------------------------------------------------------------------
\* What is written stays where it is.
LEMMA WrittenBehind ==
    ASSUME TypeOK, NEW d \in Deployments, NEW e \in Event, Writes(d, e)
    PROVE  /\ Len(memory) \in Nat /\ Len(memory)' = Len(memory) + 1
           /\ DOMAIN memory = 1..Len(memory) /\ (DOMAIN memory)' = 1..(Len(memory) + 1)
           /\ \A i \in 1..Len(memory) : memory'[i] = memory[i]
           /\ memory'[Len(memory) + 1] = e
           /\ Len(memory) + 1 \in Nat
  BY DEF Writes, TypeOK

LEMMA TrailInit == Init => TrailInv
<1> SUFFICES ASSUME Init PROVE TrailInv
  OBVIOUS
<1>1. DOMAIN memory = {} /\ DOMAIN file = {}
  BY DEF Init
<1>2. \A d \in Deployments : pc[d] = "new" /\ last[d] = NoEvent /\ Chain(d) = {}
  BY <1>1 DEF Init, Chain
<1> QED BY <1>1, <1>2 DEF TrailInv, Numbered, Chronological, LastIsLast, ChainIsLinked,
                            UnlinkedComesAfter, FileIsOfMemory

LEMMA ChainGrows ==
    ASSUME TypeOK, NEW d \in Deployments, NEW e \in Event, Writes(d, e),
           NEW c \in Deployments
    PROVE  Chain(c)' = Chain(c) \cup (IF c = d /\ Linked(e) THEN {Len(memory) + 1} ELSE {})
<1>1. /\ DOMAIN memory = 1..Len(memory) /\ (DOMAIN memory)' = 1..(Len(memory) + 1)
      /\ \A i \in 1..Len(memory) : memory'[i] = memory[i]
      /\ memory'[Len(memory) + 1] = e /\ Len(memory) \in Nat
  BY WrittenBehind
<1>2. e.deployment = d
  BY DEF Writes
<1>3. 1..(Len(memory) + 1) = 1..Len(memory) \cup {Len(memory) + 1}
  BY <1>1
<1>4. Chain(c)' = {i \in 1..(Len(memory) + 1) : memory'[i].deployment = c /\ Linked(memory'[i])}
  BY <1>1 DEF Chain, Linked
<1>5. Chain(c) = {i \in 1..Len(memory) : memory[i].deployment = c /\ Linked(memory[i])}
  BY <1>1 DEF Chain
<1> QED BY <1>1, <1>2, <1>3, <1>4, <1>5

LEMMA TrailNext == TypeOK /\ TrailInv /\ [Next]_vars => TrailInv'
<1> SUFFICES ASSUME TypeOK, TrailInv, [Next]_vars PROVE TrailInv'
  OBVIOUS
<1>1. CASE UNCHANGED vars
  <2>1. /\ memory' = memory /\ file' = file /\ last' = last /\ pc' = pc /\ now' = now
    BY <1>1 DEF vars
  <2>2. Numbered' /\ Chronological' /\ FileIsOfMemory'
    BY <2>1 DEF TrailInv, Numbered, Chronological, FileIsOfMemory
  <2>3. LastIsLast'
    BY <2>1 DEF TrailInv, LastIsLast, Chain
  <2>4. ChainIsLinked'
    BY <2>1 DEF TrailInv, ChainIsLinked, Chain
  <2>5. UnlinkedComesAfter'
    BY <2>1 DEF TrailInv, UnlinkedComesAfter, Chain
  <2> QED BY <2>2, <2>3, <2>4, <2>5 DEF TrailInv
<1>3. ASSUME NEW d \in Deployments, NEW ids \in SUBSET Servers, ManualRaise(d, ids)
      PROVE  TrailInv'
  <2>1. /\ UNCHANGED <<memory, file, last, now>>
        /\ pc[d] \in Ended /\ pc' = [pc EXCEPT ![d] = "raised"]
    BY <1>3 DEF ManualRaise, Moves, Ended
  <2>2. Numbered' /\ Chronological' /\ FileIsOfMemory'
    BY <2>1 DEF TrailInv, Numbered, Chronological, FileIsOfMemory
  <2>3. \A c \in Deployments : /\ pc'[c] = "new" <=> pc[c] = "new"
                               /\ pc[c] \in Ended => pc'[c] \in Ended
    BY <2>1 DEF TypeOK, Ended
  <2>4. LastIsLast'
    BY <2>1, <2>3 DEF TrailInv, LastIsLast, Chain
  <2>5. ChainIsLinked'
    BY <2>1 DEF TrailInv, ChainIsLinked, Chain
  <2>6. UnlinkedComesAfter'
    <3>0. \A i \in DOMAIN memory : memory[i] \in Event
      BY DEF TypeOK
    <3>1. \A i \in DOMAIN memory : memory[i].deployment \in Deployments
      BY <3>0 DEF Event
    <3> QED BY <2>1, <2>3, <3>1 DEF TrailInv, UnlinkedComesAfter, Chain
  <2> QED BY <2>2, <2>4, <2>5, <2>6 DEF TrailInv
<1>2. ASSUME NEW d \in Deployments, NEW e \in Event, Tells(d, e) PROVE TrailInv'
  <2>1. Tells(d, e)
    BY <1>2
  <2>2. Writes(d, e) /\ (WritesLinked(d, e) \/ WritesUnlinked(d, e))
    BY <2>1 DEF Tells
  <2> PICK n : n = Len(memory) + 1
    OBVIOUS
  <2>3. /\ n - 1 \in Nat /\ n \in Nat
        /\ DOMAIN memory = 1..(n - 1) /\ (DOMAIN memory)' = 1..n
        /\ \A i \in 1..(n - 1) : memory'[i] = memory[i]
        /\ memory'[n] = e
    BY <2>2, WrittenBehind
  <2>4. 1..n = 1..(n - 1) \cup {n}
    BY <2>3
  <2>5. /\ e.id = n /\ e.time = now' /\ e.deployment = d /\ now' \in Nat /\ now <= now'
    BY <2>2 DEF Writes, TypeOK
  <2>6. \A c \in Deployments :
           /\ Chain(c) \subseteq 1..(n - 1)
           /\ Chain(c)' = Chain(c) \cup (IF c = d /\ Linked(e) THEN {n} ELSE {})
    BY <2>2, <2>3, ChainGrows DEF Chain
  <2>7. Numbered'
    BY <2>3, <2>4, <2>5 DEF TrailInv, Numbered
  <2>8. Chronological'
    <3>1. \A i \in 1..(n - 1) : memory[i].time \in Nat /\ memory[i].time <= now
      <4>1. \A i \in 1..(n - 1) : memory[i] \in Event
        BY <2>3 DEF TypeOK
      <4>2. \A i \in 1..(n - 1) : memory[i].time \in Nat
        BY <4>1 DEF Event
      <4> QED BY <2>3, <4>2 DEF TrailInv, Chronological
    <3>2. \A i \in 1..n : memory'[i].time <= now'
      <4>1. now \in Nat
        BY DEF TypeOK
      <4> QED BY <2>3, <2>4, <2>5, <3>1, <4>1
    <3>3. ASSUME NEW i \in 1..n, NEW j \in 1..n, i < j
          PROVE  memory'[i].time <= memory'[j].time
      <4>1. CASE j = n
        BY <2>3, <2>5, <3>2, <4>1
      <4>2. CASE j # n
        <5>1. i \in 1..(n - 1) /\ j \in 1..(n - 1)
          BY <2>3, <3>3, <4>2
        <5> QED BY <2>3, <3>3, <5>1 DEF TrailInv, Chronological
      <4> QED BY <4>1, <4>2
    <3> QED BY <2>3, <3>2, <3>3 DEF Chronological
  <2>9. WritesLinked(d, e) /\ e.kind # "start" => last[d] \in Chain(d) /\ last[d] # NoEvent
    BY <2>6, AuditAssumption DEF WritesLinked, TrailInv, LastIsLast, Ongoing
  <2>10. Linked(e) <=> WritesLinked(d, e)
    <3>1. CASE WritesLinked(d, e)
      BY <2>9, <3>1 DEF WritesLinked, Linked
    <3>2. CASE WritesUnlinked(d, e)
      BY <2>9, <3>2 DEF WritesLinked, WritesUnlinked, Linked
    <3> QED BY <2>2, <3>1, <3>2
  <2>11. \A c \in Deployments : pc'[c] = (IF c = d THEN pc'[d] ELSE pc[c])
    BY <2>1 DEF Tells, Advances, TypeOK
  <2>12. pc'[d] # "new"
    BY <2>1 DEF Tells, Advances, Leads, WritesLinked, WritesUnlinked, TypeOK
  <2>13. LastIsLast'
    <3> SUFFICES ASSUME NEW c \in Deployments
                 PROVE  IF pc'[c] = "new"
                        THEN last'[c] = NoEvent /\ \A i \in 1..n : memory'[i].deployment # c
                        ELSE last'[c] \in Chain(c)' /\ \A i \in Chain(c)' : i <= last'[c]
      BY <2>3 DEF LastIsLast
    <3>1. IF pc[c] = "new"
          THEN last[c] = NoEvent /\ \A i \in 1..(n - 1) : memory[i].deployment # c
          ELSE last[c] \in Chain(c) /\ \A i \in Chain(c) : i <= last[c]
      BY <2>3 DEF TrailInv, LastIsLast
    <3>2. CASE c # d
      <4>1. last'[c] = last[c]
        BY <2>2, <3>2 DEF WritesLinked, WritesUnlinked, TypeOK
      <4>2. Chain(c)' = Chain(c) /\ pc'[c] = pc[c]
        BY <2>6, <2>11, <3>2
      <4> QED BY <2>3, <2>4, <2>5, <3>1, <3>2, <4>1, <4>2
    <3>3. CASE c = d /\ WritesLinked(d, e)
      <4>1. last'[c] = n
        BY <2>5, <3>3 DEF WritesLinked, TypeOK
      <4>2. Chain(c)' = Chain(c) \cup {n}
        BY <2>6, <2>10, <3>3
      <4> QED BY <2>3, <2>6, <2>12, <3>3, <4>1, <4>2
    <3>4. CASE c = d /\ ~WritesLinked(d, e)
      <4>1. Chain(c)' = Chain(c) /\ last'[c] = last[c] /\ pc[c] # "new"
        BY <2>2, <2>6, <2>10, <3>4 DEF WritesUnlinked
      <4> QED BY <2>12, <3>1, <3>4, <4>1
    <3> QED BY <3>2, <3>3, <3>4
  <2>14. ChainIsLinked'
    <3> SUFFICES ASSUME NEW c \in Deployments, NEW j \in Chain(c)'
                 PROVE  IF memory'[j].parent = NoEvent
                        THEN \A i \in Chain(c)' : j <= i
                        ELSE /\ memory'[j].parent \in Chain(c)' /\ memory'[j].parent < j
                             /\ \A i \in Chain(c)' : i <= memory'[j].parent \/ j <= i
      BY DEF ChainIsLinked
    <3>1. CASE j \in Chain(c)
      <4>1. memory'[j] = memory[j] /\ j <= n
        BY <2>3, <2>6, <3>1
      <4>2. IF memory[j].parent = NoEvent
            THEN \A i \in Chain(c) : j <= i
            ELSE /\ memory[j].parent \in Chain(c) /\ memory[j].parent < j
                 /\ \A i \in Chain(c) : i <= memory[j].parent \/ j <= i
        BY <3>1 DEF TrailInv, ChainIsLinked
      <4>3. \A i \in Chain(c)' : i \in Chain(c) \/ i = n
        BY <2>6
      <4> QED BY <2>6, <4>1, <4>2, <4>3
    <3>2. CASE j \notin Chain(c)
      <4>1. c = d /\ j = n /\ WritesLinked(d, e) /\ Chain(d)' = Chain(d) \cup {n}
        BY <2>6, <2>10, <3>2
      <4>2. memory'[j].parent = last[d]
        BY <2>3, <4>1 DEF WritesLinked
      <4>3. CASE e.kind = "start"
        <5>1. pc[d] = "new"
          BY <4>1, <4>3 DEF WritesLinked
        <5>2. last[d] = NoEvent /\ Chain(d) = {}
          BY <5>1 DEF TrailInv, LastIsLast, Chain
        <5> QED BY <2>3, <4>1, <4>2, <5>2
      <4>4. CASE e.kind # "start"
        <5>1. last[d] \in Chain(d) /\ last[d] # NoEvent
          BY <2>9, <4>1, <4>4
        <5>2. \A i \in Chain(d) : i <= last[d]
          BY <4>1, <4>4 DEF WritesLinked, TrailInv, LastIsLast, Ongoing
        <5>3. last[d] < n
          BY <2>3, <2>6, <5>1
        <5> QED BY <2>3, <4>1, <4>2, <5>1, <5>2, <5>3
      <4> QED BY <4>3, <4>4
    <3> QED BY <3>1, <3>2
  <2>15. UnlinkedComesAfter'
    <3> SUFFICES ASSUME NEW i \in 1..n, ~Linked(memory[i])', memory'[i].kind # "note",
                        NEW c, c = memory'[i].deployment
                 PROVE  /\ memory'[i].kind = "rolled_back" /\ pc'[c] \in Ended
                        /\ \A j \in Chain(c)' : j < i
      <4>1. \A i \in 1..n :
               \/ Linked(memory[i])' \/ memory'[i].kind = "note"
               \/ /\ memory'[i].kind = "rolled_back" /\ pc'[memory'[i].deployment] \in Ended
                  /\ \A j \in Chain(memory[i].deployment)' : j < i
        <5> SUFFICES ASSUME NEW i \in 1..n, ~Linked(memory[i])', memory'[i].kind # "note"
                     PROVE  /\ memory'[i].kind = "rolled_back"
                            /\ pc'[memory'[i].deployment] \in Ended
                            /\ \A j \in Chain(memory[i].deployment)' : j < i
          OBVIOUS
        <5> PICK c : c = memory'[i].deployment
          OBVIOUS
        <5>1. Chain(c)' = Chain(memory[i].deployment)'
          BY DEF Chain
        <5> QED BY <5>1
      <4> QED BY <2>3, <4>1 DEF UnlinkedComesAfter
    <3>1. CASE i = n
      <4>1. memory'[i] = e /\ c = d /\ ~Linked(e)
        BY <2>3, <2>5, <3>1 DEF Linked
      <4>2. WritesUnlinked(d, e) /\ Chain(d)' = Chain(d)
        BY <2>2, <2>6, <2>10, <4>1
      <4>3. \A j \in Chain(d) : j < n
        BY <2>3, <2>6
      <4> QED BY <3>1, <4>1, <4>2, <4>3 DEF WritesUnlinked
    <3>2. CASE i # n
      <4>1. i \in 1..(n - 1) /\ memory'[i] = memory[i] /\ ~Linked(memory[i])
        BY <2>3, <2>4, <3>2 DEF Linked
      <4>2. memory[i] \in Event
        BY <2>3, <4>1 DEF TypeOK
      <4>3. c = memory[i].deployment /\ c \in Deployments
        BY <4>1, <4>2 DEF Event
      <4>4. /\ memory[i].kind = "rolled_back" /\ pc[c] \in Ended
            /\ \A j \in Chain(c) : j < i
        BY <2>3, <4>1, <4>3 DEF TrailInv, UnlinkedComesAfter
      <4>5. c = d => ~WritesLinked(d, e)
        BY <4>4 DEF WritesLinked, Ongoing, Ended
      <4>6. Chain(c)' = Chain(c)
        BY <2>6, <2>10, <4>3, <4>5
      <4>7. pc'[c] \in Ended
        BY <2>2, <2>11, <4>3, <4>4, <4>5 DEF WritesUnlinked
      <4> QED BY <4>1, <4>4, <4>6, <4>7
    <3> QED BY <3>1, <3>2
  <2>16. FileIsOfMemory'
    <3>1. ToSet(memory)' = ToSet(memory) \cup {e}
      BY <2>3, <2>4 DEF ToSet
    <3>2. file' \in {file, Append(file, e), Append(file, Torn)}
      BY <2>2 DEF Writes
    <3>3. ASSUME NEW x, file' = Append(file, x), NEW i \in DOMAIN file'
          PROVE  (i \in DOMAIN file /\ file'[i] = file[i]) \/ file'[i] = x
      <4>1. Len(file) \in Nat /\ DOMAIN file = 1..Len(file) /\ DOMAIN file' = 1..(Len(file) + 1)
        BY <3>3 DEF TypeOK
      <4>2. \A k \in 1..Len(file) : file'[k] = file[k]
        BY <3>3 DEF TypeOK
      <4>3. file'[Len(file) + 1] = x
        BY <3>3 DEF TypeOK
      <4> QED BY <4>1, <4>2, <4>3
    <3>4. \A i \in DOMAIN file' : \/ i \in DOMAIN file /\ file'[i] = file[i]
                                  \/ file'[i] \in {e, Torn}
      BY <3>2, <3>3
    <3> QED BY <3>1, <3>4 DEF TrailInv, FileIsOfMemory
  <2> QED BY <2>7, <2>8, <2>13, <2>14, <2>15, <2>16 DEF TrailInv
<1> QED BY <1>1, <1>2, <1>3, StepTells

\* The trail is numbered, ordered and linked, whoever writes when and whatever is lost.
THEOREM TrailIsLinked == Spec => []TrailInv
<1> QED BY TrailInit, TrailNext, TypeCorrect, PTL DEF Spec

-----------------------------------------------------------------------------
\* What is read of the file is in memory, where its id says.
LEMMA ReadIsRecorded ==
    ASSUME TypeOK, TrailInv
    PROVE  /\ \A e \in Loaded(file) : /\ e \in Event /\ e.id \in DOMAIN memory
                                      /\ memory[e.id] = e
           /\ \A i \in DOMAIN memory :
                 /\ memory[i] \in Event /\ memory[i].id = i /\ i \in Nat
                 /\ i \in Ids(Loaded(file)) <=> memory[i] \in Loaded(file)
<1>1. \A i \in DOMAIN memory : memory[i] \in Event /\ memory[i].id = i /\ i \in Nat
  BY DEF TypeOK, TrailInv, Numbered
<1>2. ASSUME NEW e \in Loaded(file)
      PROVE  e \in Event /\ e.id \in DOMAIN memory /\ memory[e.id] = e
  <2>1. PICK i \in DOMAIN file : e = file[i] /\ \A k \in 1..i : file[k] # Torn
    BY <1>2 DEF Loaded
  <2>2. i \in 1..i
    BY DEF TypeOK
  <2>3. e \in ToSet(memory)
    BY <2>1, <2>2 DEF TrailInv, FileIsOfMemory
  <2> QED BY <1>1, <2>3 DEF ToSet
<1>3. ASSUME NEW i \in DOMAIN memory
      PROVE  i \in Ids(Loaded(file)) <=> memory[i] \in Loaded(file)
  BY <1>1, <1>2 DEF Ids
<1> QED BY <1>1, <1>2, <1>3

LEMMA GapsFollow == TypeOK /\ TrailInv => GapsAreReported
<1> SUFFICES ASSUME TypeOK, TrailInv PROVE GapsAreReported
  OBVIOUS
<1> DEFINE read == Loaded(file)
           gapless(chain) == \A i, j \in chain :
              i < j /\ chain \cap (i + 1)..(j - 1) = {} /\ memory[j] \in read
                  => memory[i] \in read
<1>1. /\ \A e \in read : e \in Event /\ e.id \in DOMAIN memory /\ memory[e.id] = e
      /\ \A i \in DOMAIN memory :
            /\ memory[i] \in Event /\ memory[i].id = i /\ i \in Nat
            /\ i \in Ids(read) <=> memory[i] \in read
  BY ReadIsRecorded
<1>2. \A d \in Deployments : \A i \in Chain(d) : i \in DOMAIN memory /\ i \in Nat
  BY <1>1 DEF Chain
<1>3. \A d \in Deployments : \A j \in Chain(d) :
         IF memory[j].parent = NoEvent
         THEN \A i \in Chain(d) : j <= i
         ELSE /\ memory[j].parent \in Chain(d) /\ memory[j].parent < j
              /\ \A i \in Chain(d) : i <= memory[j].parent \/ j <= i
  BY DEF TrailInv, ChainIsLinked
<1> HIDE DEF read
<1>4. ASSUME LineageIsValid(read), NEW d \in Deployments PROVE gapless(Chain(d))
  <2> SUFFICES ASSUME NEW i \in Chain(d), NEW j \in Chain(d), i < j,
                      Chain(d) \cap (i + 1)..(j - 1) = {}, memory[j] \in read
               PROVE  memory[i] \in read
    OBVIOUS
  <2>0. i \in Nat /\ j \in Nat /\ i \in DOMAIN memory /\ j \in DOMAIN memory
    BY <1>2
  <2>1. memory[j].parent # NoEvent
    BY <1>3, <2>0
  <2> PICK p : p = memory[j].parent
    OBVIOUS
  <2>2. p \in Chain(d) /\ p < j /\ (i <= p \/ j <= i)
    BY <1>3, <2>1
  <2>3. p \in Nat /\ p \in DOMAIN memory
    BY <1>2, <2>2
  <2>4. p = i
    <3>1. p \notin (i + 1)..(j - 1)
      BY <2>2
    <3> QED BY <2>0, <2>2, <2>3, <3>1
  <2>5. p \in Ids(read)
    BY <1>4, <2>1 DEF LineageIsValid
  <2> QED BY <1>1, <2>3, <2>4, <2>5
<1>5. ASSUME \A d \in Deployments : gapless(Chain(d)) PROVE LineageIsValid(read)
  <2> SUFFICES ASSUME NEW e \in read, e.parent # NoEvent
               PROVE  e.parent \in Ids(read) \ {e.id}
    BY DEF LineageIsValid
  <2> PICK j \in DOMAIN memory : j = e.id
    BY <1>1
  <2> PICK d \in Deployments : d = e.deployment
    BY <1>1 DEF Event
  <2>1. memory[j] = e /\ j \in Nat
    BY <1>1
  <2>2. j \in Chain(d)
    BY <2>1 DEF Chain, Linked
  <2> PICK i : i = e.parent
    OBVIOUS
  <2>3. i \in Chain(d) /\ i < j /\ \A k \in Chain(d) : k <= i \/ j <= k
    BY <1>3, <2>1, <2>2
  <2>4. i \in Nat /\ i \in DOMAIN memory
    BY <1>2, <2>3
  <2>5. Chain(d) \cap (i + 1)..(j - 1) = {}
    BY <1>2, <2>1, <2>3, <2>4
  <2>6. memory[i] \in read
    BY <1>5, <2>1, <2>2, <2>3, <2>5
  <2> QED BY <1>1, <2>3, <2>4, <2>6
<1> QED BY <1>4, <1>5 DEF GapsAreReported, read

\* A loss within what an engine recorded is reported, and nothing else is, for any
\* number of deployments that share the log and wherever writes fail: whether the
\* lineage is valid depends on each chain alone.
THEOREM LossesAreReported == Spec => []GapsAreReported
<1> QED BY GapsFollow, TypeCorrect, TrailIsLinked, PTL

-----------------------------------------------------------------------------
(***************************************************************************)
(* The timeline of any trail: what the depth-first search does.            *)
(***************************************************************************)
\* A set of events that stands for a list of them.
IsListed(events) ==
    /\ IsFiniteSet(events)
    /\ \A e \in events : e.id \in Nat /\ e.time \in Nat
    /\ \A e, f \in events : e.id = f.id => e = f

\* Those that are visited before e.
Before(events, e) == {f \in events : Sooner(f, e)}

LEMMA BeforeGrows ==
    ASSUME NEW events, IsListed(events), NEW e \in events, NEW f \in events, Sooner(e, f)
    PROVE  /\ Cardinality(Before(events, e)) \in Nat /\ Cardinality(Before(events, f)) \in Nat
           /\ Cardinality(Before(events, e)) < Cardinality(Before(events, f))
           /\ Cardinality(Before(events, f)) < Cardinality(events) /\ Cardinality(events) \in Nat
<1>1. IsFiniteSet(events) /\ Before(events, e) \subseteq events /\ Before(events, f) \subseteq events
  BY DEF IsListed, Before
<1>2. /\ IsFiniteSet(Before(events, e)) /\ IsFiniteSet(Before(events, f))
      /\ Cardinality(Before(events, e)) \in Nat /\ Cardinality(Before(events, f)) \in Nat
      /\ Cardinality(events) \in Nat
  BY <1>1, FS_Subset, FS_CardinalityType
<1>3. e \notin Before(events, e) /\ f \notin Before(events, f)
  BY DEF IsListed, Before, Sooner
<1>4. Before(events, e) \cup {e} \subseteq Before(events, f)
  <2> SUFFICES ASSUME NEW x \in events, Sooner(x, e) PROVE Sooner(x, f)
    BY DEF Before
  <2>1. /\ x.id \in Nat /\ e.id \in Nat /\ f.id \in Nat
        /\ x.time \in Nat /\ e.time \in Nat /\ f.time \in Nat
    BY DEF IsListed
  <2> QED BY <2>1 DEF Sooner
<1>5. /\ Cardinality(Before(events, e) \cup {e}) = Cardinality(Before(events, e)) + 1
      /\ Cardinality(Before(events, f) \cup {f}) = Cardinality(Before(events, f)) + 1
  BY <1>2, <1>3, FS_AddElement
<1>6. Cardinality(Before(events, e) \cup {e}) <= Cardinality(Before(events, f))
  BY <1>2, <1>4, FS_Subset
<1>7. Cardinality(Before(events, f) \cup {f}) <= Cardinality(events)
  <2>1. Before(events, f) \cup {f} \subseteq events
    BY <1>1
  <2> QED BY <1>1, <2>1, FS_Subset
<1> QED BY <1>2, <1>5, <1>6, <1>7

LEMMA RankInBounds ==
    ASSUME NEW events, IsListed(events), NEW e \in events
    PROVE  Cardinality(Before(events, e)) \in 0..(Cardinality(events) - 1)
<1>1. IsFiniteSet(events) /\ Before(events, e) \subseteq events
  BY DEF IsListed, Before
<1>2. /\ IsFiniteSet(Before(events, e)) /\ Cardinality(Before(events, e)) \in Nat
      /\ Cardinality(events) \in Nat
  BY <1>1, FS_Subset, FS_CardinalityType
<1>3. e \notin Before(events, e)
  BY DEF IsListed, Before, Sooner
<1>4. Cardinality(Before(events, e) \cup {e}) = Cardinality(Before(events, e)) + 1
  BY <1>2, <1>3, FS_AddElement
<1>5. Before(events, e) \cup {e} \subseteq events
  BY <1>1
<1>6. Cardinality(Before(events, e) \cup {e}) <= Cardinality(events)
  BY <1>1, <1>5, FS_Subset
<1> QED BY <1>2, <1>4, <1>6

\* The sort: every child is on the stack once, and sooner ones come first.
LEMMA StackedIsSorted ==
    ASSUME NEW events, IsListed(events)
    PROVE  /\ Cardinality(events) \in Nat
           /\ Stacked(events) \in Seq(events) /\ Len(Stacked(events)) = Cardinality(events)
           /\ \A e \in events : \E i \in 1..Cardinality(events) : Stacked(events)[i] = e
           /\ \A i, j \in 1..Cardinality(events) :
                 i < j => Sooner(Stacked(events)[i], Stacked(events)[j])
<1>a. PICK n : n = Cardinality(events)
  OBVIOUS
<1>b. PICK stacked : stacked = Stacked(events)
  OBVIOUS
<1> DEFINE rank == [e \in events |-> Cardinality(Before(events, e))]
           ranks == 0..(n - 1)
<1>1. n \in Nat
  BY <1>a, FS_CardinalityType DEF IsListed
<1>2. IsFiniteSet(ranks) /\ Cardinality(ranks) = n
  <2>0. 0 \in Int /\ n - 1 \in Int
    BY <1>1
  <2>1. /\ IsFiniteSet(0..(n - 1))
        /\ Cardinality(0..(n - 1)) = IF 0 > n - 1 THEN 0 ELSE (n - 1) - 0 + 1
    BY <2>0, FS_Interval, Zenon
  <2> QED BY <1>1, <2>1
<1>3. rank \in [events -> ranks]
  BY <1>a, RankInBounds
<1>4. \A e, f \in events : Sooner(e, f) => rank[e] < rank[f]
  BY BeforeGrows
<1>5. \A e, f \in events : e = f \/ Sooner(e, f) \/ Sooner(f, e)
  BY DEF IsListed, Sooner
<1>6. \A e \in events : rank[e] \in Nat
  BY <1>1, <1>3
<1>7. \A e, f \in events : rank[e] = rank[f] => e = f
  BY <1>4, <1>5, <1>6
<1>8. \A i \in ranks : \E e \in events : rank[e] = i
  <2> HIDE DEF rank, ranks
  <2>1. rank \in Injection(events, ranks)
    BY <1>3, <1>7 DEF Injection, IsInjective
  <2>2. rank \in Surjection(events, ranks)
    BY <1>2, <1>a, <2>1, FS_Injection
  <2> QED BY <2>2 DEF Surjection
<1>9. stacked = [i \in 1..n |-> CHOOSE e \in events : Cardinality(Before(events, e)) = i - 1]
  BY <1>a, <1>b DEF Stacked, Before
<1>10. \A i \in 1..n : stacked[i] \in events /\ rank[stacked[i]] = i - 1
  <2> SUFFICES ASSUME NEW i \in 1..n PROVE stacked[i] \in events /\ rank[stacked[i]] = i - 1
    OBVIOUS
  <2>1. i - 1 \in ranks
    BY <1>1
  <2>2. \E e \in events : Cardinality(Before(events, e)) = i - 1
    BY <1>8, <2>1
  <2> QED BY <1>9, <2>2
<1> HIDE DEF rank, ranks
<1>11. stacked \in Seq(events) /\ Len(stacked) = n
  <2>1. stacked \in [1..n -> events]
    BY <1>9, <1>10
  <2> QED BY <1>1, <2>1, LenProperties
<1>12. ASSUME NEW e \in events PROVE \E i \in 1..n : stacked[i] = e
  <2>1. rank[e] + 1 \in 1..n /\ (rank[e] + 1) - 1 = rank[e]
    BY <1>1, <1>3, <1>6 DEF ranks
  <2>2. stacked[rank[e] + 1] = e
    BY <1>7, <1>10, <2>1
  <2> QED BY <2>1, <2>2
<1>13. ASSUME NEW i \in 1..n, NEW j \in 1..n, i < j PROVE Sooner(stacked[i], stacked[j])
  <2>1. /\ stacked[i] \in events /\ stacked[j] \in events
        /\ rank[stacked[i]] = i - 1 /\ rank[stacked[j]] = j - 1
    BY <1>10
  <2>2. ~Sooner(stacked[j], stacked[i]) /\ stacked[i] # stacked[j]
    BY <1>1, <1>4, <1>13, <2>1
  <2> QED BY <1>5, <2>1, <2>2
<1> QED BY <1>1, <1>11, <1>12, <1>13, <1>a, <1>b

-----------------------------------------------------------------------------
\* A set of numbers has a least one: what stands in for induction below.
LEMMA LeastExists ==
    ASSUME NEW S \in SUBSET Nat, S # {}
    PROVE  \E n \in S : \A m \in S : n <= m
<1>1. PICK n \in S : \A m \in S : ~(<<m, n>> \in OpToRel(<, Nat))
  BY NatLessThanWellFounded, WFMin
<1>2. ASSUME NEW m \in S PROVE n <= m
  <2>1. m \in Nat /\ n \in Nat
    OBVIOUS
  <2>2. ~(m < n)
    BY <1>1, <2>1, Zenon DEF OpToRel
  <2> QED BY <2>1, <2>2
<1> QED BY <1>2

LEMMA SearchIsComputed ==
    ASSUME NEW events, NEW n \in Nat, n = Cardinality(events)
    PROVE  /\ Search(events)[0] = [told |-> << >>, stack |-> Stacked(Children(events, NoEvent))]
           /\ \A t \in 1..n : Search(events)[t] = Visit(events, Search(events)[t - 1])
<1> DEFINE first == [told |-> << >>, stack |-> Stacked(Children(events, NoEvent))]
           visit(search) == Visit(events, search)
           Computes(g, k) == g = [t \in 0..k |-> IF t = 0 THEN first ELSE visit(g[t - 1])]
           bad == {k \in Nat : ~\E g : Computes(g, k)}
<1>1. bad = {}
  <2> SUFFICES ASSUME bad # {} PROVE FALSE
    OBVIOUS
  <2>1. PICK k \in bad : \A m \in bad : k <= m
    BY LeastExists
  <2> HIDE DEF first, visit
  <2>2. k # 0
    <3>1. Computes([t \in 0..0 |-> first], 0)
      OBVIOUS
    <3> QED BY <3>1
  <2>3. k - 1 \in Nat /\ k - 1 \notin bad
    <3> HIDE DEF bad
    <3>1. k \in Nat
      BY DEF bad
    <3> QED BY <2>1, <2>2, <3>1
  <2>4. PICK g : Computes(g, k - 1)
    BY <2>3
  <2> DEFINE h == [t \in 0..k |-> IF t = k THEN visit(g[k - 1]) ELSE g[t]]
  <2>5. ASSUME NEW t \in 0..k PROVE h[t] = IF t = 0 THEN first ELSE visit(h[t - 1])
    <3>1. CASE t = 0
      BY <2>1, <2>2, <2>4, <3>1
    <3>2. CASE t # 0 /\ t # k
      <4>1. t \in 0..(k - 1) /\ t - 1 \in 0..k /\ t - 1 # k
        BY <2>1, <2>3, <3>2
      <4>2. h[t] = g[t] /\ h[t - 1] = g[t - 1]
        BY <3>2, <4>1
      <4>3. g[t] = visit(g[t - 1])
        BY <2>4, <3>2, <4>1
      <4> QED BY <3>2, <4>2, <4>3
    <3>3. CASE t = k
      <4>1. k - 1 \in 0..k /\ k - 1 # k
        BY <2>1, <2>3
      <4> QED BY <2>2, <3>3, <4>1
    <3> QED BY <3>1, <3>2, <3>3
  <2>6. Computes(h, k)
    <3>1. h = [t \in 0..k |-> h[t]]
      OBVIOUS
    <3> HIDE DEF h
    <3> QED BY <2>5, <3>1
  <2> QED BY <2>6
<1>2. PICK g : Computes(g, n)
  BY <1>1
<1>3. Computes(Search(events), n)
  BY <1>2 DEF Search
<1> HIDE DEF first, visit
<1>4. /\ Search(events)[0] = first
      /\ \A t \in 1..n : Search(events)[t] = visit(Search(events)[t - 1])
  BY <1>3
<1> QED BY <1>4 DEF first, visit

\* The same for the replay of a timeline.
LEMMA ReplayIsComputed ==
    ASSUME NEW timeline, NEW n \in Nat, n = Len(timeline)
    PROVE  /\ Replay(timeline)[0] = [status |-> "pending", on |-> {}]
           /\ \A t \in 1..n : Replay(timeline)[t] = Apply(Replay(timeline)[t - 1], timeline[t])
<1> DEFINE first == [status |-> "pending", on |-> {}]
           Computes(g, k) == g = [t \in 0..k |-> IF t = 0 THEN first
                                                 ELSE Apply(g[t - 1], timeline[t])]
           bad == {k \in Nat : ~\E g : Computes(g, k)}
<1>1. bad = {}
  <2> SUFFICES ASSUME bad # {} PROVE FALSE
    OBVIOUS
  <2>1. PICK k \in bad : \A m \in bad : k <= m
    BY LeastExists
  <2> HIDE DEF first
  <2>2. k # 0
    <3>1. Computes([t \in 0..0 |-> first], 0)
      OBVIOUS
    <3> QED BY <3>1
  <2>3. k - 1 \in Nat /\ k - 1 \notin bad
    <3> HIDE DEF bad
    <3>1. k \in Nat
      BY DEF bad
    <3> QED BY <2>1, <2>2, <3>1
  <2>4. PICK g : Computes(g, k - 1)
    BY <2>3
  <2> DEFINE h == [t \in 0..k |-> IF t = k THEN Apply(g[k - 1], timeline[k]) ELSE g[t]]
  <2>5. ASSUME NEW t \in 0..k PROVE h[t] = IF t = 0 THEN first ELSE Apply(h[t - 1], timeline[t])
    <3>1. CASE t = 0
      BY <2>1, <2>2, <2>4, <3>1
    <3>2. CASE t # 0 /\ t # k
      <4>1. t \in 0..(k - 1) /\ t - 1 \in 0..k /\ t - 1 # k
        BY <2>1, <2>3, <3>2
      <4>2. h[t] = g[t] /\ h[t - 1] = g[t - 1]
        BY <3>2, <4>1
      <4>3. g[t] = Apply(g[t - 1], timeline[t])
        BY <2>4, <3>2, <4>1
      <4> QED BY <3>2, <4>2, <4>3
    <3>3. CASE t = k
      <4>1. k - 1 \in 0..k /\ k - 1 # k
        BY <2>1, <2>3
      <4> QED BY <2>2, <3>3, <4>1
    <3> QED BY <3>1, <3>2, <3>3
  <2>6. Computes(h, k)
    <3>1. h = [t \in 0..k |-> h[t]]
      OBVIOUS
    <3> HIDE DEF h
    <3> QED BY <2>5, <3>1
  <2> QED BY <2>6
<1>2. PICK g : Computes(g, n)
  <2> HIDE DEF Computes
  <2> QED BY <1>1
<1>3. Computes(Replay(timeline), n)
  BY <1>2 DEF Replay
<1> HIDE DEF first
<1>4. /\ Replay(timeline)[0] = first
      /\ \A t \in 1..n : Replay(timeline)[t] = Apply(Replay(timeline)[t - 1], timeline[t])
  <2> PICK r : r = Replay(timeline)
    OBVIOUS
  <2>1. \A t \in 0..n : r[t] = IF t = 0 THEN first ELSE Apply(r[t - 1], timeline[t])
    BY <1>3
  <2>2. 0 \in 0..n /\ \A t \in 1..n : t \in 0..n /\ t # 0
    OBVIOUS
  <2> QED BY <2>1, <2>2
<1> QED BY <1>4 DEF first

-----------------------------------------------------------------------------
\* No element twice.
IsDistinct(s) == \A i, j \in 1..Len(s) : s[i] = s[j] => i = j

LEMMA HeadAndTail ==
    ASSUME NEW S, NEW s \in Seq(S), s # << >>, IsDistinct(s)
    PROVE  /\ Head(s) \in S /\ Head(s) = s[1] /\ Head(s) \in ToSet(s)
           /\ Tail(s) \in Seq(S) /\ Len(s) \in Nat \ {0} /\ Len(Tail(s)) = Len(s) - 1
           /\ \A i \in 1..(Len(s) - 1) : Tail(s)[i] = s[i + 1]
           /\ IsDistinct(Tail(s)) /\ ToSet(Tail(s)) = ToSet(s) \ {Head(s)}
<1>1. /\ Head(s) \in S /\ Head(s) = s[1] /\ Tail(s) \in Seq(S)
      /\ Len(s) \in Nat \ {0} /\ Len(Tail(s)) = Len(s) - 1
      /\ \A i \in 1..(Len(s) - 1) : Tail(s)[i] = s[i + 1]
  OBVIOUS
<1>2. DOMAIN s = 1..Len(s) /\ DOMAIN Tail(s) = 1..(Len(s) - 1)
  BY <1>1
<1>3. \A i \in 1..(Len(s) - 1) : i + 1 \in 1..Len(s) /\ i + 1 # 1
  BY <1>1
<1>4. IsDistinct(Tail(s))
  BY <1>1, <1>3 DEF IsDistinct
<1>5. 1 \in 1..Len(s)
  BY <1>1
<1>6. ASSUME NEW i \in 1..(Len(s) - 1) PROVE Tail(s)[i] \in ToSet(s) /\ Tail(s)[i] # Head(s)
  BY <1>1, <1>2, <1>3, <1>5 DEF IsDistinct, ToSet
<1>7. ASSUME NEW i \in 1..Len(s), s[i] # Head(s) PROVE s[i] \in ToSet(Tail(s))
  <2>1. i - 1 \in 1..(Len(s) - 1) /\ (i - 1) + 1 = i
    BY <1>1, <1>7
  <2> QED BY <1>1, <1>2, <2>1 DEF ToSet
<1>8. ToSet(Tail(s)) = ToSet(s) \ {Head(s)}
  BY <1>2, <1>6, <1>7 DEF ToSet
<1> QED BY <1>1, <1>2, <1>4, <1>5, <1>8 DEF ToSet

LEMMA Joined ==
    ASSUME NEW S, NEW s \in Seq(S), NEW t \in Seq(S)
    PROVE  /\ s \o t \in Seq(S) /\ Len(s \o t) = Len(s) + Len(t)
           /\ Len(s) \in Nat /\ Len(t) \in Nat
           /\ \A i \in 1..Len(s) : (s \o t)[i] = s[i]
           /\ \A i \in (Len(s) + 1)..(Len(s) + Len(t)) : (s \o t)[i] = t[i - Len(s)]
           /\ ToSet(s \o t) = ToSet(s) \cup ToSet(t)
           /\ IsDistinct(s) /\ IsDistinct(t) /\ ToSet(s) \cap ToSet(t) = {} => IsDistinct(s \o t)
<1>1. /\ s \o t \in Seq(S) /\ Len(s \o t) = Len(s) + Len(t)
      /\ Len(s) \in Nat /\ Len(t) \in Nat
      /\ \A i \in 1..Len(s) : (s \o t)[i] = s[i]
      /\ \A i \in (Len(s) + 1)..(Len(s) + Len(t)) : (s \o t)[i] = t[i - Len(s)]
  OBVIOUS
<1>2. /\ DOMAIN s = 1..Len(s) /\ DOMAIN t = 1..Len(t)
      /\ DOMAIN (s \o t) = 1..(Len(s) + Len(t))
  BY <1>1
<1> PICK u : u = s \o t
  OBVIOUS
<1>3. \A i \in 1..(Len(s) + Len(t)) :
         \/ i \in 1..Len(s) /\ u[i] = s[i]
         \/ i - Len(s) \in 1..Len(t) /\ u[i] = t[i - Len(s)]
  BY <1>1
<1>4. ToSet(u) \subseteq ToSet(s) \cup ToSet(t)
  BY <1>2, <1>3 DEF ToSet
<1>5. ToSet(s) \subseteq ToSet(u)
  <2>1. \A i \in 1..Len(s) : i \in 1..(Len(s) + Len(t))
    BY <1>1
  <2> QED BY <1>1, <1>2, <2>1 DEF ToSet
<1>6. ToSet(t) \subseteq ToSet(u)
  <2> SUFFICES ASSUME NEW i \in 1..Len(t) PROVE t[i] \in ToSet(u)
    BY <1>2 DEF ToSet
  <2>1. i + Len(s) \in (Len(s) + 1)..(Len(s) + Len(t)) /\ (i + Len(s)) - Len(s) = i
    BY <1>1
  <2>2. u[i + Len(s)] = t[i] /\ i + Len(s) \in 1..(Len(s) + Len(t))
    BY <1>1, <2>1
  <2> QED BY <1>2, <2>2 DEF ToSet
<1>7. ASSUME IsDistinct(s), IsDistinct(t), ToSet(s) \cap ToSet(t) = {} PROVE IsDistinct(u)
  <2> SUFFICES ASSUME NEW i \in 1..(Len(s) + Len(t)), NEW j \in 1..(Len(s) + Len(t)), u[i] = u[j]
               PROVE  i = j
    BY <1>1 DEF IsDistinct
  <2>1. \A k \in 1..Len(s), m \in 1..Len(t) : s[k] # t[m]
    BY <1>2, <1>7 DEF ToSet
  <2>2. CASE i \in 1..Len(s) /\ u[i] = s[i]
    BY <1>3, <1>7, <2>1, <2>2 DEF IsDistinct
  <2>3. CASE i - Len(s) \in 1..Len(t) /\ u[i] = t[i - Len(s)]
    <3>1. j - Len(s) \in 1..Len(t) /\ u[j] = t[j - Len(s)]
      BY <1>3, <2>1, <2>3
    <3>2. i - Len(s) = j - Len(s)
      BY <1>7, <2>3, <3>1 DEF IsDistinct
    <3> QED BY <1>1, <3>2
  <2> QED BY <1>3, <2>2, <2>3
<1> QED BY <1>1, <1>4, <1>5, <1>6, <1>7

LEMMA Appended ==
    ASSUME NEW S, NEW s \in Seq(S), NEW x \in S
    PROVE  /\ Append(s, x) \in Seq(S) /\ Len(s) \in Nat /\ Len(Append(s, x)) = Len(s) + 1
           /\ \A i \in 1..Len(s) : Append(s, x)[i] = s[i]
           /\ Append(s, x)[Len(s) + 1] = x
           /\ ToSet(Append(s, x)) = ToSet(s) \cup {x}
           /\ IsDistinct(s) /\ x \notin ToSet(s) => IsDistinct(Append(s, x))
<1>1. /\ Append(s, x) \in Seq(S) /\ Len(s) \in Nat /\ Len(Append(s, x)) = Len(s) + 1
      /\ \A i \in 1..Len(s) : Append(s, x)[i] = s[i]
      /\ Append(s, x)[Len(s) + 1] = x
  OBVIOUS
<1>2. DOMAIN s = 1..Len(s) /\ DOMAIN Append(s, x) = 1..(Len(s) + 1)
  BY <1>1
<1>3. 1..(Len(s) + 1) = 1..Len(s) \cup {Len(s) + 1}
  BY <1>1
<1>4. ToSet(Append(s, x)) = ToSet(s) \cup {x}
  BY <1>1, <1>2, <1>3 DEF ToSet
<1>5. \A i \in 1..Len(s) : s[i] \in ToSet(s)
  BY <1>2 DEF ToSet
<1>6. IsDistinct(s) /\ x \notin ToSet(s) => IsDistinct(Append(s, x))
  BY <1>1, <1>3, <1>5 DEF IsDistinct
<1> QED BY <1>1, <1>4, <1>6

-----------------------------------------------------------------------------
\* Every event was written after its parent.
IsCausal(events) ==
    /\ IsListed(events)
    /\ \A e, f \in events : e.parent = f.id => f.id < e.id

IsRoot(events, e) == e.parent \notin Ids(events)

\* Where the search stands: what is told and what is on the stack is there once, and
\* it is the roots and the children of what is told.
Explores(events, search) ==
    /\ search.told \in Seq(events) /\ search.stack \in Seq(events)
    /\ IsDistinct(search.told) /\ IsDistinct(search.stack)
    /\ ToSet(search.told) \cap ToSet(search.stack) = {}
    /\ \A e \in events :
          e \in ToSet(search.told) \cup ToSet(search.stack)
              <=> IsRoot(events, e) \/ \E p \in ToSet(search.told) : e.parent = p.id

LEMMA RootsFirst ==
    ASSUME NEW events, IsCausal(events)
    PROVE  Children(events, NoEvent) = {e \in events : IsRoot(events, e)}
<1>1. NoEvent \notin Ids(events)
  BY AuditAssumption DEF IsCausal, IsListed, Ids
<1> QED BY <1>1 DEF Children, IsRoot

LEMMA OfAParent ==
    ASSUME NEW events, IsCausal(events), NEW p \in events
    PROVE  Children(events, p.id) = {e \in events : e.parent = p.id}
<1>1. p.id \in Ids(events) /\ p.id # NoEvent
  BY AuditAssumption DEF IsCausal, IsListed, Ids
<1> QED BY <1>1 DEF Children

LEMMA StackedIsDistinct ==
    ASSUME NEW events, IsListed(events), NEW children \in SUBSET events
    PROVE  /\ Stacked(children) \in Seq(events) /\ IsDistinct(Stacked(children))
           /\ ToSet(Stacked(children)) = children
           /\ \A i, j \in 1..Len(Stacked(children)) :
                 i < j => Sooner(Stacked(children)[i], Stacked(children)[j])
<1>1. IsListed(children)
  BY FS_Subset DEF IsListed
<1>a. PICK n : n = Cardinality(children)
  OBVIOUS
<1>b. PICK stacked : stacked = Stacked(children)
  OBVIOUS
<1>2. /\ n \in Nat /\ stacked \in Seq(children) /\ Len(stacked) = n
      /\ \A e \in children : \E i \in 1..n : stacked[i] = e
      /\ \A i, j \in 1..n : i < j => Sooner(stacked[i], stacked[j])
  BY <1>1, <1>a, <1>b, StackedIsSorted
<1>3. DOMAIN stacked = 1..n /\ \A i \in 1..n : stacked[i] \in children
  BY <1>2
<1>4. ToSet(stacked) = children
  BY <1>2, <1>3 DEF ToSet
<1>5. \A e \in children : ~Sooner(e, e)
  BY <1>1 DEF IsListed, Sooner
<1>6. IsDistinct(stacked)
  <2> SUFFICES ASSUME NEW i \in 1..n, NEW j \in 1..n, stacked[i] = stacked[j], i # j PROVE FALSE
    BY <1>2 DEF IsDistinct
  <2>1. i < j \/ j < i
    BY <1>2
  <2> QED BY <1>2, <1>3, <1>5, <2>1
<1>7. stacked \in Seq(events)
  <2>1. stacked \in [1..n -> events]
    BY <1>2, <1>3
  <2> QED BY <1>2, <2>1
<1> QED BY <1>2, <1>4, <1>6, <1>7, <1>b

LEMMA ExploresFirst ==
    ASSUME NEW events, IsCausal(events),
           NEW search, search = [told |-> << >>, stack |-> Stacked(Children(events, NoEvent))]
    PROVE  Explores(events, search)
<1> PICK roots : roots = Children(events, NoEvent)
  OBVIOUS
<1>1. roots = {e \in events : IsRoot(events, e)} /\ IsListed(events)
  BY RootsFirst DEF IsCausal
<1>2. /\ search.stack \in Seq(events) /\ IsDistinct(search.stack)
      /\ ToSet(search.stack) = roots
  BY <1>1, StackedIsDistinct
<1>3. search.told = << >> /\ ToSet(search.told) = {}
  BY DEF ToSet
<1>4. search.told \in Seq(events) /\ IsDistinct(search.told)
  BY <1>3 DEF IsDistinct
<1> QED BY <1>1, <1>2, <1>3, <1>4 DEF Explores

LEMMA ExploresOn ==
    ASSUME NEW events, IsCausal(events), NEW search, Explores(events, search),
           search.stack # << >>, NEW next, next = Visit(events, search)
    PROVE  /\ Explores(events, next)
           /\ Head(search.stack) \in events /\ Len(next.told) = Len(search.told) + 1
           /\ ToSet(next.told) = ToSet(search.told) \cup {Head(search.stack)}
<1>a. PICK top, rest, children :
        /\ top = Head(search.stack) /\ rest = Tail(search.stack)
        /\ children = Stacked(Children(events, top.id))
  OBVIOUS
<1>b. PICK stack, told : stack = children \o rest /\ told = Append(search.told, top)
  OBVIOUS
<1>1. next.told = told /\ next.stack = stack
  <2>1. next = [told |-> told, stack |-> stack]
    BY <1>a, <1>b, Zenon DEF Visit
  <2> QED BY <2>1
<1>2. /\ search.told \in Seq(events) /\ search.stack \in Seq(events)
      /\ IsDistinct(search.told) /\ IsDistinct(search.stack)
      /\ ToSet(search.told) \cap ToSet(search.stack) = {}
  BY DEF Explores
<1>3. /\ top \in events /\ top \in ToSet(search.stack)
      /\ rest \in Seq(events) /\ IsDistinct(rest)
      /\ ToSet(rest) = ToSet(search.stack) \ {top}
  BY <1>2, <1>a, HeadAndTail
<1>4. /\ children \in Seq(events) /\ IsDistinct(children)
      /\ ToSet(children) = {e \in events : e.parent = top.id}
  <2>1. Children(events, top.id) = {e \in events : e.parent = top.id}
    BY <1>3, OfAParent
  <2>2. Children(events, top.id) \in SUBSET events
    BY <2>1
  <2> QED BY <1>a, <2>1, <2>2, StackedIsDistinct DEF IsCausal
<1>5. ASSUME NEW e \in events, e.parent = top.id
      PROVE  e \notin ToSet(search.told) \cup ToSet(search.stack)
  <2>1. ~IsRoot(events, e)
    BY <1>3, <1>5 DEF IsRoot, Ids
  <2>2. \A p \in ToSet(search.told) : p \in events
    BY <1>2 DEF ToSet
  <2>3. \A p \in ToSet(search.told) : e.parent # p.id
    BY <1>2, <1>3, <1>5, <2>2 DEF IsCausal, IsListed
  <2> QED BY <2>1, <2>3 DEF Explores
<1>6. /\ next.told \in Seq(events) /\ IsDistinct(next.told)
      /\ ToSet(next.told) = ToSet(search.told) \cup {top}
      /\ Len(next.told) = Len(search.told) + 1
  <2>1. top \notin ToSet(search.told)
    BY <1>2, <1>3
  <2> QED BY <1>1, <1>2, <1>3, <1>b, <2>1, Appended
<1>7. /\ next.stack \in Seq(events) /\ IsDistinct(next.stack)
      /\ ToSet(next.stack) = ToSet(children) \cup ToSet(rest)
  <2>1. ToSet(children) \cap ToSet(rest) = {}
    BY <1>3, <1>4, <1>5
  <2>2. /\ children \o rest \in Seq(events)
        /\ ToSet(children \o rest) = ToSet(children) \cup ToSet(rest)
        /\ IsDistinct(children \o rest)
    BY <1>3, <1>4, <2>1, Joined
  <2> QED BY <1>1, <1>b, <2>2
<1>8. ToSet(next.told) \cap ToSet(next.stack) = {}
  <2>1. top.parent # top.id
    BY <1>3 DEF IsCausal, IsListed
  <2> QED BY <1>2, <1>3, <1>4, <1>5, <1>6, <1>7, <2>1
<1>9. ASSUME NEW e \in events
      PROVE  e \in ToSet(next.told) \cup ToSet(next.stack)
                 <=> IsRoot(events, e) \/ \E p \in ToSet(next.told) : e.parent = p.id
  <2>1. e \in ToSet(search.told) \cup ToSet(search.stack)
            <=> IsRoot(events, e) \/ \E p \in ToSet(search.told) : e.parent = p.id
    BY DEF Explores
  <2> QED BY <1>3, <1>4, <1>6, <1>7, <2>1
<1> QED BY <1>3, <1>6, <1>7, <1>8, <1>9, <1>a DEF Explores

\* While an event is not told there is one on the stack: the first that is not told
\* is a root, or its parent is told.
LEMMA MoreToExplore ==
    ASSUME NEW events, IsCausal(events), NEW search, Explores(events, search),
           NEW x \in events, x \notin ToSet(search.told)
    PROVE  \E e \in ToSet(search.stack) :
              \A f \in events : f \notin ToSet(search.told) => e.id <= f.id
<1> DEFINE untold == {e \in events : e \notin ToSet(search.told)}
           ids == {e.id : e \in untold}
<1>1. ids \in SUBSET Nat /\ ids # {}
  BY DEF IsCausal, IsListed
<1>2. PICK k \in ids : \A m \in ids : k <= m
  BY <1>1, LeastExists
<1>3. PICK e \in untold : e.id = k
  OBVIOUS
<1>4. IsRoot(events, e) \/ \E p \in ToSet(search.told) : e.parent = p.id
  <2>1. CASE ~IsRoot(events, e)
    <3>1. PICK p \in events : e.parent = p.id
      BY <2>1 DEF IsRoot, Ids
    <3>2. p.id < e.id /\ p.id \in Nat /\ e.id \in Nat
      BY <1>3, <3>1 DEF IsCausal, IsListed
    <3>3. p \notin untold
      BY <1>2, <1>3, <3>2
    <3> QED BY <3>1, <3>3
  <2> QED BY <2>1
<1>5. e \in ToSet(search.stack)
  BY <1>3, <1>4 DEF Explores
<1> QED BY <1>2, <1>3, <1>5

LEMMA ToldInFull ==
    ASSUME NEW events, IsCausal(events), NEW search, Explores(events, search)
    PROVE  /\ Len(search.told) <= Cardinality(events)
           /\ Len(search.told) \in Nat /\ Cardinality(events) \in Nat
           /\ Len(search.told) = Cardinality(events) <=> ToSet(search.told) = events
<1> PICK told, n : told = search.told /\ n = Len(search.told)
  OBVIOUS
<1>1. told \in Seq(events) /\ IsDistinct(told) /\ IsFiniteSet(events)
  BY DEF Explores, IsCausal, IsListed
<1>2. n \in Nat /\ DOMAIN told = 1..n /\ told \in [1..n -> events] /\ n = Len(told)
  BY <1>1
<1>3. Cardinality(1..n) = n /\ IsFiniteSet(1..n)
  <2>1. 1 \in Int /\ n \in Int
    BY <1>2
  <2>2. /\ IsFiniteSet(1..n)
        /\ Cardinality(1..n) = IF 1 > n THEN 0 ELSE n - 1 + 1
    BY <2>1, FS_Interval, Zenon
  <2> QED BY <1>2, <2>2
<1>4. told \in Injection(1..n, events)
  BY <1>1, <1>2 DEF Injection, IsInjective, IsDistinct
<1>5. /\ n <= Cardinality(events)
      /\ n = Cardinality(events) <=> told \in Surjection(1..n, events)
  BY <1>1, <1>3, <1>4, FS_Injection
<1>6. told \in Surjection(1..n, events) <=> ToSet(told) = events
  BY <1>2 DEF Surjection, ToSet
<1> QED BY <1>1, <1>2, <1>5, <1>6, FS_CardinalityType

\* The search tells one event per turn, and in the last one the last.
LEMMA SearchTellsAll ==
    ASSUME NEW events, IsCausal(events), NEW n, n = Cardinality(events),
           NEW search, search = Search(events)
    PROVE  /\ n \in Nat
           /\ \A t \in 0..n : Explores(events, search[t]) /\ Len(search[t].told) = t
           /\ \A t \in 1..n : search[t] = Visit(events, search[t - 1])
                              /\ search[t - 1].stack # << >>
           /\ search[0] = [told |-> << >>, stack |-> Stacked(Children(events, NoEvent))]
<1>1. n \in Nat
  BY FS_CardinalityType DEF IsCausal, IsListed
<1>2. /\ search[0] = [told |-> << >>, stack |-> Stacked(Children(events, NoEvent))]
      /\ \A t \in 1..n : search[t] = Visit(events, search[t - 1])
  BY <1>1, SearchIsComputed
<1> DEFINE Good(t) == Explores(events, search[t]) /\ Len(search[t].told) = t
           bad == {t \in 0..n : ~Good(t)}
<1>3. ASSUME NEW t \in 0..n, t < n, Good(t) PROVE search[t].stack # << >>
  <2>1. PICK x \in events : x \notin ToSet(search[t].told)
    <3>1. ToSet(search[t].told) # events
      BY <1>3, ToldInFull
    <3>2. ToSet(search[t].told) \subseteq events
      BY <1>3 DEF Explores, ToSet
    <3> QED BY <3>1, <3>2
  <2>2. ToSet(search[t].stack) # {}
    BY <1>3, <2>1, MoreToExplore
  <2> QED BY <2>2 DEF ToSet
<1>4. bad = {}
  <2> SUFFICES ASSUME bad # {} PROVE FALSE
    OBVIOUS
  <2>1. PICK k \in bad : \A m \in bad : k <= m
    <3>1. bad \in SUBSET Nat
      OBVIOUS
    <3> HIDE DEF bad
    <3> QED BY <3>1, LeastExists
  <2>2. k \in 0..n /\ ~Good(k)
    BY <2>1
  <2>3. CASE k = 0
    <3>1. Explores(events, search[0])
      BY <1>2, ExploresFirst
    <3>2. search[0].told = << >>
      BY <1>2
    <3> QED BY <2>2, <2>3, <3>1, <3>2
  <2>4. CASE k # 0
    <3>1. k - 1 \in 0..n /\ k - 1 < n /\ k \in 1..n /\ (k - 1) + 1 = k
      BY <1>1, <2>2, <2>4
    <3>2. Good(k - 1)
      BY <2>1, <3>1
    <3>3. search[k - 1].stack # << >>
      BY <1>3, <3>1, <3>2
    <3>4. search[k] = Visit(events, search[k - 1])
      BY <1>2, <3>1
    <3>5. /\ Explores(events, search[k])
          /\ Len(search[k].told) = Len(search[k - 1].told) + 1
      BY <3>2, <3>3, <3>4, ExploresOn
    <3> QED BY <2>2, <3>1, <3>2, <3>5
  <2> QED BY <2>3, <2>4
<1>5. \A t \in 1..n : search[t - 1].stack # << >>
  <2> TAKE t \in 1..n
  <2>1. t - 1 \in 0..n /\ t - 1 < n
    BY <1>1
  <2> QED BY <1>3, <1>4, <2>1
<1> QED BY <1>1, <1>2, <1>4, <1>5

-----------------------------------------------------------------------------
(***************************************************************************)
(* The order of the timeline.                                              *)
(***************************************************************************)
\* Time does not run backwards, and of two events that are placed none comes between
\* a third and its parent.
IsChained(events) ==
    /\ IsCausal(events)
    /\ \A e, f \in events : e.id < f.id => e.time <= f.time
    /\ \A e, p \in events : e.parent = p.id => Placed(p)
    /\ \A e, p, f \in events : e.parent = p.id /\ Placed(f) /\ p.id < f.id => e.id <= f.id

\* What is told is in order, and nothing that is placed was passed over; so is the
\* stack, and below its top there are only beginnings.
InOrder(events, search) ==
    /\ \A i, j \in 1..Len(search.stack) :
          i < j /\ Placed(search.stack[i]) /\ Placed(search.stack[j])
              => search.stack[i].id < search.stack[j].id
    /\ \A i \in 2..Len(search.stack) : IsRoot(events, search.stack[i])
    /\ \A i, j \in 1..Len(search.told) :
          i < j /\ Placed(search.told[i]) /\ Placed(search.told[j])
              => search.told[i].id < search.told[j].id
    /\ \A e \in events, f \in ToSet(search.told) :
          Placed(e) /\ Placed(f) /\ e.id < f.id => e \in ToSet(search.told)

LEMMA InOrderFirst ==
    ASSUME NEW events, IsChained(events), ~Ambiguous(events),
           NEW search, search = [told |-> << >>, stack |-> Stacked(Children(events, NoEvent))]
    PROVE  InOrder(events, search)
<1>a. PICK roots, stack : roots = Children(events, NoEvent) /\ stack = Stacked(roots)
  OBVIOUS
<1>b. search.stack = stack /\ search.told = << >>
  BY <1>a
<1>1. roots = {e \in events : IsRoot(events, e)} /\ IsListed(events)
  BY <1>a, RootsFirst DEF IsChained, IsCausal
<1>2. /\ stack \in Seq(events) /\ ToSet(stack) = roots
      /\ \A i, j \in 1..Len(stack) : i < j => Sooner(stack[i], stack[j])
  <2>1. roots \in SUBSET events
    BY <1>1
  <2> QED BY <1>1, <1>a, <2>1, StackedIsDistinct
<1>3. \A i \in 1..Len(stack) : stack[i] \in events /\ stack[i] \in roots
  BY <1>2 DEF ToSet
<1>4. ASSUME NEW i \in 1..Len(stack), NEW j \in 1..Len(stack), i < j,
             Placed(stack[i]), Placed(stack[j])
      PROVE  stack[i].id < stack[j].id
  <2> PICK e \in events, f \in events : e = stack[i] /\ f = stack[j]
    BY <1>3
  <2>1. Sooner(e, f)
    BY <1>2, <1>4
  <2>2. e # f /\ e.time # f.time
    <3>1. e # f
      BY <1>1, <2>1 DEF Sooner, IsListed
    <3> QED BY <1>3, <1>4, <1>a, <3>1 DEF Ambiguous
  <2>3. e.time < f.time /\ e.id \in Nat /\ f.id \in Nat /\ e.time \in Nat /\ f.time \in Nat
    BY <1>1, <2>1, <2>2 DEF Sooner, IsListed
  <2>4. ~(f.id < e.id) /\ e.id # f.id
    BY <1>1, <2>2, <2>3 DEF IsChained, IsListed
  <2> QED BY <2>3, <2>4
<1>5. \A i \in 2..Len(stack) : IsRoot(events, stack[i])
  <2>1. \A i \in 2..Len(stack) : i \in 1..Len(stack)
    BY <1>2
  <2> QED BY <1>1, <1>3, <2>1
<1>6. Len(search.told) = 0 /\ ToSet(search.told) = {}
  BY <1>b DEF ToSet
<1> QED BY <1>4, <1>5, <1>6, <1>b DEF InOrder

LEMMA InOrderOn ==
    ASSUME NEW events, IsChained(events), NEW search, Explores(events, search),
           InOrder(events, search), search.stack # << >>,
           NEW next, next = Visit(events, search)
    PROVE  InOrder(events, next)
<1>a. PICK top, rest, children :
        /\ top = Head(search.stack) /\ rest = Tail(search.stack)
        /\ children = Stacked(Children(events, top.id))
  OBVIOUS
<1>b. PICK stack, told : stack = children \o rest /\ told = Append(search.told, top)
  OBVIOUS
<1>0. next.told = told /\ next.stack = stack
  <2>1. next = [told |-> told, stack |-> stack]
    BY <1>a, <1>b, Zenon DEF Visit
  <2> QED BY <2>1
<1>1. /\ IsCausal(events) /\ IsListed(events)
      /\ \A e \in events : e.id \in Nat
      /\ \A e, f \in events : e.id = f.id => e = f
      /\ \A e, p \in events : e.parent = p.id => Placed(p) /\ Placed(e) /\ ~IsRoot(events, e)
  BY AuditAssumption DEF IsChained, IsCausal, IsListed, Placed, IsRoot, Ids
<1>2. /\ search.told \in Seq(events) /\ search.stack \in Seq(events)
      /\ IsDistinct(search.stack) /\ ToSet(search.told) \cap ToSet(search.stack) = {}
  BY DEF Explores
<1>3. /\ top \in events /\ top = search.stack[1] /\ top \in ToSet(search.stack)
      /\ rest \in Seq(events) /\ Len(search.stack) \in Nat \ {0}
      /\ Len(rest) = Len(search.stack) - 1
      /\ \A i \in 1..(Len(search.stack) - 1) : rest[i] = search.stack[i + 1]
  BY <1>2, <1>a, HeadAndTail
<1>4. /\ children \in Seq(events) /\ Len(children) \in Nat
      /\ \A i \in 1..Len(children) : children[i] \in events /\ children[i].parent = top.id
      /\ \A i, j \in 1..Len(children) : children[i] = children[j] => i = j
  <2>1. Children(events, top.id) = {e \in events : e.parent = top.id}
    BY <1>1, <1>3, OfAParent
  <2>2. Children(events, top.id) \in SUBSET events
    BY <2>1
  <2>3. /\ children \in Seq(events) /\ IsDistinct(children)
        /\ ToSet(children) = {e \in events : e.parent = top.id}
    BY <1>1, <1>a, <2>1, <2>2, StackedIsDistinct
  <2>4. \A i \in 1..Len(children) : children[i] \in ToSet(children)
    BY <2>3 DEF ToSet
  <2> QED BY <2>3, <2>4 DEF IsDistinct
\* An event has one child at most.
<1>5. Len(children) <= 1
  <2> SUFFICES ASSUME Len(children) > 1 PROVE FALSE
    BY <1>4
  <2> PICK e \in events, f \in events :
         e = children[1] /\ f = children[2] /\ e # f /\ e.parent = top.id /\ f.parent = top.id
    <3>1. 1 \in 1..Len(children) /\ 2 \in 1..Len(children)
      BY <1>4
    <3> QED BY <1>4, <3>1
  <2>1. Placed(e) /\ Placed(f) /\ top.id < e.id /\ top.id < f.id
    BY <1>1, <1>3 DEF IsCausal
  <2>2. e.id <= f.id /\ f.id <= e.id
    BY <1>3, <2>1 DEF IsChained
  <2> QED BY <1>1, <2>2
<1>6. /\ Len(stack) = Len(children) + Len(rest)
      /\ \A i \in 1..Len(stack) :
            \/ i = 1 /\ Len(children) = 1 /\ stack[i] = children[1]
            \/ i - Len(children) \in 1..Len(rest) /\ stack[i] = rest[i - Len(children)]
  <2>1. /\ Len(children \o rest) = Len(children) + Len(rest) /\ Len(rest) \in Nat
        /\ \A i \in 1..Len(children) : (children \o rest)[i] = children[i]
        /\ \A i \in (Len(children) + 1)..(Len(children) + Len(rest)) :
              (children \o rest)[i] = rest[i - Len(children)]
    <3>1. children \in Seq(events) /\ rest \in Seq(events)
      BY <1>3, <1>4
    <3> QED BY <3>1, Joined
  <2>2. /\ Len(stack) = Len(children) + Len(rest) /\ Len(rest) \in Nat
        /\ \A i \in 1..Len(children) : stack[i] = children[i]
        /\ \A i \in (Len(children) + 1)..(Len(children) + Len(rest)) :
              stack[i] = rest[i - Len(children)]
    BY <1>b, <2>1
  <2>3. \A i \in 1..Len(stack) :
           \/ i \in 1..Len(children)
           \/ i \in (Len(children) + 1)..(Len(children) + Len(rest))
              /\ i - Len(children) \in 1..Len(rest)
    BY <1>4, <2>2
  <2>4. \A i \in 1..Len(children) : i = 1 /\ Len(children) = 1
    <3>1. PICK m : m = Len(children)
      OBVIOUS
    <3>2. m \in Nat /\ m <= 1
      BY <1>4, <1>5, <3>1
    <3>3. \A i \in 1..m : i = 1 /\ m = 1
      BY <3>2
    <3> QED BY <3>1, <3>3
  <2> QED BY <2>2, <2>3, <2>4
<1>7. \A i \in 1..Len(rest) : i + 1 \in 2..Len(search.stack) /\ rest[i] = search.stack[i + 1]
                              /\ rest[i] \in events /\ IsRoot(events, rest[i])
  <2>1. \A i \in 1..Len(rest) : i + 1 \in 2..Len(search.stack) /\ rest[i] = search.stack[i + 1]
    BY <1>3
  <2>2. \A i \in 1..Len(rest) : rest[i] \in events
    BY <1>3
  <2> QED BY <2>1, <2>2 DEF InOrder
\* A beginning that is still on the stack comes after the top, and after its child.
<1>8. ASSUME NEW i \in 1..Len(rest), Placed(rest[i])
      PROVE  /\ Placed(top) => top.id < rest[i].id
             /\ \A e \in events : e.parent = top.id => e.id < rest[i].id
  <2>1. Placed(top) => top.id < rest[i].id
    <3>1. 1 \in 1..Len(search.stack) /\ i + 1 \in 1..Len(search.stack) /\ 1 < i + 1
      BY <1>3, <1>7
    <3> QED BY <1>3, <1>7, <1>8, <3>1 DEF InOrder
  <2>2. ASSUME NEW e \in events, e.parent = top.id PROVE e.id < rest[i].id
    <3>1. Placed(top) /\ ~IsRoot(events, e)
      BY <1>1, <1>3, <2>2
    <3>2. e.id <= rest[i].id
      BY <1>3, <1>7, <1>8, <2>1, <2>2, <3>1 DEF IsChained
    <3>3. e # rest[i]
      BY <1>7, <3>1
    <3> QED BY <1>1, <1>7, <3>2, <3>3
  <2> QED BY <2>1, <2>2
<1>9. ASSUME NEW i \in 1..Len(stack), NEW j \in 1..Len(stack), i < j,
             Placed(stack[i]), Placed(stack[j])
      PROVE  stack[i].id < stack[j].id
  <2> PICK k \in 1..Len(rest) : k = j - Len(children) /\ stack[j] = rest[k]
    BY <1>6, <1>9
  <2>1. CASE i = 1 /\ Len(children) = 1 /\ stack[i] = children[1]
    BY <1>4, <1>8, <1>9, <2>1
  <2>2. CASE i - Len(children) \in 1..Len(rest) /\ stack[i] = rest[i - Len(children)]
    <3> PICK m \in 1..Len(rest) : m = i - Len(children) /\ stack[i] = rest[m]
      BY <2>2
    <3>1. m + 1 < k + 1 /\ m + 1 \in 1..Len(search.stack) /\ k + 1 \in 1..Len(search.stack)
      <4>1. Len(children) \in Nat
        BY <1>4
      <4>2. Len(rest) \in Nat /\ Len(search.stack) = Len(rest) + 1
        BY <1>3
      <4>3. i < j /\ i \in Int /\ j \in Int
        BY <1>9
      <4> QED BY <4>1, <4>2, <4>3
    <3>2. rest[m] = search.stack[m + 1] /\ rest[k] = search.stack[k + 1]
      BY <1>7
    <3> QED BY <1>9, <3>1, <3>2 DEF InOrder
  <2> QED BY <1>6, <2>1, <2>2
<1>10. \A i \in 2..Len(stack) : IsRoot(events, stack[i])
  <2> TAKE i \in 2..Len(stack)
  <2>1. i \in 1..Len(stack) /\ i # 1
    BY <1>3, <1>4, <1>6
  <2> QED BY <1>6, <1>7, <2>1
\* The top is the first of what is placed and not told.
<1>11. ASSUME Placed(top), NEW x \in events, Placed(x), x.id < top.id
       PROVE  x \in ToSet(search.told)
  <2> SUFFICES ASSUME x \notin ToSet(search.told) PROVE FALSE
    OBVIOUS
  <2> DEFINE passed == {e \in events : Placed(e) /\ e \notin ToSet(search.told)}
             ids == {e.id : e \in passed}
  <2>1. ids \in SUBSET Nat /\ x.id \in ids
    BY <1>1, <1>11
  <2>2. PICK k \in ids : \A m \in ids : k <= m
    <3> HIDE DEF ids
    <3> QED BY <2>1, LeastExists
  <2>3. PICK e \in passed : e.id = k
    OBVIOUS
  <2>4. e.id < top.id
    <3>1. k <= x.id
      BY <2>1, <2>2
    <3>2. e.id \in Nat /\ x.id \in Nat /\ top.id \in Nat
      BY <1>1, <1>3
    <3> QED BY <1>11, <2>3, <3>1, <3>2
  <2>5. IsRoot(events, e) \/ \E p \in ToSet(search.told) : e.parent = p.id
    <3>1. CASE ~IsRoot(events, e)
      <4>1. PICK p \in events : e.parent = p.id
        BY <3>1 DEF IsRoot, Ids
      <4>2. p.id < e.id /\ p.id \in Nat /\ e.id \in Nat /\ Placed(p)
        BY <1>1, <2>3, <4>1 DEF IsCausal
      <4>3. p \notin passed
        <5>1. p \in passed => p.id \in ids
          OBVIOUS
        <5>2. p.id \notin ids
          <6> HIDE DEF ids
          <6> QED BY <2>2, <2>3, <4>2
        <5> QED BY <5>1, <5>2
      <4> QED BY <4>1, <4>2, <4>3
    <3> QED BY <3>1
  <2>6. e \in ToSet(search.stack) /\ e # top
    BY <1>1, <1>3, <2>3, <2>4, <2>5 DEF Explores
  <2>7. PICK i \in 1..Len(search.stack) : e = search.stack[i]
    BY <1>2, <2>6 DEF ToSet
  <2>8. i # 1 /\ 1 \in 1..Len(search.stack) /\ 1 < i
    BY <1>3, <2>6, <2>7
  <2>9. top.id < e.id
    BY <1>3, <1>11, <2>3, <2>7, <2>8 DEF InOrder
  <2> QED BY <1>1, <1>3, <2>3, <2>4, <2>9
<1>12. /\ Len(search.told) \in Nat /\ Len(told) = Len(search.told) + 1
       /\ \A i \in 1..Len(search.told) : told[i] = search.told[i]
       /\ told[Len(search.told) + 1] = top
       /\ ToSet(told) = ToSet(search.told) \cup {top}
  BY <1>2, <1>3, <1>b, Appended
<1>13. ASSUME NEW i \in 1..Len(told), NEW j \in 1..Len(told), i < j,
              Placed(told[i]), Placed(told[j])
       PROVE  told[i].id < told[j].id
  <2>1. i \in 1..Len(search.told) /\ told[i] = search.told[i]
    BY <1>12, <1>13
  <2>2. CASE j \in 1..Len(search.told)
    BY <1>12, <1>13, <2>1, <2>2 DEF InOrder
  <2>3. CASE j \notin 1..Len(search.told)
    <3>1. told[j] = top
      BY <1>12, <2>3
    <3>2. told[i] \in events /\ told[i] \in ToSet(search.told)
      BY <1>2, <2>1 DEF ToSet
    <3>3. told[i] # top
      BY <1>2, <1>3, <3>2
    <3>4. ~(top.id < told[i].id)
      <4>1. top \notin ToSet(search.told)
        BY <1>2, <1>3
      <4> QED BY <1>3, <1>13, <3>1, <3>2, <4>1 DEF InOrder
    <3> QED BY <1>1, <1>3, <3>1, <3>2, <3>3, <3>4
  <2> QED BY <2>2, <2>3
<1>14. \A e \in events, f \in ToSet(told) :
          Placed(e) /\ Placed(f) /\ e.id < f.id => e \in ToSet(told)
  BY <1>11, <1>12 DEF InOrder
<1> QED BY <1>0, <1>9, <1>10, <1>13, <1>14 DEF InOrder

\* A timeline tells each event once; and the events that are placed in the order in
\* which they were written, if no two beginnings have the same time.
LEMMA TimelineIsInOrder ==
    ASSUME NEW events, IsChained(events), NEW n, n = Cardinality(events),
           NEW timeline, timeline = Timeline(events)
    PROVE  /\ n \in Nat /\ timeline \in Seq(events) /\ Len(timeline) = n
           /\ ToSet(timeline) = events /\ IsDistinct(timeline)
           /\ ~Ambiguous(events) =>
                 \A i, j \in 1..n : i < j /\ Placed(timeline[i]) /\ Placed(timeline[j])
                                        => timeline[i].id < timeline[j].id
<1> PICK search : search = Search(events)
  OBVIOUS
<1>0. IsCausal(events)
  BY DEF IsChained
<1>1. /\ n \in Nat
      /\ \A t \in 0..n : Explores(events, search[t]) /\ Len(search[t].told) = t
      /\ \A t \in 1..n : search[t] = Visit(events, search[t - 1])
                         /\ search[t - 1].stack # << >>
      /\ search[0] = [told |-> << >>, stack |-> Stacked(Children(events, NoEvent))]
  BY <1>0, SearchTellsAll
<1>2. timeline = search[n].told /\ n \in 0..n
  BY <1>1 DEF Timeline
<1>3. /\ timeline \in Seq(events) /\ Len(timeline) = n /\ IsDistinct(timeline)
      /\ ToSet(timeline) = events
  <2>1. Explores(events, search[n]) /\ Len(search[n].told) = n
    BY <1>1, <1>2
  <2>2. ToSet(timeline) = events
    BY <1>0, <1>2, <2>1, ToldInFull
  <2> QED BY <1>2, <2>1, <2>2 DEF Explores
<1>4. ASSUME ~Ambiguous(events) PROVE InOrder(events, search[n])
  <2> DEFINE bad == {t \in 0..n : ~InOrder(events, search[t])}
  <2> SUFFICES ASSUME bad # {} PROVE FALSE
    BY <1>2
  <2>1. PICK k \in bad : \A m \in bad : k <= m
    <3>1. bad \in SUBSET Nat
      OBVIOUS
    <3> HIDE DEF bad
    <3> QED BY <3>1, LeastExists
  <2>2. k \in 0..n /\ ~InOrder(events, search[k])
    BY <2>1
  <2>3. CASE k = 0
    BY <1>1, <1>4, <2>2, <2>3, InOrderFirst
  <2>4. CASE k # 0
    <3>1. k - 1 \in 0..n /\ k \in 1..n /\ k - 1 < k
      BY <1>1, <2>2, <2>4
    <3>2. InOrder(events, search[k - 1])
      BY <2>1, <3>1
    <3>3. /\ Explores(events, search[k - 1]) /\ search[k - 1].stack # << >>
          /\ search[k] = Visit(events, search[k - 1])
      BY <1>1, <3>1
    <3> QED BY <2>2, <3>2, <3>3, InOrderOn
  <2> QED BY <2>3, <2>4
<1>5. ~Ambiguous(events) =>
         \A i, j \in 1..n : i < j /\ Placed(timeline[i]) /\ Placed(timeline[j])
                                => timeline[i].id < timeline[j].id
  BY <1>2, <1>3, <1>4 DEF InOrder
<1> QED BY <1>1, <1>3, <1>5

-----------------------------------------------------------------------------
\* What is read of a deployment's events is such a trail.
Told(d) == ScopedTo(Loaded(file), d)

LEMMA ToldIsChained ==
    ASSUME TypeOK, TrailInv, NEW d \in Deployments
    PROVE  /\ IsChained(Told(d))
           /\ \A e \in Told(d) : e \in Event /\ e.id \in DOMAIN memory /\ memory[e.id] = e
                                 /\ e.deployment = d
<1> PICK told : told = Told(d)
  OBVIOUS
<1>1. \A e \in told : /\ e \in Event /\ e.id \in DOMAIN memory /\ memory[e.id] = e
                      /\ e.deployment = d
  BY ReadIsRecorded DEF Told, ScopedTo
<1>2. \A e \in told : e.id \in Nat /\ e.time \in Nat /\ e.id \in 1..Len(memory)
  BY <1>1 DEF TypeOK, Event
<1>3. \A e, f \in told : e.id = f.id => e = f
  BY <1>1
<1>4. IsFiniteSet(told)
  <2> DEFINE position == [e \in told |-> e.id]
  <2>1. position \in Injection(told, 1..Len(memory))
    BY <1>2, <1>3 DEF Injection, IsInjective
  <2>2. Len(memory) \in Int /\ 1 \in Int
    BY DEF TypeOK
  <2>3. IsFiniteSet(1..Len(memory))
    BY <2>2, FS_Interval, Zenon
  <2> HIDE DEF position
  <2> QED BY <2>1, <2>3, FS_Injection
<1>5. \A e, f \in told : e.id < f.id => e.time <= f.time
  BY <1>1 DEF TrailInv, Chronological
\* Whoever has a parent, and whoever is one, is in the chain.
<1>6. ASSUME NEW e \in told, NEW p \in told, e.parent = p.id
      PROVE  /\ e.id \in Chain(d) /\ p.id \in Chain(d) /\ p.id < e.id /\ Placed(p)
             /\ \A i \in Chain(d) : i <= p.id \/ e.id <= i
  <2>1. e.parent # NoEvent
    BY <1>2, <1>6, AuditAssumption
  <2>2. e.id \in Chain(d)
    BY <1>1, <2>1 DEF Chain, Linked
  <2>3. /\ p.id \in Chain(d) /\ p.id < e.id
        /\ \A i \in Chain(d) : i <= p.id \/ e.id <= i
    BY <1>1, <1>6, <2>1, <2>2 DEF TrailInv, ChainIsLinked
  <2>4. Placed(p)
    BY <1>1, <2>3 DEF Chain, Linked, Placed
  <2> QED BY <2>2, <2>3, <2>4
<1>7. ASSUME NEW e \in told, NEW p \in told, NEW f \in told,
             e.parent = p.id, Placed(f), p.id < f.id
      PROVE  e.id <= f.id
  <2>1. /\ e.id \in Chain(d) /\ p.id \in Chain(d) /\ p.id < e.id
        /\ \A i \in Chain(d) : i <= p.id \/ e.id <= i
    BY <1>6, <1>7
  <2>2. e.id \in Nat /\ p.id \in Nat /\ f.id \in Nat
    BY <1>2
  <2>3. CASE Linked(f)
    <3>1. f.id \in Chain(d)
      BY <1>1, <2>3 DEF Chain
    <3> QED BY <1>7, <2>1, <2>2, <3>1
  <2>4. CASE ~Linked(f)
    <3>1. f.kind # "note"
      BY <1>7, <2>4 DEF Placed, Linked
    <3>2. \A j \in Chain(d) : j < f.id
      BY <1>1, <2>4, <3>1 DEF TrailInv, UnlinkedComesAfter
    <3> QED BY <2>1, <2>2, <3>2
  <2> QED BY <2>3, <2>4
<1>8. IsListed(told)
  BY <1>2, <1>3, <1>4 DEF IsListed
<1>9. IsCausal(told)
  BY <1>6, <1>8 DEF IsCausal
<1>10. IsChained(told)
  BY <1>5, <1>6, <1>7, <1>9 DEF IsChained
<1> QED BY <1>1, <1>10

LEMMA OrderFollows == TypeOK /\ TrailInv => TimelineIsRecordedOrder
<1> SUFFICES ASSUME TypeOK, TrailInv, NEW d \in Deployments,
                    NEW told, told = Told(d), NEW timeline, timeline = Timeline(told)
             PROVE  /\ Len(timeline) = Cardinality(told) /\ ToSet(timeline) = told
                    /\ ~Ambiguous(told) =>
                          \A i, j \in DOMAIN timeline :
                              i < j /\ Placed(timeline[i]) /\ Placed(timeline[j])
                                  => timeline[i].id < timeline[j].id
  BY DEF TimelineIsRecordedOrder, Told
<1> PICK n : n = Cardinality(told)
  OBVIOUS
<1>1. /\ n \in Nat /\ timeline \in Seq(told) /\ Len(timeline) = n
      /\ ToSet(timeline) = told
      /\ ~Ambiguous(told) =>
            \A i, j \in 1..n : i < j /\ Placed(timeline[i]) /\ Placed(timeline[j])
                                   => timeline[i].id < timeline[j].id
  BY ToldIsChained, TimelineIsInOrder
<1>2. DOMAIN timeline = 1..n
  BY <1>1
<1> QED BY <1>1, <1>2

\* A timeline tells every event that was read exactly once, and what an engine and a
\* manual rollback did in the order in which they did it: for any trail that writers
\* can leave, with any of its lines lost.
THEOREM TimelineIsTheOrder == Spec => []TimelineIsRecordedOrder
<1> QED BY OrderFollows, TypeCorrect, TrailIsLinked, PTL

-----------------------------------------------------------------------------
(***************************************************************************)
(* What a replay reconstructs.                                             *)
(***************************************************************************)
\* Events of which the last one is e.
IsLast(events, e) ==
    /\ events \subseteq Event /\ e \in Event
    /\ \A f, g \in events : f.id = g.id => f = g
    /\ \A f \in events : f.id < e.id

LEMMA LeftOnGrows ==
    ASSUME NEW events, NEW e, IsLast(events, e)
    PROVE  LeftOn(events \cup {e}) = IF e.kind = "stage" THEN LeftOn(events) \cup e.servers
                                     ELSE IF e.kind = "rolled_back" THEN LeftOn(events) \ e.servers
                                     ELSE LeftOn(events)
<1>1. e.id \in Nat /\ e.servers \subseteq Servers /\ \A f \in events : f.id \in Nat /\ f.id < e.id
  BY DEF IsLast, Event
<1>2. ASSUME NEW s \in Servers
      PROVE  s \in LeftOn(events \cup {e}) <=>
                \/ e.kind = "stage" /\ s \in e.servers
                \/ s \in LeftOn(events) /\ ~(e.kind = "rolled_back" /\ s \in e.servers)
  <2>1. ASSUME e.kind = "stage", s \in e.servers PROVE s \in LeftOn(events \cup {e})
    <3>1. \A f \in events \cup {e} : ~(e.id < f.id)
      BY <1>1
    <3> QED BY <2>1, <3>1 DEF LeftOn
  <2>2. ASSUME s \in LeftOn(events), ~(e.kind = "rolled_back" /\ s \in e.servers)
        PROVE  s \in LeftOn(events \cup {e})
    BY <2>2 DEF LeftOn
  <2>3. ASSUME s \in LeftOn(events \cup {e}), ~(e.kind = "stage" /\ s \in e.servers)
        PROVE  s \in LeftOn(events) /\ ~(e.kind = "rolled_back" /\ s \in e.servers)
    BY <1>1, <2>3 DEF LeftOn
  <2> QED BY <2>1, <2>2, <2>3
<1>3. LeftOn(events) \subseteq Servers /\ LeftOn(events \cup {e}) \subseteq Servers
  BY DEF LeftOn
<1>4. "stage" # "rolled_back"
  OBVIOUS
<1>5. CASE e.kind = "stage"
  BY <1>1, <1>2, <1>3, <1>5
<1>6. CASE e.kind = "rolled_back"
  BY <1>1, <1>2, <1>3, <1>6
<1>7. CASE e.kind # "stage" /\ e.kind # "rolled_back"
  BY <1>1, <1>2, <1>3, <1>7
<1> QED BY <1>5, <1>6, <1>7

LEMMA LastToldGrows ==
    ASSUME NEW events, NEW e, IsLast(events, e), NEW k
    PROVE  LastTold(events \cup {e}, k) <=> IF e.kind \in Telling THEN k = e.kind
                                            ELSE LastTold(events, k)
<1>1. e.id \in Nat /\ \A f \in events : f.id \in Nat /\ f.id < e.id
  BY DEF IsLast, Event
<1>2. CASE e.kind \in Telling
  <2>1. LastTold(events \cup {e}, e.kind)
    BY <1>1, <1>2 DEF LastTold
  <2>2. ASSUME LastTold(events \cup {e}, k) PROVE k = e.kind
    <3>1. PICK f \in events \cup {e} : f.kind = k /\ e.id <= f.id
      BY <1>2, <2>2 DEF LastTold
    <3>2. f = e
      BY <1>1, <3>1
    <3> QED BY <3>1, <3>2
  <2> QED BY <1>2, <2>1, <2>2
<1>3. CASE e.kind \notin Telling
  <2>1. ASSUME LastTold(events, k) PROVE LastTold(events \cup {e}, k)
    BY <1>3, <2>1 DEF LastTold
  <2>2. ASSUME LastTold(events \cup {e}, k) PROVE LastTold(events, k)
    BY <1>3, <2>2 DEF LastTold
  <2> QED BY <1>3, <2>1, <2>2
<1> QED BY <1>2, <1>3

LEMMA LastToldIsOne ==
    ASSUME NEW events \in SUBSET Event, \A f, g \in events : f.id = g.id => f = g,
           NEW k, NEW m, LastTold(events, k), LastTold(events, m)
    PROVE  k = m
<1>1. PICK e \in events : /\ e.kind = k /\ k \in Telling
                          /\ \A f \in events : f.kind \in Telling => f.id <= e.id
  BY DEF LastTold
<1>2. PICK g \in events : /\ g.kind = m /\ m \in Telling
                          /\ \A f \in events : f.kind \in Telling => f.id <= g.id
  BY DEF LastTold
<1>3. e.id <= g.id /\ g.id <= e.id /\ e.id \in Nat /\ g.id \in Nat
  BY <1>1, <1>2 DEF Event
<1>4. e.id = g.id
  BY <1>3
<1> QED BY <1>1, <1>2, <1>4

\* A step adds its event to those of its deployment, as the last of them.
LEMMA RecordedGrows ==
    ASSUME TypeOK, TrailInv, NEW d \in Deployments, NEW e \in Event, Writes(d, e)
    PROVE  /\ IsLast(Recorded(d), e)
           /\ \A c \in Deployments :
                 Recorded(c)' = IF c = d THEN Recorded(c) \cup {e} ELSE Recorded(c)
<1> PICK n : n = Len(memory) + 1
  OBVIOUS
<1>1. /\ n - 1 \in Nat /\ n \in Nat /\ DOMAIN memory = 1..(n - 1) /\ (DOMAIN memory)' = 1..n
      /\ \A i \in 1..(n - 1) : memory'[i] = memory[i]
      /\ memory'[n] = e
  BY WrittenBehind
<1>2. 1..n = 1..(n - 1) \cup {n}
  BY <1>1
<1>3. ToSet(memory)' = ToSet(memory) \cup {e}
  BY <1>1, <1>2 DEF ToSet
<1>4. e.deployment = d /\ e.id = n
  BY DEF Writes
<1>5. \A c \in Deployments :
         Recorded(c)' = IF c = d THEN Recorded(c) \cup {e} ELSE Recorded(c)
  BY <1>3, <1>4 DEF Recorded, ScopedTo
<1>6. \A i \in 1..(n - 1) : memory[i] \in Event /\ memory[i].id = i /\ i < n
  BY <1>1 DEF TypeOK, TrailInv, Numbered
<1>7. \A f \in Recorded(d) : \E i \in 1..(n - 1) : f = memory[i]
  BY <1>1 DEF Recorded, ScopedTo, ToSet
<1>8. IsLast(Recorded(d), e)
  BY <1>4, <1>6, <1>7 DEF IsLast
<1> QED BY <1>5, <1>8

ToldInv == OnIsTold /\ StatusIsTold

LEMMA ToldInit == Init => ToldInv
<1> SUFFICES ASSUME Init PROVE ToldInv
  OBVIOUS
<1>1. ToSet(memory) = {}
  BY DEF Init, ToSet
<1>2. \A d \in Deployments : Recorded(d) = {}
  BY <1>1 DEF Recorded, ScopedTo
<1>3. LeftOn({}) = {} /\ \A k : ~LastTold({}, k)
  BY DEF LeftOn, LastTold
<1>4. \A d \in Deployments : pc[d] = "new" /\ status[d] = "pending" /\ on[d] = {}
  BY DEF Init
<1> QED BY <1>2, <1>3, <1>4 DEF ToldInv, OnIsTold, StatusIsTold, Ongoing

LEMMA ToldNext == TypeOK /\ TrailInv /\ ToldInv /\ [Next]_vars => ToldInv'
<1> SUFFICES ASSUME TypeOK, TrailInv, ToldInv, [Next]_vars PROVE ToldInv'
  OBVIOUS
<1>1. CASE UNCHANGED vars
  <2>1. \A d \in Deployments : Recorded(d)' = Recorded(d)
    BY <1>1 DEF vars, Recorded
  <2>2. pc' = pc /\ status' = status /\ on' = on /\ unreported' = unreported
    BY <1>1 DEF vars, cluster
  <2>3. OnIsTold'
    BY <2>1, <2>2 DEF ToldInv, OnIsTold
  <2>4. StatusIsTold'
    BY <2>1, <2>2 DEF ToldInv, StatusIsTold
  <2> QED BY <2>3, <2>4 DEF ToldInv
<1>3. ASSUME NEW d \in Deployments, NEW ids \in SUBSET Servers, ManualRaise(d, ids)
      PROVE  ToldInv'
  <2>1. \A c \in Deployments : Recorded(c)' = Recorded(c)
    BY <1>3 DEF ManualRaise, Recorded
  <2>2. /\ on' = [on EXCEPT ![d] = @ \ ids]
        /\ unreported' = [unreported EXCEPT ![d] = @ \cup ids]
        /\ pc' = [pc EXCEPT ![d] = "raised"] /\ status' = [status EXCEPT ![d] = "failed"]
    BY <1>3 DEF ManualRaise, Reverts, Moves, Marks
  <2>3. OnIsTold'
    <3> SUFFICES ASSUME NEW c \in Deployments, NEW s \in Servers \ unreported'[c]
                 PROVE  s \in on'[c] <=> s \in LeftOn(Recorded(c)')
      BY DEF OnIsTold
    <3>1. s \notin unreported[c] /\ (s \in on'[c] <=> s \in on[c])
      BY <2>2 DEF TypeOK
    <3> QED BY <2>1, <3>1 DEF ToldInv, OnIsTold
  <2>4. \A c \in Deployments : \/ pc'[c] = pc[c] /\ status'[c] = status[c]
                               \/ pc'[c] = "raised"
    BY <2>2 DEF TypeOK
  <2>5. StatusIsTold'
    BY <2>1, <2>4 DEF ToldInv, StatusIsTold, Ongoing
  <2> QED BY <2>3, <2>5 DEF ToldInv
<1>2. ASSUME NEW d \in Deployments, NEW e \in Event, Tells(d, e) PROVE ToldInv'
  <2>1. Tells(d, e)
    BY <1>2
  <2>2. /\ IsLast(Recorded(d), e)
        /\ \A c \in Deployments :
              Recorded(c)' = IF c = d THEN Recorded(d) \cup {e} ELSE Recorded(c)
    BY <2>1, RecordedGrows DEF Tells
  <2>3. OnIsTold'
    <3> SUFFICES ASSUME NEW c \in Deployments, NEW s \in Servers \ unreported'[c]
                 PROVE  s \in on'[c] <=> s \in LeftOn(Recorded(c)')
      BY DEF OnIsTold
    <3>1. /\ s \notin unreported[c] \/ (c = d /\ e.kind = "rolled_back" /\ s \in e.servers)
          /\ s \in on'[c] <=> \/ c = d /\ e.kind = "stage" /\ s \in e.servers
                              \/ /\ s \in on[c]
                                 /\ ~(c = d /\ e.kind = "rolled_back" /\ s \in e.servers)
      BY <2>1 DEF Tells, Moved, MovedAs
    <3>2. s \notin unreported[c] => (s \in on[c] <=> s \in LeftOn(Recorded(c)))
      BY DEF ToldInv, OnIsTold
    <3>3. CASE c # d
      <4>1. Recorded(c)' = Recorded(c)
        BY <2>2, <3>3
      <4> QED BY <3>1, <3>2, <3>3, <4>1
    <3>4. CASE c = d
      <4>1. Recorded(c)' = Recorded(d) \cup {e}
        BY <2>2, <3>4
      <4>2. LeftOn(Recorded(d) \cup {e})
                = IF e.kind = "stage" THEN LeftOn(Recorded(d)) \cup e.servers
                  ELSE IF e.kind = "rolled_back" THEN LeftOn(Recorded(d)) \ e.servers
                  ELSE LeftOn(Recorded(d))
        BY <2>2, LeftOnGrows
      <4> QED BY <3>1, <3>2, <3>4, <4>1, <4>2
    <3> QED BY <3>3, <3>4
  <2>4. ASSUME NEW c \in Deployments, c # d
        PROVE  pc'[c] = pc[c] /\ status'[c] = status[c] /\ Recorded(c)' = Recorded(c)
    BY <2>1, <2>2, <2>4 DEF Tells, Advances, TypeOK
  <2>5. PICK q, su : /\ pc'[d] = q /\ status'[d] = su
                     /\ Leads(e.kind, pc[d], status[d], q, su)
    BY <2>1 DEF Tells, Advances, TypeOK
  <2>6. \A k : LastTold(Recorded(d)', k) <=> IF e.kind \in Telling THEN k = e.kind
                                             ELSE LastTold(Recorded(d), k)
    BY <2>2, LastToldGrows
  <2>7. \A k, m : LastTold(Recorded(d), k) /\ LastTold(Recorded(d), m) => k = m
    BY <2>2, LastToldIsOne DEF IsLast
  <2>8. /\ pc[d] \in Ongoing \ {"unwind"} => LastTold(Recorded(d), "start")
        /\ pc[d] = "unwind" => LastTold(Recorded(d), "initiated")
        /\ pc[d] # "raised" =>
              /\ status[d] = "completed" <=> LastTold(Recorded(d), "completed")
              /\ status[d] = "rolled_back" => LastTold(Recorded(d), "rolled_back")
              /\ LastTold(Recorded(d), "rolled_back") => status[d] \in {"rolled_back", "aborted"}
    BY DEF ToldInv, StatusIsTold
  <2>9. /\ pc'[d] \in Ongoing \ {"unwind"} => LastTold(Recorded(d)', "start")
        /\ pc'[d] = "unwind" => LastTold(Recorded(d)', "initiated")
        /\ pc'[d] # "raised" =>
              /\ status'[d] = "completed" <=> LastTold(Recorded(d)', "completed")
              /\ status'[d] = "rolled_back" => LastTold(Recorded(d)', "rolled_back")
              /\ LastTold(Recorded(d)', "rolled_back") => status'[d] \in {"rolled_back", "aborted"}
    <3>1. CASE e.kind \in Telling
      BY <2>5, <2>6, <3>1 DEF Telling, Leads, Ongoing
    <3>2. CASE e.kind = "stage"
      BY <2>5, <2>6, <2>8, <3>2 DEF Telling, Leads, Ongoing
    <3>3. CASE e.kind = "note"
      BY <2>5, <2>6, <2>7, <2>8, <3>3 DEF Telling, Leads, Ongoing
    <3> QED BY <2>5, <3>1, <3>2, <3>3 DEF Telling, Leads
  <2>10. StatusIsTold'
    <3> SUFFICES ASSUME NEW c \in Deployments
                 PROVE  /\ pc'[c] \in Ongoing \ {"unwind"} => LastTold(Recorded(c)', "start")
                        /\ pc'[c] = "unwind" => LastTold(Recorded(c)', "initiated")
                        /\ pc'[c] # "raised" =>
                              /\ status'[c] = "completed" <=> LastTold(Recorded(c)', "completed")
                              /\ status'[c] = "rolled_back"
                                    => LastTold(Recorded(c)', "rolled_back")
                              /\ LastTold(Recorded(c)', "rolled_back")
                                    => status'[c] \in {"rolled_back", "aborted"}
      BY DEF StatusIsTold
    <3>1. CASE c = d
      BY <2>9, <3>1
    <3>2. CASE c # d
      BY <2>4, <3>2 DEF ToldInv, StatusIsTold
    <3> QED BY <3>1, <3>2
  <2> QED BY <2>3, <2>10 DEF ToldInv
<1> QED BY <1>1, <1>2, <1>3, StepTells

\* What the steps do to the servers and to the status, over any number of stages and
\* rollbacks, the trail says; but for servers that an exception left changed.
THEOREM ToldIsTrue == Spec => []ToldInv
<1> QED BY ToldInit, ToldNext, TypeCorrect, TrailIsLinked, PTL DEF Spec

-----------------------------------------------------------------------------
\* Events that replay looks at.
Looked(events) == {e \in events : e.kind # "note"}

\* A note says nothing.
LEMMA NotesSayNothing ==
    ASSUME NEW events
    PROVE  /\ LeftOn(Looked(events)) = LeftOn(events)
           /\ \A k : LastTold(Looked(events), k) <=> LastTold(events, k)
<1>1. "note" \notin Telling /\ "note" # "stage" /\ "note" # "rolled_back"
  BY DEF Telling
<1>2. LeftOn(Looked(events)) = LeftOn(events)
  BY <1>1 DEF LeftOn, Looked
<1>3. ASSUME NEW k PROVE LastTold(Looked(events), k) <=> LastTold(events, k)
  BY <1>1 DEF LastTold, Looked
<1> QED BY <1>2, <1>3

\* One event after another, in the order of their ids: what is replayed is what they
\* say together.
Reproduces(state, events) ==
    /\ state = [status |-> state.status, on |-> LeftOn(events)]
    /\ \A k \in {"completed", "rolled_back"} : state.status = k <=> LastTold(events, k)

LEMMA ApplyReproduces ==
    ASSUME NEW events, NEW e, IsLast(events, e), NEW state, Reproduces(state, events)
    PROVE  Reproduces(Apply(state, e), events \cup {e})
<1> PICK st, before : st = state.status /\ before = LeftOn(events)
  OBVIOUS
<1>1. state = [status |-> st, on |-> before]
  BY DEF Reproduces
<1>2. LeftOn(events \cup {e}) = IF e.kind = "stage" THEN before \cup e.servers
                                ELSE IF e.kind = "rolled_back" THEN before \ e.servers
                                ELSE before
  BY LeftOnGrows
<1>3. \A k : LastTold(events \cup {e}, k) <=> IF e.kind \in Telling THEN k = e.kind
                                              ELSE LastTold(events, k)
  BY LastToldGrows
<1>4. e.kind \in Kinds
  BY DEF IsLast, Event
<1>5. \A k \in {"completed", "rolled_back"} : st = k <=> LastTold(events, k)
  BY DEF Reproduces
<1>6. PICK next : next = Apply(state, e)
  OBVIOUS
<1>7. /\ next = [status |-> next.status, on |-> LeftOn(events \cup {e})]
      /\ next.status = IF e.kind = "start" THEN "in_progress"
                       ELSE IF e.kind = "initiated" THEN "rolling_back"
                       ELSE IF e.kind \in {"rolled_back", "completed", "failed"} THEN e.kind
                       ELSE st
  <2>1. CASE e.kind = "start"
    <3>1. next = [status |-> "in_progress", on |-> before]
      BY <1>1, <1>6, <2>1 DEF Apply
    <3> QED BY <1>2, <2>1, <3>1
  <2>2. CASE e.kind = "stage"
    <3>1. next = [status |-> st, on |-> before \cup e.servers]
      BY <1>1, <1>6, <2>2 DEF Apply
    <3> QED BY <1>2, <2>2, <3>1
  <2>3. CASE e.kind = "rolled_back"
    <3>1. next = [status |-> "rolled_back", on |-> before \ e.servers]
      <4>1. next = [state EXCEPT !.on = @ \ e.servers, !.status = "rolled_back"]
        BY <1>6, <2>3 DEF Apply
      <4>2. PICK left : left = [state EXCEPT !.on = @ \ e.servers]
        OBVIOUS
      <4>3. next = [left EXCEPT !.status = "rolled_back"]
        BY <4>1, <4>2, Zenon
      <4>4. left = [status |-> st, on |-> before \ e.servers]
        BY <1>1, <4>2
      <4> QED BY <4>3, <4>4
    <3> QED BY <1>2, <2>3, <3>1
  <2>4. CASE e.kind = "completed"
    <3>1. next = [status |-> "completed", on |-> before]
      BY <1>1, <1>6, <2>4 DEF Apply
    <3> QED BY <1>2, <2>4, <3>1
  <2>5. CASE e.kind = "initiated"
    <3>1. next = [status |-> "rolling_back", on |-> before]
      BY <1>1, <1>6, <2>5 DEF Apply
    <3> QED BY <1>2, <2>5, <3>1
  <2>6. CASE e.kind = "failed"
    <3>1. next = [status |-> "failed", on |-> before]
      BY <1>1, <1>6, <2>6 DEF Apply
    <3> QED BY <1>2, <2>6, <3>1
  <2>7. CASE e.kind = "note"
    <3>1. next = [status |-> st, on |-> before]
      BY <1>1, <1>6, <2>7 DEF Apply
    <3> QED BY <1>2, <2>7, <3>1
  <2> QED BY <1>4, <2>1, <2>2, <2>3, <2>4, <2>5, <2>6, <2>7 DEF Kinds
<1>8. \A k \in {"completed", "rolled_back"} : next.status = k <=> LastTold(events \cup {e}, k)
  BY <1>3, <1>4, <1>5, <1>7 DEF Kinds, Telling
<1> QED BY <1>6, <1>7, <1>8 DEF Reproduces

\* Whoever is replayed in the order of the ids is replayed to what all of them say.
LEMMA ReplayReproduces ==
    ASSUME NEW events \in SUBSET Event, \A f, g \in events : f.id = g.id => f = g,
           NEW timeline \in Seq(events), ToSet(timeline) = events,
           NEW n \in Nat, n = Len(timeline),
           \A i, j \in 1..n : i < j /\ timeline[i].kind # "note" /\ timeline[j].kind # "note"
                                  => timeline[i].id < timeline[j].id
    PROVE  Reproduces(Replay(timeline)[n], events)
<1> PICK replay : replay = Replay(timeline)
  OBVIOUS
<1>1. /\ replay[0] = [status |-> "pending", on |-> {}]
      /\ \A t \in 1..n : replay[t] = Apply(replay[t - 1], timeline[t])
  BY ReplayIsComputed
<1> DEFINE Played(t) == Looked({timeline[i] : i \in 1..t})
           bad == {t \in 0..n : ~Reproduces(replay[t], Played(t))}
<1>2. bad = {}
  <2> SUFFICES ASSUME bad # {} PROVE FALSE
    OBVIOUS
  <2>1. PICK t \in bad : \A m \in bad : t <= m
    <3>1. bad \in SUBSET Nat
      OBVIOUS
    <3> HIDE DEF bad
    <3> QED BY <3>1, LeastExists
  <2>2. t \in 0..n /\ ~Reproduces(replay[t], Played(t))
    BY <2>1
  <2>3. CASE t = 0
    <3>1. Played(0) = {}
      BY DEF Looked
    <3>2. LeftOn({}) = {} /\ \A k : ~LastTold({}, k)
      BY DEF LeftOn, LastTold
    <3>3. replay[0].status = "pending" /\ replay[0] = [status |-> "pending", on |-> LeftOn({})]
      <4>1. replay[0] = [status |-> "pending", on |-> {}]
        BY <1>1
      <4>2. replay[0].status = "pending"
        BY <4>1
      <4>3. replay[0] = [status |-> "pending", on |-> LeftOn({})]
        BY <3>2, <4>1, Zenon
      <4> QED BY <4>2, <4>3
    <3>4. Reproduces(replay[0], {})
      BY <3>2, <3>3 DEF Reproduces
    <3> QED BY <2>2, <2>3, <3>1, <3>4
  <2>4. CASE t # 0
    <3>1. t - 1 \in 0..n /\ t \in 1..n /\ t - 1 < t /\ 1..t = 1..(t - 1) \cup {t}
      BY <2>2, <2>4
    <3>2. Reproduces(replay[t - 1], Played(t - 1))
      BY <2>1, <3>1
    <3>3. PICK e : e = timeline[t]
      OBVIOUS
    <3>4. replay[t] = Apply(replay[t - 1], e)
      BY <1>1, <3>1, <3>3
    <3>5. e \in Event /\ e.kind \in Kinds
      BY <3>1, <3>3 DEF Event
    <3>6. Played(t) = IF e.kind = "note" THEN Played(t - 1) ELSE Played(t - 1) \cup {e}
      BY <3>1, <3>3 DEF Looked
    <3>7. CASE e.kind = "note"
      <4>1. Apply(replay[t - 1], e) = replay[t - 1]
        BY <3>7 DEF Apply
      <4> QED BY <2>2, <3>2, <3>4, <3>6, <3>7, <4>1
    <3>8. CASE e.kind # "note"
      <4>1. \A i \in 1..(t - 1) : i \in 1..n /\ i < t /\ timeline[i] \in events
        BY <3>1
      <4>2. \A f \in Played(t - 1) : f \in events /\ f.id < e.id
        BY <3>1, <3>3, <3>8, <4>1 DEF Looked
      <4> HIDE DEF Played
      <4>3. IsLast(Played(t - 1), e)
        BY <3>5, <4>2 DEF IsLast
      <4>4. Reproduces(Apply(replay[t - 1], e), Played(t - 1) \cup {e})
        BY <3>2, <4>3, ApplyReproduces
      <4> QED BY <2>2, <3>4, <3>6, <3>8, <4>4
    <3> QED BY <3>7, <3>8
  <2> QED BY <2>3, <2>4
<1>3. Reproduces(replay[n], Played(n))
  <2> SUFFICES ASSUME ~Reproduces(replay[n], Played(n)) PROVE FALSE
    OBVIOUS
  <2>1. n \in 0..n
    OBVIOUS
  <2>2. n \in bad
    <3> HIDE DEF Played
    <3> QED BY <2>1
  <2> QED BY <1>2, <2>2
<1>4. Played(n) = Looked(events)
  <2>1. DOMAIN timeline = 1..n
    OBVIOUS
  <2>2. {timeline[i] : i \in 1..n} = events
    BY <2>1 DEF ToSet
  <2> QED BY <2>2
<1>5. Reproduces(replay[n], Looked(events))
  BY <1>3, <1>4
<1> QED BY <1>5, NotesSayNothing DEF Reproduces

-----------------------------------------------------------------------------
LEMMA ReplayFollows == TypeOK /\ TrailInv /\ ToldInv => ReplayIsExact
<1> SUFFICES ASSUME TypeOK, TrailInv, ToldInv, NEW d \in Deployments,
                    NEW told, told = Told(d),
                    \A e \in Recorded(d) : e.kind # "note" => e \in told, ~Ambiguous(told),
                    NEW replayed, replayed = Reconstructed(told)
             PROVE  /\ \A s \in Servers \ unreported[d] : s \in replayed.on <=> s \in on[d]
                    /\ pc[d] # "raised" =>
                          /\ replayed.status = "completed" <=> status[d] = "completed"
                          /\ status[d] = "rolled_back" => replayed.status = "rolled_back"
                          /\ replayed.status = "rolled_back"
                                => status[d] \in {"rolled_back", "aborted"}
  BY DEF ReplayIsExact, Told, Recorded
<1> PICK n, timeline : n = Cardinality(told) /\ timeline = Timeline(told)
  OBVIOUS
<1>1. /\ IsChained(told)
      /\ \A e \in told : e \in Event /\ e.id \in DOMAIN memory /\ memory[e.id] = e
                         /\ e.deployment = d
  BY ToldIsChained
<1>2. /\ n \in Nat /\ timeline \in Seq(told) /\ Len(timeline) = n /\ ToSet(timeline) = told
      /\ \A i, j \in 1..n : i < j /\ Placed(timeline[i]) /\ Placed(timeline[j])
                                => timeline[i].id < timeline[j].id
  BY <1>1, TimelineIsInOrder
<1>3. \A i, j \in 1..n : i < j /\ timeline[i].kind # "note" /\ timeline[j].kind # "note"
                             => timeline[i].id < timeline[j].id
  BY <1>2 DEF Placed
<1>4. told \in SUBSET Event /\ \A f, g \in told : f.id = g.id => f = g
  BY <1>1
<1>5. Reproduces(Replay(timeline)[n], told)
  BY <1>2, <1>3, <1>4, ReplayReproduces
<1>6. Reproduces(replayed, told)
  BY <1>5 DEF Reconstructed
\* What was read and what was recorded differ by notes only.
<1>7. Looked(told) = Looked(Recorded(d))
  <2>1. told \subseteq Recorded(d)
    BY <1>1 DEF Recorded, ScopedTo, ToSet
  <2> QED BY <2>1 DEF Looked
<1>8. LeftOn(told) = LeftOn(Recorded(d)) /\ \A k : LastTold(told, k) <=> LastTold(Recorded(d), k)
  BY <1>7, NotesSayNothing
<1>9. \A s \in Servers \ unreported[d] : s \in on[d] <=> s \in LeftOn(Recorded(d))
  BY DEF ToldInv, OnIsTold
<1>10. pc[d] # "raised" =>
          /\ status[d] = "completed" <=> LastTold(Recorded(d), "completed")
          /\ status[d] = "rolled_back" => LastTold(Recorded(d), "rolled_back")
          /\ LastTold(Recorded(d), "rolled_back") => status[d] \in {"rolled_back", "aborted"}
  BY DEF ToldInv, StatusIsTold
<1>11. replayed.on = LeftOn(told)
  BY <1>6 DEF Reproduces
<1>12. \A k \in {"completed", "rolled_back"} : replayed.status = k <=> LastTold(told, k)
  BY <1>6 DEF Reproduces
<1> QED BY <1>8, <1>9, <1>10, <1>11, <1>12

\* As long as the events that replay looks at can be read, and the clock tells the
\* beginnings of a timeline apart, what is reconstructed is true after every event, for
\* any deployments, stages, servers and interleaving of their writers; but for what an
\* exception left untold.
THEOREM ReplayIsTrue == Spec => []ReplayIsExact
<1> QED BY ReplayFollows, TypeCorrect, TrailIsLinked, ToldIsTrue, PTL

=============================================================================
