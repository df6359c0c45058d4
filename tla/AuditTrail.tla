------------------------------ MODULE AuditTrail ------------------------------
(***************************************************************************)
(* deploy/audit.py with its writers, and what resilience/replay.py makes   *)
(* of the file.  Each deployment is run by an engine's thread that links   *)
(* every event to its previous one, and may be rolled back by hand later;  *)
(* governance and rollback() write events without a parent.  All write to  *)
(* one AuditLogger, whose lock makes a call of log() one step.  A write    *)
(* that fails is swallowed: the event stays in memory, the file has        *)
(* nothing of it or a part of a line.                                      *)
(***************************************************************************)
EXTENDS EventReplay

CONSTANTS
    Deployments,    \* deployment ids, each with an engine and a cluster of its own
    Servers,        \* the servers of each cluster
    MaxEvents,      \* bound: events recorded
    MaxNotes,       \* bound: events replay does not look at, other than those below
    MaxFaults,      \* bound: writes that fail, and manual rollbacks that raise
    MaxStands       \* bound: events with the same timestamp as the one before

ASSUME AuditAssumption ==
    /\ IsFiniteSet(Servers)
    /\ NoEvent \notin Nat
    /\ MaxEvents \in Nat /\ MaxNotes \in Nat /\ MaxFaults \in Nat /\ MaxStands \in Nat

VARIABLES
    memory,     \* AuditLogger._events
    file,       \* the lines of the log file
    last,       \* _last_event_id of each engine
    pc,         \* where each deployment stands
    status,     \* DeploymentState.status
    on,         \* the servers that run the target
    updated,    \* DeploymentState.servers_updated
    unreported, \* history: servers an exception left changed, and no event has told since
    now,        \* the clock
    faults, notes   \* counters for the bounds

vars == <<memory, file, last, pc, status, on, updated, unreported, now, faults, notes>>

cluster == <<on, updated, unreported>>

Kinds == {"start", "stage", "initiated", "rolled_back", "completed", "failed", "note"}

Event == [id : 1..MaxEvents, parent : 1..MaxEvents \cup {NoEvent}, time : Nat,
          deployment : Deployments, kind : Kinds, servers : SUBSET Servers]

Init ==
    /\ memory = << >> /\ file = << >>
    /\ last = [d \in Deployments |-> NoEvent]
    /\ pc = [d \in Deployments |-> "new"]
    /\ status = [d \in Deployments |-> "pending"]
    /\ on = [d \in Deployments |-> {}]
    /\ updated = [d \in Deployments |-> {}]
    /\ unreported = [d \in Deployments |-> {}]
    /\ now = 0 /\ faults = 0 /\ notes = 0

-----------------------------------------------------------------------------
\* AuditLogger.log: memory first, then the file, under one lock.
Log(e) ==
    /\ memory' = Append(memory, e)
    /\ \/ file' = Append(file, e) /\ UNCHANGED faults
       \/ /\ faults < MaxFaults /\ faults' = faults + 1
          /\ file' \in {file, Append(file, Torn)}

\* The timestamp is taken before the lock is; that could swap the times of events
\* of different deployments only, and those are never compared.
NewEvent(d, parent, kind, ids) ==
    [id |-> Len(memory) + 1, parent |-> parent, time |-> now', deployment |-> d,
     kind |-> kind, servers |-> ids]

\* A coarse clock may not have moved on since the last event.
ClockTicks == now' \in {t \in {now, now + 1} : Len(memory) < t + MaxStands}

\* Mutant: events are linked to the last one that was written.
RecordLinksWritten(d, kind, ids) ==
    /\ Len(memory) < MaxEvents
    /\ ClockTicks
    /\ Log(NewEvent(d, last[d], kind, ids))
    /\ last' = IF faults' = faults THEN [last EXCEPT ![d] = Len(memory) + 1] ELSE last

\* _record_event.
Record(d, kind, ids) ==
    /\ Len(memory) < MaxEvents
    /\ ClockTicks
    /\ Log(NewEvent(d, last[d], kind, ids))
    /\ last' = [last EXCEPT ![d] = Len(memory) + 1]

\* An event of governance/coordinator.py or deploy/rollback.py.
RecordUnlinked(d, kind, ids) ==
    /\ Len(memory) < MaxEvents
    /\ ClockTicks
    /\ Log(NewEvent(d, NoEvent, kind, ids))
    /\ UNCHANGED last

Moves(d, from, to) == pc[d] \in from /\ pc' = [pc EXCEPT ![d] = to]

Marks(d, st) == status' = [status EXCEPT ![d] = st]

-----------------------------------------------------------------------------
(***************************************************************************)
(* deploy(), from one event that replay looks at to the next, each with    *)
(* what has been done to the servers in between.                           *)
(***************************************************************************)
Start(d) ==
    /\ Moves(d, {"new"}, "started")
    /\ Record(d, "start", {})
    /\ Marks(d, "in_progress")
    /\ UNCHANGED <<cluster, notes>>

\* The servers of a stage, or those it got to, now run the target.
Installs(d, ids) ==
    /\ ids \subseteq Servers \ updated[d]
    /\ on' = [on EXCEPT ![d] = @ \cup ids]
    /\ updated' = [updated EXCEPT ![d] = @ \cup ids]

\* Of the servers that run the target some no longer do.  A recovery plan takes them
\* from servers_updated, the engine's own loop leaves them there.
Reverts(d, ids, forgotten) ==
    /\ ids \subseteq on[d] /\ forgotten \in {{}, ids}
    /\ on' = [on EXCEPT ![d] = @ \ ids]
    /\ updated' = [updated EXCEPT ![d] = @ \ forgotten]

\* One of the stages, in full or cut short.
Stage(d, ids, outcome) ==
    /\ outcome \in {"staged", "short"}
    /\ Moves(d, {"started", "staged"}, outcome)
    /\ Installs(d, ids)
    /\ Record(d, "stage", ids)
    /\ UNCHANGED <<status, unreported, notes>>

Complete(d) ==
    /\ on[d] = Servers
    /\ Moves(d, {"staged"}, "over")
    /\ Marks(d, "completed")
    /\ Record(d, "completed", {})
    /\ UNCHANGED <<cluster, notes>>

\* _handle_rollback and _handle_abort (whose ABORT_RECEIVED is a Note).
Initiate(d, st) ==
    /\ Moves(d, {"staged", "short"} \cup IF st = "aborted" THEN {"started"} ELSE {}, "unwind")
    /\ Marks(d, st)
    /\ Record(d, "initiated", {})
    /\ UNCHANGED <<cluster, notes>>

\* Mutant: the event names every updated server, whatever was reverted.
UnwindReportsAll(d, ids, forgotten) ==
    /\ Moves(d, {"unwind"}, "over")
    /\ Reverts(d, ids, forgotten)
    /\ Record(d, "rolled_back", updated[d])
    /\ Marks(d, IF status[d] = "aborted" THEN "aborted" ELSE "rolled_back")
    /\ UNCHANGED <<unreported, notes>>

\* The servers are reverted, those of one region only if a recovery plan says so.
Unwind(d, ids, forgotten) ==
    /\ Moves(d, {"unwind"}, "over")
    /\ Reverts(d, ids, forgotten)
    /\ Record(d, "rolled_back", ids)
    /\ Marks(d, IF status[d] = "aborted" THEN "aborted" ELSE "rolled_back")
    /\ UNCHANGED <<unreported, notes>>

\* Governance forbids to go on; POLICY_VIOLATION means nothing to replay.
Violation(d) ==
    /\ Moves(d, {"started", "staged", "unwind"}, "over")
    /\ Marks(d, "failed")
    /\ Record(d, "note", {})
    /\ UNCHANGED <<cluster, notes>>

\* The handler at the end of deploy(); nothing tells what became of these servers.
Fail(d, ids) ==
    /\ unreported' = [unreported EXCEPT ![d] = @ \cup ids]
    /\ Marks(d, "failed")
    /\ Record(d, "failed", {})
    /\ UNCHANGED notes

\* An exception ends deploy(), in the middle of a stage ...
FailStaging(d, ids) ==
    /\ Moves(d, {"started", "staged"}, "over")
    /\ Installs(d, ids)
    /\ Fail(d, ids)

\* ... or of a reversal.
FailUnwinding(d, ids, forgotten) ==
    /\ Moves(d, {"unwind"}, "over")
    /\ Reverts(d, ids, forgotten)
    /\ Fail(d, ids)

\* Health checks, snapshots, quarantines, recovery plans: linked, and of no
\* consequence to versions and status.
Note(d) ==
    /\ notes < MaxNotes /\ notes' = notes + 1
    /\ Moves(d, {"started", "staged", "short", "unwind"}, pc[d])
    /\ Record(d, "note", {})
    /\ UNCHANGED <<status, cluster>>

\* A checkpoint's events, and ROLLBACK_START of a manual rollback.
UnlinkedNote(d) ==
    /\ notes < MaxNotes /\ notes' = notes + 1
    /\ Moves(d, {"started", "staged", "unwind", "over", "raised"}, pc[d])
    /\ RecordUnlinked(d, "note", {})
    /\ UNCHANGED <<status, cluster>>

\* rollback() of a deployment that is over: all of servers_updated, also those that
\* were reverted before, and so are reported again.
ManualRollback(d) ==
    /\ Moves(d, {"over", "raised"}, "over")
    /\ on' = [on EXCEPT ![d] = @ \ updated[d]]
    /\ unreported' = [unreported EXCEPT ![d] = @ \ updated[d]]
    /\ RecordUnlinked(d, "rolled_back", updated[d])
    /\ Marks(d, "rolled_back")
    /\ UNCHANGED <<updated, notes>>

\* An exception ends its loop: FAILED, and no event.
ManualRaise(d, ids) ==
    /\ Moves(d, {"over", "raised"}, "raised")
    /\ faults < MaxFaults /\ faults' = faults + 1
    /\ Reverts(d, ids, {})
    /\ unreported' = [unreported EXCEPT ![d] = @ \cup ids]
    /\ Marks(d, "failed")
    /\ UNCHANGED <<memory, file, last, now, notes>>

Next ==
    \E d \in Deployments :
        \/ Start(d) \/ Complete(d) \/ Violation(d)
        \/ Note(d) \/ UnlinkedNote(d) \/ ManualRollback(d)
        \/ \E st \in {"rolling_back", "aborted"} : Initiate(d, st)
        \/ \E ids \in SUBSET Servers :
              \/ FailStaging(d, ids) \/ ManualRaise(d, ids)
              \/ \E outcome \in {"staged", "short"} : Stage(d, ids, outcome)
              \/ \E forgotten \in {{}, ids} : Unwind(d, ids, forgotten) \/ FailUnwinding(d, ids, forgotten)

Spec == Init /\ [][Next]_vars

-----------------------------------------------------------------------------
\* The type of every variable.
TypeOK ==
    /\ memory \in Seq(Event) /\ file \in Seq(Event \cup {Torn})
    /\ last \in [Deployments -> 1..MaxEvents \cup {NoEvent}]
    /\ pc \in [Deployments -> {"new", "started", "staged", "short", "unwind", "over", "raised"}]
    /\ status \in [Deployments -> {"pending", "in_progress", "completed", "rolling_back",
                                   "aborted", "rolled_back", "failed"}]
    /\ {on, updated, unreported} \subseteq [Deployments -> SUBSET Servers]
    /\ now \in Nat /\ faults \in 0..MaxFaults /\ notes \in 0..MaxNotes

\* What an engine recorded: the events it linked, and its first.
Linked(e) == e.parent # NoEvent \/ e.kind = "start"

Chain(d) == {i \in DOMAIN memory : memory[i].deployment = d /\ Linked(memory[i])}

\* Of the events an engine recorded one after the other, verify_event_lineage
\* misses none that was lost before one that can be read, and complains of nothing
\* else, however the writers interleave.  (What is lost at the end of a trail, or
\* behind a line that does not parse, leaves no trace.)
GapsAreReported ==
    LET read == Loaded(file)
        gapless(chain) == \A i, j \in chain :
            i < j /\ chain \cap (i + 1)..(j - 1) = {} /\ memory[j] \in read => memory[i] \in read
    IN  LineageIsValid(read) <=> \A d \in Deployments : gapless(Chain(d))

\* A checkpoint's events have no parent, and a timeline puts them after those of
\* the engine.
Placed(e) == e.kind # "note" \/ e.parent # NoEvent

\* Two beginnings of a deployment's timeline that the clock cannot tell apart.
Ambiguous(told) ==
    \E e, f \in {r \in Children(told, NoEvent) : Placed(r)} : e # f /\ e.time = f.time

\* The timeline of a deployment tells every event that can be read once.  It is the
\* order in which its engine, and whoever rolled it back later, did things, also
\* where events have been lost and the chain of parents is broken; unless two
\* beginnings have the same timestamp.
TimelineIsRecordedOrder ==
    \A d \in Deployments :
        LET told     == ScopedTo(Loaded(file), d)
            timeline == Timeline(told)
        IN  /\ Len(timeline) = Cardinality(told) /\ ToSet(timeline) = told
            /\ ~Ambiguous(told) =>
                  \A i, j \in DOMAIN timeline :
                      i < j /\ Placed(timeline[i]) /\ Placed(timeline[j])
                          => timeline[i].id < timeline[j].id

\* While every event that replay looks at can be read, what it reconstructs is true
\* after every event, whatever the stages: of each server, whether it runs the target,
\* unless an exception changed it and nothing has told of it since; and of the
\* deployment, whether it was completed or rolled back, unless the last rollback()
\* ended in an exception, which leaves no event.
ReplayIsExact ==
    \A d \in Deployments :
        LET told     == ScopedTo(Loaded(file), d)
            readable == \A e \in ScopedTo(ToSet(memory), d) : e.kind # "note" => e \in told
            replayed == Reconstructed(told)
        IN  readable /\ ~Ambiguous(told) =>
                /\ \A s \in Servers \ unreported[d] : s \in replayed.on <=> s \in on[d]
                /\ pc[d] # "raised" =>
                      /\ replayed.status = "completed" <=> status[d] = "completed"
                      /\ status[d] = "rolled_back" => replayed.status = "rolled_back"
                      /\ replayed.status = "rolled_back" => status[d] \in {"rolled_back", "aborted"}

\* What README.md says of replay, that it reconstructs "exact timeline state
\* machines": the status of a deployment that is over.
ReplayedStatusIsExact ==
    \A d \in Deployments :
        faults = 0 /\ pc[d] = "over" =>
            Reconstructed(ScopedTo(Loaded(file), d)).status = status[d]

=============================================================================
