------------------------------ MODULE Snapshots ------------------------------
(***************************************************************************)
(* resilience/snapshots.py: snapshots of the cluster and of a deployment,  *)
(* taken while the deployment is made and between reversals of it, and     *)
(* restored later, possibly by several threads at once, possibly from a    *)
(* file whose content is malformed.  A restore reads a backup without the  *)
(* cluster's lock, applies the servers under it, then writes the           *)
(* deployment without it; one that fails writes the backup back.  Between  *)
(* two of these steps another restore or a change of status may come.      *)
(* deploy() and rollback() do not run while a restore does: its backup     *)
(* would undo what they do, and nothing is promised then.                  *)
(***************************************************************************)
EXTENDS ClusterState, Integers, FiniteSets

CONSTANTS
    Target,         \* DeploymentState.target_version
    Restorers,      \* threads, each of which calls restore_snapshot once
    Observed,       \* the statuses chaos injection, health callbacks, operators set
    MayBeMalformed, \* a snapshot may have been loaded from a file edited by hand
    MaxSnapshots,   \* bound: snapshots kept
    MaxChanges      \* bound: changed statuses and deleted servers

ASSUME SnapshotAssumption ==
    /\ IsFiniteSet(Servers) /\ Servers # {}
    /\ Target \in Versions \ {InitialVersion}
    /\ "world" \notin Restorers
    /\ Observed \subseteq ServerStatus /\ MayBeMalformed \in BOOLEAN
    /\ MaxSnapshots \in Nat /\ MaxChanges \in Nat

VARIABLES
    servers,    \* ClusterState._servers; servers may be missing from it
    record,     \* the DeploymentState: status and servers_updated
    loop,       \* the loop deploy() or rollback() is in
    todo,       \* the servers it has left
    snapshots,  \* ClusterSnapshotSystem._snapshots
    taking,     \* the frame of create_snapshot, called by the engine's thread
    call,       \* the frame of each restorer
    clean,      \* history: restores were whole and did not overlap
    changes     \* counter for the bound

vars == <<servers, record, loop, todo, snapshots, taking, call, clean, changes>>

\* A server a restore gave up half-way may have an empty history.
StoredServer == [cur : Versions, prev : Versions \cup {NoVersion},
                 status : ServerStatus, last : HistoryAction \cup {"none"}]

Maps == UNION {[ids -> StoredServer] : ids \in SUBSET Servers}

Records == [status  : {"in_progress", "rolling_back", "rolled_back"},
            updated : SUBSET Servers]

SnapshotRecords == [servers : Maps, dep : Records]

Taker == [pc : {"idle", "copy"}, left : SUBSET Servers, copy : Maps]

\* A restorer's place and locals: the snapshot, whether a deployment was passed,
\* the backups, the servers recreated; and, for the properties, what the call
\* found and who has acted since it began.
Frame == [pc     : {"idle", "backup", "apply", "mark", "fill", "restored",
                    "undo", "undo_record", "failed"},
          snap   : SnapshotRecords,
          given  : BOOLEAN,
          saved  : Maps,
          kept   : Records,
          made   : SUBSET Servers,
          found  : Maps,
          others : SUBSET ({"world"} \cup Restorers)]

NoServers == [s \in {} |-> s]

NoRecord == [status |-> "in_progress", updated |-> {}]

Uncalled == [pc |-> "idle", snap |-> [servers |-> NoServers, dep |-> NoRecord],
             given |-> FALSE, saved |-> NoServers, kept |-> NoRecord,
             made |-> {}, found |-> NoServers, others |-> {}]

Init ==
    /\ servers = GeneratedCluster
    /\ record = NoRecord
    /\ loop = "install" /\ todo = Servers
    /\ snapshots = {}
    /\ taking = [pc |-> "idle", left |-> {}, copy |-> NoServers]
    /\ call = [r \in Restorers |-> Uncalled]
    /\ clean = TRUE
    /\ changes = 0

-----------------------------------------------------------------------------
(***************************************************************************)
(* Bookkeeping of the history: what a restorer or the rest of the world    *)
(* does is seen by all calls that have begun.                              *)
(***************************************************************************)
Begun(r) == call[r].pc # "idle"

Busy(r) == call[r].pc \notin {"idle", "restored", "failed"}

\* A frame without what neither the call nor the properties look at any more.
Settled(frame) ==
    LET over == [Uncalled EXCEPT !.pc = frame.pc, !.others = frame.others]
    IN  CASE frame.pc = "restored" -> [over EXCEPT !.snap.servers = frame.snap.servers]
          [] frame.pc = "failed" /\ frame.others = {} ->
                [over EXCEPT !.found = frame.found, !.made = frame.made, !.kept = frame.kept]
          [] frame.pc = "failed" /\ frame.others # {} -> [over EXCEPT !.others = {"world"}]
          [] OTHER -> [frame EXCEPT !.found = IF frame.others = {} THEN @ ELSE NoServers]

Outlived(frame) == [Uncalled EXCEPT !.pc = frame.pc, !.others = {"world"}]

Seen(who) == [r \in Restorers |->
                 IF ~Begun(r) \/ r = who THEN call[r]
                 ELSE IF who = "world" /\ ~Busy(r) THEN Outlived(call[r])
                 ELSE Settled([call[r] EXCEPT !.others = @ \cup {who}])]

NoRestore == \A r \in Restorers : ~Busy(r)

EngineAtRest == taking.pc = "idle" /\ loop = "rest"

NotRestoring == UNCHANGED <<call, clean, changes>>

-----------------------------------------------------------------------------
(***************************************************************************)
(* The deployment: installs until deploy() returns, for whatever reason,   *)
(* then reversals, which may be repeated after a restore.                  *)
(***************************************************************************)
Install(s) ==
    /\ taking.pc = "idle" /\ loop = "install" /\ s \in todo
    /\ servers' = UpdateServerVersion(servers, s, Target)
    /\ record' = IF s \in DOMAIN servers THEN [record EXCEPT !.updated = @ \cup {s}]
                 ELSE record
    /\ todo' = todo \ {s}
    /\ NotRestoring
    /\ UNCHANGED <<loop, snapshots, taking>>

EndDeploy ==
    /\ taking.pc = "idle" /\ loop = "install"
    /\ loop' = "rest" /\ todo' = {}
    /\ NotRestoring
    /\ UNCHANGED <<servers, record, snapshots, taking>>

BeginReversal ==
    /\ EngineAtRest /\ NoRestore
    /\ loop' = "revert" /\ todo' = record.updated
    /\ record' = [record EXCEPT !.status = "rolling_back"]
    /\ call' = Seen("world")
    /\ UNCHANGED <<servers, snapshots, taking, clean, changes>>

Revert(s) ==
    /\ loop = "revert" /\ s \in todo
    /\ servers' = RollbackServer(servers, s)
    /\ todo' = todo \ {s}
    /\ NotRestoring
    /\ UNCHANGED <<record, loop, snapshots, taking>>

EndReversal ==
    /\ loop = "revert" /\ todo = {}
    /\ loop' = "rest"
    /\ record' = [record EXCEPT !.status = "rolled_back"]
    /\ NotRestoring
    /\ UNCHANGED <<servers, todo, snapshots, taking>>

-----------------------------------------------------------------------------
(***************************************************************************)
(* create_snapshot: one live server after the other, no lock held over the *)
(* loop, then the deployment (the engine and main.py always pass one). The *)
(* fields of one server are read together here; only a thread that changes *)
(* its version at the same time could tell.                                *)
(***************************************************************************)
TakeBegins ==
    /\ taking.pc = "idle" /\ loop # "revert" /\ NoRestore
    /\ Cardinality(snapshots) < MaxSnapshots
    /\ taking' = [pc |-> "copy", left |-> DOMAIN servers, copy |-> NoServers]
    /\ NotRestoring
    /\ UNCHANGED <<servers, record, loop, todo, snapshots>>

\* map, with what new says of its servers.
With(map, new) ==
    [s \in DOMAIN map \cup DOMAIN new |-> IF s \in DOMAIN new THEN new[s] ELSE map[s]]

Only(map, ids) == [s \in ids |-> map[s]]

TakeCopies(s) ==
    /\ taking.pc = "copy" /\ s \in taking.left
    /\ taking' = [taking EXCEPT !.left = @ \ {s}, !.copy = With(@, Only(servers, {s}))]
    /\ NotRestoring
    /\ UNCHANGED <<servers, record, loop, todo, snapshots>>

TakeEnds ==
    /\ taking.pc = "copy" /\ taking.left = {}
    /\ snapshots' = snapshots \cup {[servers |-> taking.copy, dep |-> record]}
    /\ taking' = [pc |-> "idle", left |-> {}, copy |-> NoServers]
    /\ NotRestoring
    /\ UNCHANGED <<servers, record, loop, todo>>

-----------------------------------------------------------------------------
(***************************************************************************)
(* restore_snapshot.                                                       *)
(***************************************************************************)
\* A restore is whole if it leaves nothing as it was: it names every server and
\* the deployment; one that fails, if it has created nothing.
Whole(r, frame) ==
    /\ frame.pc = "restored" =>
          call[r].given /\ DOMAIN servers \subseteq DOMAIN frame.snap.servers
    /\ frame.pc = "failed" => frame.made = {}

\* A step of restorer r that leaves its frame as new.
RestorerSteps(r, new) ==
    /\ call' = [Seen(r) EXCEPT ![r] = Settled(new)]
    /\ clean' = (clean /\ Whole(r, new) /\ \A q \in Restorers \ {r} : ~Busy(q))
    /\ UNCHANGED <<loop, todo, snapshots, taking, changes>>

\* With the backup of the servers: the loop over live servers is one read, since
\* only a call that was disturbed could have read them otherwise ...
RestoreBegins(r, snap, passed) ==
    /\ call[r].pc = "idle" /\ EngineAtRest
    /\ RestorerSteps(r, [Uncalled EXCEPT !.pc = "backup", !.snap = snap, !.given = passed,
                                         !.found = servers, !.saved = servers])
    /\ UNCHANGED <<servers, record>>

\* ... and that of the deployment.
BackUp(r) ==
    /\ call[r].pc = "backup"
    /\ RestorerSteps(r, [call[r] EXCEPT !.pc = "apply", !.kept = record])
    /\ UNCHANGED <<servers, record>>

Recreated(r, ids) == ids \ DOMAIN servers

\* Mutant: the lock is taken for one server at a time (made counts those done).
ApplyOneByOne(r) ==
    /\ call[r].pc = "apply"
    /\ \E s \in DOMAIN call[r].snap.servers \ call[r].made :
        LET done == call[r].made \cup {s}
        IN  /\ servers' = With(servers, Only(call[r].snap.servers, {s}))
            /\ RestorerSteps(r, [call[r] EXCEPT
                   !.made = done,
                   !.pc = CASE done # DOMAIN call[r].snap.servers -> "apply"
                            [] done = DOMAIN call[r].snap.servers /\ call[r].given -> "mark"
                            [] OTHER -> "restored"])
    /\ UNCHANGED record

\* Mutant: the deployment history is not restored.
ApplyWithoutHistory(r) ==
    /\ call[r].pc = "apply"
    /\ servers' = With(servers, [s \in DOMAIN call[r].snap.servers |->
                      [call[r].snap.servers[s] EXCEPT
                          !.last = IF s \in DOMAIN servers THEN servers[s].last ELSE @]])
    /\ RestorerSteps(r, [call[r] EXCEPT !.pc = IF call[r].given THEN "mark" ELSE "restored"])
    /\ UNCHANGED record

\* One critical section: servers missing from the cluster are created again,
\* those the snapshot does not name are left alone.
Apply(r) ==
    /\ call[r].pc = "apply"
    /\ servers' = With(servers, call[r].snap.servers)
    /\ RestorerSteps(r, [call[r] EXCEPT
                            !.pc = IF call[r].given THEN "mark" ELSE "restored",
                            !.made = Recreated(r, DOMAIN call[r].snap.servers)])
    /\ UNCHANGED record

\* Mutant: a status is stored as the file has it.
HalfFilledUnparsed(r, s) == [call[r].snap.servers[s] EXCEPT !.status = "none", !.last = "none"]

\* What a server has been given when its health check's date does not parse.
HalfFilled(r, s) ==
    [call[r].snap.servers[s] EXCEPT
        !.last = IF s \in DOMAIN servers THEN servers[s].last ELSE "none"]

\* The snapshot's entry for server s is malformed; those of first came before it.
\* A status that is none is found before anything of s is written, a bad date
\* after everything but the history.
ApplyFails(r, s, first, dated) ==
    /\ MayBeMalformed
    /\ call[r].pc = "apply"
    /\ s \in DOMAIN call[r].snap.servers
    /\ first \subseteq DOMAIN call[r].snap.servers \ {s}
    /\ LET whole == Only(call[r].snap.servers, first)
           done  == IF dated THEN With(whole, [x \in {s} |-> HalfFilled(r, x)]) ELSE whole
       IN  /\ servers' = With(servers, done)
           /\ RestorerSteps(r, [call[r] EXCEPT !.pc = "undo",
                                               !.made = Recreated(r, DOMAIN done)])
    /\ UNCHANGED record

\* The deployment's attributes, the status first, in no critical section ...
Mark(r) ==
    /\ call[r].pc = "mark"
    /\ record' = [record EXCEPT !.status = call[r].snap.dep.status]
    /\ RestorerSteps(r, [call[r] EXCEPT !.pc = "fill"])
    /\ UNCHANGED servers

\* ... then the others, and the stages last.
Fill(r) ==
    /\ call[r].pc = "fill"
    /\ record' = [record EXCEPT !.updated = call[r].snap.dep.updated]
    /\ RestorerSteps(r, [call[r] EXCEPT !.pc = "restored"])
    /\ UNCHANGED servers

MarkFails(r) ==
    /\ MayBeMalformed
    /\ call[r].pc = "mark"
    /\ RestorerSteps(r, [call[r] EXCEPT !.pc = "undo"])
    /\ UNCHANGED <<servers, record>>

FillFails(r) ==
    /\ MayBeMalformed
    /\ call[r].pc = "fill"
    /\ record' = [record EXCEPT !.updated = call[r].snap.dep.updated]
    /\ RestorerSteps(r, [call[r] EXCEPT !.pc = "undo"])
    /\ UNCHANGED servers

\* Mutant: the handler does not write the history back.
UndoWithoutHistory(r) ==
    /\ call[r].pc = "undo"
    /\ servers' = [s \in DOMAIN servers |->
                      IF s \in DOMAIN call[r].saved
                      THEN [call[r].saved[s] EXCEPT !.last = servers[s].last]
                      ELSE servers[s]]
    /\ RestorerSteps(r, [call[r] EXCEPT !.pc = "undo_record"])
    /\ UNCHANGED record

\* The handler: servers of the backup that still exist are written back, under
\* the lock; a server the restore created stays.
Undo(r) ==
    /\ call[r].pc = "undo"
    /\ servers' = With(servers, Only(call[r].saved, DOMAIN call[r].saved \cap DOMAIN servers))
    /\ RestorerSteps(r, [call[r] EXCEPT !.pc = "undo_record"])
    /\ UNCHANGED record

UndoRecord(r) ==
    /\ call[r].pc = "undo_record"
    /\ record' = IF call[r].given THEN call[r].kept ELSE record
    /\ RestorerSteps(r, [call[r] EXCEPT !.pc = "failed"])
    /\ UNCHANGED servers
-----------------------------------------------------------------------------
\* Chaos injection, a health callback or an operator; and somebody who takes a
\* server out of the cluster between two calls.
WorldSteps ==
    /\ changes < MaxChanges
    /\ changes' = changes + 1
    /\ call' = Seen("world")
    /\ UNCHANGED <<record, loop, todo, snapshots, taking, clean>>

ChangeStatus(s, st) ==
    /\ s \in DOMAIN servers /\ servers[s].status # st
    /\ servers' = UpdateServerStatus(servers, s, st)
    /\ WorldSteps

Delete(s) ==
    /\ s \in DOMAIN servers /\ NoRestore /\ taking.pc = "idle"
    /\ servers' = Only(servers, DOMAIN servers \ {s})
    /\ WorldSteps

Restorer(r) ==
    \/ \E snap \in snapshots, passed \in BOOLEAN : RestoreBegins(r, snap, passed)
    \/ BackUp(r)
    \/ Apply(r) \/ Mark(r) \/ Fill(r)
    \/ \E s \in Servers, first \in SUBSET Servers, dated \in BOOLEAN :
          ApplyFails(r, s, first, dated)
    \/ MarkFails(r) \/ FillFails(r)
    \/ Undo(r) \/ UndoRecord(r)

Next ==
    \/ \E s \in Servers : Install(s) \/ Revert(s) \/ TakeCopies(s) \/ Delete(s)
    \/ EndDeploy \/ BeginReversal \/ EndReversal
    \/ TakeBegins \/ TakeEnds
    \/ \E r \in Restorers : Restorer(r)
    \/ \E s \in Servers, st \in Observed : ChangeStatus(s, st)

Spec == Init /\ [][Next]_vars

-----------------------------------------------------------------------------
\* The type of every variable.
TypeOK ==
    /\ servers \in Maps
    /\ record \in Records
    /\ loop \in {"install", "rest", "revert"} /\ todo \subseteq Servers
    /\ snapshots \subseteq SnapshotRecords
    /\ taking \in Taker
    /\ call \in [Restorers -> Frame]
    /\ clean \in BOOLEAN
    /\ changes \in 0..MaxChanges

Agrees(map) == \A s \in DOMAIN map : s \in DOMAIN servers /\ servers[s] = map[s]

\* A restore that fails, wherever it fails, and nobody disturbs it: the servers
\* that were there are as they were, and so is the deployment.  What it may leave
\* behind is a server it had created again.
FailedRestoreUndone ==
    \A r \in Restorers :
        call[r].pc = "failed" /\ call[r].others = {} =>
            /\ Agrees(call[r].found)
            /\ DOMAIN servers = DOMAIN call[r].found \cup call[r].made
            /\ record = call[r].kept

\* Restores that run at the same time do not mix: what the cluster's servers show
\* after one that nothing but other successful restores of the same servers
\* overlapped is one of their snapshots, entire.
WholeSnapshots ==
    \A r \in Restorers :
        LET rivals == call[r].others \cap Restorers
            same(q) == /\ call[q].pc \notin {"undo", "undo_record", "failed"}
                       /\ DOMAIN call[q].snap.servers = DOMAIN call[r].snap.servers
        IN  /\ call[r].pc = "restored" /\ rivals = call[r].others
            /\ \A q \in rivals : same(q)
            =>  \E q \in rivals \cup {r} : Agrees(call[q].snap.servers)

\* Through any sequence of installs, snapshots, reversals, whole restores and
\* failed ones, a rollback of what servers_updated names brings every server back
\* to the version before the deployment, and the others have never left it: a
\* restored history and a restored record still fit the restored versions.
RollbackStaysExact ==
    clean /\ NoRestore =>
        \A s \in DOMAIN servers :
            IF s \in record.updated
            THEN RollbackServer(servers, s)[s].cur = InitialVersion
            ELSE servers[s].cur = InitialVersion

\* What README.md says of a failed restore, "zero half-updated states": the cluster
\* is the one the call found.
FailedRestoreLeavesNothing ==
    \A r \in Restorers :
        call[r].pc = "failed" /\ call[r].others = {} => servers = call[r].found

=============================================================================
