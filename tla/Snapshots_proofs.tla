--------------------------- MODULE Snapshots_proofs ---------------------------
(***************************************************************************)
(* Proofs about snapshots, for any number of restores, at once and one     *)
(* after the other, of any number of snapshots of any cluster.             *)
(***************************************************************************)
EXTENDS Snapshots, TLAPS

(***************************************************************************)
(* The inductive invariant.  First, who excludes whom: the engine rests    *)
(* while a restore runs, and installs only before the first one; whatever  *)
(* it reverts, calls that are over have been told of; a snapshot in the    *)
(* making has what it has copied and will copy what is left.               *)
(***************************************************************************)
EngineFits ==
    /\ loop = "install" => \A r \in Restorers : ~Begun(r)
    /\ loop = "revert" => /\ taking.pc = "idle"
                          /\ \A r \in Restorers : Begun(r) => "world" \in call[r].others
    /\ \A r \in Restorers : Busy(r) => EngineAtRest
    /\ taking.pc = "copy" => taking.left \cup DOMAIN taking.copy = DOMAIN servers

RivalsFit ==
    \A r \in Restorers :
        r \notin call[r].others /\ \A q \in call[r].others \cap Restorers : Begun(q)

(***************************************************************************)
(* What a restore that nobody has disturbed can still undo.                *)
(***************************************************************************)
UndoFits(r) ==
    LET frame == call[r]
    IN  /\ frame.pc \in {"mark", "fill"} => frame.given
        /\ Begun(r) /\ frame.others = {} =>
              /\ Busy(r) => frame.saved = frame.found
              /\ frame.pc \in {"backup", "apply"} => servers = frame.found
              /\ frame.pc = "apply" => record = frame.kept
              /\ frame.pc \in {"mark", "fill", "undo", "undo_record", "failed"} =>
                    DOMAIN servers = DOMAIN frame.found \cup frame.made
              /\ frame.pc \in {"undo", "undo_record"} /\ ~frame.given => record = frame.kept
              /\ frame.pc \in {"undo_record", "failed"} => Agrees(frame.found)
              /\ frame.pc = "failed" => record = frame.kept

(***************************************************************************)
(* What restores leave that run at the same time.                          *)
(***************************************************************************)
Same(q, r) == /\ call[q].pc \notin {"undo", "undo_record", "failed"}
              /\ DOMAIN call[q].snap.servers = DOMAIN call[r].snap.servers

WholeFits(r) ==
    /\ call[r].pc \in {"mark", "fill", "restored"}
    /\ call[r].others \subseteq Restorers
    /\ \A q \in call[r].others : Same(q, r)
    =>  \E q \in call[r].others \cup {r} : Agrees(call[q].snap.servers)

(***************************************************************************)
(* And how a map of servers fits a record that names some of them.         *)
(***************************************************************************)
Alike(a, b) == a.cur = b.cur /\ a.prev = b.prev /\ a.last = b.last

\* rollback_server brings it back, or has.
Returns(server) ==
    \/ server.cur = InitialVersion /\ (server.prev = NoVersion \/ server.last = "rollback")
    \/ server.prev = InitialVersion /\ server.last # "rollback"

Exact(map, ids) ==
    \A s \in DOMAIN map : IF s \in ids THEN Returns(map[s])
                          ELSE map[s].cur = InitialVersion

Shows(map) == \A s \in DOMAIN map : s \in DOMAIN servers /\ Alike(servers[s], map[s])

RestoreFits(r) ==
    LET frame == call[r]
    IN  /\ frame.snap \in snapshots
        /\ DOMAIN servers = DOMAIN frame.saved \cup frame.made
        /\ frame.pc \in {"backup", "apply"} =>
              Exact(servers, record.updated) /\ Shows(frame.saved) /\ frame.made = {}
        /\ frame.pc = "apply" => frame.kept.updated = record.updated
        /\ frame.pc # "backup" => Exact(frame.saved, frame.kept.updated)
        /\ frame.pc \in {"mark", "fill"} => Shows(frame.snap.servers)
        /\ frame.pc \in {"undo", "undo_record"} /\ ~frame.given =>
              record.updated = frame.kept.updated
        /\ frame.pc = "undo_record" => Shows(frame.saved)

CleanFits ==
    clean =>
        /\ \A q, r \in Restorers : Busy(q) /\ Busy(r) => q = r
        /\ \A snap \in snapshots : Exact(snap.servers, snap.dep.updated)
        /\ NoRestore => Exact(servers, record.updated)
        /\ \A r \in Restorers : Busy(r) => RestoreFits(r)

LoopFits ==
    /\ loop = "install" => \A s \in todo \cap DOMAIN servers :
                              servers[s].cur = InitialVersion
    /\ loop = "revert" => todo \subseteq record.updated
    /\ taking.pc = "copy" => Shows(taking.copy)

SnapshotInvariant ==
    /\ RivalsFit
    /\ \A r \in Restorers : UndoFits(r) /\ WholeFits(r)
    /\ CleanFits /\ LoopFits

-----------------------------------------------------------------------------
(***************************************************************************)
(* Maps of some of the servers.                                            *)
(***************************************************************************)
LEMMA MapIs ==
    ASSUME NEW map \in Maps
    PROVE  DOMAIN map \subseteq Servers /\ map \in [DOMAIN map -> StoredServer]
  BY DEF Maps

LEMMA IsMap ==
    ASSUME NEW ids \in SUBSET Servers, NEW map \in [ids -> StoredServer]
    PROVE  map \in Maps
  BY DEF Maps

LEMMA OnlyIs ==
    ASSUME NEW map \in Maps, NEW ids \in SUBSET DOMAIN map
    PROVE  /\ Only(map, ids) \in Maps /\ DOMAIN Only(map, ids) = ids
           /\ \A s \in ids : Only(map, ids)[s] = map[s]
<1>1. ids \in SUBSET Servers /\ Only(map, ids) \in [ids -> StoredServer]
  BY MapIs DEF Only
<1> QED BY <1>1, IsMap DEF Only

LEMMA WithIs ==
    ASSUME NEW map \in Maps, NEW new \in Maps
    PROVE  LET both == With(map, new)
           IN  /\ both \in Maps /\ DOMAIN both = DOMAIN map \cup DOMAIN new
               /\ \A s \in DOMAIN new : both[s] = new[s]
               /\ \A s \in DOMAIN map \ DOMAIN new : both[s] = map[s]
<1> DEFINE ids == DOMAIN map \cup DOMAIN new
<1>1. ids \in SUBSET Servers /\ With(map, new) \in [ids -> StoredServer]
  BY MapIs DEF With
<1> QED BY <1>1, IsMap DEF With

LEMMA EmptyIsMap == NoServers \in Maps /\ DOMAIN NoServers = {}
<1>1. NoServers \in [{} -> StoredServer] /\ DOMAIN NoServers = {}
  BY DEF NoServers
<1> QED BY <1>1, IsMap

\* The cluster's methods, on a cluster that may lack the server.
LEMMA MethodTypes ==
    ASSUME NEW map \in Maps, NEW s \in Servers
    PROVE  /\ UpdateServerVersion(map, s, Target) \in Maps
           /\ RollbackServer(map, s) \in Maps
           /\ \A st \in ServerStatus : UpdateServerStatus(map, s, st) \in Maps
<1>0. map \in [DOMAIN map -> StoredServer] /\ DOMAIN map \in SUBSET Servers
  BY MapIs
<1> USE DEF StoredServer, HistoryAction, ServerStatus
<1>1. UpdateServerVersion(map, s, Target) \in [DOMAIN map -> StoredServer]
  BY <1>0, SnapshotAssumption DEF UpdateServerVersion
<1>2. RollbackServer(map, s) \in [DOMAIN map -> StoredServer]
  BY <1>0 DEF RollbackServer, RollbackReturns, Flipped
<1>3. ASSUME NEW st \in ServerStatus
      PROVE  UpdateServerStatus(map, s, st) \in [DOMAIN map -> StoredServer]
  BY <1>0 DEF UpdateServerStatus
<1> QED BY <1>0, <1>1, <1>2, <1>3, IsMap

-----------------------------------------------------------------------------
(***************************************************************************)
(* The frames of the restores.  A call that is not over keeps its locals   *)
(* when others act.                                                        *)
(***************************************************************************)
LEMMA UncalledIs == Uncalled \in Frame
<1>1. NoRecord \in Records
  BY DEF NoRecord, Records
<1>2. [servers |-> NoServers, dep |-> NoRecord] \in SnapshotRecords
  BY <1>1, EmptyIsMap DEF SnapshotRecords
<1> QED BY <1>1, <1>2, EmptyIsMap DEF Uncalled, Frame

LEMMA SettledIs ==
    ASSUME NEW frame \in Frame
    PROVE  LET new == Settled(frame)
           IN  /\ new \in Frame /\ new.pc = frame.pc
               /\ frame.pc \notin {"restored", "failed"} =>
                     /\ new.snap = frame.snap /\ new.given = frame.given
                     /\ new.saved = frame.saved /\ new.kept = frame.kept
                     /\ new.made = frame.made
               /\ frame.pc # "failed" =>
                     /\ new.others = frame.others
                     /\ new.snap.servers = frame.snap.servers
               /\ frame.pc # "restored" /\ frame.others = {} =>
                     new.others = {} /\ new.found = frame.found
               /\ frame.pc = "failed" /\ frame.others = {} =>
                     new.made = frame.made /\ new.kept = frame.kept
               /\ frame.pc = "failed" /\ frame.others # {} => new.others = {"world"}
<1>0. /\ frame.snap \in SnapshotRecords /\ frame.others \subseteq {"world"} \cup Restorers
      /\ Uncalled \in Frame /\ Uncalled.snap \in SnapshotRecords
  BY UncalledIs DEF Frame
<1> DEFINE over == [Uncalled EXCEPT !.pc = frame.pc, !.others = frame.others]
<1>1. /\ over \in Frame /\ over.pc = frame.pc /\ over.others = frame.others
      /\ over.snap \in SnapshotRecords
  BY <1>0 DEF Frame
<1>2. CASE frame.pc = "restored"
  <2>1. Settled(frame) = [over EXCEPT !.snap.servers = frame.snap.servers]
    BY <1>2 DEF Settled
  <2>2. [over.snap EXCEPT !.servers = frame.snap.servers] \in SnapshotRecords
    BY <1>0, <1>1 DEF SnapshotRecords
  <2> HIDE DEF over
  <2>3. Settled(frame) \in Frame
    BY <1>1, <2>1, <2>2 DEF Frame
  <2>4. /\ Settled(frame).pc = over.pc /\ Settled(frame).others = over.others
        /\ Settled(frame).snap.servers = frame.snap.servers
    BY <1>1, <2>1 DEF Frame, SnapshotRecords
  <2> QED BY <1>1, <1>2, <2>3, <2>4
<1>3. CASE frame.pc = "failed" /\ frame.others = {}
  <2>1. Settled(frame) = [over EXCEPT !.found = frame.found, !.made = frame.made,
                                      !.kept = frame.kept]
    BY <1>3 DEF Settled
  <2> HIDE DEF over
  <2> QED BY <1>1, <1>3, <2>1 DEF Frame
<1>4. CASE frame.pc = "failed" /\ frame.others # {}
  <2>1. Settled(frame) = [over EXCEPT !.others = {"world"}]
    BY <1>4 DEF Settled
  <2> HIDE DEF over
  <2> QED BY <1>1, <1>4, <2>1 DEF Frame
<1>5. CASE frame.pc \notin {"restored", "failed"}
  <2>1. Settled(frame) = [frame EXCEPT !.found = IF frame.others = {} THEN @ ELSE NoServers]
    BY <1>5 DEF Settled
  <2> QED BY <1>5, <2>1, EmptyIsMap DEF Frame
<1> QED BY <1>2, <1>3, <1>4, <1>5

\* The frame of a call that another one, or the world, acts beside.
Beside(q, who, new) ==
    /\ new \in Frame /\ new.pc = call[q].pc
    /\ ~Begun(q) => new = call[q]
    /\ Begun(q) => new.others # {} /\ (who = "world" => "world" \in new.others)
    /\ Busy(q) => /\ new.snap = call[q].snap /\ new.given = call[q].given
                  /\ new.saved = call[q].saved /\ new.kept = call[q].kept
                  /\ new.made = call[q].made
    /\ call[q].pc = "restored" /\ who # "world" =>
          new.snap.servers = call[q].snap.servers
    /\ Begun(q) => new.others \subseteq call[q].others \cup {who, "world"}
    /\ Begun(q) /\ call[q].pc # "failed" =>
          \/ "world" \in new.others
          \/ new.others = call[q].others \cup {who}

LEMMA SeenIs ==
    ASSUME TypeOK, NEW who \in {"world"} \cup Restorers, NEW q \in Restorers, q # who
    PROVE  Beside(q, who, Seen(who)[q])
<1>0. call[q] \in Frame /\ call[q].others \subseteq {"world"} \cup Restorers
  BY DEF TypeOK, Frame
<1>1. CASE ~Begun(q)
  <2>1. Seen(who)[q] = call[q]
    BY <1>1 DEF Seen
  <2> QED BY <1>0, <1>1, <2>1 DEF Beside, Begun, Busy
<1>2. CASE Begun(q) /\ who = "world" /\ ~Busy(q)
  <2>1. Seen(who)[q] = Outlived(call[q])
    BY <1>2 DEF Seen
  <2>2. /\ Outlived(call[q]) \in Frame /\ Outlived(call[q]).pc = call[q].pc
        /\ Outlived(call[q]).others = {"world"}
    BY <1>0, UncalledIs DEF Outlived, Frame
  <2> QED BY <1>2, <2>1, <2>2 DEF Beside
<1>3. CASE Begun(q) /\ ~(who = "world" /\ ~Busy(q))
  <2> DEFINE frame == [call[q] EXCEPT !.others = @ \cup {who}]
  <2>1. Seen(who)[q] = Settled(frame)
    BY <1>3 DEF Seen
  <2>2. /\ frame \in Frame /\ frame.pc = call[q].pc
        /\ frame.others = call[q].others \cup {who} /\ frame.others # {}
        /\ frame.snap = call[q].snap /\ frame.given = call[q].given
        /\ frame.saved = call[q].saved /\ frame.kept = call[q].kept
        /\ frame.made = call[q].made
    BY <1>0 DEF Frame
  <2> HIDE DEF frame
  <2> QED BY <1>3, <2>1, <2>2, SettledIs DEF Beside, Busy, Begun
<1> QED BY <1>1, <1>2, <1>3

(***************************************************************************)
(* The steps of restore_snapshot, by what they do to their own frame, the  *)
(* servers and the record.                                                 *)
(***************************************************************************)
Carried(r) ==
    /\ call'[r].snap = call[r].snap /\ call'[r].given = call[r].given
    /\ call'[r].saved = call[r].saved

Place(r, from, to) == call[r].pc = from /\ call'[r].pc = to

Begins(r) ==
    /\ Place(r, "idle", "backup") /\ EngineAtRest
    /\ call'[r].snap \in snapshots
    /\ call'[r].saved = servers /\ call'[r].made = {}
    /\ call'[r].found = servers /\ call'[r].others = {}
    /\ UNCHANGED <<servers, record>>

BacksUp(r) ==
    /\ Place(r, "backup", "apply") /\ Carried(r)
    /\ call'[r].made = call[r].made /\ call'[r].kept = record
    /\ UNCHANGED <<servers, record>>

Applies(r) ==
    /\ \/ Place(r, "apply", "mark") /\ call[r].given /\ Carried(r)
       \/ Place(r, "apply", "restored") /\ ~call[r].given
    /\ call'[r].pc # "restored" =>
          /\ call'[r].kept = call[r].kept
          /\ call'[r].made = Recreated(r, DOMAIN call[r].snap.servers)
    /\ call'[r].snap.servers = call[r].snap.servers
    /\ servers' = With(servers, call[r].snap.servers)
    /\ UNCHANGED record

Breaks(r) ==
    /\ Place(r, "apply", "undo") /\ Carried(r) /\ call'[r].kept = call[r].kept
    /\ servers' \in Maps /\ DOMAIN servers \subseteq DOMAIN servers'
    /\ call'[r].made = DOMAIN servers' \ DOMAIN servers
    /\ UNCHANGED record

Marks(r) ==
    /\ Place(r, "mark", "fill") /\ Carried(r)
    /\ call'[r].kept = call[r].kept /\ call'[r].made = call[r].made
    /\ record' \in Records /\ record'.updated = record.updated
    /\ UNCHANGED servers

Fills(r) ==
    /\ Place(r, "fill", "restored")
    /\ call'[r].snap.servers = call[r].snap.servers
    /\ record' \in Records /\ record'.updated = call[r].snap.dep.updated
    /\ UNCHANGED servers

GivesUp(r) ==
    /\ Place(r, "mark", "undo") \/ Place(r, "fill", "undo")
    /\ Carried(r)
    /\ call'[r].kept = call[r].kept /\ call'[r].made = call[r].made
    /\ record' \in Records /\ UNCHANGED servers

Undoes(r) ==
    /\ Place(r, "undo", "undo_record") /\ Carried(r)
    /\ call'[r].kept = call[r].kept /\ call'[r].made = call[r].made
    /\ servers' = With(servers, Only(call[r].saved, DOMAIN call[r].saved \cap DOMAIN servers))
    /\ UNCHANGED record

Ends(r) ==
    /\ Place(r, "undo_record", "failed")
    /\ call[r].others = {} =>
          call'[r].made = call[r].made /\ call'[r].kept = call[r].kept
    /\ record' = (IF call[r].given THEN call[r].kept ELSE record)
    /\ UNCHANGED servers

\* What they do to the frames of others and to the histories.
Frames(r) ==
    /\ call' \in [Restorers -> Frame]
    /\ \A q \in Restorers \ {r} : Beside(q, r, call'[q])
    /\ call[r].pc # "idle" =>
          /\ call'[r].pc # "failed" => call'[r].others = call[r].others
          /\ call[r].others = {} => /\ call'[r].others = {}
                                    /\ call'[r].pc # "restored" =>
                                          call'[r].found = call[r].found
          /\ call[r].others # {} => call'[r].others # {}
          /\ call'[r].pc = "failed" => call'[r].others \subseteq {"world"}
    /\ clean' => clean /\ \A q \in Restorers \ {r} : ~Busy(q)
    /\ clean' /\ call'[r].pc = "restored" =>
          call[r].given /\ DOMAIN servers \subseteq DOMAIN call[r].snap.servers
    /\ clean' /\ call'[r].pc = "failed" => call[r].made = {}
    /\ clean' \in BOOLEAN
    /\ UNCHANGED <<loop, todo, snapshots, taking, changes>>

Moves(r) ==
    /\ Frames(r)
    /\ \/ Begins(r) \/ BacksUp(r) \/ Applies(r) \/ Breaks(r) \/ Marks(r)
       \/ Fills(r) \/ GivesUp(r) \/ Undoes(r) \/ Ends(r)

\* RestorerSteps, once the new frame is known.
LEMMA RestorerStepsIs ==
    ASSUME TypeOK, NEW r \in Restorers, NEW new \in Frame, RestorerSteps(r, new)
    PROVE  /\ call' \in [Restorers -> Frame]
           /\ \A q \in Restorers \ {r} : Beside(q, r, call'[q])
           /\ call'[r] = Settled(new)
           /\ clean' => clean /\ \A q \in Restorers \ {r} : ~Busy(q)
           /\ clean' => Whole(r, new)
           /\ clean' \in BOOLEAN
           /\ UNCHANGED <<loop, todo, snapshots, taking, changes>>
<1>1. DOMAIN Seen(r) = Restorers /\ call' = [Seen(r) EXCEPT ![r] = Settled(new)]
  BY DEF RestorerSteps, Seen
<1>2. \A q \in Restorers \ {r} : call'[q] = Seen(r)[q] /\ Beside(q, r, Seen(r)[q])
  BY <1>1, SeenIs
<1>3. call'[r] = Settled(new) /\ Settled(new) \in Frame
  BY <1>1, SettledIs
<1>4. call' \in [Restorers -> Frame]
  <2>1. DOMAIN call' = Restorers /\ call' = [q \in Restorers |-> call'[q]]
    BY <1>1
  <2>2. \A q \in Restorers : call'[q] \in Frame
    BY <1>2, <1>3 DEF Beside
  <2> QED BY <2>1, <2>2
<1>5. /\ clean' = (clean /\ Whole(r, new) /\ \A q \in Restorers \ {r} : ~Busy(q))
      /\ UNCHANGED <<loop, todo, snapshots, taking, changes>>
  BY DEF RestorerSteps
<1>6. clean' \in BOOLEAN
  BY <1>5
<1> QED BY <1>2, <1>3, <1>4, <1>5, <1>6

LEMMA FramesNext ==
    ASSUME TypeOK, NEW r \in Restorers, NEW new \in Frame, RestorerSteps(r, new),
           call[r].pc # "idle" => new.others = call[r].others /\ new.found = call[r].found,
           new.pc = "restored" => new.snap.servers = call[r].snap.servers,
           new.pc = "failed" => new.made = call[r].made
    PROVE  Frames(r) /\ call'[r] = Settled(new)
<1>1. /\ call' \in [Restorers -> Frame]
      /\ \A q \in Restorers \ {r} : Beside(q, r, call'[q])
      /\ call'[r] = Settled(new)
      /\ clean' => clean /\ \A q \in Restorers \ {r} : ~Busy(q)
      /\ clean' => Whole(r, new)
      /\ clean' \in BOOLEAN
      /\ UNCHANGED <<loop, todo, snapshots, taking, changes>>
  BY RestorerStepsIs
<1>2. Settled(new).pc = new.pc
  BY SettledIs
<1>3. call[r].pc # "idle" =>
          /\ call'[r].pc # "failed" => call'[r].others = call[r].others
          /\ call[r].others = {} => /\ call'[r].others = {}
                                    /\ call'[r].pc # "restored" =>
                                          call'[r].found = call[r].found
          /\ call[r].others # {} => call'[r].others # {}
          /\ call'[r].pc = "failed" => call'[r].others \subseteq {"world"}
  BY <1>1, SettledIs
<1>4. /\ clean' /\ call'[r].pc = "restored" =>
            call[r].given /\ DOMAIN servers \subseteq DOMAIN call[r].snap.servers
      /\ clean' /\ call'[r].pc = "failed" => call[r].made = {}
  BY <1>1, <1>2 DEF Whole
<1> QED BY <1>1, <1>3, <1>4 DEF Frames

LEMMA RestorerMoves ==
    ASSUME TypeOK, NEW r \in Restorers, Restorer(r)
    PROVE  Moves(r)
<1>0. /\ call[r] \in Frame /\ servers \in Maps /\ record \in Records
      /\ call[r].snap \in SnapshotRecords /\ call[r].snap.servers \in Maps
      /\ call[r].snap.dep \in Records
      /\ call[r].saved \in Maps /\ call[r].kept \in Records
  BY DEF TypeOK, Frame, SnapshotRecords
<1> USE DEF Place, Carried
<1>1. ASSUME NEW snap \in snapshots, NEW passed \in BOOLEAN, RestoreBegins(r, snap, passed)
      PROVE  Moves(r)
  <2> DEFINE new == [Uncalled EXCEPT !.pc = "backup", !.snap = snap, !.given = passed,
                                     !.found = servers, !.saved = servers]
  <2>1. snap \in SnapshotRecords
    BY DEF TypeOK
  <2>2. /\ new \in Frame /\ new.pc = "backup" /\ new.snap = snap /\ new.saved = servers
        /\ new.found = servers
    BY <1>0, <2>1, UncalledIs DEF Frame
  <2>3. new.made = {} /\ new.others = {}
    BY DEF Uncalled
  <2>4. /\ RestorerSteps(r, new) /\ call[r].pc = "idle" /\ EngineAtRest
        /\ UNCHANGED <<servers, record>>
    BY <1>1 DEF RestoreBegins
  <2> HIDE DEF new
  <2>5. Frames(r) /\ call'[r] = Settled(new)
    BY <2>2, <2>4, FramesNext
  <2> QED BY <2>2, <2>3, <2>4, <2>5, SettledIs DEF Moves, Begins
<1>2. CASE BackUp(r)
  <2> DEFINE new == [call[r] EXCEPT !.pc = "apply", !.kept = record]
  <2>1. /\ new \in Frame /\ new.pc = "apply" /\ new.kept = record /\ new.snap = call[r].snap
        /\ new.given = call[r].given /\ new.saved = call[r].saved
        /\ new.made = call[r].made /\ new.found = call[r].found
        /\ new.others = call[r].others
    BY <1>0 DEF Frame
  <2>2. RestorerSteps(r, new) /\ call[r].pc = "backup" /\ UNCHANGED <<servers, record>>
    BY <1>2 DEF BackUp
  <2> HIDE DEF new
  <2>3. Frames(r) /\ call'[r] = Settled(new)
    BY <2>1, <2>2, FramesNext
  <2> QED BY <2>1, <2>2, <2>3, SettledIs DEF Moves, BacksUp
<1>3. CASE Apply(r)
  <2> DEFINE new == [call[r] EXCEPT !.pc = IF call[r].given THEN "mark" ELSE "restored",
                                    !.made = Recreated(r, DOMAIN call[r].snap.servers)]
  <2>0. Recreated(r, DOMAIN call[r].snap.servers) \subseteq Servers
    BY <1>0, MapIs DEF Recreated
  <2>1. /\ new \in Frame /\ new.pc = (IF call[r].given THEN "mark" ELSE "restored")
        /\ new.kept = call[r].kept /\ new.snap = call[r].snap
        /\ new.given = call[r].given /\ new.saved = call[r].saved
        /\ new.made = Recreated(r, DOMAIN call[r].snap.servers)
        /\ new.found = call[r].found /\ new.others = call[r].others
    BY <1>0, <2>0 DEF Frame
  <2>2. /\ RestorerSteps(r, new) /\ call[r].pc = "apply" /\ UNCHANGED record
        /\ servers' = With(servers, call[r].snap.servers)
    BY <1>3 DEF Apply
  <2> HIDE DEF new
  <2>3. Frames(r) /\ call'[r] = Settled(new)
    BY <2>1, <2>2, FramesNext
  <2> QED BY <1>0, <2>1, <2>2, <2>3, SettledIs DEF Moves, Applies, Frame
<1>4. ASSUME NEW s \in Servers, NEW first \in SUBSET Servers, NEW dated \in BOOLEAN,
             ApplyFails(r, s, first, dated)
      PROVE  Moves(r)
  <2> DEFINE whole == Only(call[r].snap.servers, first)
             done  == IF dated THEN With(whole, [x \in {s} |-> HalfFilled(r, x)]) ELSE whole
             new   == [call[r] EXCEPT !.pc = "undo", !.made = Recreated(r, DOMAIN done)]
  <2>1. /\ s \in DOMAIN call[r].snap.servers /\ first \subseteq DOMAIN call[r].snap.servers
        /\ call[r].pc = "apply" /\ UNCHANGED record
        /\ servers' = With(servers, done) /\ RestorerSteps(r, new)
    BY <1>4 DEF ApplyFails
  <2>2. whole \in Maps
    BY <1>0, <2>1, OnlyIs
  <2>3. HalfFilled(r, s) \in StoredServer
    <3>1. call[r].snap.servers[s] \in StoredServer /\ (s \in DOMAIN servers =>
              servers[s] \in StoredServer)
      BY <1>0, <2>1, MapIs
    <3> QED BY <3>1 DEF HalfFilled, StoredServer
  <2>4. [x \in {s} |-> HalfFilled(r, x)] \in Maps
    <3>1. [x \in {s} |-> HalfFilled(r, x)] \in [{s} -> StoredServer] /\ {s} \in SUBSET Servers
      BY <2>3
    <3> QED BY <3>1, IsMap
  <2>5. done \in Maps
    BY <2>2, <2>4, WithIs
  <2> HIDE DEF whole, done
  <2>6. servers' \in Maps /\ DOMAIN servers' = DOMAIN servers \cup DOMAIN done
    BY <1>0, <2>1, <2>5, WithIs
  <2>7. Recreated(r, DOMAIN done) = DOMAIN servers' \ DOMAIN servers
    BY <2>6 DEF Recreated
  <2>8. /\ new \in Frame /\ new.pc = "undo" /\ new.kept = call[r].kept
        /\ new.snap = call[r].snap /\ new.given = call[r].given
        /\ new.saved = call[r].saved /\ new.made = Recreated(r, DOMAIN done)
        /\ new.found = call[r].found /\ new.others = call[r].others
    <3>1. Recreated(r, DOMAIN done) \subseteq Servers
      BY <2>5, MapIs DEF Recreated
    <3> QED BY <1>0, <3>1 DEF Frame
  <2> HIDE DEF new
  <2>9. Frames(r) /\ call'[r] = Settled(new)
    BY <2>1, <2>8, FramesNext
  <2> QED BY <2>1, <2>6, <2>7, <2>8, <2>9, SettledIs DEF Moves, Breaks
<1>5. CASE Mark(r)
  <2> DEFINE new == [call[r] EXCEPT !.pc = "fill"]
  <2>1. /\ new \in Frame /\ new.pc = "fill" /\ new.kept = call[r].kept
        /\ new.snap = call[r].snap /\ new.given = call[r].given
        /\ new.saved = call[r].saved /\ new.made = call[r].made
        /\ new.found = call[r].found /\ new.others = call[r].others
    BY <1>0 DEF Frame
  <2>2. /\ RestorerSteps(r, new) /\ call[r].pc = "mark" /\ UNCHANGED servers
        /\ record' = [record EXCEPT !.status = call[r].snap.dep.status]
    BY <1>5 DEF Mark
  <2>3. record' \in Records /\ record'.updated = record.updated
    BY <1>0, <2>2 DEF Records
  <2> HIDE DEF new
  <2>4. Frames(r) /\ call'[r] = Settled(new)
    BY <2>1, <2>2, FramesNext
  <2> QED BY <2>1, <2>2, <2>3, <2>4, SettledIs DEF Moves, Marks
<1>6. CASE Fill(r)
  <2> DEFINE new == [call[r] EXCEPT !.pc = "restored"]
  <2>1. /\ new \in Frame /\ new.pc = "restored" /\ new.snap = call[r].snap
        /\ new.found = call[r].found /\ new.others = call[r].others
    BY <1>0 DEF Frame
  <2>2. /\ RestorerSteps(r, new) /\ call[r].pc = "fill" /\ UNCHANGED servers
        /\ record' = [record EXCEPT !.updated = call[r].snap.dep.updated]
    BY <1>6 DEF Fill
  <2>3. record' \in Records /\ record'.updated = call[r].snap.dep.updated
    BY <1>0, <2>2 DEF Records
  <2> HIDE DEF new
  <2>4. Frames(r) /\ call'[r] = Settled(new)
    BY <2>1, <2>2, FramesNext
  <2> QED BY <2>1, <2>2, <2>3, <2>4, SettledIs DEF Moves, Fills
<1>7. CASE MarkFails(r) \/ FillFails(r)
  <2> DEFINE new == [call[r] EXCEPT !.pc = "undo"]
  <2>1. /\ new \in Frame /\ new.pc = "undo" /\ new.kept = call[r].kept
        /\ new.snap = call[r].snap /\ new.given = call[r].given
        /\ new.saved = call[r].saved /\ new.made = call[r].made
        /\ new.found = call[r].found /\ new.others = call[r].others
    BY <1>0 DEF Frame
  <2>2. /\ RestorerSteps(r, new) /\ call[r].pc \in {"mark", "fill"} /\ UNCHANGED servers
    BY <1>7 DEF MarkFails, FillFails
  <2>3. record' \in Records
    BY <1>0, <1>7 DEF MarkFails, FillFails, Records
  <2> HIDE DEF new
  <2>4. Frames(r) /\ call'[r] = Settled(new)
    BY <2>1, <2>2, FramesNext
  <2> QED BY <2>1, <2>2, <2>3, <2>4, SettledIs DEF Moves, GivesUp
<1>8. CASE Undo(r)
  <2> DEFINE new == [call[r] EXCEPT !.pc = "undo_record"]
  <2>1. /\ new \in Frame /\ new.pc = "undo_record" /\ new.kept = call[r].kept
        /\ new.snap = call[r].snap /\ new.given = call[r].given
        /\ new.saved = call[r].saved /\ new.made = call[r].made
        /\ new.found = call[r].found /\ new.others = call[r].others
    BY <1>0 DEF Frame
  <2>2. /\ RestorerSteps(r, new) /\ call[r].pc = "undo" /\ UNCHANGED record
        /\ servers' = With(servers,
                           Only(call[r].saved, DOMAIN call[r].saved \cap DOMAIN servers))
    BY <1>8 DEF Undo
  <2> HIDE DEF new
  <2>3. Frames(r) /\ call'[r] = Settled(new)
    BY <2>1, <2>2, FramesNext
  <2> QED BY <2>1, <2>2, <2>3, SettledIs DEF Moves, Undoes
<1>9. CASE UndoRecord(r)
  <2> DEFINE new == [call[r] EXCEPT !.pc = "failed"]
  <2>1. /\ new \in Frame /\ new.pc = "failed" /\ new.kept = call[r].kept
        /\ new.made = call[r].made
        /\ new.found = call[r].found /\ new.others = call[r].others
    BY <1>0 DEF Frame
  <2>2. /\ RestorerSteps(r, new) /\ call[r].pc = "undo_record" /\ UNCHANGED servers
        /\ record' = (IF call[r].given THEN call[r].kept ELSE record)
    BY <1>9 DEF UndoRecord
  <2> HIDE DEF new
  <2>3. Frames(r) /\ call'[r] = Settled(new)
    BY <2>1, <2>2, FramesNext
  <2> QED BY <2>1, <2>2, <2>3, SettledIs DEF Moves, Ends
<1> QED BY <1>1, <1>2, <1>3, <1>4, <1>5, <1>6, <1>7, <1>8, <1>9 DEF Restorer

\* What the world does is seen by every call.
LEMMA WorldMoves ==
    ASSUME TypeOK, call' = Seen("world")
    PROVE  /\ call' \in [Restorers -> Frame]
           /\ \A q \in Restorers : Beside(q, "world", call'[q])
<1>1. call' = [q \in Restorers |-> call'[q]]
  BY DEF Seen
<1>2. \A q \in Restorers : Beside(q, "world", call'[q])
  BY SeenIs, SnapshotAssumption
<1>3. \A q \in Restorers : call'[q] \in Frame
  BY <1>2 DEF Beside
<1>4. call' \in [Restorers -> Frame]
  BY <1>1, <1>3
<1> QED BY <1>2, <1>4

LEMMA RestoresAtRest ==
    ASSUME EngineFits, NEW r \in Restorers, Moves(r)
    PROVE  EngineAtRest
<1>1. CASE Begins(r)
  BY <1>1 DEF Begins
<1>2. CASE ~Begins(r)
  <2>1. Busy(r)
    BY <1>2 DEF Moves, BacksUp, Applies, Breaks, Marks, Fills, GivesUp, Undoes, Ends, Place, Busy
  <2> QED BY <2>1 DEF EngineFits
<1> QED BY <1>1, <1>2

-----------------------------------------------------------------------------
(***************************************************************************)
(* Types, and who excludes whom.                                           *)
(***************************************************************************)
LEMMA TypeInit == Init => TypeOK /\ EngineFits
<1> SUFFICES ASSUME Init PROVE TypeOK /\ EngineFits
  OBVIOUS
<1>1. servers \in Maps
  <2>1. servers \in [Servers -> StoredServer]
    BY ClusterAssumption
       DEF Init, GeneratedCluster, StoredServer, ServerStatus, HistoryAction
  <2> QED BY <2>1, IsMap
<1>2. call \in [Restorers -> Frame] /\ \A r \in Restorers : call[r].pc = "idle"
  BY UncalledIs DEF Init, Uncalled
<1>3. taking \in Taker /\ taking.pc = "idle" /\ record \in Records
  BY EmptyIsMap DEF Init, Taker, NoRecord, Records
<1> QED BY <1>1, <1>2, <1>3, SnapshotAssumption DEF Init, TypeOK, EngineFits, Begun, Busy

LEMMA TypeNext == TypeOK /\ EngineFits /\ [Next]_vars => (TypeOK /\ EngineFits)'
<1> SUFFICES ASSUME TypeOK, EngineFits, [Next]_vars PROVE TypeOK' /\ EngineFits'
  OBVIOUS
<1>0. /\ servers \in Maps /\ DOMAIN servers \subseteq Servers /\ record \in Records
      /\ taking \in Taker /\ taking.left \subseteq Servers /\ taking.copy \in Maps
  BY MapIs DEF TypeOK, Taker
<1> USE DEF NotRestoring, Begun, Busy
<1>1. ASSUME NEW s \in Servers, Install(s) PROVE TypeOK' /\ EngineFits'
  <2>1. servers' \in Maps
    BY <1>0, <1>1, MethodTypes DEF Install
  <2>2. record' \in Records
    BY <1>0, <1>1 DEF Install, Records
  <2> QED BY <1>1, <2>1, <2>2 DEF Install, TypeOK, EngineFits, EngineAtRest
<1>2. CASE EndDeploy
  BY <1>2 DEF EndDeploy, TypeOK, EngineFits, EngineAtRest
<1>3. CASE BeginReversal
  <2>1. record' \in Records /\ todo' \subseteq Servers
    BY <1>0, <1>3 DEF BeginReversal, Records
  <2>2. call' \in [Restorers -> Frame] /\ \A q \in Restorers : Beside(q, "world", call'[q])
    BY <1>3, WorldMoves DEF BeginReversal
  <2> QED BY <1>3, <2>1, <2>2 DEF BeginReversal, TypeOK, EngineFits, EngineAtRest, NoRestore,
                                 Beside
<1>4. ASSUME NEW s \in Servers, Revert(s) PROVE TypeOK' /\ EngineFits'
  <2>1. servers' \in Maps
    BY <1>0, <1>4, MethodTypes DEF Revert
  <2> QED BY <1>4, <2>1 DEF Revert, TypeOK, EngineFits, EngineAtRest
<1>5. CASE EndReversal
  <2>1. record' \in Records
    BY <1>0, <1>5 DEF EndReversal, Records
  <2> QED BY <1>5, <2>1 DEF EndReversal, TypeOK, EngineFits, EngineAtRest
<1>6. CASE TakeBegins
  <2>1. taking' \in Taker /\ taking'.left \cup DOMAIN taking'.copy = DOMAIN servers
    BY <1>0, <1>6, EmptyIsMap DEF TakeBegins, Taker
  <2> QED BY <1>6, <2>1 DEF TakeBegins, TypeOK, EngineFits, EngineAtRest, NoRestore
<1>7. ASSUME NEW s \in Servers, TakeCopies(s) PROVE TypeOK' /\ EngineFits'
  <2>1. s \in DOMAIN servers /\ taking.left \cup DOMAIN taking.copy = DOMAIN servers
    BY <1>7 DEF TakeCopies, EngineFits
  <2>2. Only(servers, {s}) \in Maps /\ DOMAIN Only(servers, {s}) = {s}
    <3>1. {s} \in SUBSET DOMAIN servers
      BY <2>1
    <3> QED BY <1>0, <3>1, OnlyIs
  <2>3. /\ With(taking.copy, Only(servers, {s})) \in Maps
        /\ DOMAIN With(taking.copy, Only(servers, {s})) = DOMAIN taking.copy \cup {s}
    <3> DEFINE new == Only(servers, {s})
    <3>1. new \in Maps /\ DOMAIN new = {s}
      BY <2>2
    <3> HIDE DEF new
    <3>2. /\ With(taking.copy, new) \in Maps
          /\ DOMAIN With(taking.copy, new) = DOMAIN taking.copy \cup DOMAIN new
      <4>1. taking.copy \in Maps
        BY <1>0
      <4> QED BY <3>1, <4>1, WithIs
    <3> QED BY <3>1, <3>2 DEF new
  <2>4. /\ taking' \in Taker /\ taking'.left = taking.left \ {s}
        /\ DOMAIN taking'.copy = DOMAIN taking.copy \cup {s} /\ taking'.pc = taking.pc
    BY <1>0, <1>7, <2>3 DEF TakeCopies, Taker
  <2> QED BY <1>7, <2>1, <2>4 DEF TakeCopies, TypeOK, EngineFits, EngineAtRest
<1>8. CASE TakeEnds
  <2>1. taking' \in Taker /\ taking'.pc = "idle"
    BY <1>8, EmptyIsMap DEF TakeEnds, Taker
  <2>2. snapshots' \subseteq SnapshotRecords
    BY <1>0, <1>8 DEF TakeEnds, SnapshotRecords, TypeOK
  <2> QED BY <1>8, <2>1, <2>2 DEF TakeEnds, TypeOK, EngineFits, EngineAtRest
<1>9. ASSUME NEW r \in Restorers, Restorer(r) PROVE TypeOK' /\ EngineFits'
  <2>1. Moves(r)
    BY <1>9, RestorerMoves
  <2>2. EngineAtRest
    BY <2>1, RestoresAtRest
  <2>3. call[r] \in Frame /\ call[r].kept \in Records /\ call[r].snap.servers \in Maps
        /\ call[r].saved \in Maps
    BY DEF TypeOK, Frame, SnapshotRecords
  <2>4. servers' \in Maps
    <3>1. CASE Applies(r)
      BY <1>0, <2>3, <3>1, WithIs DEF Applies
    <3>2. CASE Undoes(r)
      <4>1. Only(call[r].saved, DOMAIN call[r].saved \cap DOMAIN servers) \in Maps
        BY <2>3, OnlyIs
      <4> QED BY <1>0, <3>2, <4>1, WithIs DEF Undoes
    <3> QED BY <1>0, <2>1, <3>1, <3>2
            DEF Moves, Begins, BacksUp, Breaks, Marks, Fills, GivesUp, Ends
  <2>5. record' \in Records
    BY <1>0, <2>1, <2>3
       DEF Moves, Begins, BacksUp, Applies, Breaks, Marks, Fills, GivesUp, Undoes, Ends
  <2>6. TypeOK'
    BY <2>1, <2>4, <2>5 DEF Moves, Frames, TypeOK
  <2>7. EngineAtRest' /\ taking'.pc = "idle" /\ loop' = "rest"
    BY <2>1, <2>2 DEF Moves, Frames, EngineAtRest
  <2> QED BY <2>6, <2>7 DEF EngineFits
<1>10. ASSUME NEW s \in Servers, NEW st \in Observed, ChangeStatus(s, st)
       PROVE  TypeOK' /\ EngineFits'
  <2>1. servers' \in Maps
    BY <1>0, <1>10, MethodTypes, SnapshotAssumption DEF ChangeStatus
  <2>2. DOMAIN servers' = DOMAIN servers
    BY <1>10 DEF ChangeStatus, UpdateServerStatus
  <2>3. call' \in [Restorers -> Frame] /\ \A q \in Restorers : Beside(q, "world", call'[q])
    BY <1>10, WorldMoves DEF ChangeStatus, WorldSteps
  <2>4. changes' \in 0..MaxChanges
    BY <1>10, SnapshotAssumption DEF ChangeStatus, WorldSteps, TypeOK
  <2> QED BY <1>10, <2>1, <2>2, <2>3, <2>4
          DEF ChangeStatus, WorldSteps, TypeOK, EngineFits, EngineAtRest, Beside
<1>11. ASSUME NEW s \in Servers, Delete(s) PROVE TypeOK' /\ EngineFits'
  <2>1. servers' \in Maps
    BY <1>0, <1>11, OnlyIs DEF Delete
  <2>2. call' \in [Restorers -> Frame] /\ \A q \in Restorers : Beside(q, "world", call'[q])
    BY <1>11, WorldMoves DEF Delete, WorldSteps
  <2>3. changes' \in 0..MaxChanges
    BY <1>11, SnapshotAssumption DEF Delete, WorldSteps, TypeOK
  <2> QED BY <1>11, <2>1, <2>2, <2>3
          DEF Delete, WorldSteps, TypeOK, EngineFits, EngineAtRest, Beside
<1>12. CASE UNCHANGED vars
  BY <1>12 DEF vars, TypeOK, EngineFits, EngineAtRest
<1> QED BY <1>1, <1>2, <1>3, <1>4, <1>5, <1>6, <1>7, <1>8, <1>9, <1>10, <1>11, <1>12 DEF Next

-----------------------------------------------------------------------------
(***************************************************************************)
(* What a step is to the restores: none of their business, a disturbance   *)
(* of all of them, or a step of one.                                       *)
(***************************************************************************)
Aside ==
    /\ UNCHANGED <<call, clean>>
    /\ \/ UNCHANGED <<servers, record>>
       \/ \A r \in Restorers : Begun(r) => "world" \in call[r].others

Disturbs ==
    UNCHANGED clean /\ \A q \in Restorers : Beside(q, "world", call'[q])

LEMMA StepsAre ==
    ASSUME TypeOK, EngineFits, [Next]_vars
    PROVE  Aside \/ Disturbs \/ \E r \in Restorers : Moves(r)
<1> USE DEF NotRestoring
<1>1. ASSUME NEW s \in Servers, Install(s) PROVE Aside
  BY <1>1 DEF Install, EngineFits, Aside
<1>2. CASE EndDeploy \/ TakeBegins \/ TakeEnds
  BY <1>2 DEF EndDeploy, TakeBegins, TakeEnds, Aside
<1>3. CASE BeginReversal
  BY <1>3, WorldMoves DEF BeginReversal, Disturbs
<1>4. ASSUME NEW s \in Servers, Revert(s) PROVE Aside
  BY <1>4 DEF Revert, EngineFits, Aside
<1>5. CASE EndReversal
  BY <1>5 DEF EndReversal, EngineFits, Aside
<1>6. ASSUME NEW s \in Servers, TakeCopies(s) PROVE Aside
  BY <1>6 DEF TakeCopies, Aside
<1>7. ASSUME NEW r \in Restorers, Restorer(r) PROVE Moves(r)
  BY <1>7, RestorerMoves
<1>8. ASSUME NEW s \in Servers, Delete(s) \/ \E st \in Observed : ChangeStatus(s, st)
      PROVE  Disturbs
  BY <1>8, WorldMoves DEF Delete, ChangeStatus, WorldSteps, Disturbs
<1>9. CASE UNCHANGED vars
  BY <1>9 DEF vars, Aside
<1> QED BY <1>1, <1>2, <1>3, <1>4, <1>5, <1>6, <1>7, <1>8, <1>9 DEF Next

LEMMA RivalsNext ==
    ASSUME TypeOK, EngineFits, RivalsFit, [Next]_vars
    PROVE  RivalsFit'
<1> USE SnapshotAssumption DEF RivalsFit, Begun
<1>1. CASE Aside
  BY <1>1 DEF Aside
<1>2. CASE Disturbs
  BY <1>2 DEF Disturbs, Beside
<1>3. ASSUME NEW r \in Restorers, Moves(r) PROVE RivalsFit'
  <2>1. call'[r].pc # "idle"
    BY <1>3 DEF Moves, Begins, BacksUp, Applies, Breaks, Marks, Fills, GivesUp, Undoes, Ends,
                Place
  <2>2. \A q \in Restorers \ {r} :
            /\ call'[q].pc = call[q].pc
            /\ call[q].pc = "idle" => call'[q] = call[q]
            /\ call[q].pc # "idle" => call'[q].others \subseteq call[q].others \cup {r, "world"}
    BY <1>3 DEF Moves, Frames, Beside
  <2>3. call'[r].others \subseteq call[r].others \cup {"world"}
    <3>1. CASE call[r].pc = "idle"
      BY <1>3, <3>1 DEF Moves, Begins, BacksUp, Applies, Breaks, Marks, Fills, GivesUp,
                        Undoes, Ends, Place
    <3>2. CASE call[r].pc # "idle"
      BY <1>3, <3>2 DEF Moves, Frames
    <3> QED BY <3>1, <3>2
  <2> QED BY <2>1, <2>2, <2>3
<1> QED BY <1>1, <1>2, <1>3, StepsAre

\* A failed restore: each step leaves what the next ones of it need to undo it.
LEMMA UndoNext ==
    ASSUME TypeOK, EngineFits, \A r \in Restorers : UndoFits(r), [Next]_vars
    PROVE  \A r \in Restorers : UndoFits(r)'
<1>1. CASE Aside
  <2> SUFFICES ASSUME NEW r \in Restorers PROVE UndoFits(r)'
    OBVIOUS
  <2>1. UndoFits(r) /\ UNCHANGED call
    BY <1>1 DEF Aside
  <2>2. CASE UNCHANGED <<servers, record>>
    BY <2>1, <2>2 DEF UndoFits, Begun, Busy, Agrees
  <2>3. CASE Begun(r) => call[r].others # {}
    BY <2>1, <2>3 DEF UndoFits, Begun
  <2> QED BY <1>1, <2>2, <2>3 DEF Aside
<1>2. ASSUME NEW q \in Restorers, NEW who, Beside(q, who, call'[q]) PROVE UndoFits(q)'
  <2>1. call'[q].pc = call[q].pc /\ (Begun(q) => call'[q].others # {})
    BY <1>2 DEF Beside
  <2>2. call[q].pc \in {"mark", "fill"} => call'[q].given = call[q].given
    BY <1>2 DEF Beside, Busy
  <2> QED BY <2>1, <2>2 DEF UndoFits, Begun
<1>3. ASSUME NEW r \in Restorers, Moves(r) PROVE UndoFits(r)'
  <2>0. /\ Frames(r) /\ UndoFits(r)
        /\ servers \in Maps /\ call[r].saved \in Maps /\ call[r].snap.servers \in Maps
    BY <1>3 DEF Moves, TypeOK, Frame, SnapshotRecords
  <2> USE DEF UndoFits, Begun, Busy, Place, Carried
  <2>1. CASE Begins(r)
    BY <2>0, <2>1 DEF Begins
  <2>2. CASE BacksUp(r)
    BY <2>0, <2>2 DEF BacksUp, Frames
  <2>3. CASE Applies(r)
    <3>1. DOMAIN servers' = DOMAIN servers \cup DOMAIN call[r].snap.servers
      BY <2>0, <2>3, WithIs DEF Applies
    <3> QED BY <2>0, <2>3, <3>1 DEF Applies, Frames, Recreated
  <2>4. CASE Breaks(r)
    BY <2>0, <2>4 DEF Breaks, Frames
  <2>5. CASE Marks(r)
    BY <2>0, <2>5 DEF Marks, Frames
  <2>6. CASE Fills(r)
    BY <2>0, <2>6 DEF Fills, Frames
  <2>7. CASE GivesUp(r)
    BY <2>0, <2>7 DEF GivesUp, Frames
  <2>8. CASE Undoes(r)
    <3> DEFINE back == Only(call[r].saved, DOMAIN call[r].saved \cap DOMAIN servers)
    <3>1. /\ back \in Maps /\ DOMAIN back = DOMAIN call[r].saved \cap DOMAIN servers
          /\ \A s \in DOMAIN back : back[s] = call[r].saved[s]
      BY <2>0, OnlyIs
    <3>2. servers' = With(servers, back)
      BY <2>8 DEF Undoes
    <3> HIDE DEF back
    <3>3. /\ DOMAIN servers' = DOMAIN servers \cup DOMAIN back
          /\ \A s \in DOMAIN back : servers'[s] = back[s]
      <4>1. servers \in Maps /\ back \in Maps
        BY <2>0, <3>1
      <4>2. /\ DOMAIN With(servers, back) = DOMAIN servers \cup DOMAIN back
            /\ \A s \in DOMAIN back : With(servers, back)[s] = back[s]
        BY <4>1, WithIs
      <4> QED BY <3>2, <4>2
    <3>4. call[r].others = {} =>
              /\ DOMAIN servers' = DOMAIN servers
              /\ \A s \in DOMAIN call[r].found :
                    s \in DOMAIN servers' /\ servers'[s] = call[r].found[s]
      BY <2>0, <2>8, <3>1, <3>3 DEF Undoes
    <3>5. CASE call[r].others = {}
      <4>1. /\ call'[r].pc = "undo_record" /\ call'[r].others = {}
            /\ call'[r].found = call[r].found /\ call'[r].made = call[r].made
            /\ call'[r].saved = call[r].saved /\ call'[r].kept = call[r].kept
            /\ call'[r].given = call[r].given
        BY <2>0, <2>8, <3>5 DEF Undoes, Frames
      <4>2. /\ call[r].saved = call[r].found /\ record' = record
            /\ DOMAIN servers = DOMAIN call[r].found \cup call[r].made
            /\ ~call[r].given => record = call[r].kept
        BY <2>0, <2>8, <3>5 DEF Undoes
      <4>3. Agrees(call[r].found)'
        BY <3>4, <3>5, <4>1 DEF Agrees
      <4> QED BY <3>4, <3>5, <4>1, <4>2, <4>3
    <3>6. CASE call[r].others # {}
      BY <2>0, <2>8, <3>6 DEF Undoes, Frames
    <3> QED BY <3>5, <3>6
  <2>9. CASE Ends(r)
    BY <2>0, <2>9 DEF Ends, Frames, Agrees
  <2> QED BY <1>3, <2>1, <2>2, <2>3, <2>4, <2>5, <2>6, <2>7, <2>8, <2>9 DEF Moves
<1>4. CASE Disturbs
  BY <1>2, <1>4 DEF Disturbs
<1>5. ASSUME NEW r \in Restorers, Moves(r) PROVE \A q \in Restorers : UndoFits(q)'
  BY <1>2, <1>3, <1>5 DEF Moves, Frames
<1> QED BY <1>1, <1>4, <1>5, StepsAre

\* Restores at the same time: the last of them to have applied its snapshot shows.
LEMMA WholeNext ==
    ASSUME TypeOK, EngineFits, RivalsFit, \A r \in Restorers : WholeFits(r), [Next]_vars
    PROVE  \A r \in Restorers : WholeFits(r)'
<1>1. CASE Aside
  <2> SUFFICES ASSUME NEW r \in Restorers PROVE WholeFits(r)'
    OBVIOUS
  <2>1. WholeFits(r) /\ UNCHANGED call
    BY <1>1 DEF Aside
  <2>2. CASE UNCHANGED servers
    BY <2>1, <2>2 DEF WholeFits, Same, Agrees
  <2>3. CASE Begun(r) => "world" \in call[r].others
    BY <2>1, <2>3, SnapshotAssumption DEF WholeFits, Begun
  <2> QED BY <1>1, <2>2, <2>3 DEF Aside
<1>2. CASE Disturbs
  <2> SUFFICES ASSUME NEW r \in Restorers PROVE WholeFits(r)'
    OBVIOUS
  <2>1. call'[r].pc = call[r].pc /\ (Begun(r) => "world" \in call'[r].others)
    BY <1>2 DEF Disturbs, Beside
  <2> QED BY <2>1, SnapshotAssumption DEF WholeFits, Begun
<1>3. ASSUME NEW r \in Restorers, Moves(r) PROVE \A q \in Restorers : WholeFits(q)'
  <2>0. /\ servers \in Maps /\ call[r].snap.servers \in Maps /\ Frames(r)
    BY <1>3 DEF Moves, TypeOK, Frame, SnapshotRecords
  <2>1. ASSUME NEW x \in Restorers \ {r}, Begun(x),
               call'[x].pc \notin {"undo", "undo_record", "failed"}
        PROVE  call'[x].pc = call[x].pc /\ call'[x].snap.servers = call[x].snap.servers
    BY <2>0, <2>1, SnapshotAssumption DEF Frames, Beside, Begun, Busy
  <2>2. CASE Applies(r)
    <3>1. /\ servers' = With(servers, call[r].snap.servers)
          /\ call'[r].snap.servers = call[r].snap.servers
      BY <2>2 DEF Applies
    <3>2. Agrees(call[r].snap.servers)'
      <4> DEFINE map == call[r].snap.servers
      <4>1. servers \in Maps /\ map \in Maps
        BY <2>0
      <4> HIDE DEF map
      <4>2. /\ DOMAIN With(servers, map) = DOMAIN servers \cup DOMAIN map
            /\ \A s \in DOMAIN map : With(servers, map)[s] = map[s]
        BY <4>1, WithIs
      <4>3. servers' = With(servers, map) /\ map' = map
        BY <3>1 DEF map
      <4>4. Agrees(map)'
        BY <4>2, <4>3 DEF Agrees
      <4> QED BY <4>4 DEF map
    <3>3. \A q \in Restorers : WholeFits(q)' \/ q = r \/ r \in call'[q].others
      <4> SUFFICES ASSUME NEW q \in Restorers, q # r, r \notin call'[q].others
                   PROVE  WholeFits(q)'
        OBVIOUS
      <4>1. Beside(q, r, call'[q])
        BY <2>0 DEF Frames
      <4>2. ~(call'[q].pc \in {"mark", "fill", "restored"} /\ call'[q].others \subseteq Restorers)
        BY <4>1, SnapshotAssumption DEF Beside, Begun
      <4> QED BY <4>2 DEF WholeFits
    <3>4. \A q \in Restorers : q = r \/ r \in call'[q].others =>
              \E x \in call'[q].others \cup {q} : Agrees(call[x].snap.servers)' 
      BY <3>1, <3>2 DEF Agrees
    <3> QED BY <3>3, <3>4 DEF WholeFits
  <2>3. CASE BacksUp(r) \/ Marks(r) \/ Fills(r)
    <3>1. /\ UNCHANGED servers /\ call'[r].snap.servers = call[r].snap.servers
          /\ Begun(r) /\ call[r].pc \notin {"undo", "undo_record", "failed"}
          /\ call'[r].pc # "failed"
          /\ call'[r].pc \in {"mark", "fill", "restored"} =>
                call[r].pc \in {"mark", "fill", "restored"}
      BY <2>3 DEF BacksUp, Marks, Fills, Carried, Place, Begun
    <3> SUFFICES ASSUME NEW q \in Restorers,
                        call'[q].pc \in {"mark", "fill", "restored"},
                        call'[q].others \subseteq Restorers,
                        \A x \in call'[q].others : Same(x, q)'
                 PROVE  \E x \in call'[q].others \cup {q} : Agrees(call[x].snap.servers)'
      BY DEF WholeFits
    <3>2. call[q].others \subseteq call'[q].others
      <4>1. CASE q = r
        BY <2>0, <3>1, <4>1 DEF Frames, Begun
      <4>2. CASE q # r
        <5>1. Beside(q, r, call'[q])
          BY <2>0, <4>2 DEF Frames
        <5> QED BY <5>1, SnapshotAssumption DEF Beside, Begun
      <4> QED BY <4>1, <4>2
    <3>3. \A x \in call[q].others \cup {q} :
              /\ x \in Restorers
              /\ call[x].pc \notin {"undo", "undo_record", "failed"}
              /\ call'[x].snap.servers = call[x].snap.servers
      <4> SUFFICES ASSUME NEW x \in call[q].others \cup {q}
                   PROVE  /\ x \in Restorers
                          /\ call[x].pc \notin {"undo", "undo_record", "failed"}
                          /\ call'[x].snap.servers = call[x].snap.servers
        OBVIOUS
      <4>1. x \in Restorers /\ call'[x].pc \notin {"undo", "undo_record", "failed"}
        BY <3>2 DEF Same
      <4>2. CASE x = r
        BY <3>1, <4>2
      <4>3. CASE x # r
        <5>1. Begun(x)
          <6>1. CASE x = q
            <7>1. call'[q].pc = call[q].pc
              BY <2>0, <4>3, <6>1 DEF Frames, Beside
            <7> QED BY <6>1, <7>1 DEF Begun
          <6>2. CASE x # q
            BY <4>1, <6>2 DEF RivalsFit
          <6> QED BY <6>1, <6>2
        <5> QED BY <2>1, <4>1, <4>3, <5>1
      <4> QED BY <4>2, <4>3
    <3>4. call[q].pc \in {"mark", "fill", "restored"}
      <4>1. CASE q = r
        BY <3>1, <4>1
      <4>2. CASE q # r
        BY <2>0, <4>2 DEF Frames, Beside
      <4> QED BY <4>1, <4>2
    <3>5. \A x \in call[q].others : Same(x, q)
      BY <3>2, <3>3 DEF Same
    <3>6. PICK x \in call[q].others \cup {q} : Agrees(call[x].snap.servers)
      BY <3>2, <3>4, <3>5 DEF WholeFits
    <3> QED BY <3>1, <3>2, <3>3, <3>6 DEF Agrees
  <2>4. CASE Breaks(r) \/ GivesUp(r) \/ Undoes(r) \/ Ends(r) \/ Begins(r)
    <3> SUFFICES ASSUME NEW q \in Restorers,
                        call'[q].pc \in {"mark", "fill", "restored"},
                        call'[q].others \subseteq Restorers,
                        \A x \in call'[q].others : Same(x, q)'
                 PROVE  \E x \in call'[q].others \cup {q} : Agrees(call[x].snap.servers)'
      BY DEF WholeFits
    <3>1. q # r
      BY <2>4 DEF Breaks, GivesUp, Undoes, Ends, Begins, Place
    <3>2. Beside(q, r, call'[q])
      BY <2>0, <3>1 DEF Frames
    <3>3. call'[q].others = call[q].others \cup {r} /\ call[q].pc = call'[q].pc
      BY <3>2, SnapshotAssumption DEF Beside, Begun
    <3>4. Begins(r) /\ ~Begun(r)
      BY <2>4, <3>3 DEF Breaks, GivesUp, Undoes, Ends, Begins, Place, Same, Begun
    <3>5. r \notin call[q].others
      BY <3>4 DEF RivalsFit
    <3>6. \A x \in call[q].others \cup {q} :
              /\ call[x].pc \notin {"undo", "undo_record", "failed"}
              /\ call'[x].snap.servers = call[x].snap.servers
      <4> SUFFICES ASSUME NEW x \in call[q].others \cup {q}
                   PROVE  /\ call[x].pc \notin {"undo", "undo_record", "failed"}
                          /\ call'[x].snap.servers = call[x].snap.servers
        OBVIOUS
      <4>1. /\ x \in Restorers \ {r}
            /\ call'[x].pc \notin {"undo", "undo_record", "failed"}
        BY <3>1, <3>3, <3>5 DEF Same
      <4>2. Begun(x)
        BY <3>3, <4>1 DEF RivalsFit, Begun
      <4> QED BY <2>1, <4>1, <4>2
    <3>7. \A x \in call[q].others : Same(x, q)
      BY <3>3, <3>6 DEF Same
    <3>8. PICK x \in call[q].others \cup {q} : Agrees(call[x].snap.servers)
      BY <3>3, <3>7 DEF WholeFits
    <3>9. UNCHANGED servers
      BY <3>4 DEF Begins
    <3> QED BY <3>3, <3>6, <3>8, <3>9 DEF Agrees
  <2> QED BY <1>3, <2>2, <2>3, <2>4 DEF Moves
<1> QED BY <1>1, <1>2, <1>3, StepsAre

-----------------------------------------------------------------------------
(***************************************************************************)
(* The servers and the record.                                             *)
(***************************************************************************)
LEMMA UpdateEffect ==
    ASSUME NEW map \in Maps, NEW s \in Servers
    PROVE  LET after == UpdateServerVersion(map, s, Target)
           IN  /\ DOMAIN after = DOMAIN map
               /\ \A u \in DOMAIN map \ {s} : after[u] = map[u]
               /\ s \in DOMAIN map => /\ after[s].prev = map[s].cur
                                      /\ after[s].last = "deploy"
  BY MapIs DEF UpdateServerVersion

\* A server that a rollback brings back is one it brings back again.
LEMMA RollbackEffect ==
    ASSUME NEW map \in Maps, NEW s \in Servers
    PROVE  LET after == RollbackServer(map, s)
           IN  /\ DOMAIN after = DOMAIN map
               /\ \A u \in DOMAIN map \ {s} : after[u] = map[u]
               /\ s \in DOMAIN map /\ Returns(map[s]) =>
                     after[s].cur = InitialVersion /\ Returns(after[s])
<1>1. CASE RollbackReturns(map, s) /\ map[s].last # "rollback"
  <2>1. /\ RollbackServer(map, s) = [map EXCEPT ![s] = Flipped(map[s])]
        /\ s \in DOMAIN map /\ map[s].prev # NoVersion
    BY <1>1 DEF RollbackServer, RollbackReturns
  <2> QED BY <1>1, <2>1, MapIs DEF Flipped, Returns
<1>2. CASE ~(RollbackReturns(map, s) /\ map[s].last # "rollback")
  <2>1. RollbackServer(map, s) = map
    BY <1>2 DEF RollbackServer
  <2>2. s \in DOMAIN map => map[s].prev = NoVersion \/ map[s].last = "rollback"
    BY <1>2 DEF RollbackReturns
  <2> QED BY <2>1, <2>2, ClusterAssumption DEF Returns
<1> QED BY <1>1, <1>2

LEMMA StatusEffect ==
    ASSUME NEW map \in Maps, NEW s \in Servers, NEW st
    PROVE  LET after == UpdateServerStatus(map, s, st)
           IN  /\ DOMAIN after = DOMAIN map
               /\ \A u \in DOMAIN map : Alike(after[u], map[u])
<1>1. CASE s \in DOMAIN map
  <2>1. UpdateServerStatus(map, s, st) = [map EXCEPT ![s] = [map[s] EXCEPT !.status = st]]
    BY <1>1 DEF UpdateServerStatus
  <2>2. map[s] \in StoredServer
    BY <1>1, MapIs
  <2>3. Alike([map[s] EXCEPT !.status = st], map[s])
    BY <2>2 DEF Alike, StoredServer
  <2>4. \A u \in DOMAIN map \ {s} : UpdateServerStatus(map, s, st)[u] = map[u]
    BY <2>1
  <2>5. UpdateServerStatus(map, s, st)[s] = [map[s] EXCEPT !.status = st]
    BY <1>1, <2>1
  <2>6. DOMAIN UpdateServerStatus(map, s, st) = DOMAIN map
    BY <2>1
  <2> QED BY <2>3, <2>4, <2>5, <2>6 DEF Alike
<1>2. CASE s \notin DOMAIN map
  BY <1>2 DEF UpdateServerStatus, Alike
<1> QED BY <1>1, <1>2

LEMMA AlikeIsExact ==
    ASSUME NEW map, NEW other, NEW ids, Exact(map, ids), DOMAIN other \subseteq DOMAIN map,
           \A s \in DOMAIN other : Alike(other[s], map[s])
    PROVE  Exact(other, ids)
  BY DEF Exact, Alike, Returns

LEMMA LoopNext ==
    ASSUME TypeOK, EngineFits, LoopFits, [Next]_vars
    PROVE  LoopFits'
<1>0. servers \in Maps /\ taking.copy \in Maps /\ todo \subseteq Servers
  BY DEF TypeOK, Taker
<1> USE DEF LoopFits, Shows, NotRestoring
<1>1. ASSUME NEW s \in Servers, Install(s) PROVE LoopFits'
  <2>1. /\ loop' = "install" /\ taking'.pc = "idle" /\ todo' = todo \ {s}
        /\ servers' = UpdateServerVersion(servers, s, Target) /\ loop = "install"
    BY <1>1 DEF Install
  <2>2. /\ DOMAIN servers' = DOMAIN servers
        /\ \A u \in DOMAIN servers \ {s} : servers'[u] = servers[u]
    BY <1>0, <2>1, UpdateEffect
  <2> QED BY <2>1, <2>2
<1>2. CASE EndDeploy
  BY <1>2 DEF EndDeploy
<1>3. CASE BeginReversal
  <2>1. record'.updated = record.updated
    BY <1>3 DEF BeginReversal, TypeOK, Records
  <2> QED BY <1>3, <2>1 DEF BeginReversal, EngineAtRest
<1>4. ASSUME NEW s \in Servers, Revert(s) PROVE LoopFits'
  <2>1. taking'.pc = "idle" /\ loop' = "revert" /\ todo' \subseteq todo /\ UNCHANGED record
        /\ loop = "revert"
    BY <1>4 DEF Revert, EngineFits
  <2> QED BY <2>1
<1>5. CASE EndReversal
  BY <1>5 DEF EndReversal, EngineFits
<1>6. CASE TakeBegins
  BY <1>6, EmptyIsMap DEF TakeBegins
<1>7. ASSUME NEW s \in Servers, TakeCopies(s) PROVE LoopFits'
  <2>1. s \in DOMAIN servers /\ taking.pc = "copy"
    BY <1>7 DEF TakeCopies, EngineFits
  <2> DEFINE new == Only(servers, {s})
  <2>2. new \in Maps /\ DOMAIN new = {s} /\ new[s] = servers[s]
    <3>1. {s} \in SUBSET DOMAIN servers
      BY <2>1
    <3> QED BY <1>0, <3>1, OnlyIs
  <2>3. taking'.copy = With(taking.copy, new) /\ UNCHANGED <<servers, record, loop, todo>>
    BY <1>7 DEF TakeCopies, TypeOK, Taker
  <2> HIDE DEF new
  <2>4. /\ DOMAIN With(taking.copy, new) = DOMAIN taking.copy \cup DOMAIN new
        /\ \A u \in DOMAIN new : With(taking.copy, new)[u] = new[u]
        /\ \A u \in DOMAIN taking.copy \ DOMAIN new : With(taking.copy, new)[u] = taking.copy[u]
    <3>1. taking.copy \in Maps
      BY <1>0
    <3> QED BY <2>2, <3>1, WithIs
  <2>5. \A u \in DOMAIN taking'.copy : u \in DOMAIN servers /\ Alike(servers[u], taking'.copy[u])
    BY <2>1, <2>2, <2>3, <2>4 DEF Alike
  <2> QED BY <2>3, <2>5
<1>8. CASE TakeEnds
  BY <1>8 DEF TakeEnds
<1>9. ASSUME NEW r \in Restorers, Restorer(r) PROVE LoopFits'
  <2>1. EngineAtRest /\ UNCHANGED <<loop, todo, taking>>
    BY <1>9, RestorerMoves, RestoresAtRest DEF Moves, Frames
  <2> QED BY <2>1 DEF EngineAtRest
<1>10. ASSUME NEW s \in Servers, NEW st \in Observed, ChangeStatus(s, st) PROVE LoopFits'
  <2>1. servers' = UpdateServerStatus(servers, s, st) /\ UNCHANGED <<loop, todo, taking, record>>
    BY <1>10 DEF ChangeStatus, WorldSteps
  <2>2. DOMAIN servers' = DOMAIN servers /\ \A u \in DOMAIN servers : Alike(servers'[u], servers[u])
    BY <1>0, <2>1, StatusEffect
  <2> QED BY <2>1, <2>2 DEF Alike
<1>11. ASSUME NEW s \in Servers, Delete(s) PROVE LoopFits'
  <2>1. DOMAIN servers' \subseteq DOMAIN servers /\ \A u \in DOMAIN servers' : servers'[u] = servers[u]
    BY <1>11 DEF Delete, Only
  <2> QED BY <1>11, <2>1 DEF Delete, WorldSteps
<1>12. CASE UNCHANGED vars
  BY <1>12 DEF vars
<1> QED BY <1>1, <1>2, <1>3, <1>4, <1>5, <1>6, <1>7, <1>8, <1>9, <1>10, <1>11, <1>12 DEF Next

\* A restore that runs alone.
LEMMA RestoreNext ==
    ASSUME TypeOK, EngineFits, CleanFits, \A r \in Restorers : UndoFits(r),
           NEW r \in Restorers, Moves(r), clean'
    PROVE  /\ Busy(r)' => RestoreFits(r)'
           /\ ~Busy(r)' => Exact(servers, record.updated)'
<1>0. /\ servers \in Maps /\ call[r].saved \in Maps /\ call[r].snap.servers \in Maps
      /\ Frames(r) /\ clean
  BY DEF Moves, Frames, TypeOK, Frame, SnapshotRecords
<1>1. /\ \A snap \in snapshots : Exact(snap.servers, snap.dep.updated)
      /\ NoRestore => Exact(servers, record.updated)
      /\ Busy(r) => RestoreFits(r)
      /\ snapshots' = snapshots
  BY <1>0 DEF CleanFits, Frames
<1>2. call[r].pc \in {"mark", "fill"} => call[r].given
  BY DEF UndoFits
<1> USE DEF Busy, Place, Carried
<1>3. CASE Begins(r)
  <2>1. NoRestore
    BY <1>0, <1>3 DEF NoRestore, Begins, Frames
  <2> QED BY <1>1, <1>3, <2>1 DEF Begins, RestoreFits, Shows, Alike
<1>4. CASE BacksUp(r)
  <2>1. RestoreFits(r)
    BY <1>1, <1>4 DEF BacksUp
  <2>2. Exact(call[r].saved, record.updated)
    <3>1. \A s \in DOMAIN call[r].saved : s \in DOMAIN servers /\ Alike(call[r].saved[s], servers[s])
      BY <1>4, <2>1 DEF BacksUp, RestoreFits, Shows, Alike
    <3> QED BY <1>4, <2>1, <3>1, AlikeIsExact DEF BacksUp, RestoreFits
  <2> QED BY <1>1, <1>4, <2>1, <2>2 DEF BacksUp, RestoreFits, Shows
<1>5. CASE Applies(r)
  <2>1. RestoreFits(r) /\ call[r].pc = "apply"
    BY <1>1, <1>5 DEF Applies
  <2>2. call[r].given
    BY <1>0, <1>5 DEF Applies, Frames
  <2> DEFINE map == call[r].snap.servers
  <2>3. /\ DOMAIN With(servers, map) = DOMAIN servers \cup DOMAIN map
        /\ \A s \in DOMAIN map : With(servers, map)[s] = map[s]
    <3>1. servers \in Maps /\ map \in Maps
      BY <1>0
    <3> HIDE DEF map
    <3> QED BY <3>1, WithIs
  <2>4. /\ call'[r].pc = "mark" /\ call'[r].snap = call[r].snap
        /\ call'[r].saved = call[r].saved /\ call'[r].kept = call[r].kept
        /\ call'[r].made = DOMAIN map \ DOMAIN servers
        /\ servers' = With(servers, map)
    BY <1>5, <2>2 DEF Applies, Recreated
  <2>5. DOMAIN servers' = DOMAIN call'[r].saved \cup call'[r].made
    BY <2>1, <2>3, <2>4 DEF RestoreFits
  <2>6. Shows(call[r].snap.servers)'
    BY <2>3, <2>4 DEF Shows, Alike
  <2> QED BY <1>1, <2>1, <2>4, <2>5, <2>6 DEF RestoreFits
<1>6. CASE Breaks(r)
  <2>1. RestoreFits(r)
    BY <1>1, <1>6 DEF Breaks
  <2>2. DOMAIN servers' = DOMAIN call'[r].saved \cup call'[r].made
    BY <1>6, <2>1 DEF Breaks, RestoreFits
  <2> QED BY <1>1, <1>6, <2>1, <2>2 DEF Breaks, RestoreFits
<1>7. CASE Marks(r)
  <2>1. RestoreFits(r)
    BY <1>1, <1>7 DEF Marks
  <2> QED BY <1>1, <1>7, <2>1 DEF Marks, RestoreFits, Shows
<1>8. CASE Fills(r)
  <2>1. RestoreFits(r) /\ DOMAIN servers \subseteq DOMAIN call[r].snap.servers
    BY <1>0, <1>1, <1>8 DEF Fills, Frames
  <2>2. Exact(call[r].snap.servers, call[r].snap.dep.updated)
    BY <1>1, <2>1 DEF RestoreFits
  <2>3. \A s \in DOMAIN servers : Alike(servers[s], call[r].snap.servers[s])
    BY <1>8, <2>1 DEF Fills, RestoreFits, Shows
  <2>4. Exact(servers, call[r].snap.dep.updated)
    BY <2>1, <2>2, <2>3, AlikeIsExact
  <2> QED BY <1>8, <2>4 DEF Fills
<1>9. CASE GivesUp(r)
  <2>1. RestoreFits(r) /\ call[r].given
    BY <1>1, <1>2, <1>9 DEF GivesUp
  <2> QED BY <1>1, <1>9, <2>1 DEF GivesUp, RestoreFits
<1>10. CASE Undoes(r)
  <2>1. RestoreFits(r)
    BY <1>1, <1>10 DEF Undoes
  <2> DEFINE back == Only(call[r].saved, DOMAIN call[r].saved \cap DOMAIN servers)
  <2>2. /\ back \in Maps /\ DOMAIN back = DOMAIN call[r].saved
        /\ \A s \in DOMAIN back : back[s] = call[r].saved[s]
    <3>1. DOMAIN call[r].saved \cap DOMAIN servers = DOMAIN call[r].saved
      BY <2>1 DEF RestoreFits
    <3>2. /\ back \in Maps /\ DOMAIN back = DOMAIN call[r].saved \cap DOMAIN servers
          /\ \A s \in DOMAIN back : back[s] = call[r].saved[s]
      BY <1>0, OnlyIs
    <3> HIDE DEF back
    <3> QED BY <3>1, <3>2
  <2>3. servers' = With(servers, back)
    BY <1>10 DEF Undoes
  <2> HIDE DEF back
  <2>4. /\ DOMAIN With(servers, back) = DOMAIN servers \cup DOMAIN back
        /\ \A s \in DOMAIN back : With(servers, back)[s] = back[s]
    <3>1. servers \in Maps
      BY <1>0
    <3> QED BY <2>2, <3>1, WithIs
  <2>5. /\ DOMAIN servers' = DOMAIN servers
        /\ \A s \in DOMAIN call[r].saved : s \in DOMAIN servers' /\ servers'[s] = call[r].saved[s]
    BY <2>1, <2>2, <2>3, <2>4 DEF RestoreFits
  <2>6. /\ call'[r].pc = "undo_record" /\ call'[r].snap = call[r].snap
        /\ call'[r].saved = call[r].saved /\ call'[r].kept = call[r].kept
        /\ call'[r].made = call[r].made /\ call'[r].given = call[r].given
        /\ record' = record
    BY <1>10 DEF Undoes
  <2>7. Shows(call[r].saved)'
    BY <2>5, <2>6 DEF Shows, Alike
  <2> QED BY <1>1, <1>10, <2>1, <2>5, <2>6, <2>7 DEF Undoes, RestoreFits
<1>11. CASE Ends(r)
  <2>1. RestoreFits(r) /\ call[r].made = {} /\ call[r].pc = "undo_record"
    BY <1>0, <1>1, <1>11 DEF Ends, Frames
  <2>2. /\ Exact(call[r].saved, call[r].kept.updated)
        /\ DOMAIN servers = DOMAIN call[r].saved
        /\ \A s \in DOMAIN servers : Alike(servers[s], call[r].saved[s])
    BY <2>1 DEF RestoreFits, Shows
  <2>3. Exact(servers, call[r].kept.updated)
    BY <2>2, AlikeIsExact
  <2>4. record'.updated = call[r].kept.updated /\ UNCHANGED servers
    BY <1>11, <2>1 DEF Ends, RestoreFits
  <2> QED BY <1>11, <2>3, <2>4 DEF Ends
<1> QED BY <1>3, <1>4, <1>5, <1>6, <1>7, <1>8, <1>9, <1>10, <1>11 DEF Moves

LEMMA CleanNext ==
    ASSUME TypeOK, EngineFits, CleanFits, LoopFits, \A r \in Restorers : UndoFits(r),
           [Next]_vars
    PROVE  CleanFits'
<1>0. /\ servers \in Maps /\ record \in Records /\ taking.copy \in Maps
      /\ \A r \in Restorers : Busy(r) => EngineAtRest
  BY DEF TypeOK, Taker, EngineFits
<1> USE DEF NotRestoring
<1>11. ~EngineAtRest => NoRestore
  BY <1>0 DEF NoRestore
<1>1. ASSUME NEW s \in Servers, Install(s) PROVE CleanFits'
  <2>1. /\ UNCHANGED <<call, clean, snapshots>> /\ NoRestore
        /\ servers' = UpdateServerVersion(servers, s, Target)
        /\ s \in todo /\ loop = "install"
        /\ record' = IF s \in DOMAIN servers THEN [record EXCEPT !.updated = @ \cup {s}]
                     ELSE record
    BY <1>1, <1>11 DEF Install, EngineAtRest
  <2>2. /\ DOMAIN servers' = DOMAIN servers
        /\ \A u \in DOMAIN servers \ {s} : servers'[u] = servers[u]
        /\ s \in DOMAIN servers => /\ servers'[s].prev = servers[s].cur
                                   /\ servers'[s].last = "deploy"
                                   /\ servers[s].cur = InitialVersion
    BY <1>0, <2>1, UpdateEffect DEF LoopFits
  <2>3. /\ s \in DOMAIN servers => record'.updated = record.updated \cup {s}
        /\ s \notin DOMAIN servers => record'.updated = record.updated
    BY <1>0, <2>1 DEF Records
  <2>4. clean => Exact(servers, record.updated)'
    BY <2>1, <2>2, <2>3 DEF CleanFits, Exact, Returns
  <2> QED BY <2>1, <2>4 DEF CleanFits, NoRestore, Busy
<1>2. CASE EndDeploy \/ TakeBegins \/ \E s \in Servers : TakeCopies(s)
  <2>1. UNCHANGED <<call, clean, snapshots, servers, record>>
    BY <1>2 DEF EndDeploy, TakeBegins, TakeCopies
  <2> QED BY <2>1 DEF CleanFits, NoRestore, Busy, RestoreFits, Shows
<1>3. CASE BeginReversal
  <2>1. /\ NoRestore /\ UNCHANGED <<servers, snapshots, clean>>
        /\ record'.updated = record.updated
    BY <1>0, <1>3 DEF BeginReversal, Records
  <2>2. \A q \in Restorers : call'[q].pc = call[q].pc
    BY <1>3, WorldMoves DEF BeginReversal, Beside
  <2> QED BY <2>1, <2>2 DEF CleanFits, NoRestore, Busy
<1>4. ASSUME NEW s \in Servers, Revert(s) PROVE CleanFits'
  <2>1. /\ UNCHANGED <<call, clean, snapshots, record>> /\ NoRestore
        /\ servers' = RollbackServer(servers, s) /\ s \in record.updated
    BY <1>4, <1>11 DEF Revert, EngineAtRest, LoopFits
  <2>2. /\ DOMAIN servers' = DOMAIN servers
        /\ \A u \in DOMAIN servers \ {s} : servers'[u] = servers[u]
        /\ s \in DOMAIN servers /\ Returns(servers[s]) => Returns(servers'[s])
    BY <1>0, <2>1, RollbackEffect
  <2>3. clean => Exact(servers, record.updated)'
    BY <2>1, <2>2 DEF CleanFits, Exact
  <2> QED BY <2>1, <2>3 DEF CleanFits, NoRestore, Busy
<1>5. CASE EndReversal
  <2>1. /\ UNCHANGED <<call, clean, snapshots, servers>> /\ NoRestore
        /\ record'.updated = record.updated
    BY <1>0, <1>5, <1>11 DEF EndReversal, EngineAtRest, Records
  <2> QED BY <2>1 DEF CleanFits, NoRestore, Busy
<1>6. CASE TakeEnds
  <2>1. /\ UNCHANGED <<call, clean, servers, record>> /\ NoRestore
        /\ taking.pc = "copy" /\ taking.left = {}
        /\ snapshots' = snapshots \cup {[servers |-> taking.copy, dep |-> record]}
    BY <1>6, <1>11 DEF TakeEnds, EngineAtRest
  <2>2. \A s \in DOMAIN taking.copy : s \in DOMAIN servers /\ Alike(taking.copy[s], servers[s])
    BY <2>1 DEF LoopFits, Shows, Alike
  <2>3. clean => Exact(taking.copy, record.updated)
    BY <2>1, <2>2, AlikeIsExact DEF CleanFits
  <2> QED BY <2>1, <2>3 DEF CleanFits, NoRestore, Busy
<1>7. ASSUME NEW r \in Restorers, Restorer(r) PROVE CleanFits'
  <2> SUFFICES ASSUME clean' PROVE CleanFits'
    BY DEF CleanFits
  <2>1. Moves(r)
    BY <1>7, RestorerMoves
  <2>2. /\ clean /\ snapshots' = snapshots
        /\ \A q \in Restorers \ {r} : ~Busy(q) /\ call'[q].pc = call[q].pc
    BY <2>1 DEF Moves, Frames, Beside
  <2>3. /\ Busy(r)' => RestoreFits(r)'
        /\ ~Busy(r)' => Exact(servers, record.updated)'
    BY <2>1, RestoreNext
  <2>4. \A q \in Restorers : Busy(q)' => q = r
    BY <2>2 DEF Busy
  <2>5. NoRestore' => ~Busy(r)'
    BY DEF NoRestore
  <2> QED BY <2>2, <2>3, <2>4, <2>5 DEF CleanFits
<1>8. ASSUME NEW s \in Servers, NEW st \in Observed, ChangeStatus(s, st) PROVE CleanFits'
  <2>1. /\ servers' = UpdateServerStatus(servers, s, st)
        /\ UNCHANGED <<record, snapshots, clean>>
        /\ \A q \in Restorers : Beside(q, "world", call'[q])
    BY <1>8, WorldMoves DEF ChangeStatus, WorldSteps
  <2>2. DOMAIN servers' = DOMAIN servers /\ \A u \in DOMAIN servers : Alike(servers'[u], servers[u])
    BY <1>0, <2>1, StatusEffect
  <2>3. \A ids : Exact(servers, ids) => Exact(servers', ids)
    BY <2>2, AlikeIsExact
  <2>4. \A map : Shows(map) => \A u \in DOMAIN map : u \in DOMAIN servers' /\ Alike(servers'[u], map[u])
    BY <2>2 DEF Shows, Alike
  <2>5. \A q \in Restorers : Busy(q)' => Busy(q) /\ (RestoreFits(q) => RestoreFits(q)')
    <3> SUFFICES ASSUME NEW q \in Restorers, Busy(q)'
                 PROVE  Busy(q) /\ (RestoreFits(q) => RestoreFits(q)')
      OBVIOUS
    <3>1. Busy(q)
      BY <2>1 DEF Beside, Busy
    <3>2. /\ call'[q].pc = call[q].pc
          /\ call'[q].snap = call[q].snap /\ call'[q].given = call[q].given
          /\ call'[q].saved = call[q].saved /\ call'[q].kept = call[q].kept
          /\ call'[q].made = call[q].made
      BY <2>1, <3>1 DEF Beside
    <3> HIDE DEF Exact
    <3> QED BY <2>1, <2>2, <2>3, <2>4, <3>1, <3>2 DEF RestoreFits, Shows
  <2>6. NoRestore' => NoRestore
    BY <2>1 DEF NoRestore, Beside, Busy
  <2> QED BY <2>1, <2>3, <2>5, <2>6 DEF CleanFits
<1>9. ASSUME NEW s \in Servers, Delete(s) PROVE CleanFits'
  <2>1. /\ DOMAIN servers' \subseteq DOMAIN servers
        /\ \A u \in DOMAIN servers' : Alike(servers'[u], servers[u])
        /\ NoRestore /\ UNCHANGED <<record, snapshots, clean>>
        /\ \A q \in Restorers : call'[q].pc = call[q].pc
    BY <1>9, WorldMoves DEF Delete, WorldSteps, Only, Alike, Beside
  <2>2. clean => Exact(servers, record.updated)'
    BY <2>1, AlikeIsExact DEF CleanFits
  <2> QED BY <2>1, <2>2 DEF CleanFits, NoRestore, Busy
<1>10. CASE UNCHANGED vars
  BY <1>10 DEF vars, CleanFits, NoRestore, Busy, RestoreFits, Shows
<1> QED BY <1>1, <1>2, <1>3, <1>4, <1>5, <1>6, <1>7, <1>8, <1>9, <1>10 DEF Next

-----------------------------------------------------------------------------
(***************************************************************************)
(* The theorems.                                                           *)
(***************************************************************************)
LEMMA SnapshotInit == Init => SnapshotInvariant
<1> SUFFICES ASSUME Init PROVE SnapshotInvariant
  OBVIOUS
<1>1. \A r \in Restorers : call[r].pc = "idle" /\ call[r].others = {}
  BY DEF Init, Uncalled
<1>2. /\ snapshots = {} /\ taking.pc = "idle" /\ loop = "install"
      /\ \A s \in DOMAIN servers : servers[s].cur = InitialVersion
      /\ record.updated = {}
  BY DEF Init, GeneratedCluster, NoRecord
<1>3. RivalsFit /\ \A r \in Restorers : UndoFits(r) /\ WholeFits(r)
  BY <1>1 DEF RivalsFit, UndoFits, WholeFits, Begun
<1>4. CleanFits /\ LoopFits
  BY <1>1, <1>2 DEF CleanFits, LoopFits, Exact, Busy
<1> QED BY <1>3, <1>4 DEF SnapshotInvariant

\* Every variable keeps its type, whatever is restored and however it fails.
THEOREM TypeCorrect == Spec => []TypeOK
<1>1. Init => TypeOK /\ EngineFits
  BY TypeInit
<1>2. TypeOK /\ EngineFits /\ [Next]_vars => (TypeOK /\ EngineFits)'
  BY TypeNext
<1> QED BY <1>1, <1>2, PTL DEF Spec

\* The inductive invariant holds throughout: what restores, snapshots in the making
\* and reversals rely on is there whenever they do.
THEOREM InvariantHolds == Spec => [](TypeOK /\ EngineFits /\ SnapshotInvariant)
<1>1. Init => TypeOK /\ EngineFits /\ SnapshotInvariant
  BY TypeInit, SnapshotInit
<1>2. TypeOK /\ EngineFits /\ SnapshotInvariant /\ [Next]_vars
        => (TypeOK /\ EngineFits /\ SnapshotInvariant)'
  BY TypeNext, RivalsNext, UndoNext, WholeNext, CleanNext, LoopNext DEF SnapshotInvariant
<1> QED BY <1>1, <1>2, PTL DEF Spec

\* restore_snapshot's error path: a restore that fails undisturbed leaves the servers
\* and the deployment it found, and besides them at most servers it created again.
THEOREM FailuresAreUndone == Spec => []FailedRestoreUndone
<1>1. SnapshotInvariant => FailedRestoreUndone
  BY DEF SnapshotInvariant, UndoFits, FailedRestoreUndone, Begun
<1> QED BY <1>1, InvariantHolds, PTL

\* Any number of restores at once, of snapshots of the same servers: after one that
\* nothing else overlapped, the cluster is one of their snapshots and no mixture.
THEOREM RestoresDoNotMix == Spec => []WholeSnapshots
<1>1. SnapshotInvariant => WholeSnapshots
  <2> SUFFICES ASSUME SnapshotInvariant, NEW r \in Restorers,
                      call[r].pc = "restored",
                      call[r].others \cap Restorers = call[r].others,
                      \A q \in call[r].others \cap Restorers : Same(q, r)
               PROVE  \E q \in (call[r].others \cap Restorers) \cup {r} :
                          Agrees(call[q].snap.servers)
    BY DEF WholeSnapshots, Same
  <2> QED BY DEF SnapshotInvariant, WholeFits
<1> QED BY <1>1, InvariantHolds, PTL

\* However often the deployment is snapshotted, reversed and restored as a whole, or a
\* restore of it fails, a rollback of servers_updated brings back the first version.
THEOREM RollbacksStayExact == Spec => []RollbackStaysExact
<1>1. TypeOK /\ SnapshotInvariant => RollbackStaysExact
  <2> SUFFICES ASSUME TypeOK, SnapshotInvariant, clean, NoRestore,
                      NEW s \in DOMAIN servers
               PROVE  IF s \in record.updated
                      THEN RollbackServer(servers, s)[s].cur = InitialVersion
                      ELSE servers[s].cur = InitialVersion
    BY DEF RollbackStaysExact
  <2>1. servers \in Maps /\ s \in Servers
    BY MapIs DEF TypeOK
  <2>2. Exact(servers, record.updated)
    BY DEF SnapshotInvariant, CleanFits
  <2> QED BY <2>1, <2>2, RollbackEffect DEF Exact
<1> QED BY <1>1, InvariantHolds, PTL

=============================================================================
