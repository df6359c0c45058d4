---------------------------- MODULE ClusterState ----------------------------
(***************************************************************************)
(* The server map of cluster/state.py.  ClusterState holds one lock, and   *)
(* every method takes it for its whole body, so a method is one atomic     *)
(* step: here each is an operator from the map before the call to the map  *)
(* after it.  The modules of the callers (the deployment engine, a manual  *)
(* rollback) own the variable and decide when to apply them.               *)
(*                                                                         *)
(* A server keeps what the callers can tell apart: its two versions, its   *)
(* status, and the action of the last entry of its deployment history (the *)
(* only entry that code reads: rollback_server looks at history[-1]).      *)
(***************************************************************************)
CONSTANTS
    Servers,        \* the ids of the cluster's members
    Versions,       \* version strings
    NoVersion,      \* previous_version is None
    InitialVersion  \* generator.INITIAL_VERSION

ASSUME ClusterAssumption ==
    /\ NoVersion \notin Versions
    /\ InitialVersion \in Versions

ServerStatus == {"healthy", "degraded", "failed", "updating"}

HistoryAction == {"initial_deployment", "deploy", "rollback"}

Server == [cur    : Versions,
           prev   : Versions \cup {NoVersion},
           status : ServerStatus,
           last   : HistoryAction]

\* generate_cluster: every server healthy, on the initial version, with one
\* history entry and no previous version.
GeneratedCluster ==
    [s \in Servers |-> [cur    |-> InitialVersion,
                        prev   |-> NoVersion,
                        status |-> "healthy",
                        last   |-> "initial_deployment"]]

IsUpdatable(server) == server.status \in {"healthy", "degraded"}

IsUnstable(server) == server.status \in {"degraded", "failed"}

(***************************************************************************)
(* The methods.  Each returns False and changes nothing for an unknown id. *)
(***************************************************************************)
UpdateServerStatus(map, id, new) ==
    IF id \in DOMAIN map THEN [map EXCEPT ![id].status = new] ELSE map

UpdateServerVersion(map, id, new) ==
    IF id \in DOMAIN map
    THEN [map EXCEPT ![id] = [cur    |-> new,
                              prev   |-> map[id].cur,
                              status |-> "updating",
                              last   |-> "deploy"]]
    ELSE map

OverrideVersion(map, id, new) ==
    IF id \in DOMAIN map THEN [map EXCEPT ![id].cur = new] ELSE map

\* What rollback_server returns: True also for the no-op on a server whose
\* last action is already a rollback.
RollbackReturns(map, id) == id \in DOMAIN map /\ map[id].prev # NoVersion

Flipped(server) == [cur    |-> server.prev,
                    prev   |-> server.cur,
                    status |-> "healthy",
                    last   |-> "rollback"]

\* Mutant: no look at the last history entry before the two versions swap.
RollbackAlwaysFlips(map, id) ==
    IF RollbackReturns(map, id) THEN [map EXCEPT ![id] = Flipped(map[id])] ELSE map

\* Mutant: the server keeps the status UPDATING that the deploy gave it.
RollbackKeepsStatus(map, id) ==
    IF RollbackReturns(map, id) /\ map[id].last # "rollback"
    THEN [map EXCEPT ![id] = [Flipped(map[id]) EXCEPT !.status = map[id].status]]
    ELSE map

RollbackServer(map, id) ==
    IF RollbackReturns(map, id) /\ map[id].last # "rollback"
    THEN [map EXCEPT ![id] = Flipped(map[id])]
    ELSE map

=============================================================================
