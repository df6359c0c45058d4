----------------------------- MODULE MCSnapshots -----------------------------
(***************************************************************************)
(* The instance of Snapshots for TLC: two servers, either of which may be  *)
(* missing from the cluster or a snapshot, and two versions.               *)
(***************************************************************************)
EXTENDS Snapshots, TLC

CONSTANTS s1, s2, r1, r2, v1, v2

MCServers == {s1, s2}
MCVersions == {v1, v2}
MCObserved == {"degraded"}
MCRestorers == {r1, r2}

\* Servers are interchangeable, and so are the threads that restore.
MCSymmetry == Permutations(MCServers) \cup Permutations(MCRestorers)

=============================================================================
