--------------------------- MODULE MCRecoveryPlans ---------------------------
(***************************************************************************)
(* A small instance of RecoveryPlans for TLC: three servers, so that a     *)
(* batch is followed by a shorter one, in two regions, and two plans.      *)
(***************************************************************************)
EXTENDS RecoveryPlans, TLC

CONSTANTS s1, s2, s3, r1, r2, p1, p2, v1, v2

MCServers == {s1, s2, s3}
MCRegions == {r1, r2}
MCRegionOf == (s1 :> r1) @@ (s2 :> r1) @@ (s3 :> r2)
MCVersions == {v1, v2}
MCPlans == {p1, p2}
MCEnds == {"aborted"}
MCObserved == {"failed"}
MCSymmetry == Permutations({s1, s2}) \cup Permutations(MCPlans)

=============================================================================
