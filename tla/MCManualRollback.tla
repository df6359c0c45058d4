-------------------------- MODULE MCManualRollback --------------------------
(***************************************************************************)
(* Small instances of ManualRollback for TLC: two or three servers and an  *)
(* id the cluster does not have, three versions (before, target, drifted). *)
(***************************************************************************)
EXTENDS ManualRollback, TLC

CONSTANTS s1, s2, s3, ghost, c1, c2, e1, v1, v2, v3

MCTwoServers == {s1, s2}
MCThreeServers == {s1, s2, s3}
MCMissing == {ghost}
MCVersions == {v1, v2, v3}
MCOneCaller == {c1}
MCTwoCallers == {c1, c2}
MCNobody == {}
MCEngine == {e1}
MCEither == BOOLEAN
MCUnforced == {FALSE}

\* While the cluster may be mixed, v1 and v3 are but two versions other than the target.
MCSymmetry == Permutations({s1, s2}) \cup Permutations({c1, c2}) \cup Permutations({v1, v3})

=============================================================================
