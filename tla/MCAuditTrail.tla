----------------------------- MODULE MCAuditTrail -----------------------------
(***************************************************************************)
(* The instance of AuditTrail for TLC: two deployments that share a log,   *)
(* each with an engine and two servers of its own.                         *)
(***************************************************************************)
EXTENDS AuditTrail

CONSTANTS d1, d2, s1, s2

MCDeployments == {d1, d2}
MCServers == {s1, s2}

\* The deployments are interchangeable, and so are the servers.
MCSymmetry == Permutations({d1, d2}) \cup Permutations({s1, s2})

=============================================================================
