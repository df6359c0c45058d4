-------------------------- MODULE MCHealthAnalysis --------------------------
(***************************************************************************)
(* A small instance of HealthAnalysis for TLC: three servers, two of them  *)
(* in one region, under the default limits (10, 0 and 10 %) and generous   *)
(* ones.  With a threshold of 50 a region of two is at it with one server. *)
(* Chaos strikes one (40 %, rounded up) or both (100 %) of two candidates, *)
(* one of each region.                                                     *)
(***************************************************************************)
EXTENDS HealthAnalysis, TLC

CONSTANTS r1, r2

MCServers == 1..3
MCRegions == {r1, r2}
MCRegionOf == <<r1, r1, r2>>
Percentages(d, f, u) == [degraded |-> d, failed |-> f, unhealthy |-> u]
MCLimits == {Percentages(10, 0, 10), Percentages(34, 34, 67)}
MCOperatorThresholds == {50}
MCCandidateSets == {{2, 3}}
MCRates == {40, 100}
MCObserved == {"healthy", "failed"}

=============================================================================
