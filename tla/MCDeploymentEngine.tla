-------------------------- MODULE MCDeploymentEngine --------------------------
(***************************************************************************)
(* Small instances of DeploymentEngine for TLC: three servers in two       *)
(* regions, so that a region can be isolated, or exhausted, alone.         *)
(***************************************************************************)
EXTENDS EngineClaims, EngineInvariant, TLC

CONSTANTS s1, s2, s3, r1, r2, v1, v2

MCServers == {s1, s2, s3}
MCRegions == {r1, r2}
MCRegionOf == (s1 :> r1) @@ (s2 :> r1) @@ (s3 :> r2)
MCVersions == {v1, v2}

\* Targets of 1, 2 and 3 servers.
MCThreeStages == <<30, 60, 100>>

\* Targets of 1, 3 and 3 servers: the last stage finds its target reached.
MCLastStageReached == <<30, 70, 100>>

\* Targets of 2 and 3 servers.
MCTwoStages == <<50, 100>>

\* A configured abort event, and none.
MCListening == {TRUE}
MCDeaf == {FALSE}

\* s1 and s2 are in one region and in the same state initially.
MCSymmetry == Permutations({s1, s2})

===============================================================================
