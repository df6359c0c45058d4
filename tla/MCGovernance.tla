----------------------------- MODULE MCGovernance -----------------------------
(***************************************************************************)
(* Small instances of Governance for TLC: one engine thread, deploying     *)
(* again and again, and two servers with zero tolerance, one of them in a  *)
(* critical region; or two engine threads on one server, whose checkpoints *)
(* interleave; always the coordinator's own list of policies.              *)
(***************************************************************************)
EXTENDS Governance, TLC

CONSTANTS s1, s2, t1, t2

MCServers == {s1, s2}
MCCritical == {s1}
MCThreads == {t1}

MCOneServer == {s1}
MCNoServer == {}
MCTwoThreads == {t1, t2}
MCSymmetry == Permutations(MCTwoThreads)

\* GovernanceCoordinator.__init__, with a quarantine system.
MCPolicies ==
    <<"RollbackPolicy", "HealthPolicy", "ApprovalPolicy", "AbortPolicy", "RiskPolicy",
      "UnsafeRecoveryPreventionPolicy", "RecoveryRetryCeilingPolicy",
      "RollbackStormPreventionPolicy", "QuarantineEscalationPolicy">>

===============================================================================
