---------------------------- MODULE MCRunLifecycle ----------------------------
(* Small instances of the run lifecycle. *)
EXTENDS RunLifecycle, TLC

CONSTANTS r1, r2, c1, c2, ipA

MCOneRun == {r1}
MCTwoRuns == {r1, r2}
MCOneConn == {c1}
MCTwoConns == {c1, c2}
MCNoIPs == {}
MCOneIP == {ipA}

MCSymmetry == Permutations(MCTwoRuns) \cup Permutations(MCTwoConns)
=============================================================================
