----------------------------- MODULE MCRunLimiter -----------------------------
(* The run limiter on its own, with two clients and a clock of half seconds. *)
EXTENDS RunLimiter, TLC

CONSTANTS ipA, ipB

MCIPs == {ipA, ipB}
MCSymmetry == Permutations(MCIPs)
=============================================================================
