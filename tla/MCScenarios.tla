------------------------------ MODULE MCScenarios ------------------------------
(***************************************************************************)
(* Instance for TLC of the scenarios that probe: their calls (probes),     *)
(* their offline cores, the live log halves and the DNS trap of S33.       *)
(* These share no state, so a behaviour exercises one of them and leaves   *)
(* the others at rest.                                                     *)
(***************************************************************************)
EXTENDS ScenarioRuns, OfflineCores, TransparencyLog, AnchorTrap

\* An honest log that grows under a run and the probe, a log rewritten under two
\* runs, and both with a key that changes under one.
MCMixes == {[runs |-> {"s29", "probe"}, others |-> 1, faults |-> 0],
            [runs |-> {"s29", "s31"}, others |-> 0, faults |-> 1],
            [runs |-> {"s29"}, others |-> 1, faults |-> 2]}

VARIABLE part

vars == <<part, probeVars, coreVars, logVars, trapVars>>

Init ==
    /\ part \in {"probes", "cores", "log", "trap"}
    /\ ProbeInit /\ (part # "probes" => scen = "s7" /\ conf = {})
    /\ CoreInit /\ (part # "cores" => suite = "s12" /\ lapses = {} /\ strict = "none")
    /\ LogInit /\ (part # "log" => mix.runs = {"s29"} /\ log = << >>)
    /\ TrapInit /\ (part # "trap" => derefs = {})

Next ==
    /\ \/ part = "probes" /\ ProbeNext /\ UNCHANGED <<coreVars, logVars, trapVars>>
       \/ part = "cores" /\ CoreNext /\ UNCHANGED <<probeVars, logVars, trapVars>>
       \/ part = "log" /\ LogNext /\ UNCHANGED <<probeVars, coreVars, trapVars>>
       \/ part = "trap" /\ TrapNext /\ UNCHANGED <<probeVars, coreVars, logVars>>
    /\ UNCHANGED part

Spec == Init /\ [][Next]_vars
===============================================================================
