------------------------------- MODULE RunStatus -------------------------------
(***************************************************************************)
(* What the run API promises, without queues, streams, clocks or webhooks: *)
(* the status that GET /runs/{id} reports for a run, and the slots of      *)
(* MAX_CONCURRENT_RUNS.  RunLifecycle implements it.                       *)
(***************************************************************************)
EXTENDS Integers, FiniteSets

CONSTANTS Runs, MaxConcurrent

VARIABLES
    status,  \* "unknown" (404), "running", "complete" or "failed"
    slots    \* the runs that occupy a slot

Final == {"complete", "failed"}

StatusInit ==
    /\ status = [r \in Runs |-> "unknown"]
    /\ slots = {}

\* A run is accepted when a slot is free.
Launch(r) ==
    /\ status[r] = "unknown"
    /\ Cardinality(slots) < MaxConcurrent
    /\ status' = [status EXCEPT ![r] = "running"]
    /\ slots' = slots \cup {r}

\* Its outcome is decided once.
Finish(r) ==
    /\ status[r] = "running"
    /\ \E outcome \in Final : status' = [status EXCEPT ![r] = outcome]
    /\ UNCHANGED slots

\* A slot is given back only by a run that has its outcome.
Vacate(r) ==
    /\ r \in slots
    /\ status[r] \in Final
    /\ slots' = slots \ {r}
    /\ UNCHANGED status

StatusNext == \E r \in Runs : Launch(r) \/ Finish(r) \/ Vacate(r)

StatusSpec == StatusInit /\ [][StatusNext]_<<status, slots>>

\* A run that was accepted ends, and its slot becomes free.
StatusFairness ==
    \A r \in Runs : /\ WF_<<status, slots>>(Finish(r))
                    /\ WF_<<status, slots>>(Vacate(r))

FairStatusSpec == StatusSpec /\ StatusFairness
=============================================================================
