-------------------------------- MODULE Sidecar --------------------------------
(***************************************************************************)
(* The A2A producer: the executions of SensorAnalystExecutor (producer.py), *)
(* the request/reply pipe they share (Sidecar.call, sidecar.py) and the    *)
(* Rust bridge behind it (main.rs), which serves its stdin in order and    *)
(* keeps one TaskSession per task.  An execution may be cancelled at any   *)
(* await (its task belongs to the A2A server), the producer may shut down  *)
(* and the bridge may die.                                                 *)
(***************************************************************************)
EXTENDS Naturals, Sequences, FiniteSets

CONSTANTS
    Tasks,        \* A2A tasks, each with one execution
    MaxCancels,   \* executions cancelled at an await
    MayStop       \* whether the producer shuts down and the bridge may die

ASSUME SidecarAssumption == MaxCancels \in Nat /\ MayStop \in BOOLEAN

None == "none"
Absent == {None}    \* no session, no body
Cited == {"here", "elsewhere"}     \* the inputs a client message cites
Allowlisted == {"here"}            \* those of the configured registry
Ops == {"begin", "message", "verified_inputs", "chunk1", "chunk2", "end"}

VARIABLES
    pc,        \* pc[t]: [at: lock, read, verify or done; op: the call]
    req,       \* req[t]: req_id of the call under way
    inputs,    \* inputs[t]: what _verify_inputs kept
    emitted,   \* emitted[t]: the chunks put on the event queue
    state,     \* state[t]: the task state the client last sees
    raised,    \* raised[t]: the exceptions of the execution's calls
    lock,      \* the task whose call holds _lock, or None
    ids,       \* the last req_id issued
    stdin, stdout,   \* the two directions of the pipe
    closed,    \* stdin was closed
    alive,     \* the bridge process runs
    sessions,  \* sessions[t]: verified inputs of the TaskSession, or Absent
    published, \* published[t]: derived_from of the published body, or Absent
    cancels

exec == <<pc, req, inputs, emitted, state, raised>>
pipe == <<lock, ids, stdin, stdout, closed>>
bridge == <<alive, sessions, published>>
vars == <<exec, pipe, bridge, cancels>>

At(t, at, op) == pc[t] = [at |-> at, op |-> op]
Goto(t, at, op) == pc' = [pc EXCEPT ![t] = [at |-> at, op |-> op]]
Done(t) == pc[t].at = "done"

Init ==
    /\ pc = [t \in Tasks |-> [at |-> "lock", op |-> "begin"]]
    /\ req = [t \in Tasks |-> 0]
    /\ inputs = [t \in Tasks |-> {}]
    /\ emitted = [t \in Tasks |-> <<>>]
    /\ state = [t \in Tasks |-> "submitted"]
    /\ raised = [t \in Tasks |-> {}]
    /\ lock = None /\ ids = 0 /\ stdin = <<>> /\ stdout = <<>> /\ closed = FALSE
    /\ alive = TRUE
    /\ sessions = [t \in Tasks |-> Absent]
    /\ published = [t \in Tasks |-> Absent]
    /\ cancels = 0

-------------------------------------------------------------------------------
(* SensorAnalystExecutor.execute: what follows a call *)

\* Mutant: an execution that fails leaves without its finally.
FailBare(t, why) ==
    /\ Goto(t, "done", pc[t].op)
    /\ raised' = [raised EXCEPT ![t] = @ \union {why}]
    /\ UNCHANGED <<req, inputs, emitted, state>>

\* An exception: begin comes before the try, end is the finally.
Fail(t, why) ==
    /\ IF pc[t].op \in {"begin", "end"} THEN Goto(t, "done", pc[t].op)
       ELSE Goto(t, "lock", "end")
    /\ raised' = [raised EXCEPT ![t] = @ \union {why}]
    /\ UNCHANGED <<req, inputs, emitted, state>>

\* The call returned result: the next await, with the events put on the
\* queue on the way.  A withheld chunk fails the task and leaves the loop.
Advance(t, result) ==
    LET op == pc[t].op
        withheld == op \in {"chunk1", "chunk2"} /\ result.kind = "withhold"
    IN  /\ \/ op = "begin" /\ Goto(t, "lock", "message")
           \/ op = "message" /\ Goto(t, "verify", op)
           \/ op = "verified_inputs" /\ Goto(t, "lock", "chunk1")
           \/ op = "chunk1" /\ Goto(t, "lock", IF withheld THEN "end" ELSE "chunk2")
           \/ op = "chunk2" /\ Goto(t, "lock", "end")
           \/ op = "end" /\ Goto(t, "done", op)
        /\ emitted' = IF op \in {"chunk1", "chunk2"} /\ ~withheld
                      THEN [emitted EXCEPT ![t] = Append(@, result)] ELSE emitted
        /\ state' = [state EXCEPT ![t] = IF op = "message" THEN "working"
                                         ELSE IF withheld THEN "failed"
                                         ELSE IF op = "chunk2" THEN "completed" ELSE @]
        /\ UNCHANGED <<req, inputs, raised>>

\* _verify_inputs: an input of another registry is skipped, and one that
\* cannot be retrieved or verified is left out.
VerifyInputs(t) ==
    /\ At(t, "verify", "message")
    /\ \E kept \in SUBSET (Cited \intersect Allowlisted) :
            inputs' = [inputs EXCEPT ![t] = kept]
    /\ Goto(t, "lock", "verified_inputs")
    /\ UNCHANGED <<req, emitted, state, raised, pipe, bridge, cancels>>

-------------------------------------------------------------------------------
(* Sidecar.call *)

\* Under the lock: a fresh id, the request on stdin, then the read.  A closed
\* or dead stdin loses the line; the drain of a dead one may raise.
Send(t) ==
    /\ pc[t].at = "lock" /\ lock = None
    /\ ids' = ids + 1
    /\ stdin' = IF alive /\ ~closed
                THEN Append(stdin, [id |-> ids + 1, op |-> pc[t].op, task |-> t,
                                    inputs |-> inputs[t]])
                ELSE stdin
    /\ \/ /\ lock' = t
          /\ req' = [req EXCEPT ![t] = ids + 1]
          /\ Goto(t, "read", pc[t].op)
          /\ UNCHANGED <<inputs, emitted, state, raised>>
       \/ ~alive /\ Fail(t, "connection lost") /\ UNCHANGED lock
    /\ UNCHANGED <<stdout, closed, bridge, cancels>>

\* Mutant: the reply's id is not compared.
ReadUnmatched(t) ==
    /\ pc[t].at = "read" /\ stdout # <<>>
    /\ LET reply == stdout[1]
       IN  IF ~reply.ok THEN Fail(t, "refused") ELSE Advance(t, reply.result)
    /\ stdout' = Tail(stdout) /\ lock' = None
    /\ UNCHANGED <<ids, stdin, closed, bridge, cancels>>

\* One line of stdout, whichever request it answers.
Read(t) ==
    /\ pc[t].at = "read" /\ stdout # <<>>
    /\ LET reply == stdout[1]
       IN  IF reply.id # req[t] THEN Fail(t, "other id")
           ELSE IF ~reply.ok THEN Fail(t, "refused")
           ELSE Advance(t, reply.result)
    /\ stdout' = Tail(stdout) /\ lock' = None
    /\ UNCHANGED <<ids, stdin, closed, bridge, cancels>>

\* Mutant: the empty line is read again.
ReadAgain(t) ==
    pc[t].at = "read" /\ stdout = <<>> /\ ~alive /\ UNCHANGED vars

\* readline returns b"": the bridge exited.
ReadEof(t) ==
    /\ pc[t].at = "read" /\ stdout = <<>> /\ ~alive
    /\ Fail(t, "exited") /\ lock' = None
    /\ UNCHANGED <<ids, stdin, stdout, closed, bridge, cancels>>

\* A cancellation arrives at the await: the lock is given up, what was
\* written stays written.
Cancel(t) ==
    /\ ~Done(t) /\ cancels < MaxCancels
    /\ cancels' = cancels + 1
    /\ Fail(t, "cancelled")
    /\ lock' = IF lock = t THEN None ELSE lock
    /\ UNCHANGED <<ids, stdin, stdout, closed, bridge>>

-------------------------------------------------------------------------------
(* The bridge: main and Bridge::handle *)

Reply(r, ok, result) ==
    stdout' = Append(stdout, [id |-> r.id, ok |-> ok, result |-> result])
Answer(r, kind) == [task |-> r.task, op |-> r.op, kind |-> kind]

\* Mutant: the link goes out, the publish comes later.
CompleteUnpublished(r) ==
    /\ UNCHANGED published /\ Reply(r, TRUE, Answer(r, "linked"))

\* Agent::on_chunk for the completing chunk: publish, then emit with the link;
\* a failed publish emits without it, or withholds under fail-closed.
Complete(r) ==
    \/ /\ published' = [published EXCEPT ![r.task] = sessions[r.task]]
       /\ Reply(r, TRUE, Answer(r, "linked"))
    \/ /\ UNCHANGED published
       /\ \E kind \in {"emit", "withhold"} : Reply(r, TRUE, Answer(r, kind))
    \/ UNCHANGED published /\ Reply(r, FALSE, Answer(r, None))

\* begin keeps a session that is there; every other op but end needs one.
Handle(r) ==
    IF r.op \notin {"begin", "end"} /\ sessions[r.task] = Absent
    THEN Reply(r, FALSE, Answer(r, None)) /\ UNCHANGED <<sessions, published>>
    ELSE /\ sessions' =
                CASE r.op = "begin" /\ sessions[r.task] = Absent ->
                        [sessions EXCEPT ![r.task] = {}]
                  [] r.op = "verified_inputs" ->
                        [sessions EXCEPT ![r.task] = @ \union r.inputs]
                  [] r.op = "end" -> [sessions EXCEPT ![r.task] = Absent]
                  [] OTHER -> sessions
         /\ \/ r.op = "chunk2" /\ Complete(r)
            \/ r.op # "chunk2" /\ Reply(r, TRUE, Answer(r, "emit")) /\ UNCHANGED published
            \/ /\ r.op = "chunk1"
               /\ Reply(r, FALSE, Answer(r, None)) /\ UNCHANGED published

\* One line of stdin, in order, one at a time.
Serve ==
    /\ alive /\ stdin # <<>>
    /\ Handle(stdin[1])
    /\ stdin' = Tail(stdin)
    /\ UNCHANGED <<exec, lock, ids, closed, alive, cancels>>

\* Sidecar.close, from the lifespan of the app: end of input, five seconds.
Close ==
    /\ MayStop /\ ~closed
    /\ closed' = TRUE
    /\ UNCHANGED <<exec, lock, ids, stdin, stdout, bridge, cancels>>

\* The bridge ends at the end of its input; it is killed, or dies, with lines
\* unread.
Exit ==
    /\ alive /\ MayStop
    /\ alive' = FALSE /\ stdin' = <<>>
    /\ UNCHANGED <<exec, lock, ids, stdout, closed, sessions, published, cancels>>

-------------------------------------------------------------------------------

Step(t) == Send(t) \/ Read(t) \/ ReadEof(t) \/ VerifyInputs(t)
Finished == (\A t \in Tasks : Done(t)) /\ UNCHANGED vars

Next ==
    \/ \E t \in Tasks : Step(t) \/ Cancel(t)
    \/ Serve \/ Close \/ Exit
    \/ Finished

\* The event loop runs what can run, and the bridge serves what it was sent
\* (its publish has a timeout); once its input ends, or five seconds later,
\* it exits.
Fairness ==
    /\ \A t \in Tasks : WF_vars(Step(t))
    /\ WF_vars(Serve)
    /\ WF_vars(closed /\ Exit)

Spec == Init /\ [][Next]_vars /\ Fairness

-------------------------------------------------------------------------------
(* Properties *)

\* A chunk an execution emits is the one the bridge returned for that chunk of
\* that task: sidecar.py's "Send one request and wait for its reply" holds for
\* every chunk even after cancelled calls left their replies in the pipe,
\* because call compares the ids.
EmitsOwnChunks ==
    \A t \in Tasks : /\ \A i \in DOMAIN emitted[t] :
                            /\ emitted[t][i].task = t
                            /\ emitted[t][i].op = IF i = 1 THEN "chunk1" ELSE "chunk2"
                     /\ state[t] = "completed" => Len(emitted[t]) = 2

\* A chunk that carries a provenance link goes out after its body is on the
\* registry, and the body derives only from inputs the execution retrieved
\* from its own registry and verified (producer.py: "on the completing chunk
\* the body is already published and the link attached").
LinkIsBacked ==
    \A t \in Tasks : \A i \in DOMAIN emitted[t] :
        emitted[t][i].kind = "linked" =>
            published[t] # Absent /\ published[t] \subseteq inputs[t] \intersect Allowlisted

\* Without cancellation, an execution that is over leaves no TaskSession in a
\* living bridge, however it ended: the finally of execute sends end.
SessionsAreDropped ==
    cancels = 0 /\ alive /\ ~closed => \A t \in Tasks : Done(t) => sessions[t] = Absent

\* Every execution comes to its end, with the bridge dying under it, the pipe
\* out of step or the app shutting down: no error path keeps the lock.
EveryExecutionEnds == <>(\A t \in Tasks : Done(t))
================================================================================
