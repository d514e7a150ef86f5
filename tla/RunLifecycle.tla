----------------------------- MODULE RunLifecycle -----------------------------
(***************************************************************************)
(* One run of a scenario from POST /runs to its last subscriber: the       *)
(* handlers of playground/api/runs.py, the event bus (playground/events.py)*)
(* and the background task (playground/scenarios/runner.py), composed with *)
(* the launch limits (RunLimiter) and with the webhooks that fan into a    *)
(* run's queue (playground/api/webhooks.py).                               *)
(*                                                                         *)
(* The service is one asyncio event loop.  A step of this specification is *)
(* what one coroutine does between two suspensions.  Queues are unbounded, *)
(* so `await queue.put` does not suspend; awaiting the control plane, the  *)
(* scenario, `queue.get` and every `yield` to an SSE client does.          *)
(***************************************************************************)
EXTENDS RunLimiter

CONSTANTS
    Runs,           \* run ids: uuid4 values, so each is used at most once
    Conns,          \* SSE connections: GET /runs/{id}/events requests
    NoRun,          \* the run of a connection that has not been opened
    MaxPuts,        \* bound: step and webhook events stop at this many puts
    MaxStragglers,  \* bound: events put by sub-tasks that outlive a failed run
    OneAtATime,     \* TRUE: a client reconnects only after its stream is over
    TimerRaces      \* TRUE: the 15 s timer may beat the wakeup of a put

ASSUME LifecycleAssumption ==
    /\ IsFiniteSet(Runs) /\ NoRun \notin Runs
    /\ {MaxPuts, MaxStragglers} \subseteq Nat
    /\ OneAtATime \in BOOLEAN /\ TimerRaces \in BOOLEAN

VARIABLES
    task,        \* where the background task of a run is suspended
    bus,         \* _event_bus: the runs that have a queue
    queue,       \* the queue objects; one outlives its removal from the bus
    result,      \* _results: the status of the persisted RunResult, or "none"
    stragglers,  \* gather() siblings still running after the scenario raised
    conn,        \* per connection: its run, where its generator is, its event
    got,         \* history: what the client of a connection was sent
    puts,        \* history: how many events were put for a run
    lost         \* history: events taken from a queue and never sent

runVars == <<task, bus, queue, result, stragglers, puts>>
sseVars == <<conn, got, lost>>
vars == <<limiterVars, runVars, sseVars>>

-----------------------------------------------------------------------------
(* Events and queues *)

Terminal == {"run.complete", "run.error"}
EventTypes == {"run.started", "step", "webhook"} \cup Terminal
Events == [n : Nat, type : EventTypes]
NoEvent == [n |-> 0, type |-> "none"]

\* The one data message of a replay: the serialized RunResult
Replay == [n |-> 0, type |-> "result"]

Put(r, type) ==
    /\ queue' = [queue EXCEPT ![r] = Append(@, [n |-> puts[r] + 1, type |-> type])]
    /\ puts' = [puts EXCEPT ![r] = @ + 1]

-----------------------------------------------------------------------------
(* POST /runs *)

\* Accepted (202): a slot, a queue on the bus, a background task.
StartRun(r, ip) ==
    /\ task[r] = "none"
    /\ Acquire(ip)
    /\ bus' = bus \cup {r}
    /\ task' = [task EXCEPT ![r] = "created"]
    /\ UNCHANGED <<queue, result, stragglers, puts, sseVars>>

\* Mutant: without the `except BaseException` clause.
StartFailsKeepingSlot(ip) ==
    /\ Acquire(ip)
    /\ UNCHANGED <<runVars, sseVars>>

\* create_queue raised: the slot goes back, the launch stays charged.
StartFails(ip) ==
    /\ SlotFree
    /\ UnderRate(ip)
    /\ Charge(ip)
    /\ UNCHANGED <<now, active, refusal, runVars, sseVars>>

\* 429
StartRefused(ip) ==
    /\ RefuseConcurrency(ip) \/ RefuseRate(ip)
    /\ UNCHANGED <<runVars, sseVars>>

-----------------------------------------------------------------------------
(* The background task: runner.execute *)

Goes(r, from, to) ==
    /\ task[r] = from
    /\ task' = [task EXCEPT ![r] = to]

\* First step of the task, up to the await of notify_run_started
Execute(r) ==
    /\ Goes(r, "created", "starting")
    /\ Put(r, "run.started")
    /\ UNCHANGED <<limiterVars, bus, result, stragglers, sseVars>>

\* The control plane answered, failed or is disabled: _post never raises.
StartNotified(r) ==
    /\ Goes(r, "starting", "running")
    /\ UNCHANGED <<limiterVars, bus, queue, result, stragglers, puts, sseVars>>

\* An agent of the scenario emits a step event.
ScenarioEmits(r) ==
    /\ task[r] = "running"
    /\ puts[r] < MaxPuts
    /\ Put(r, "step")
    /\ UNCHANGED <<limiterVars, task, bus, result, stragglers, sseVars>>

\* The end of a run, without a suspension in it: the terminal event is put and
\* the result stored, then notify_run_complete is awaited.
Concludes(r, type, status) ==
    /\ Goes(r, "running", "completing")
    /\ Put(r, type)
    /\ result' = [result EXCEPT ![r] = status]

\* The scenario returns; its own status may be "failed".
ScenarioReturns(r, status) ==
    /\ Concludes(r, "run.complete", status)
    /\ UNCHANGED <<limiterVars, bus, stragglers, sseVars>>

\* The scenario raises.  When the exception came out of asyncio.gather, the
\* siblings of the failed sub-task go on running and hold the queue.
ScenarioRaises(r, siblings) ==
    /\ Concludes(r, "run.error", "failed")
    /\ stragglers' = [stragglers EXCEPT ![r] = siblings]
    /\ UNCHANGED <<limiterVars, bus, sseVars>>

\* Mutant: the scenario is awaited without wait_for.
RunNeverTimesOut(r) == FALSE

\* RUN_TIMEOUT_SECONDS passed: wait_for cancels the scenario and its sub-tasks.
RunTimesOut(r) ==
    /\ Concludes(r, "run.error", "failed")
    /\ UNCHANGED <<limiterVars, bus, stragglers, sseVars>>

\* notify_run_complete returned; it is best effort like the start.
CompleteNotified(r) ==
    /\ Goes(r, "completing", "done")
    /\ UNCHANGED <<limiterVars, bus, queue, result, stragglers, puts, sseVars>>

\* The done callback of the task, which the loop runs after the task is done
ReleaseSlot(r) ==
    /\ Goes(r, "done", "released")
    /\ Release
    /\ UNCHANGED <<bus, queue, result, stragglers, puts, sseVars>>

\* A straggler emits on the queue object it holds, on the bus or not.
StragglerEmits(r) ==
    /\ stragglers[r] > 0
    /\ stragglers' = [stragglers EXCEPT ![r] = @ - 1]
    /\ Put(r, "step")
    /\ UNCHANGED <<limiterVars, task, bus, result, sseVars>>

\* POST /webhooks/acdp for a run the registry has heard of: the event joins the
\* queue if the run has one, whether the run is over or not.
Webhook(r) ==
    /\ task[r] \notin {"none", "created", "starting"}
    /\ r \in bus
    /\ puts[r] < MaxPuts
    /\ Put(r, "webhook")
    /\ UNCHANGED <<limiterVars, task, bus, result, stragglers, sseVars>>

-----------------------------------------------------------------------------
(* GET /runs/{id} and GET /runs/{id}/events *)

\* What GET /runs/{id} answers, "unknown" being the 404
GetRun(r) ==
    IF result[r] # "none" THEN result[r]
    ELSE IF r \in bus THEN "running" ELSE "unknown"

\* Where the generator of an open stream can be: before the disconnect check of
\* its loop, in queue.get, or at one of its yields.
Sending == {"keepalive", "data", "end", "result", "replayEnd"}
Open == {"top", "waiting"} \cup Sending
ConnStates == {"idle", "ended", "closed", "notfound"} \cup Open

Generators == [run : Runs \cup {NoRun}, at : ConnStates, ev : Events \cup {NoEvent}]

DropQueue(r) == bus' = bus \ {r}

Moves(s, from, to) ==
    /\ conn[s].at = from
    /\ conn' = [conn EXCEPT ![s].at = to]

Sent(s, e) == got' = [got EXCEPT ![s] = Append(@, e)]

\* Mutant: a stored result is enough for a replay.
StreamEventsOfStored(s, r) ==
    LET over == result[r] # "none"
        at == IF over THEN "result" ELSE IF r \in bus THEN "top" ELSE "notfound"
    IN  /\ conn[s].at = "idle"
        /\ OneAtATime => \A o \in Conns : conn[o].run = r => conn[o].at \notin Open
        /\ conn' = [conn EXCEPT ![s] = [run |-> r, at |-> at, ev |-> NoEvent]]
        /\ IF over THEN DropQueue(r) ELSE UNCHANGED bus
        /\ UNCHANGED <<limiterVars, task, queue, result, stragglers, puts, got, lost>>

\* The handler itself.  A stored result with a drained queue means that the run
\* is over: the queue is dropped and the result replayed.
StreamEvents(s, r) ==
    LET over == result[r] # "none"
        drained == r \in bus /\ queue[r] = <<>> /\ over
        at == IF r \in bus /\ ~drained THEN "top"
              ELSE IF over THEN "result" ELSE "notfound"
    IN  /\ conn[s].at = "idle"
        /\ OneAtATime => \A o \in Conns : conn[o].run = r => conn[o].at \notin Open
        /\ conn' = [conn EXCEPT ![s] = [run |-> r, at |-> at, ev |-> NoEvent]]
        /\ IF drained THEN DropQueue(r) ELSE UNCHANGED bus
        /\ UNCHANGED <<limiterVars, task, queue, result, stragglers, puts, got, lost>>

\* queue.get returns: at once when the queue has an event on entry, else when
\* the put wakes the waiting generator.
Take(s) ==
    LET r == conn[s].run
    IN  /\ conn[s].at \in {"top", "waiting"}
        /\ queue[r] # <<>>
        /\ conn' = [conn EXCEPT ![s].at = "data", ![s].ev = Head(queue[r])]
        /\ queue' = [queue EXCEPT ![r] = Tail(@)]
        /\ UNCHANGED <<limiterVars, task, bus, result, stragglers, puts, got, lost>>

\* queue.get suspends on an empty queue.
Wait(s) ==
    /\ Moves(s, "top", "waiting")
    /\ queue[conn[s].run] = <<>>
    /\ UNCHANGED <<limiterVars, runVars, got, lost>>

\* Mutant: the event that the expiring timer meets is taken and forgotten.
WaitTimesOutWithEvent(s) ==
    LET r == conn[s].run
    IN  /\ Moves(s, "waiting", IF result[r] # "none" THEN "end" ELSE "keepalive")
        /\ queue' = [queue EXCEPT ![r] = IF @ = <<>> THEN @ ELSE Tail(@)]
        /\ UNCHANGED <<limiterVars, task, bus, result, stragglers, puts, got, lost>>

\* Mutant: an idle stream is ended without a look at the result.
WaitTimesOutAlwaysEnds(s) ==
    /\ Moves(s, "waiting", "end")
    /\ UNCHANGED <<limiterVars, runVars, got, lost>>

\* Mutant: an idle stream is kept alive without a look at the result.
WaitTimesOutNeverEnds(s) ==
    /\ Moves(s, "waiting", "keepalive")
    /\ UNCHANGED <<limiterVars, runVars, got, lost>>

\* wait_for gives up after 15 s.  A timer that expires in the loop iteration of
\* the put that wakes the generator cancels queue.get before it has taken the
\* event, which stays queued.  A stored result is read as "terminal event was
\* lost".
WaitTimesOut(s) ==
    /\ Moves(s, "waiting", IF result[conn[s].run] # "none" THEN "end" ELSE "keepalive")
    /\ Len(queue[conn[s].run]) <= IF TimerRaces THEN 1 ELSE 0
    /\ UNCHANGED <<limiterVars, runVars, got, lost>>

SendKeepalive(s) ==
    /\ Moves(s, "keepalive", "top")
    /\ UNCHANGED <<limiterVars, runVars, got, lost>>

SendData(s) ==
    /\ Moves(s, "data", IF conn[s].ev.type \in Terminal THEN "end" ELSE "top")
    /\ Sent(s, conn[s].ev)
    /\ UNCHANGED <<limiterVars, runVars, lost>>

\* The end marker was sent: only now is the queue dropped.
SendEnd(s) ==
    /\ Moves(s, "end", "ended")
    /\ DropQueue(conn[s].run)
    /\ UNCHANGED <<limiterVars, task, queue, result, stragglers, puts, got, lost>>

SendResult(s) ==
    /\ Moves(s, "result", "replayEnd")
    /\ Sent(s, Replay)
    /\ UNCHANGED <<limiterVars, runVars, lost>>

SendReplayEnd(s) ==
    /\ Moves(s, "replayEnd", "ended")
    /\ UNCHANGED <<limiterVars, runVars, got, lost>>

\* Mutant: the generator drops the queue in a `finally` clause.
DisconnectDropsQueue(s) ==
    /\ conn[s].at \in Open
    /\ conn' = [conn EXCEPT ![s].at = "closed"]
    /\ DropQueue(conn[s].run)
    /\ UNCHANGED <<limiterVars, task, queue, result, stragglers, puts, got, lost>>

\* The client goes away: the generator ends where it is suspended.  An event it
\* had taken and not sent is lost; the queue stays.
Disconnect(s) ==
    /\ conn[s].at \in Open
    /\ conn' = [conn EXCEPT ![s].at = "closed"]
    /\ lost' = IF conn[s].at = "data"
               THEN [lost EXCEPT ![conn[s].run] = @ \cup {conn[s].ev}] ELSE lost
    /\ UNCHANGED <<limiterVars, runVars, got>>

-----------------------------------------------------------------------------
(* Specification *)

Init ==
    /\ LimiterInit
    /\ task = [r \in Runs |-> "none"]
    /\ bus = {}
    /\ queue = [r \in Runs |-> <<>>]
    /\ result = [r \in Runs |-> "none"]
    /\ stragglers = [r \in Runs |-> 0]
    /\ conn = [s \in Conns |-> [run |-> NoRun, at |-> "idle", ev |-> NoEvent]]
    /\ got = [s \in Conns |-> <<>>]
    /\ puts = [r \in Runs |-> 0]
    /\ lost = [r \in Runs |-> {}]

PostRuns ==
    \E ip \in IPs \cup {NoIP} :
        (\E r \in Runs : StartRun(r, ip)) \/ StartFails(ip) \/ StartRefused(ip)

\* What the task of a run does by itself; wait_for bounds its scenario.
TaskStep(r) ==
    \/ Execute(r)
    \/ StartNotified(r)
    \/ RunTimesOut(r)
    \/ CompleteNotified(r)
    \/ ReleaseSlot(r)

ScenarioStep(r) ==
    \/ ScenarioEmits(r)
    \/ \E status \in {"complete", "failed"} : ScenarioReturns(r, status)
    \/ \E siblings \in 0..MaxStragglers : ScenarioRaises(r, siblings)
    \/ StragglerEmits(r)

\* What the generator of a connected client does
StreamStep(s) ==
    \/ Take(s) \/ Wait(s) \/ WaitTimesOut(s)
    \/ SendKeepalive(s) \/ SendData(s) \/ SendEnd(s)
    \/ SendResult(s) \/ SendReplayEnd(s)

ClockTicks == Tick /\ UNCHANGED <<runVars, sseVars>>

Next ==
    \/ PostRuns
    \/ \E r \in Runs : TaskStep(r) \/ ScenarioStep(r) \/ Webhook(r)
    \/ \E s \in Conns : StreamStep(s) \/ Disconnect(s)
    \/ \E s \in Conns, r \in Runs : StreamEvents(s, r)
    \/ ClockTicks

Spec == Init /\ [][Next]_vars

\* The event loop runs every ready coroutine, every await of the task ends
\* (timeouts of the control-plane client and of the run), and a generator whose
\* client stays connected is resumed after each yield.  Nothing else is fair:
\* scenarios may hang, clients may come and go as they like.
FairSpec ==
    /\ Spec
    /\ \A r \in Runs : WF_vars(TaskStep(r))
    /\ \A s \in Conns : WF_vars(StreamStep(s))

-----------------------------------------------------------------------------
(* Properties *)

TypeOK ==
    /\ LimiterTypeOK
    /\ task \in [Runs -> {"none", "created", "starting", "running",
                          "completing", "done", "released"}]
    /\ bus \subseteq Runs
    /\ queue \in [Runs -> Seq(Events)]
    /\ result \in [Runs -> {"none", "complete", "failed"}]
    /\ stragglers \in [Runs -> 0..MaxStragglers]
    /\ conn \in [Conns -> Generators]
    /\ got \in [Conns -> Seq(Events \cup {Replay})]
    /\ puts \in [Runs -> Nat]
    /\ lost \in [Runs -> SUBSET Events]

\* The runs whose slot is taken: accepted, and their done callback has not run
Holding == {r \in Runs : task[r] \notin {"none", "released"}}

\* The limiter's counter is exactly the number of runs that hold a slot: no
\* path of start_run, of the task or of its callbacks leaks a slot or gives
\* one back twice, so `max(0, ...)` in release never hides an imbalance.
SlotAccounting == active = Cardinality(Holding)

\* An accepted run is never unknown to GET /runs/{id}: whatever the streams of
\* its clients do to the queue, its queue is on the bus or its result is stored.
AcceptedRunKnown ==
    \A r \in Runs : task[r] # "none" => GetRun(r) # "unknown"

\* The events of a run that are somewhere: queued, taken, sent or lost
TakenBy(s) == IF conn[s].at = "data" THEN {conn[s].ev} ELSE {}
SentTo(s) == {got[s][i] : i \in 1..Len(got[s])} \ {Replay}
ConnsOf(r) == {s \in Conns : conn[s].run = r}

\* Every event put for a run is in exactly one place: still queued, being sent
\* to one connection, sent to one connection, or lost with the connection that
\* had taken it.  Nothing is duplicated and only a disconnect loses an event,
\* however many connections compete for the queue.
EventConservation ==
    \A r \in Runs : \A n \in 1..puts[r] :
        Cardinality({i \in 1..Len(queue[r]) : queue[r][i].n = n})
      + Cardinality({s \in ConnsOf(r) : \E e \in TakenBy(s) : e.n = n})
      + Cardinality({s \in ConnsOf(r) : \E e \in SentTo(s) : e.n = n})
      + Cardinality({e \in lost[r] : e.n = n}) = 1

\* The end marker is sent only for a run whose result is stored, so a client
\* that missed the outcome can still read it from GET /runs/{id}.
EndMeansStored ==
    \A s \in Conns : conn[s].at = "ended" => result[conn[s].run] # "none"

\* The contract of the documented use, one subscriber per run that stays: its
\* stream is every event put up to the terminal one, without a gap.
SoleSubscriberSeesAll ==
    \A s \in Conns :
        conn[s].at = "ended" /\ ConnsOf(conn[s].run) = {s} =>
            /\ got[s] # <<>>
            /\ got[s][Len(got[s])].type \in Terminal
            /\ \A i \in 1..Len(got[s]) : got[s][i].n = i

\* A stream that was closed by the end marker carried the outcome: the terminal
\* event, or the replayed result (docs/http-api.md: a lost terminal event is
\* made up for by the replay).
EndCarriesOutcome ==
    \A s \in Conns :
        conn[s].at = "ended" =>
            \E i \in 1..Len(got[s]) : got[s][i].type \in Terminal \cup {"result"}

\* The queue of a run is dropped only after its terminal event was delivered
\* (docs/architecture.md, and the comment in `generate`).
DropAfterDelivery ==
    \A r \in Runs :
        task[r] # "none" /\ r \notin bus =>
            \E s \in ConnsOf(r) : \E e \in SentTo(s) : e.type \in Terminal

\* Every stream comes to an end: its client disconnects or is sent the end
\* marker, even when the terminal event went to another connection or was lost.
EveryStreamEnds ==
    \A s \in Conns : conn[s].at \in Open ~> conn[s].at \in {"ended", "closed"}

-----------------------------------------------------------------------------
(* Refinement *)

Promise == INSTANCE RunStatus
             WITH status <- [r \in Runs |-> GetRun(r)], slots <- Holding

\* POST /runs and GET /runs/{id} keep the promise of RunStatus: a run is unknown,
\* then running, then has the one outcome it keeps; at most MAX_CONCURRENT_RUNS
\* hold a slot; and no slot is given back before the outcome can be read.
ImplementsStatus == Promise!StatusSpec

\* With fairness: and every accepted run gets its outcome and frees its slot,
\* whatever the scenario and the control plane do (runner.py 76, the timeout).
ImplementsFairStatus == Promise!FairStatusSpec

=============================================================================
