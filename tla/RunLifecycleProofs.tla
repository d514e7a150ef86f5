-------------------------- MODULE RunLifecycleProofs --------------------------
(***************************************************************************)
(* Proofs about RunLifecycle, for any runs, connections, clients, limits   *)
(* and bounds: an accepted run is never unknown, the slots add up, the end *)
(* marker comes after the result, and the whole implements RunStatus.      *)
(***************************************************************************)
EXTENDS RunLifecycleLemmas

-----------------------------------------------------------------------------
(* Streams *)

\* An open generator moves, not to a new event: it may end, and drop its queue,
\* only when the result is stored.
LEMMA StreamMovePreserves ==
  ASSUME LifecycleInv, LimiterInv', NEW s \in Conns, NEW to \in ConnStates \ {"data"},
         conn' = [conn EXCEPT ![s].at = to], conn[s].at \in Open,
         to \in {"end", "ended", "result", "replayEnd"} => result[conn[s].run] # "none",
         \/ UNCHANGED bus
         \/ DropQueue(conn[s].run) /\ result[conn[s].run] # "none",
         got' \in [Conns -> Seq(Events \cup {Replay})],
         lost' \in [Runs -> SUBSET Events],
         UNCHANGED <<active, task, queue, result, stragglers, puts>>
  PROVE  LifecycleInv'
<1>1. /\ conn' \in [Conns -> Generators]
      /\ conn'[s].at = to /\ conn'[s].run = conn[s].run /\ conn'[s].ev = conn[s].ev
      /\ \A o \in Conns : o # s => conn'[o] = conn[o]
  BY MovesProperty, Zenon DEF LifecycleInv
<1>2. bus' \subseteq Runs  BY DEF LifecycleInv, TypeOK, DropQueue
<1>3. TypeOK'  BY <1>1, <1>2 DEF LifecycleInv, TypeOK, LimiterInv
<1>4. \A x \in Runs : (x \in bus' => x \in bus)
                       /\ (x \in bus /\ x \notin bus' => result[x] # "none")
  BY DEF DropQueue
<1>5. RunInv'  BY <1>4 DEF LifecycleInv, RunInv, Unfinished
<1>6. conn[s].run \in Runs  BY DEF LifecycleInv, StreamInv
<1>7. StreamInv'
  <2> SUFFICES ASSUME NEW o \in Conns
               PROVE  /\ conn'[o].at \in Open \cup {"ended"} => conn'[o].run \in Runs
                      /\ conn'[o].at = "data" => conn'[o].ev \in Events
                      /\ conn'[o].at \in {"end", "ended", "result", "replayEnd"} =>
                            result[conn'[o].run] # "none"
                      /\ conn'[o].at = "data" /\ conn'[o].ev.type \in Terminal =>
                            result[conn'[o].run] # "none"
    BY DEF StreamInv
  <2>1. CASE o = s  BY <1>1, <1>6, <2>1
  <2>2. CASE o # s  BY <1>1, <2>2 DEF LifecycleInv, StreamInv
  <2> QED  BY <2>1, <2>2
<1>8. SlotAccounting'  BY DEF LifecycleInv, SlotAccounting, Holding
<1> QED  BY <1>3, <1>5, <1>7, <1>8 DEF LifecycleInv

\* queue.get takes the head of the queue.
LEMMA TakePreserves ==
  ASSUME LifecycleInv, LimiterInv', NEW s \in Conns, Take(s)
  PROVE  LifecycleInv'
<1> DEFINE r == conn[s].run
           q == queue[r]
<1>1. r \in Runs  BY DEF Take, Open, LifecycleInv, StreamInv
<1>2. q \in Seq(Events) /\ q # <<>>  BY <1>1 DEF Take, LifecycleInv, TypeOK
<1>3. /\ conn' = [conn EXCEPT ![s].at = "data", ![s].ev = Head(q)]
      /\ queue' = [queue EXCEPT ![r] = Tail(q)]
      /\ UNCHANGED <<limiterVars, task, bus, result, stragglers, puts, got, lost>>
  BY DEF Take
<1>4. PICK k \in Nat : k = Len(q) /\ k # 0  BY <1>2, EmptySeq, LenProperties
<1>5. /\ Head(q) \in Events /\ Tail(q) \in Seq(Events)
      /\ Head(q) = q[1]
      /\ Len(Tail(q)) = k - 1
      /\ \A i \in 1..k - 1 : Tail(q)[i] = q[i + 1]
  BY <1>2, <1>4, HeadTailProperties
<1>6. Settled(q, result[r])  BY <1>1 DEF LifecycleInv, RunInv
<1>7. Head(q).type \in Terminal => result[r] # "none"
  BY <1>4, <1>5, <1>6, SMTT(30) DEF Settled
<1>8. Settled(Tail(q), result[r])
  <2>1. \A i \in 1..k - 1 : i + 1 \in 1..k  BY <1>4
  <2> QED  BY <1>4, <1>5, <1>6, <2>1 DEF Settled
<1>9. /\ conn'[s].at = "data" /\ conn'[s].ev = Head(q) /\ conn'[s].run = r
      /\ conn' \in [Conns -> Generators]
      /\ \A o \in Conns : o # s => conn'[o] = conn[o]
  BY <1>3, <1>5, TakesProperty, Zenon DEF LifecycleInv
<1>10. /\ queue'[r] = Tail(q)
       /\ \A x \in Runs : x # r => queue'[x] = queue[x]
       /\ queue' \in [Runs -> Seq(Events)]
  BY <1>1, <1>3, <1>5 DEF LifecycleInv, TypeOK
<1> HIDE DEF q, r
<1>11. TypeOK'  BY <1>3, <1>9, <1>10 DEF LifecycleInv, TypeOK, LimiterInv
<1>12. \A x \in Runs : Settled(queue'[x], result[x])
  BY <1>8, <1>10, Zenon DEF LifecycleInv, RunInv
<1>13. RunInv'  BY <1>3, <1>12 DEF LifecycleInv, RunInv
<1>14. StreamInv'
  <2> SUFFICES ASSUME NEW o \in Conns
               PROVE  /\ conn'[o].at \in Open \cup {"ended"} => conn'[o].run \in Runs
                      /\ conn'[o].at = "data" => conn'[o].ev \in Events
                      /\ conn'[o].at \in {"end", "ended", "result", "replayEnd"} =>
                            result[conn'[o].run] # "none"
                      /\ conn'[o].at = "data" /\ conn'[o].ev.type \in Terminal =>
                            result[conn'[o].run] # "none"
    BY <1>3, Zenon DEF StreamInv
  <2>1. CASE o = s  BY <1>1, <1>5, <1>7, <1>9, <2>1
  <2>2. CASE o # s  BY <1>9, <2>2 DEF LifecycleInv, StreamInv
  <2> QED  BY <2>1, <2>2
<1>15. SlotAccounting'  BY <1>3 DEF LifecycleInv, SlotAccounting, Holding, limiterVars
<1> QED  BY <1>11, <1>13, <1>14, <1>15 DEF LifecycleInv

\* GET /runs/{id}/events: the stream, the replay or the 404
LEMMA StreamEventsPreserves ==
  ASSUME LifecycleInv, LimiterInv', NEW s \in Conns, NEW r \in Runs, StreamEvents(s, r)
  PROVE  LifecycleInv'
<1>1. PICK at \in {"top", "result", "notfound"} :
        /\ conn' = [conn EXCEPT ![s] = [run |-> r, at |-> at, ev |-> NoEvent]]
        /\ at = "result" => result[r] # "none"
  BY Zenon DEF StreamEvents
<1>2. /\ UNCHANGED bus \/ (bus' = bus \ {r} /\ result[r] # "none")
      /\ UNCHANGED <<limiterVars, task, queue, result, stragglers, puts, got, lost>>
  BY DEF StreamEvents, DropQueue
<1>3. /\ conn'[s].at = at /\ conn'[s].run = r
      /\ conn' \in [Conns -> Generators]
      /\ \A o \in Conns : o # s => conn'[o] = conn[o]
  <2> DEFINE c == [run |-> r, at |-> at, ev |-> NoEvent]
  <2>1. at \in ConnStates  BY DEF ConnStates, Open, Sending
  <2>2. c \in Generators /\ c.at = at /\ c.run = r  BY <2>1 DEF Generators
  <2>3. conn \in [Conns -> Generators] /\ conn' = [conn EXCEPT ![s] = c]
    BY <1>1 DEF LifecycleInv, TypeOK
  <2> HIDE DEF c
  <2> QED  BY <2>2, <2>3
<1>4. bus' \subseteq Runs  BY <1>2 DEF LifecycleInv, TypeOK
<1>5. TypeOK'  BY <1>2, <1>3, <1>4 DEF LifecycleInv, TypeOK, LimiterInv
<1>6. RunInv'  BY <1>2 DEF LifecycleInv, RunInv, Unfinished
<1>7. StreamInv'
  <2> SUFFICES ASSUME NEW o \in Conns
               PROVE  /\ conn'[o].at \in Open \cup {"ended"} => conn'[o].run \in Runs
                      /\ conn'[o].at = "data" => conn'[o].ev \in Events
                      /\ conn'[o].at \in {"end", "ended", "result", "replayEnd"} =>
                            result[conn'[o].run] # "none"
                      /\ conn'[o].at = "data" /\ conn'[o].ev.type \in Terminal =>
                            result[conn'[o].run] # "none"
    BY <1>2 DEF StreamInv
  <2>1. CASE o = s  BY <1>1, <1>3, <2>1
  <2>2. CASE o # s  BY <1>3, <2>2 DEF LifecycleInv, StreamInv
  <2> QED  BY <2>1, <2>2
<1>8. SlotAccounting'  BY <1>2 DEF LifecycleInv, SlotAccounting, Holding, limiterVars
<1> QED  BY <1>5, <1>6, <1>7, <1>8 DEF LifecycleInv

\* Every step of a generator, and its end by a disconnect
LEMMA StreamStepPreserves ==
  ASSUME LifecycleInv, LimiterInv', NEW s \in Conns, StreamStep(s) \/ Disconnect(s)
  PROVE  LifecycleInv'
<1>1. got \in [Conns -> Seq(Events \cup {Replay})] /\ lost \in [Runs -> SUBSET Events]
  BY DEF LifecycleInv, TypeOK
<1> USE DEF Moves, Open, Sending, ConnStates, runVars, limiterVars
<1>2. CASE Take(s)  BY <1>2, TakePreserves
<1>3. CASE Wait(s)  BY <1>1, <1>3, StreamMovePreserves, Zenon DEF Wait
<1>4. CASE WaitTimesOut(s)
  <2>1. PICK to \in {"end", "keepalive"} :
          /\ conn' = [conn EXCEPT ![s].at = to] /\ conn[s].at \in Open
          /\ to = "end" => result[conn[s].run] # "none"
          /\ UNCHANGED <<limiterVars, runVars, got, lost>>
    BY <1>4, Zenon DEF WaitTimesOut
  <2> QED  BY <1>1, <2>1, StreamMovePreserves, Zenon
<1>5. CASE SendKeepalive(s)  BY <1>1, <1>5, StreamMovePreserves, Zenon DEF SendKeepalive
<1>6. CASE SendData(s)
  <2>1. PICK to \in {"end", "top"} :
          /\ conn' = [conn EXCEPT ![s].at = to] /\ conn[s].at = "data"
          /\ to = "end" => conn[s].ev.type \in Terminal
          /\ Sent(s, conn[s].ev)
          /\ UNCHANGED <<limiterVars, runVars, lost>>
    BY <1>6, Zenon DEF SendData
  <2>2. /\ conn[s].ev \in Events
        /\ to = "end" => result[conn[s].run] # "none"
    BY <2>1 DEF LifecycleInv, StreamInv
  <2>3. got' \in [Conns -> Seq(Events \cup {Replay})]
    BY <2>1, <2>2, SentProperty DEF LifecycleInv
  <2> QED  BY <1>1, <2>1, <2>2, <2>3, StreamMovePreserves, Zenon
<1>7. CASE SendEnd(s)
  <2>1. conn[s].at = "end" /\ result[conn[s].run] # "none"
    BY <1>7 DEF SendEnd, LifecycleInv, StreamInv
  <2> QED  BY <1>1, <1>7, <2>1, StreamMovePreserves, Zenon DEF SendEnd
<1>8. CASE SendResult(s)
  <2>1. conn[s].at = "result" /\ result[conn[s].run] # "none"
    BY <1>8 DEF SendResult, LifecycleInv, StreamInv
  <2>2. got' \in [Conns -> Seq(Events \cup {Replay})]
    BY <1>8, SentProperty DEF SendResult, LifecycleInv
  <2> QED  BY <1>1, <1>8, <2>1, <2>2, StreamMovePreserves, Zenon DEF SendResult
<1>9. CASE SendReplayEnd(s)
  <2>1. conn[s].at = "replayEnd" /\ result[conn[s].run] # "none"
    BY <1>9 DEF SendReplayEnd, LifecycleInv, StreamInv
  <2> QED  BY <1>1, <1>9, <2>1, StreamMovePreserves, Zenon DEF SendReplayEnd
<1>10. CASE Disconnect(s)
  <2>1. lost' \in [Runs -> SUBSET Events]
    <3>1. CASE conn[s].at = "data"
      <4>1. conn[s].ev \in Events /\ conn[s].run \in Runs
        BY <3>1 DEF LifecycleInv, StreamInv
      <4> QED  BY <1>1, <1>10, <3>1, <4>1 DEF Disconnect
    <3>2. CASE conn[s].at # "data"  BY <1>1, <1>10, <3>2 DEF Disconnect
    <3> QED  BY <3>1, <3>2
  <2> QED  BY <1>1, <1>10, <2>1, StreamMovePreserves, Zenon DEF Disconnect
<1> QED
  BY <1>2, <1>3, <1>4, <1>5, <1>6, <1>7, <1>8, <1>9, <1>10, SMTT(30) DEF StreamStep

-----------------------------------------------------------------------------
(* The invariant holds *)

LEMMA LifecycleInitially == Init => LifecycleInv
<1> SUFFICES ASSUME Init PROVE LifecycleInv  OBVIOUS
<1> USE DEF Init
<1>1. LimiterInv  BY LimiterInitially
<1>2. <<>> \in Seq(Events) /\ <<>> \in Seq(Events \cup {Replay}) /\ Len(<<>>) = 0
  BY EmptySeq
<1>3. TypeOK
  <2>1. "idle" \in ConnStates  BY DEF ConnStates
  <2>2. conn \in [Conns -> Generators]  BY <2>1 DEF Generators
  <2>3. 0 \in 0..MaxStragglers  BY LifecycleAssumption
  <2> QED  BY <1>1, <1>2, <2>2, <2>3 DEF TypeOK, LimiterInv
<1>4. RunInv  BY <1>2 DEF RunInv, Settled, Unfinished, Finished
<1>5. StreamInv  BY DEF StreamInv, Open, Sending
<1>6. SlotAccounting
  <2>1. Holding = {}  BY DEF Holding
  <2> QED  BY <2>1, FS_EmptySet DEF SlotAccounting, LimiterInit
<1> QED  BY <1>1, <1>3, <1>4, <1>5, <1>6 DEF LifecycleInv

\* The limiter keeps its own invariant inside the composition, also when a
\* launch is charged and its slot given straight back.
LEMMA LimiterPart ==
  ASSUME LifecycleInv, Next
  PROVE  LimiterInv'
<1>1. LimiterInv  BY DEF LifecycleInv
<1>2. ASSUME [LimiterNext]_limiterVars PROVE LimiterInv'  BY <1>1, <1>2, LimiterStep
<1>3. CASE PostRuns
  <2>1. PICK ip \in IPs \cup {NoIP} :
          (\E r \in Runs : StartRun(r, ip)) \/ StartFails(ip) \/ StartRefused(ip)
    BY <1>3 DEF PostRuns
  <2>2. CASE \E r \in Runs : StartRun(r, ip)
    BY <1>2, <2>2 DEF StartRun, LimiterNext
  <2>3. CASE StartFails(ip)
    <3>1. /\ DOMAIN launches' \subseteq IPs
          /\ launches' \in [DOMAIN launches' -> Seq(Nat)]
          /\ granted' \in [IPs -> Seq(Nat)]
          /\ \A x \in IPs : ClientInv(granted'[x], Deque(x)', now')
      BY <1>1, <2>3, ChargePreserves DEF StartFails
    <3> QED  BY <1>1, <2>3, <3>1 DEF StartFails, LimiterInv, LimiterTypeOK, ClientInv
  <2>4. CASE StartRefused(ip)
    BY <1>2, <2>4 DEF StartRefused, LimiterNext
  <2> QED  BY <2>1, <2>2, <2>3, <2>4
<1>4. CASE ClockTicks  BY <1>2, <1>4 DEF ClockTicks, LimiterNext
<1>5. ASSUME NEW r \in Runs, ReleaseSlot(r) PROVE LimiterInv'
  <2>1. active' \in 0..MaxConcurrent /\ UNCHANGED <<now, launches, granted, refusal>>
    BY <1>1, <1>5, LimiterAssumption DEF ReleaseSlot, Release, Larger, LimiterInv, LimiterTypeOK
  <2> QED  BY <1>1, <2>1, SlotStepPreserves
<1>6. ASSUME UNCHANGED limiterVars PROVE LimiterInv'  BY <1>2, <1>6, SMTT(30)
<1>7. ASSUME NEW r \in Runs, TaskStep(r) \/ ScenarioStep(r) \/ Webhook(r)
      PROVE  ReleaseSlot(r) \/ UNCHANGED limiterVars
  BY <1>7 DEF TaskStep, ScenarioStep, Webhook, Execute, StartNotified, RunTimesOut,
              CompleteNotified, ScenarioEmits, ScenarioReturns, ScenarioRaises, StragglerEmits
<1>8. ASSUME NEW s \in Conns, StreamStep(s) \/ Disconnect(s)
      PROVE  UNCHANGED limiterVars
  BY <1>8, SMTT(30) DEF StreamStep, Take, Wait, WaitTimesOut, SendKeepalive, SendData, SendEnd,
              SendResult, SendReplayEnd, Disconnect
<1>9. ASSUME NEW s \in Conns, NEW r \in Runs, StreamEvents(s, r)
      PROVE  UNCHANGED limiterVars
  BY <1>9 DEF StreamEvents
<1> QED  BY <1>3, <1>4, <1>5, <1>6, <1>7, <1>8, <1>9 DEF Next

\* Every step of the task, of the scenario and of the webhooks
LEMMA RunStepPreserves ==
  ASSUME LifecycleInv, LimiterInv', NEW r \in Runs,
         TaskStep(r) \/ ScenarioStep(r) \/ Webhook(r)
  PROVE  LifecycleInv'
<1> USE DEF limiterVars
<1>1. stragglers \in [Runs -> 0..MaxStragglers] /\ MaxStragglers \in Nat
  BY LifecycleAssumption DEF LifecycleInv, TypeOK
<1>2. "step" \in EventTypes \ Terminal /\ "webhook" \in EventTypes \ Terminal
  BY DEF EventTypes, Terminal
<1>3. CASE Execute(r)  BY <1>3, TaskMovePreserves DEF Execute, Unfinished
<1>4. CASE StartNotified(r)  BY <1>4, TaskMovePreserves DEF StartNotified, Unfinished
<1>5. CASE RunTimesOut(r)  BY <1>1, <1>5, ConcludesPreserves DEF RunTimesOut, Terminal
<1>6. CASE CompleteNotified(r)  BY <1>6, TaskMovePreserves DEF CompleteNotified, Finished
<1>7. CASE ReleaseSlot(r)  BY <1>7, ReleaseSlotPreserves
<1>8. CASE ScenarioEmits(r)  BY <1>1, <1>2, <1>8, EmitPreserves DEF ScenarioEmits
<1>9. ASSUME NEW status \in {"complete", "failed"}, ScenarioReturns(r, status)
      PROVE  LifecycleInv'
  BY <1>1, <1>9, ConcludesPreserves DEF ScenarioReturns, Terminal
<1>10. ASSUME NEW siblings \in 0..MaxStragglers, ScenarioRaises(r, siblings)
       PROVE  LifecycleInv'
  <2>1. stragglers' \in [Runs -> 0..MaxStragglers]  BY <1>1, <1>10 DEF ScenarioRaises
  <2> QED  BY <1>10, <2>1, ConcludesPreserves DEF ScenarioRaises, Terminal
<1>11. CASE StragglerEmits(r)
  <2>1. stragglers' \in [Runs -> 0..MaxStragglers]  BY <1>1, <1>11 DEF StragglerEmits
  <2> QED  BY <1>2, <1>11, <2>1, EmitPreserves DEF StragglerEmits
<1>12. CASE Webhook(r)  BY <1>1, <1>2, <1>12, EmitPreserves DEF Webhook
<1> QED
  BY <1>3, <1>4, <1>5, <1>6, <1>7, <1>8, <1>9, <1>10, <1>11, <1>12, SMTT(30) DEF TaskStep, ScenarioStep

LEMMA LifecycleStep == LifecycleInv /\ [Next]_vars => LifecycleInv'
<1> SUFFICES ASSUME LifecycleInv, [Next]_vars PROVE LifecycleInv'  OBVIOUS
<1>1. CASE UNCHANGED vars
  <2>1. LimiterInv'
    BY <1>1, LimiterStep DEF LifecycleInv, vars
  <2> QED  BY <1>1, <2>1, LimiterOnly DEF vars, limiterVars
<1>2. CASE Next
  <2>1. LimiterInv'  BY <1>2, LimiterPart
  <2>2. CASE PostRuns
    <3>1. PICK ip \in IPs \cup {NoIP} :
            (\E r \in Runs : StartRun(r, ip)) \/ StartFails(ip) \/ StartRefused(ip)
      BY <2>2 DEF PostRuns
    <3>2. CASE \E r \in Runs : StartRun(r, ip)  BY <2>1, <3>2, StartRunPreserves
    <3>3. CASE StartFails(ip) \/ StartRefused(ip)
      BY <2>1, <3>3, LimiterOnly
      DEF StartFails, StartRefused, RefuseConcurrency, RefuseRate, limiterVars
    <3> QED  BY <3>1, <3>2, <3>3
  <2>3. CASE ClockTicks  BY <2>1, <2>3, LimiterOnly DEF ClockTicks, Tick
  <2> QED
    BY <1>2, <2>1, <2>2, <2>3, RunStepPreserves, StreamStepPreserves, StreamEventsPreserves
    DEF Next
<1> QED  BY <1>1, <1>2

LEMMA LifecycleInvariant == Spec => []LifecycleInv
BY LifecycleInitially, LifecycleStep, PTL DEF Spec

\* The run API is type correct, its slots are exactly the runs in flight, an
\* accepted run is never unknown to GET /runs/{id}, and no client is sent the end
\* marker of a run whose result is not stored.
THEOREM LifecycleCorrect ==
  Spec => [](TypeOK /\ SlotAccounting /\ AcceptedRunKnown /\ EndMeansStored)
<1>1. LifecycleInv => AcceptedRunKnown
  <2> SUFFICES ASSUME LifecycleInv, NEW r \in Runs, task[r] # "none"
               PROVE  GetRun(r) # "unknown"
    BY DEF AcceptedRunKnown
  <2>1. task[r] \in Unfinished \cup Finished
    BY DEF LifecycleInv, TypeOK, Unfinished, Finished
  <2>2. result[r] \in {"none", "complete", "failed"}  BY DEF LifecycleInv, TypeOK
  <2> QED  BY <2>1, <2>2 DEF LifecycleInv, RunInv, GetRun
<1>2. LifecycleInv => TypeOK /\ SlotAccounting /\ EndMeansStored
  BY DEF LifecycleInv, StreamInv, EndMeansStored
<1> QED  BY <1>1, <1>2, LifecycleInvariant, PTL

\* Composed with real runs, failing launches and slots that come back only from
\* the done callbacks, the limiter still keeps its per-IP promise.
THEOREM LifecycleKeepsWindow == Spec => [](SlidingWindow /\ NoLiveLaunchForgotten)
<1>1. LifecycleInv => SlidingWindow /\ NoLiveLaunchForgotten
  BY DEF LifecycleInv, LimiterInv, SlidingWindow, NoLiveLaunchForgotten
<1> QED  BY <1>1, LifecycleInvariant, PTL

-----------------------------------------------------------------------------
(* Refinement of RunStatus *)

\* What GET /runs/{id} answers, as the refinement mapping reads it
StatusMap == [r \in Runs |-> GetRun(r)]

LEMMA StatusInitially == Init => Promise!StatusInit
<1> SUFFICES ASSUME Init PROVE Promise!StatusInit  OBVIOUS
<1>1. StatusMap = [r \in Runs |-> "unknown"]  BY DEF StatusMap, GetRun, Init
<1>2. Holding = {}  BY DEF Holding, Init
<1> QED  BY <1>1, <1>2 DEF Promise!StatusInit, StatusMap

\* A step that changes neither the tasks nor an answer is a stutter.
LEMMA StatusStutters ==
  ASSUME Holding' = Holding, \A r \in Runs : GetRun(r)' = GetRun(r)
  PROVE  UNCHANGED <<StatusMap, Holding>>
<1>1. StatusMap' = StatusMap  BY DEF StatusMap
<1> QED  BY <1>1

\* A queue that goes when the result is stored does not change the answer.
LEMMA DropStutters ==
  ASSUME \/ UNCHANGED bus
         \/ \E r \in Runs : bus' = bus \ {r} /\ result[r] # "none",
         UNCHANGED <<task, result>>
  PROVE  UNCHANGED <<StatusMap, Holding>>
<1>1. Holding' = Holding  BY DEF Holding
<1>2. ASSUME NEW x \in Runs PROVE GetRun(x)' = GetRun(x)  BY DEF GetRun
<1> QED  BY <1>1, <1>2, StatusStutters

LEMMA StartRunLaunches ==
  ASSUME LifecycleInv, NEW r \in Runs, NEW ip \in IPs \cup {NoIP}, StartRun(r, ip)
  PROVE  Promise!Launch(r)
<1>1. /\ task[r] = "none" /\ task' = [task EXCEPT ![r] = "created"]
      /\ bus' = bus \cup {r} /\ UNCHANGED result
      /\ active < MaxConcurrent
  BY SMTT(30) DEF StartRun, Acquire, SlotFree
<1>2. result[r] = "none" /\ r \notin bus  BY <1>1 DEF LifecycleInv, RunInv
<1>3. StatusMap[r] = "unknown"  BY <1>2 DEF StatusMap, GetRun
<1>4. Cardinality(Holding) < MaxConcurrent  BY <1>1 DEF LifecycleInv, SlotAccounting
<1>5. StatusMap' = [StatusMap EXCEPT ![r] = "running"]
  BY <1>1, <1>2, Zenon DEF StatusMap, GetRun
<1>6. Holding' = Holding \cup {r}
  BY <1>1 DEF Holding, LifecycleInv, TypeOK
<1>7. Promise!Cardinality(Holding) = Cardinality(Holding)
  BY DEF Promise!Cardinality, Cardinality
<1> QED  BY <1>3, <1>4, <1>5, <1>6, <1>7 DEF Promise!Launch, StatusMap

LEMMA ConcludesFinishes ==
  ASSUME LifecycleInv, NEW r \in Runs, NEW type,
         NEW status \in {"complete", "failed"}, Concludes(r, type, status), UNCHANGED bus
  PROVE  Promise!Finish(r)
<1>1. /\ task[r] = "running" /\ task' = [task EXCEPT ![r] = "completing"]
      /\ result' = [result EXCEPT ![r] = status]
  BY DEF Concludes, Goes
<1>2. result[r] = "none" /\ r \in bus  BY <1>1 DEF LifecycleInv, RunInv, Unfinished
<1>3. StatusMap[r] = "running"  BY <1>2 DEF StatusMap, GetRun
<1>4. StatusMap' = [StatusMap EXCEPT ![r] = status]
  BY <1>1, Zenon DEF StatusMap, GetRun, LifecycleInv, TypeOK
<1>5. Holding' = Holding  BY <1>1 DEF Holding, LifecycleInv, TypeOK
<1> QED  BY <1>3, <1>4, <1>5, Zenon DEF Promise!Finish, Promise!Final, StatusMap

LEMMA ReleaseSlotVacates ==
  ASSUME LifecycleInv, NEW r \in Runs, ReleaseSlot(r)
  PROVE  Promise!Vacate(r)
<1>1. /\ task[r] = "done" /\ task' = [task EXCEPT ![r] = "released"]
      /\ UNCHANGED <<bus, result>>
  BY DEF ReleaseSlot, Goes
<1>2. result[r] \in {"complete", "failed"}
  BY <1>1 DEF LifecycleInv, RunInv, TypeOK, Finished
<1>3. StatusMap[r] \in Promise!Final  BY <1>2 DEF StatusMap, GetRun, Promise!Final
<1>4. StatusMap' = StatusMap  BY <1>1 DEF StatusMap, GetRun
<1>5. Holding' = Holding \ {r} /\ r \in Holding
  BY <1>1 DEF Holding, LifecycleInv, TypeOK
<1> QED  BY <1>3, <1>4, <1>5 DEF Promise!Vacate, StatusMap

\* Every step is a launch, a finish, a vacated slot or a stutter of RunStatus.
LEMMA StatusStep ==
  ASSUME LifecycleInv, [Next]_vars
  PROVE  (\E r \in Runs : Promise!Launch(r) \/ Promise!Finish(r) \/ Promise!Vacate(r))
           \/ UNCHANGED <<StatusMap, Holding>>
<1> DEFINE Stutter == UNCHANGED <<StatusMap, Holding>>
<1>1. ASSUME UNCHANGED <<task, bus, result>> PROVE Stutter  BY <1>1, DropStutters
<1>2. CASE UNCHANGED vars  BY <1>1, <1>2 DEF vars, runVars
<1>3. ASSUME NEW ip \in IPs \cup {NoIP}, NEW r \in Runs, StartRun(r, ip)
      PROVE  Promise!Launch(r)
  BY <1>3, StartRunLaunches
<1>4. ASSUME NEW ip \in IPs \cup {NoIP}, StartFails(ip) \/ StartRefused(ip)
      PROVE  Stutter
  BY <1>1, <1>4 DEF StartFails, StartRefused, runVars
<1>5. CASE ClockTicks  BY <1>1, <1>5 DEF ClockTicks, runVars
<1>6. ASSUME NEW r \in Runs, TaskStep(r) PROVE Stutter \/ Promise!Finish(r) \/ Promise!Vacate(r)
  <2>1. CASE Execute(r) \/ StartNotified(r) \/ CompleteNotified(r)
    <3>1. PICK to \in TaskStates \ {"none", "released"} :
            /\ task' = [task EXCEPT ![r] = to]
            /\ task[r] \in TaskStates \ {"none", "released"}
            /\ UNCHANGED <<bus, result>>
      BY <2>1 DEF Execute, StartNotified, CompleteNotified, Goes,
                  TaskStates, Unfinished, Finished
    <3>2. Holding' = Holding  BY <3>1 DEF Holding, LifecycleInv, TypeOK
    <3>3. \A x \in Runs : GetRun(x)' = GetRun(x)  BY <3>1 DEF GetRun
    <3> QED  BY <3>2, <3>3, StatusStutters, SMTT(30)
  <2>2. CASE RunTimesOut(r)  BY <2>2, ConcludesFinishes DEF RunTimesOut
  <2>3. CASE ReleaseSlot(r)  BY <2>3, ReleaseSlotVacates
  <2> QED  BY <1>6, <2>1, <2>2, <2>3 DEF TaskStep
<1>7. ASSUME NEW r \in Runs, ScenarioStep(r) PROVE Stutter \/ Promise!Finish(r)
  <2>1. CASE ScenarioEmits(r) \/ StragglerEmits(r)
    BY <1>1, <2>1 DEF ScenarioEmits, StragglerEmits
  <2>2. ASSUME NEW status \in {"complete", "failed"}, ScenarioReturns(r, status)
        PROVE  Promise!Finish(r)
    BY <2>2, ConcludesFinishes DEF ScenarioReturns
  <2>3. ASSUME NEW siblings \in 0..MaxStragglers, ScenarioRaises(r, siblings)
        PROVE  Promise!Finish(r)
    BY <2>3, ConcludesFinishes DEF ScenarioRaises
  <2> QED  BY <1>7, <2>1, <2>2, <2>3, SMTT(30) DEF ScenarioStep
<1>8. ASSUME NEW r \in Runs, Webhook(r) PROVE Stutter  BY <1>1, <1>8 DEF Webhook
<1>9. ASSUME NEW s \in Conns, StreamStep(s) \/ Disconnect(s) PROVE Stutter
  <2>1. CASE SendEnd(s)
    <3>1. /\ conn[s].run \in Runs /\ result[conn[s].run] # "none"
          /\ bus' = bus \ {conn[s].run} /\ UNCHANGED <<task, result>>
      BY <2>1 DEF SendEnd, Moves, DropQueue, LifecycleInv, StreamInv, Open, Sending
    <3> QED  BY <3>1, DropStutters
  <2>2. CASE Take(s) \/ Wait(s) \/ WaitTimesOut(s) \/ SendKeepalive(s) \/ SendData(s)
             \/ SendResult(s) \/ SendReplayEnd(s) \/ Disconnect(s)
    BY <1>1, <2>2 DEF Take, Wait, WaitTimesOut, SendKeepalive, SendData, SendResult,
                      SendReplayEnd, Disconnect, runVars
  <2> QED  BY <1>9, <2>1, <2>2 DEF StreamStep
<1>10. ASSUME NEW s \in Conns, NEW r \in Runs, StreamEvents(s, r) PROVE Stutter
  <2>1. /\ UNCHANGED bus \/ (bus' = bus \ {r} /\ result[r] # "none")
        /\ UNCHANGED <<task, result>>
    BY <1>10 DEF StreamEvents, DropQueue
  <2> QED  BY <2>1, DropStutters, SMTT(30)
<1> QED
  BY <1>2, <1>3, <1>4, <1>5, <1>6, <1>7, <1>8, <1>9, <1>10, SMTT(30) DEF Next, PostRuns

\* The run API implements RunStatus: a run is unknown, then running, then has the
\* outcome it keeps; never more than MAX_CONCURRENT_RUNS runs hold a slot; a slot
\* comes back only after its run's outcome can be read.
THEOREM LifecycleImplementsStatus == Spec => ImplementsStatus
<1>1. LifecycleInv /\ [Next]_vars => [Promise!StatusNext]_<<[r \in Runs |-> GetRun(r)], Holding>>
  BY StatusStep DEF Promise!StatusNext, StatusMap
<1> QED
  BY <1>1, StatusInitially, LifecycleInvariant, PTL DEF Spec, ImplementsStatus, Promise!StatusSpec

=============================================================================
