-------------------------- MODULE RunLifecycleLemmas --------------------------
(***************************************************************************)
(* The inductive invariant of RunLifecycle, the lemmas about its queues,   *)
(* and the steps of the runs themselves.                                   *)
(***************************************************************************)
EXTENDS RunLifecycle, RunLimiterProofs, FiniteSetTheorems

-----------------------------------------------------------------------------
(* The inductive invariant *)

Unfinished == {"created", "starting", "running"}
Finished == {"completing", "done", "released"}
TaskStates == {"none"} \cup Unfinished \cup Finished

\* A queue holds a terminal event only when the outcome is stored.
Settled(q, outcome) ==
    \A i \in 1..Len(q) : q[i].type \in Terminal => outcome # "none"

\* The task, the bus and the results agree: `execute` stores the result in the
\* step that puts the terminal event, and a queue goes only after that.
RunInv ==
    \A r \in Runs :
        /\ task[r] = "none" => r \notin bus
        /\ task[r] \in {"none"} \cup Unfinished => result[r] = "none"
        /\ task[r] \in Unfinished => r \in bus
        /\ task[r] \in Finished => result[r] # "none"
        /\ Settled(queue[r], result[r])

\* A generator has a run, has an event when it is sending one, and is on its
\* way to an end marker only when the result of its run is stored.
StreamInv ==
    \A s \in Conns :
        /\ conn[s].at \in Open \cup {"ended"} => conn[s].run \in Runs
        /\ conn[s].at = "data" => conn[s].ev \in Events
        /\ conn[s].at \in {"end", "ended", "result", "replayEnd"} =>
              result[conn[s].run] # "none"
        /\ conn[s].at = "data" /\ conn[s].ev.type \in Terminal =>
              result[conn[s].run] # "none"

LifecycleInv ==
    /\ LimiterInv
    /\ TypeOK
    /\ RunInv
    /\ StreamInv
    /\ SlotAccounting

-----------------------------------------------------------------------------
(* Helpers *)

\* A put appends one event of the given type to one queue.
LEMMA PutProperty ==
  ASSUME TypeOK, NEW r \in Runs, NEW type \in EventTypes, Put(r, type)
  PROVE  /\ queue' \in [Runs -> Seq(Events)]
         /\ puts' \in [Runs -> Nat]
         /\ \A x \in Runs : x # r => queue'[x] = queue[x]
         /\ \A outcome : Settled(queue[r], outcome)
                           /\ (type \in Terminal => outcome # "none")
                         => Settled(queue'[r], outcome)
<1> DEFINE e == [n |-> puts[r] + 1, type |-> type]
<1>1. queue[r] \in Seq(Events) /\ puts[r] \in Nat /\ e \in Events
  <2>1. queue[r] \in Seq(Events) /\ puts[r] \in Nat  BY DEF TypeOK
  <2> QED  BY <2>1 DEF Events
<1>2. queue' = [queue EXCEPT ![r] = Append(@, e)] /\ puts' = [puts EXCEPT ![r] = @ + 1]
  BY DEF Put
<1>3. e.type = type  OBVIOUS
<1> HIDE DEF e
<1>4. /\ Append(queue[r], e) \in Seq(Events)
      /\ Len(Append(queue[r], e)) = Len(queue[r]) + 1
      /\ \A i \in 1..Len(queue[r]) : Append(queue[r], e)[i] = queue[r][i]
      /\ Append(queue[r], e)[Len(queue[r]) + 1] = e
  BY <1>1, AppendProperties
<1>5. queue'[r] = Append(queue[r], e)  BY <1>2 DEF TypeOK
<1>6. ASSUME NEW outcome, Settled(queue[r], outcome),
             type \in Terminal => outcome # "none"
      PROVE  Settled(queue'[r], outcome)
  <2>1. PICK k \in Nat : k = Len(queue[r])  BY <1>1, LenProperties
  <2> QED  BY <1>3, <1>4, <1>5, <1>6, <2>1 DEF Settled
<1> QED  BY <1>1, <1>2, <1>4, <1>6 DEF TypeOK

\* A generator that moves keeps its run and its event.
LEMMA MovesProperty ==
  ASSUME TypeOK, NEW s \in Conns, NEW to \in ConnStates,
         conn' = [conn EXCEPT ![s].at = to]
  PROVE  /\ conn' \in [Conns -> Generators]
         /\ conn'[s].at = to /\ conn'[s].run = conn[s].run /\ conn'[s].ev = conn[s].ev
         /\ \A o \in Conns : o # s => conn'[o] = conn[o]
<1> DEFINE c == [conn[s] EXCEPT !.at = to]
<1>1. conn \in [Conns -> Generators]  BY DEF TypeOK
<1>2. conn[s] \in Generators  BY <1>1
<1>3. c \in Generators /\ c.at = to /\ c.run = conn[s].run /\ c.ev = conn[s].ev
  BY <1>2 DEF Generators
<1>4. conn' = [conn EXCEPT ![s] = c]  BY Zenon
<1> HIDE DEF c
<1>5. /\ conn' \in [Conns -> Generators]
      /\ conn'[s] = c
      /\ \A o \in Conns : o # s => conn'[o] = conn[o]
  BY <1>1, <1>3, <1>4
<1> QED  BY <1>3, <1>5

\* A generator that takes an event keeps its run.
LEMMA TakesProperty ==
  ASSUME TypeOK, NEW s \in Conns, NEW e \in Events,
         conn' = [conn EXCEPT ![s].at = "data", ![s].ev = e]
  PROVE  /\ conn' \in [Conns -> Generators]
         /\ conn'[s].at = "data" /\ conn'[s].run = conn[s].run /\ conn'[s].ev = e
         /\ \A o \in Conns : o # s => conn'[o] = conn[o]
<1> DEFINE c == [conn[s] EXCEPT !.at = "data", !.ev = e]
<1>1. conn \in [Conns -> Generators]  BY DEF TypeOK
<1>2. conn[s] \in Generators /\ "data" \in ConnStates
  BY <1>1 DEF ConnStates, Open, Sending
<1>3. c \in Generators /\ c.at = "data" /\ c.run = conn[s].run /\ c.ev = e
  BY <1>2, Zenon DEF Generators
<1>4. conn' = [conn EXCEPT ![s] = c]  BY <1>1, Zenon
<1> HIDE DEF c
<1>5. /\ conn' \in [Conns -> Generators]
      /\ conn'[s] = c
      /\ \A o \in Conns : o # s => conn'[o] = conn[o]
  BY <1>1, <1>3, <1>4, Zenon
<1> QED  BY <1>3, <1>5

\* Sending appends to what the client of one connection has got.
LEMMA SentProperty ==
  ASSUME TypeOK, NEW s \in Conns, NEW e \in Events \cup {Replay}, Sent(s, e)
  PROVE  got' \in [Conns -> Seq(Events \cup {Replay})]
<1>1. got[s] \in Seq(Events \cup {Replay})  BY DEF TypeOK
<1>2. Append(got[s], e) \in Seq(Events \cup {Replay})  BY <1>1, AppendProperties
<1> QED  BY <1>2 DEF Sent, TypeOK

\* The slots taken change with the task: a run that joins or leaves the set of
\* holders is one slot.
LEMMA HoldingProperty ==
  ASSUME TypeOK
  PROVE  /\ IsFiniteSet(Holding)
         /\ Cardinality(Holding) \in Nat
<1>1. IsFiniteSet(Holding)  BY LifecycleAssumption, FS_Subset DEF Holding
<1> QED  BY <1>1, FS_CardinalityType

-----------------------------------------------------------------------------
(* Steps that disturb only a part of the invariant *)

\* Nothing but the limiter's clock and deques changes (a refused or failed
\* POST /runs, the clock).
LEMMA LimiterOnly ==
  ASSUME LifecycleInv, LimiterInv', UNCHANGED <<active, runVars, sseVars>>
  PROVE  LifecycleInv'
<1> USE DEF runVars, sseVars
<1>1. TypeOK'  BY DEF LifecycleInv, TypeOK, LimiterInv
<1>2. RunInv' /\ StreamInv'  BY DEF LifecycleInv, RunInv, StreamInv
<1>3. SlotAccounting'  BY DEF LifecycleInv, SlotAccounting, Holding
<1> QED  BY <1>1, <1>2, <1>3 DEF LifecycleInv

\* An event that is not terminal joins a queue (a scenario, a straggler or a
\* webhook emits).
LEMMA EmitPreserves ==
  ASSUME LifecycleInv, LimiterInv', NEW r \in Runs, NEW type \in EventTypes \ Terminal,
         Put(r, type), stragglers' \in [Runs -> 0..MaxStragglers],
         UNCHANGED <<active, task, bus, result, sseVars>>
  PROVE  LifecycleInv'
<1> USE DEF sseVars
<1>1. /\ queue' \in [Runs -> Seq(Events)]
      /\ puts' \in [Runs -> Nat]
      /\ \A x \in Runs : x # r => queue'[x] = queue[x]
      /\ \A outcome : Settled(queue[r], outcome) => Settled(queue'[r], outcome)
  BY PutProperty, Zenon DEF LifecycleInv
<1>2. TypeOK'  BY <1>1 DEF LifecycleInv, TypeOK, LimiterInv
<1>3. \A x \in Runs : Settled(queue'[x], result[x])
  BY <1>1, Zenon DEF LifecycleInv, RunInv
<1>4. RunInv'  BY <1>3 DEF LifecycleInv, RunInv
<1>5. StreamInv'  BY DEF LifecycleInv, StreamInv
<1>6. SlotAccounting'  BY DEF LifecycleInv, SlotAccounting, Holding
<1> QED  BY <1>2, <1>4, <1>5, <1>6 DEF LifecycleInv

\* The task of a run that holds a slot and has not finished moves on; at most
\* run.started is put.
LEMMA TaskMovePreserves ==
  ASSUME LifecycleInv, LimiterInv', NEW r \in Runs, NEW from, NEW to,
         Goes(r, from, to),
         \/ from \in Unfinished /\ to \in Unfinished
         \/ from \in Finished \ {"released"} /\ to \in Finished \ {"released"},
         \/ UNCHANGED <<queue, puts>>
         \/ Put(r, "run.started"),
         UNCHANGED <<active, bus, result, stragglers, sseVars>>
  PROVE  LifecycleInv'
<1> USE DEF sseVars
<1>1. /\ task' = [task EXCEPT ![r] = to] /\ task[r] = from
      /\ task' \in [Runs -> TaskStates] /\ task \in [Runs -> TaskStates]
  BY DEF Goes, LifecycleInv, TypeOK, TaskStates, Unfinished, Finished
<1>2. /\ queue' \in [Runs -> Seq(Events)]
      /\ puts' \in [Runs -> Nat]
      /\ \A x \in Runs : Settled(queue'[x], result[x])
  <2>1. CASE UNCHANGED <<queue, puts>>
    BY <2>1 DEF LifecycleInv, TypeOK, RunInv
  <2>2. CASE Put(r, "run.started")
    <3>1. "run.started" \in EventTypes /\ "run.started" \notin Terminal
      BY DEF EventTypes, Terminal
    <3> QED  BY <2>2, <3>1, PutProperty, Zenon DEF LifecycleInv, RunInv
  <2> QED  BY <2>1, <2>2
<1>3. TypeOK'
  BY <1>1, <1>2, Zenon DEF LifecycleInv, TypeOK, LimiterInv, TaskStates, Unfinished, Finished
<1>4. RunInv'
  BY <1>1, <1>2 DEF LifecycleInv, RunInv, Unfinished, Finished
<1>5. StreamInv'  BY DEF LifecycleInv, StreamInv
<1>6. Holding' = Holding
  BY <1>1 DEF Holding, Unfinished, Finished
<1> QED  BY <1>3, <1>4, <1>5, <1>6 DEF LifecycleInv, SlotAccounting

\* The scenario is over: the terminal event and the result in one step.
LEMMA ConcludesPreserves ==
  ASSUME LifecycleInv, LimiterInv', NEW r \in Runs, NEW type \in Terminal,
         NEW status \in {"complete", "failed"}, Concludes(r, type, status),
         stragglers' \in [Runs -> 0..MaxStragglers],
         UNCHANGED <<active, bus, sseVars>>
  PROVE  LifecycleInv'
<1> USE DEF sseVars
<1>1. /\ task' = [task EXCEPT ![r] = "completing"] /\ task[r] = "running"
      /\ task' \in [Runs -> TaskStates] /\ task \in [Runs -> TaskStates]
      /\ result' = [result EXCEPT ![r] = status]
      /\ Put(r, type)
  BY DEF Concludes, Goes, LifecycleInv, TypeOK, TaskStates, Unfinished, Finished
<1>2. /\ result' \in [Runs -> {"none", "complete", "failed"}]
      /\ result'[r] # "none"
      /\ \A x \in Runs : x # r => result'[x] = result[x]
  BY <1>1 DEF LifecycleInv, TypeOK
<1>3. type \in EventTypes  BY DEF EventTypes
<1>4. /\ queue' \in [Runs -> Seq(Events)]
      /\ puts' \in [Runs -> Nat]
      /\ \A x \in Runs : x # r => queue'[x] = queue[x]
  BY <1>1, <1>3, PutProperty DEF LifecycleInv
<1>5. \A x \in Runs : Settled(queue'[x], result'[x])
  BY <1>2, <1>4, SMTT(30) DEF LifecycleInv, RunInv, Settled
<1>6. TypeOK'
  BY <1>1, <1>2, <1>4 DEF LifecycleInv, TypeOK, LimiterInv, TaskStates, Unfinished, Finished
<1>7. RunInv'
  BY <1>1, <1>2, <1>5 DEF LifecycleInv, RunInv, Unfinished, Finished
<1>8. StreamInv'
  <2>1. \A x \in Runs : result[x] # "none" => result'[x] # "none"  BY <1>2
  <2> QED  BY <2>1 DEF LifecycleInv, StreamInv, Open, Sending
<1>9. Holding' = Holding  BY <1>1 DEF Holding
<1> QED  BY <1>6, <1>7, <1>8, <1>9 DEF LifecycleInv, SlotAccounting

\* POST /runs is accepted: one more slot, one more holder.
LEMMA StartRunPreserves ==
  ASSUME LifecycleInv, LimiterInv', NEW r \in Runs, NEW ip \in IPs \cup {NoIP},
         StartRun(r, ip)
  PROVE  LifecycleInv'
<1> USE DEF sseVars
<1>1. /\ task' = [task EXCEPT ![r] = "created"] /\ task[r] = "none"
      /\ task' \in [Runs -> TaskStates] /\ task \in [Runs -> TaskStates]
      /\ bus' = bus \cup {r}
      /\ UNCHANGED <<queue, result, stragglers, puts, sseVars>>
      /\ active' = active + 1
  BY DEF StartRun, Acquire, LifecycleInv, TypeOK, TaskStates, Unfinished, Finished
<1>2. TypeOK'
  BY <1>1 DEF LifecycleInv, TypeOK, LimiterInv, TaskStates, Unfinished, Finished
<1>3. RunInv'  BY <1>1 DEF LifecycleInv, RunInv, Unfinished, Finished
<1>4. StreamInv'  BY <1>1 DEF LifecycleInv, StreamInv
<1>5. SlotAccounting'
  <2>1. Holding' = Holding \cup {r} /\ r \notin Holding  BY <1>1 DEF Holding
  <2>2. Cardinality(Holding \cup {r}) = Cardinality(Holding) + 1
    BY <2>1, HoldingProperty, FS_AddElement DEF LifecycleInv
  <2> QED  BY <1>1, <2>1, <2>2 DEF LifecycleInv, SlotAccounting
<1> QED  BY <1>2, <1>3, <1>4, <1>5 DEF LifecycleInv

\* The done callback: one slot less, one holder less.  `max(0, active - 1)` is
\* plain subtraction because the run itself still holds a slot.
LEMMA ReleaseSlotPreserves ==
  ASSUME LifecycleInv, LimiterInv', NEW r \in Runs, ReleaseSlot(r)
  PROVE  LifecycleInv'
<1> USE DEF sseVars
<1>1. /\ task' = [task EXCEPT ![r] = "released"] /\ task[r] = "done"
      /\ task' \in [Runs -> TaskStates] /\ task \in [Runs -> TaskStates]
      /\ UNCHANGED <<bus, queue, result, stragglers, puts, sseVars>>
      /\ active' = Larger(0, active - 1)
  BY SMTT(30) DEF ReleaseSlot, Release, Goes, LifecycleInv, TypeOK, TaskStates, Unfinished, Finished
<1>2. TypeOK'
  BY <1>1 DEF LifecycleInv, TypeOK, LimiterInv, TaskStates, Unfinished, Finished
<1>3. RunInv'  BY <1>1 DEF LifecycleInv, RunInv, Unfinished, Finished
<1>4. StreamInv'  BY <1>1 DEF LifecycleInv, StreamInv
<1>5. SlotAccounting'
  <2>1. Holding' = Holding \ {r} /\ r \in Holding  BY <1>1 DEF Holding
  <2>2. /\ Cardinality(Holding \ {r}) = Cardinality(Holding) - 1
        /\ Cardinality(Holding \ {r}) \in Nat
    BY <2>1, HoldingProperty, FS_RemoveElement, FS_CardinalityType DEF LifecycleInv
  <2>3. active = Cardinality(Holding)  BY DEF LifecycleInv, SlotAccounting
  <2>4. PICK k \in Nat : k = Cardinality(Holding)  BY HoldingProperty DEF LifecycleInv
  <2>5. Larger(0, k - 1) = k - 1  BY <2>2, <2>4 DEF Larger
  <2> QED  BY <1>1, <2>1, <2>2, <2>3, <2>4, <2>5, SMTT(30) DEF SlotAccounting
<1> QED  BY <1>2, <1>3, <1>4, <1>5 DEF LifecycleInv
=============================================================================
