----------------------------- MODULE SidecarProofs -----------------------------
(***************************************************************************)
(* No execution emits a chunk that answers another request, for any number *)
(* of tasks and of cancelled calls.                                        *)
(***************************************************************************)
EXTENDS Sidecar, TLAPS

Points == [at : {"lock", "read", "verify", "done"}, op : Ops]
Results == [task : Tasks, op : Ops, kind : {None, "emit", "linked", "withhold"}]
Requests == [id : Nat, op : Ops, task : Tasks, inputs : SUBSET Cited]
Replies == [id : Nat, ok : BOOLEAN, result : Results]

SidecarTypeOK ==
    /\ pc \in [Tasks -> Points]
    /\ req \in [Tasks -> Nat]
    /\ inputs \in [Tasks -> SUBSET Cited]
    /\ emitted \in [Tasks -> Seq(Results)]
    /\ state \in [Tasks -> {"submitted", "working", "failed", "completed"}]
    /\ ids \in Nat
    /\ stdin \in Seq(Requests)
    /\ stdout \in Seq(Replies)

\* What carries the id n is about the call op of task u, if a call reads for
\* it: stale replies may lie in the pipe, but no reader waits for their ids.
Matches(n, u, op) ==
    /\ n <= ids
    /\ \A t \in Tasks : pc[t].at = "read" /\ req[t] = n => u = t /\ op = pc[t].op

PipeMatches ==
    /\ \A t \in Tasks : req[t] <= ids
    /\ \A i \in DOMAIN stdin : Matches(stdin[i].id, stdin[i].task, stdin[i].op)
    /\ \A i \in DOMAIN stdout :
            Matches(stdout[i].id, stdout[i].result.task, stdout[i].result.op)

Own(t, i, chunk) == chunk.task = t /\ chunk.op = IF i = 1 THEN "chunk1" ELSE "chunk2"

\* How many chunks an execution has emitted, by the call it is at.
Emission(t) ==
    /\ \A i \in DOMAIN emitted[t] : Own(t, i, emitted[t][i])
    /\ pc[t].op \in {"begin", "message", "verified_inputs", "chunk1"} => Len(emitted[t]) = 0
    /\ pc[t].op = "chunk2" => Len(emitted[t]) = 1
    /\ state[t] = "completed" => Len(emitted[t]) = 2

SidecarInv == SidecarTypeOK /\ PipeMatches /\ \A t \in Tasks : Emission(t)

\* A producer that just started has an empty pipe.
LEMMA InitSidecar == Init => SidecarInv
BY DEF Init, SidecarInv, SidecarTypeOK, PipeMatches, Emission, Points, Ops, Requests, Replies,
       Results

\* The steps of execute and of call that start no read.
Quiet ==
    /\ req' = req /\ ids' = ids
    /\ \A t \in Tasks : pc'[t].at = "read" => pc'[t] = pc[t]

\* What a step of an execution leaves behind, but for the pipe.
ExecKept ==
    /\ pc' \in [Tasks -> Points]
    /\ emitted' \in [Tasks -> Seq(Results)]
    /\ state' \in [Tasks -> {"submitted", "working", "failed", "completed"}]
    /\ \A t \in Tasks : Emission(t)'
    /\ req' = req /\ inputs' = inputs
    /\ \A t \in Tasks : pc'[t].at = "read" => pc'[t] = pc[t]

\* An exception out of a call keeps the chunks emitted (execute's finally).
LEMMA FailKeeps ==
    ASSUME SidecarInv, NEW t \in Tasks, NEW why, Fail(t, why)
    PROVE  ExecKept
<1>1. pc \in [Tasks -> Points] /\ UNCHANGED <<req, inputs, emitted, state>>
  BY DEF SidecarInv, SidecarTypeOK, Fail
<1>2. \/ pc' = [pc EXCEPT ![t] = [at |-> "done", op |-> pc[t].op]]
      \/ pc' = [pc EXCEPT ![t] = [at |-> "lock", op |-> "end"]]
  BY DEF Fail, Goto
<1>3. pc' \in [Tasks -> Points] /\ \A u \in Tasks : pc'[u].at = "read" => pc'[u] = pc[u]
  BY <1>1, <1>2 DEF Points, Ops
<1>4. ASSUME NEW u \in Tasks PROVE pc'[u].op \in {pc[u].op, "end"}
  BY <1>1, <1>2 DEF Points
<1>5. ASSUME NEW u \in Tasks PROVE Emission(u)'
  BY <1>1, <1>4 DEF SidecarInv, Emission
<1> QED BY <1>1, <1>3, <1>5 DEF ExecKept, SidecarInv, SidecarTypeOK

\* A call that returned the result of its own request moves execute on, and a
\* chunk it emits is its own.
LEMMA AdvanceKeeps ==
    ASSUME SidecarInv, NEW t \in Tasks, NEW result \in Results, Advance(t, result),
           result.task = t, result.op = pc[t].op
    PROVE  ExecKept
<1> DEFINE op == pc[t].op
           chunks == {"chunk1", "chunk2"}
           withheld == op \in chunks /\ result.kind = "withhold"
<1>1. /\ pc \in [Tasks -> Points] /\ emitted \in [Tasks -> Seq(Results)]
      /\ state \in [Tasks -> {"submitted", "working", "failed", "completed"}]
      /\ \A u \in Tasks : Emission(u)
  BY DEF SidecarInv, SidecarTypeOK
<1>2. UNCHANGED <<req, inputs>>
  BY DEF Advance
<1>3. \E at \in {"lock", "verify", "done"}, next \in Ops :
        /\ pc' = [pc EXCEPT ![t] = [at |-> at, op |-> next]]
        /\ next \in {"begin", "message", "verified_inputs", "chunk1"} => op \notin chunks
        /\ next \in {"begin", "message", "verified_inputs", "chunk1"} => op # "end"
        /\ next = "chunk2" => op = "chunk1" /\ ~withheld
  BY DEF Advance, Goto, Ops
<1>4. PICK at \in {"lock", "verify", "done"}, next \in Ops :
        /\ pc' = [pc EXCEPT ![t] = [at |-> at, op |-> next]]
        /\ next \in {"begin", "message", "verified_inputs", "chunk1"} => op \notin chunks
        /\ next \in {"begin", "message", "verified_inputs", "chunk1"} => op # "end"
        /\ next = "chunk2" => op = "chunk1" /\ ~withheld
  BY <1>3
<1>5. pc' \in [Tasks -> Points] /\ \A u \in Tasks : pc'[u].at = "read" => pc'[u] = pc[u]
  BY <1>1, <1>4 DEF Points
<1>6. /\ pc'[t].op = next
      /\ \A u \in Tasks \ {t} : pc'[u] = pc[u]
  BY <1>1, <1>4
<1>7. op \in Ops
  BY <1>1 DEF Points
<1>8. state' = [state EXCEPT ![t] = IF op = "message" THEN "working"
                                   ELSE IF withheld THEN "failed"
                                   ELSE IF op = "chunk2" THEN "completed" ELSE @]
  BY DEF Advance
<1>9. /\ state' \in [Tasks -> {"submitted", "working", "failed", "completed"}]
      /\ \A u \in Tasks \ {t} : state'[u] = state[u]
      /\ state'[t] = "completed" => state[t] = "completed" \/ (op = "chunk2" /\ ~withheld)
  BY <1>1, <1>8
<1>10. CASE op \in chunks /\ ~withheld
  <2>1. emitted' = [emitted EXCEPT ![t] = Append(@, result)]
    BY <1>10 DEF Advance
  <2>2. emitted' \in [Tasks -> Seq(Results)] /\ emitted'[t] = Append(emitted[t], result)
    BY <1>1, <2>1
  <2>3. Len(emitted[t]) = IF op = "chunk1" THEN 0 ELSE 1
    BY <1>1, <1>10 DEF Emission
  <2>4. emitted[t] \in Seq(Results) /\ Len(emitted'[t]) = Len(emitted[t]) + 1
    BY <1>1, <2>2
  <2>5. ASSUME NEW i \in DOMAIN emitted'[t] PROVE Own(t, i, emitted'[t][i])
    <3>1. CASE i \in DOMAIN emitted[t]
      <4>1. emitted'[t][i] = emitted[t][i]
        BY <2>2, <2>4, <3>1
      <4> QED BY <1>1, <3>1, <4>1 DEF Emission
    <3>2. CASE i \notin DOMAIN emitted[t]
      <4>1. i = Len(emitted[t]) + 1 /\ emitted'[t][i] = result
        BY <2>2, <2>4, <2>5, <3>2
      <4>2. i = 1 <=> op = "chunk1"
        BY <2>3, <4>1
      <4> QED BY <1>10, <4>1, <4>2 DEF Own
    <3> QED BY <3>1, <3>2
  <2>6. Emission(t)'
    <3>1. next \notin {"begin", "message", "verified_inputs", "chunk1"}
      BY <1>4, <1>10
    <3>2. next = "chunk2" => Len(emitted'[t]) = 1
      BY <1>4, <2>3, <2>4
    <3>3. state'[t] = "completed" => Len(emitted'[t]) = 2
      <4>0. Len(emitted[t]) # 2
        BY <2>3
      <4>1. state[t] # "completed"
        BY <1>1, <4>0 DEF Emission
      <4>2. state'[t] = "completed" => op = "chunk2"
        BY <1>9, <4>1
      <4> QED BY <2>3, <2>4, <4>2
    <3> QED BY <1>6, <2>5, <3>1, <3>2, <3>3 DEF Emission
  <2>7. ASSUME NEW u \in Tasks \ {t} PROVE Emission(u)'
    <3>1. emitted'[u] = emitted[u]
      BY <1>1, <2>1
    <3> QED BY <1>1, <1>6, <1>9, <3>1 DEF Emission
  <2> QED BY <1>2, <1>5, <1>9, <2>2, <2>6, <2>7 DEF ExecKept
<1>11. CASE ~(op \in chunks /\ ~withheld)
  <2>1. emitted' = emitted
    BY <1>11 DEF Advance
  <2>2. Emission(t)'
    <3>1. next \in {"begin", "message", "verified_inputs", "chunk1"} => Len(emitted[t]) = 0
      BY <1>1, <1>4, <1>7 DEF Emission, Ops
    <3>2. next # "chunk2"
      BY <1>4, <1>11
    <3>3. state'[t] = "completed" => Len(emitted[t]) = 2
      BY <1>1, <1>9, <1>11 DEF Emission
    <3> QED BY <1>1, <1>6, <2>1, <3>1, <3>2, <3>3 DEF Emission
  <2>3. ASSUME NEW u \in Tasks \ {t} PROVE Emission(u)'
    BY <1>1, <1>6, <1>9, <2>1 DEF Emission
  <2> QED BY <1>1, <1>2, <1>5, <1>9, <2>1, <2>2, <2>3 DEF ExecKept
<1> QED BY <1>10, <1>11

\* A step of an execution that writes nothing and takes at most the first line
\* of stdout keeps the invariant.
LEMMA ExecStep ==
    ASSUME SidecarInv, ExecKept, ids' = ids, stdin' = stdin,
           stdout' = stdout \/ (stdout # <<>> /\ stdout' = Tail(stdout))
    PROVE  SidecarInv'
<1>1. Quiet
  BY DEF ExecKept, Quiet
<1>2. stdout \in Seq(Replies) /\ stdin \in Seq(Requests) /\ PipeMatches
  BY DEF SidecarInv, SidecarTypeOK
<1>3. stdout' \in Seq(Replies)
  BY <1>2
<1>4. ASSUME NEW i \in DOMAIN stdout'
      PROVE  Matches(stdout[i].id, stdout[i].result.task, stdout[i].result.op)'
  <2>1. \E j \in DOMAIN stdout : stdout'[i] = stdout[j]
    <3>1. CASE stdout' = stdout
      BY <3>1
    <3>2. CASE stdout # <<>> /\ stdout' = Tail(stdout)
      <4>1. i + 1 \in DOMAIN stdout /\ stdout'[i] = stdout[i + 1]
        BY <1>2, <1>4, <3>2
      <4> QED BY <4>1
    <3> QED BY <3>1, <3>2
  <2>2. PICK j \in DOMAIN stdout : stdout'[i] = stdout[j]
    BY <2>1
  <2>3. Matches(stdout[j].id, stdout[j].result.task, stdout[j].result.op)
    BY <1>2 DEF PipeMatches
  <2> QED BY <1>1, <2>2, <2>3 DEF Quiet, Matches
<1>5. ASSUME NEW i \in DOMAIN stdin'
      PROVE  Matches(stdin[i].id, stdin[i].task, stdin[i].op)'
  <2>1. Matches(stdin[i].id, stdin[i].task, stdin[i].op)
    BY <1>2, <1>5 DEF PipeMatches
  <2> QED BY <1>1, <2>1 DEF Quiet, Matches
<1>6. \A t \in Tasks : req'[t] <= ids'
  BY <1>2 DEF ExecKept, PipeMatches
<1>7. PipeMatches'
  BY <1>4, <1>5, <1>6 DEF PipeMatches
<1>8. SidecarTypeOK'
  BY <1>2, <1>3 DEF SidecarInv, SidecarTypeOK, ExecKept
<1> QED BY <1>7, <1>8 DEF SidecarInv, ExecKept

\* A request carries a fresh id, which no line in the pipe has (Sidecar.call).
LEMMA SendKeeps == ASSUME SidecarInv, NEW t \in Tasks, Send(t) PROVE SidecarInv'
<1> DEFINE r == [id |-> ids + 1, op |-> pc[t].op, task |-> t, inputs |-> inputs[t]]
<1>1. /\ SidecarTypeOK /\ PipeMatches /\ \A u \in Tasks : Emission(u)
      /\ ids' = ids + 1 /\ stdout' = stdout
      /\ stdin' = stdin \/ stdin' = Append(stdin, r)
  BY DEF SidecarInv, Send
<1>2. /\ pc \in [Tasks -> Points] /\ req \in [Tasks -> Nat] /\ ids \in Nat
      /\ inputs \in [Tasks -> SUBSET Cited]
      /\ stdin \in Seq(Requests) /\ stdout \in Seq(Replies)
  BY <1>1 DEF SidecarTypeOK
<1>3. r \in Requests
  BY <1>2 DEF Requests, Points
<1>r. r.id = ids + 1 /\ r.task = t /\ r.op = pc[t].op
  OBVIOUS
<1> HIDE DEF r
<1>s. stdin' = stdin \/ stdin' = Append(stdin, r)
  BY <1>1
<1>3a. stdin' \in Seq(Requests)
  <2>1. CASE stdin' = stdin
    BY <1>2, <2>1
  <2>2. CASE stdin' = Append(stdin, r)
    BY <1>2, <1>3, <2>2
  <2> QED BY <1>s, <2>1, <2>2
<1>4. ASSUME NEW i \in DOMAIN stdin'
      PROVE  (i \in DOMAIN stdin /\ stdin'[i] = stdin[i]) \/ stdin'[i] = r
  <2>1. CASE stdin' = stdin
    BY <1>4, <2>1
  <2>2. CASE stdin' = Append(stdin, r)
    BY <1>2, <1>3, <1>4, <2>2
  <2> QED BY <1>s, <2>1, <2>2
<1>4a. ASSUME NEW i \in DOMAIN stdin
       PROVE  stdin[i].id \in Nat /\ Matches(stdin[i].id, stdin[i].task, stdin[i].op)
  <2>1. stdin[i] \in Requests
    BY <1>2
  <2> QED BY <1>1, <2>1 DEF Requests, PipeMatches
<1>4b. ASSUME NEW i \in DOMAIN stdout
       PROVE  /\ stdout[i].id \in Nat
              /\ Matches(stdout[i].id, stdout[i].result.task, stdout[i].result.op)
  <2>1. stdout[i] \in Replies
    BY <1>2
  <2> QED BY <1>1, <2>1 DEF Replies, PipeMatches
<1>4c. \A v \in Tasks : req[v] \in Nat /\ req[v] <= ids
  BY <1>1, <1>2 DEF PipeMatches
<1>5. CASE ExecKept
  <2>1. ASSUME NEW i \in DOMAIN stdin' PROVE Matches(stdin[i].id, stdin[i].task, stdin[i].op)'
    <3>1. CASE i \in DOMAIN stdin /\ stdin'[i] = stdin[i]
      <4>1. stdin[i].id \in Nat /\ Matches(stdin[i].id, stdin[i].task, stdin[i].op)
        BY <1>4a, <3>1
      <4> QED BY <1>1, <1>2, <1>5, <3>1, <4>1 DEF ExecKept, Matches
    <3>2. CASE stdin'[i] = r
      BY <1>1, <1>2, <1>r, <1>4c, <1>5, <3>2 DEF ExecKept, Matches
    <3> QED BY <1>4, <3>1, <3>2
  <2>2. ASSUME NEW i \in DOMAIN stdout'
        PROVE  Matches(stdout[i].id, stdout[i].result.task, stdout[i].result.op)'
    <3>1. /\ stdout[i].id \in Nat
          /\ Matches(stdout[i].id, stdout[i].result.task, stdout[i].result.op)
      BY <1>1, <1>4b, <2>2
    <3> QED BY <1>1, <1>2, <1>5, <3>1 DEF ExecKept, Matches
  <2>3. \A v \in Tasks : req'[v] <= ids'
    BY <1>1, <1>2, <1>4c, <1>5 DEF ExecKept
  <2>4. SidecarTypeOK'
    BY <1>1, <1>2, <1>3a, <1>5 DEF ExecKept, SidecarTypeOK
  <2> QED BY <1>5, <2>1, <2>2, <2>3, <2>4 DEF SidecarInv, PipeMatches, ExecKept
<1>6. CASE /\ req' = [req EXCEPT ![t] = ids + 1] /\ Goto(t, "read", pc[t].op)
           /\ UNCHANGED <<inputs, emitted, state>>
  <2>1. /\ pc' \in [Tasks -> Points] /\ req' \in [Tasks -> Nat]
        /\ pc'[t] = [at |-> "read", op |-> pc[t].op] /\ req'[t] = ids + 1
        /\ \A v \in Tasks : pc'[v].op = pc[v].op
        /\ \A v \in Tasks \ {t} : pc'[v] = pc[v] /\ req'[v] = req[v]
    BY <1>2, <1>6 DEF Goto, Points
  <2>2. ASSUME NEW i \in DOMAIN stdin' PROVE Matches(stdin[i].id, stdin[i].task, stdin[i].op)'
    <3>1. CASE i \in DOMAIN stdin /\ stdin'[i] = stdin[i]
      <4>1. stdin[i].id \in Nat /\ Matches(stdin[i].id, stdin[i].task, stdin[i].op)
        BY <1>4a, <3>1
      <4>2. stdin[i].id <= ids' /\ stdin[i].id # req'[t]
        BY <1>1, <1>2, <2>1, <4>1 DEF Matches
      <4> QED BY <2>1, <3>1, <4>1, <4>2 DEF Matches
    <3>2. CASE stdin'[i] = r
      <4>1. \A v \in Tasks \ {t} : req'[v] # ids + 1
        BY <1>2, <1>4c, <2>1
      <4>2. r.id <= ids' /\ r.op = pc'[t].op
        BY <1>1, <1>2, <1>r, <2>1
      <4> QED BY <1>r, <3>2, <4>1, <4>2 DEF Matches
    <3> QED BY <1>4, <3>1, <3>2
  <2>3. ASSUME NEW i \in DOMAIN stdout'
        PROVE  Matches(stdout[i].id, stdout[i].result.task, stdout[i].result.op)'
    <3>1. /\ stdout[i].id \in Nat
          /\ Matches(stdout[i].id, stdout[i].result.task, stdout[i].result.op)
      BY <1>1, <1>4b, <2>3
    <3>2. stdout[i].id <= ids' /\ stdout[i].id # req'[t]
      BY <1>1, <1>2, <2>1, <3>1 DEF Matches
    <3> QED BY <1>1, <2>1, <3>1, <3>2 DEF Matches
  <2>4. ASSUME NEW v \in Tasks PROVE req'[v] <= ids'
    <3>1. ids' = ids + 1 /\ ids \in Nat
      BY <1>1, <1>2
    <3>2. CASE v = t
      BY <2>1, <3>1, <3>2
    <3>3. CASE v # t
      <4>1. req'[v] = req[v] /\ req[v] \in Nat /\ req[v] <= ids
        BY <1>4c, <2>1, <3>3
      <4> QED BY <3>1, <4>1
    <3> QED BY <3>2, <3>3
  <2>5. SidecarTypeOK'
    BY <1>1, <1>2, <1>3a, <1>6, <2>1 DEF SidecarTypeOK
  <2>6. ASSUME NEW v \in Tasks PROVE Emission(v)'
    BY <1>1, <1>6, <2>1 DEF Emission
  <2> QED BY <2>2, <2>3, <2>4, <2>5, <2>6 DEF SidecarInv, PipeMatches
<1>7. ASSUME Fail(t, "connection lost") PROVE ExecKept
  BY FailKeeps, <1>7
<1> QED BY <1>5, <1>6, <1>7 DEF Send

\* Whatever handle does, main writes one line with the id of the request.
LEMMA HandleReplies ==
    ASSUME NEW r, Handle(r)
    PROVE  \E ok \in BOOLEAN, kind \in {None, "emit", "linked", "withhold"} :
                stdout' = Append(stdout, [id |-> r.id, ok |-> ok, result |-> Answer(r, kind)])
BY DEF Handle, Complete, Reply

\* The bridge's reply carries the id, task and op of the request it answers.
LEMMA ServeKeeps == ASSUME SidecarInv, Serve PROVE SidecarInv'
<1>1. /\ SidecarTypeOK /\ PipeMatches /\ \A u \in Tasks : Emission(u)
      /\ stdin # <<>> /\ stdin' = Tail(stdin) /\ Handle(stdin[1])
      /\ UNCHANGED <<exec, ids>>
  BY DEF SidecarInv, Serve
<1>2. /\ stdin \in Seq(Requests) /\ stdout \in Seq(Replies)
      /\ UNCHANGED <<pc, req, inputs, emitted, state, ids>>
  BY <1>1 DEF SidecarTypeOK, exec
<1>3. stdin[1] \in Requests /\ 1 \in DOMAIN stdin
  BY <1>1, <1>2
<1>4. PICK ok \in BOOLEAN, kind \in {None, "emit", "linked", "withhold"} :
        stdout' = Append(stdout, [id |-> stdin[1].id, ok |-> ok, result |-> Answer(stdin[1], kind)])
  BY <1>1, HandleReplies
<1> DEFINE y == [id |-> stdin[1].id, ok |-> ok, result |-> Answer(stdin[1], kind)]
<1>5. y \in Replies
  BY <1>3 DEF Answer, Requests, Replies, Results
<1>6. Matches(y.id, y.result.task, y.result.op)
  BY <1>1, <1>3 DEF PipeMatches, Answer
<1>7. stdout' = Append(stdout, y)
  BY <1>4
<1> HIDE DEF y
<1>8. stdout' \in Seq(Replies) /\ stdin' \in Seq(Requests)
  BY <1>1, <1>2, <1>5, <1>7
<1>9. ASSUME NEW i \in DOMAIN stdout'
      PROVE  Matches(stdout[i].id, stdout[i].result.task, stdout[i].result.op)'
  <2>1. CASE i \in DOMAIN stdout
    <3>1. stdout'[i] = stdout[i]
      BY <1>2, <1>5, <1>7, <2>1
    <3>2. Matches(stdout[i].id, stdout[i].result.task, stdout[i].result.op)
      BY <1>1, <2>1 DEF PipeMatches
    <3> QED BY <1>2, <3>1, <3>2 DEF Matches
  <2>2. CASE i \notin DOMAIN stdout
    <3>1. stdout'[i] = y
      BY <1>2, <1>5, <1>7, <1>9, <2>2
    <3> QED BY <1>2, <1>6, <3>1 DEF Matches
  <2> QED BY <2>1, <2>2
<1>10. ASSUME NEW i \in DOMAIN stdin' PROVE Matches(stdin[i].id, stdin[i].task, stdin[i].op)'
  <2>1. i + 1 \in DOMAIN stdin /\ stdin'[i] = stdin[i + 1]
    BY <1>1, <1>2, <1>10
  <2>2. Matches(stdin[i + 1].id, stdin[i + 1].task, stdin[i + 1].op)
    BY <1>1, <2>1 DEF PipeMatches
  <2> QED BY <1>2, <2>1, <2>2 DEF Matches
<1>11. SidecarTypeOK'
  BY <1>1, <1>2, <1>8 DEF SidecarTypeOK
<1>12. \A u \in Tasks : Emission(u)' /\ req'[u] <= ids'
  BY <1>1, <1>2 DEF Emission, PipeMatches
<1> QED BY <1>9, <1>10, <1>11, <1>12 DEF SidecarInv, PipeMatches

\* The line a call reads answers its own request, or the call fails.
LEMMA ReadKeeps == ASSUME SidecarInv, NEW t \in Tasks, Read(t) PROVE SidecarInv'
<1> DEFINE reply == stdout[1]
<1>1. /\ pc[t].at = "read" /\ stdout # <<>> /\ stdout' = Tail(stdout) /\ ids' = ids /\ stdin' = stdin
      /\ Fail(t, "other id") \/ Fail(t, "refused") \/ (reply.id = req[t] /\ Advance(t, reply.result))
  BY DEF Read
<1>2. reply \in Replies /\ 1 \in DOMAIN stdout
  <2>1. stdout \in Seq(Replies) /\ stdout # <<>>
    BY <1>1 DEF SidecarInv, SidecarTypeOK
  <2> QED BY <2>1
<1>3. Matches(reply.id, reply.result.task, reply.result.op)
  BY <1>2 DEF SidecarInv, PipeMatches
<1>4. ExecKept
  <2>1. CASE Fail(t, "other id") \/ Fail(t, "refused")
    BY FailKeeps, <2>1
  <2>2. CASE reply.id = req[t] /\ Advance(t, reply.result)
    <3>1. reply.result.task = t /\ reply.result.op = pc[t].op
      BY <1>1, <1>3, <2>2 DEF Matches
    <3>2. reply.result \in Results
      BY <1>2 DEF Replies
    <3> QED BY AdvanceKeeps, <2>2, <3>1, <3>2
  <2> QED BY <1>1, <2>1, <2>2
<1> QED BY ExecStep, <1>1, <1>4

\* Every step of the executions, the pipe and the bridge keeps the invariant.
LEMMA StepSidecar == SidecarInv /\ [Next]_vars => SidecarInv'
<1> SUFFICES ASSUME SidecarInv, [Next]_vars PROVE SidecarInv'
  OBVIOUS
<1>1. ASSUME UNCHANGED <<exec, ids, stdout>>, stdin' = stdin \/ stdin' = <<>> PROVE SidecarInv'
  <2>1. UNCHANGED <<pc, req, inputs, emitted, state, ids, stdout>>
    BY <1>1 DEF exec
  <2>2. SidecarTypeOK'
    <3>1. stdin \in Seq(Requests)
      BY DEF SidecarInv, SidecarTypeOK
    <3>2. stdin' \in Seq(Requests)
      <4>1. CASE stdin' = stdin
        BY <3>1, <4>1
      <4>2. CASE stdin' = <<>>
        BY <4>2
      <4> QED BY <1>1, <4>1, <4>2
    <3> QED BY <2>1, <3>2 DEF SidecarInv, SidecarTypeOK
  <2>3. PipeMatches'
    <3>1. CASE stdin' = stdin
      BY <2>1, <3>1 DEF SidecarInv, PipeMatches, Matches
    <3>2. CASE stdin' = <<>>
      <4>1. DOMAIN stdin' = {}
        BY <3>2
      <4> QED BY <2>1, <4>1 DEF SidecarInv, PipeMatches, Matches
    <3> QED BY <1>1, <3>1, <3>2
  <2>4. \A t \in Tasks : Emission(t)'
    BY <2>1 DEF SidecarInv, Emission
  <2> QED BY <2>2, <2>3, <2>4 DEF SidecarInv
<1>2. CASE UNCHANGED vars
  BY <1>1, <1>2 DEF vars, pipe
<1>3. CASE Serve
  BY ServeKeeps, <1>3
<1>4. CASE Close \/ Exit
  BY <1>1, <1>4 DEF Close, Exit
<1>5. ASSUME NEW t \in Tasks, Send(t) PROVE SidecarInv'
  BY SendKeeps, <1>5
<1>6. ASSUME NEW t \in Tasks, Read(t) PROVE SidecarInv'
  BY ReadKeeps, <1>6
<1>7. ASSUME NEW t \in Tasks, ReadEof(t) \/ Cancel(t) PROVE SidecarInv'
  <2>1. Fail(t, "exited") \/ Fail(t, "cancelled")
    BY <1>7 DEF ReadEof, Cancel
  <2>2. ids' = ids /\ stdin' = stdin /\ stdout' = stdout
    BY <1>7 DEF ReadEof, Cancel
  <2> QED BY FailKeeps, ExecStep, <2>1, <2>2
<1>8. ASSUME NEW t \in Tasks, VerifyInputs(t) PROVE SidecarInv'
  <2>1. /\ pc[t] = [at |-> "verify", op |-> "message"]
        /\ pc' = [pc EXCEPT ![t] = [at |-> "lock", op |-> "verified_inputs"]]
        /\ inputs' \in [Tasks -> SUBSET Cited]
        /\ UNCHANGED <<req, emitted, state, ids, stdin, stdout>>
    BY <1>8 DEF VerifyInputs, At, Goto, pipe, SidecarInv, SidecarTypeOK
  <2>2. pc' \in [Tasks -> Points]
    BY <2>1 DEF SidecarInv, SidecarTypeOK, Points, Ops
  <2>3. Quiet
    BY <2>1 DEF Quiet, SidecarInv, SidecarTypeOK, Points
  <2>4. ASSUME NEW u \in Tasks PROVE Emission(u)'
    BY <2>1 DEF SidecarInv, SidecarTypeOK, Emission
  <2>5. PipeMatches'
    BY <2>1, <2>3 DEF SidecarInv, PipeMatches, Matches, Quiet
  <2>6. SidecarTypeOK'
    BY <2>1, <2>2 DEF SidecarInv, SidecarTypeOK
  <2> QED BY <2>4, <2>5, <2>6 DEF SidecarInv
<1>9. CASE Finished
  BY <1>2, <1>9 DEF Finished
<1> QED BY <1>2, <1>3, <1>4, <1>5, <1>6, <1>7, <1>8, <1>9 DEF Next, Step

\* However many calls are cancelled and whatever they leave in the pipe, the
\* chunks a task's client sees are those the bridge made for that task, in
\* order, and a completed task has both.
THEOREM SidecarEmitsOwn == Spec => []EmitsOwnChunks
<1>1. SidecarInv => EmitsOwnChunks
  BY DEF SidecarInv, Emission, Own, EmitsOwnChunks
<1> QED BY InitSidecar, StepSidecar, <1>1, PTL DEF Spec
================================================================================
