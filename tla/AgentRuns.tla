------------------------------- MODULE AgentRuns -------------------------------
(***************************************************************************)
(* The publishing scenarios S1-S5 and S8: agents (agents/base.py) that     *)
(* read what they derive from, ask the LLM and publish, one after another  *)
(* or under asyncio.gather, over the clients of one AgentBundle            *)
(* (scenarios/_factory.py) that the scenario's finally closes.             *)
(*                                                                         *)
(* A context is named by the agent that published it.  A gather raises at  *)
(* its first failure and leaves its other tasks running: they go on over   *)
(* clients that are being closed.  A request in flight may reach the       *)
(* registry whether or not its answer is ever read.  Every call of the LLM *)
(* asks the quota first (quota.py), and the run task (runner.py) reports   *)
(* the denials when run() returns, raises or times out.                    *)
(***************************************************************************)
EXTENDS Naturals, Sequences, FiniteSets, TLC

CONSTANT Facets   \* S3: the slugs of the consumers, one for each facet

Stack == {"a", "b"}   \* the two registries of the stack

-------------------------------------------------------------------------------
(* The scripts: what each scenario's run() awaits, in order; a stage of   *)
(* several agents is a gather.  nodes and edges are the LineageGraph it    *)
(* writes out by hand.                                                     *)

On(agents, r) == [g \in agents |-> r]
Nothing(agents) == [g \in agents |-> << >>]

S1 == [stages |-> <<{"solo"}>>, at |-> On({"solo"}, "a"),
       from |-> Nothing({"solo"}), edges |-> {}]

S2 == [stages |-> <<{"producer"}, {"consumer"}>>,
       at |-> On({"producer", "consumer"}, "a"),
       from |-> ("producer" :> << >>) @@ ("consumer" :> <<"producer">>),
       edges |-> {<<"producer", "consumer">>}]

S3 == [stages |-> <<{"producer"}, Facets>>,
       at |-> On({"producer"} \cup Facets, "a"),
       from |-> ("producer" :> << >>) @@ [f \in Facets |-> <<"producer">>],
       edges |-> {<<"producer", f>> : f \in Facets}]

Chain == {"alpha", "beta", "gamma"}

\* Mutant: the direct edge of the diamond is left out of the graph.
S4OneEdge == [stages |-> <<{"alpha"}, {"beta"}, {"gamma"}>>, at |-> On(Chain, "a"),
       from |-> ("alpha" :> << >>) @@ ("beta" :> <<"alpha">>)
                    @@ ("gamma" :> <<"alpha", "beta">>),
       edges |-> {<<"alpha", "beta">>, <<"beta", "gamma">>}]

S4 == [stages |-> <<{"alpha"}, {"beta"}, {"gamma"}>>, at |-> On(Chain, "a"),
       from |-> ("alpha" :> << >>) @@ ("beta" :> <<"alpha">>)
                    @@ ("gamma" :> <<"alpha", "beta">>),
       edges |-> {<<"alpha", "beta">>, <<"alpha", "gamma">>, <<"beta", "gamma">>}]

S5 == [stages |-> <<{"cross-a"}, {"cross-b"}>>,
       at |-> ("cross-a" :> "a") @@ ("cross-b" :> "b"),
       from |-> ("cross-a" :> << >>) @@ ("cross-b" :> <<"cross-a">>),
       edges |-> {<<"cross-a", "cross-b">>}]

S8 == [stages |-> <<{"org-a", "org-b"}>>,
       at |-> ("org-a" :> "a") @@ ("org-b" :> "b"),
       from |-> Nothing({"org-a", "org-b"}), edges |-> {}]

Scripts == {S1, S2, S3, S4, S5, S8}

-------------------------------------------------------------------------------
VARIABLES
    script,   \* the scenario that runs
    step,     \* the stage it awaits
    pc,       \* pc[g]: where agent g stands
    read,     \* read[g]: the contexts it was grounded in
    underway, \* agents whose publish request may still reach the registry
    stored,   \* stored[g]: the derived_from the registry holds for g, or Absent
    closed,   \* the registries whose client is closed
    status,   \* of the run
    denied,   \* RunQuotaContext.denials: the agents the mock answers
    told,     \* llm.quota_exceeded was emitted before the terminal event
    summary   \* llm_calls_on_mock of the RunResult, 0 before

agentVars == <<script, step, pc, read, underway, stored, closed, status,
               denied, told, summary>>
quotaVars == <<denied, told, summary>>

Agents == DOMAIN script.at
Absent == <<"absent">>
Ended == {"done", "failed", "cancelled"}
Working == {"created", "started", "asking", "thinking", "written", "sent"}
Members(s) == {s[i] : i \in DOMAIN s}

\* make_langchain_agent, AgentBundle.client: an agent that is not authenticated
\* shares the bundle's anonymous client of a registry, also in authority_map.
Open(r) == r \notin closed

Goes(g, place) == pc' = [pc EXCEPT ![g] = place]

-------------------------------------------------------------------------------
(* BasePlaygroundAgent.run *)

\* derived_from[:2]
Grounds(g) == IF Len(script.from[g]) <= 2 THEN script.from[g] ELSE SubSeq(script.from[g], 1, 2)

StartAgent(g) ==
    /\ pc[g] = "created"
    /\ Goes(g, "started")
    /\ UNCHANGED <<script, step, read, underway, stored, closed, status, quotaVars>>

\* retrieve: resolve() asks the registry of the context's authority.
Retrieve(g) ==
    /\ pc[g] = "started"
    /\ Len(read[g]) < Len(Grounds(g))
    /\ LET c == Grounds(g)[Len(read[g]) + 1]
       IN  /\ Open(script.at[c])
           /\ stored[c] # Absent
           /\ read' = [read EXCEPT ![g] = Append(@, c)]
    /\ UNCHANGED <<script, step, pc, underway, stored, closed, status, quotaVars>>

CallLlm(g) ==
    /\ pc[g] = "started"
    /\ Len(read[g]) = Len(Grounds(g))
    /\ Goes(g, "asking")
    /\ UNCHANGED <<script, step, read, underway, stored, closed, status, quotaVars>>

\* check_llm_quota after its await: granted, or a denial that is recorded, and
\* announced if it is the run's first.
CheckLlmQuota(g) ==
    /\ pc[g] = "asking"
    /\ Goes(g, "thinking")
    /\ \/ UNCHANGED <<denied, told>>
       \/ /\ denied' = denied \cup {g}
          /\ told' = (told \/ (denied = {} /\ status \notin {"complete", "error"}))
    /\ UNCHANGED <<script, step, read, underway, stored, closed, status, summary>>

LlmAnswers(g) ==
    /\ pc[g] = "thinking"
    /\ Goes(g, "written")
    /\ UNCHANGED <<script, step, read, underway, stored, closed, status, quotaVars>>

\* publish: the request leaves over an open client.
Publish(g) ==
    /\ pc[g] = "written"
    /\ Open(script.at[g])
    /\ Goes(g, "sent")
    /\ underway' = underway \cup {g}
    /\ UNCHANGED <<script, step, read, stored, closed, status, quotaVars>>

\* The answer: AgentOutput and the acdp.publish event.
Published(g) ==
    /\ pc[g] = "sent"
    /\ stored[g] # Absent
    /\ Goes(g, "done")
    /\ UNCHANGED <<script, step, read, underway, stored, closed, status, quotaVars>>

\* Mutant: a failed read or publish is awaited again and again.
AgentRaisesRetry(g) ==
    /\ pc[g] \in {"started", "thinking", "written", "sent"}
    /\ Goes(g, IF pc[g] \in {"started", "sent"} THEN "started" ELSE "failed")
    /\ UNCHANGED <<script, step, read, underway, stored, closed, status, quotaVars>>

\* A read, the LLM or the publish raises: the registry refuses or is not
\* reached, the client is closed, an answer is lost.
AgentRaises(g) ==
    /\ pc[g] \in {"started", "thinking", "written", "sent"}
    /\ Goes(g, "failed")
    /\ UNCHANGED <<script, step, read, underway, stored, closed, status, quotaVars>>

\* A registry stores a request that reaches it, read or not by the agent.
RegistryStores(g) ==
    /\ g \in underway
    /\ stored' = [stored EXCEPT ![g] = script.from[g]]
    /\ underway' = underway \ {g}
    /\ UNCHANGED <<script, step, pc, read, closed, status, quotaVars>>

RequestLost(g) ==
    /\ g \in underway
    /\ underway' = underway \ {g}
    /\ UNCHANGED <<script, step, pc, read, stored, closed, status, quotaVars>>

-------------------------------------------------------------------------------
(* The scenario *)

\* Mutant: the stage is left at the first result of its gather.
NextStageEarly ==
    /\ status = "running"
    /\ \E g \in script.stages[step] : pc[g] = "done"
    /\ IF step < Len(script.stages)
       THEN /\ step' = step + 1
            /\ pc' = [g \in Agents |-> IF g \in script.stages[step + 1] THEN "created" ELSE pc[g]]
            /\ UNCHANGED status
       ELSE status' = "returning" /\ UNCHANGED <<step, pc>>
    /\ UNCHANGED <<script, read, underway, stored, closed, quotaVars>>

\* The await of a stage returns, then the next one is started; after the
\* last, the RunResult is built and the finally entered.
NextStage ==
    /\ status = "running"
    /\ \A g \in script.stages[step] : pc[g] = "done"
    /\ IF step < Len(script.stages)
       THEN /\ step' = step + 1
            /\ pc' = [g \in Agents |-> IF g \in script.stages[step + 1] THEN "created" ELSE pc[g]]
            /\ UNCHANGED status
       ELSE status' = "returning" /\ UNCHANGED <<step, pc>>
    /\ UNCHANGED <<script, read, underway, stored, closed, quotaVars>>

\* The first exception of a stage leaves run() through the finally.
StageRaises ==
    /\ status = "running"
    /\ \E g \in script.stages[step] : pc[g] = "failed"
    /\ status' = "raising"
    /\ UNCHANGED <<script, step, pc, read, underway, stored, closed, quotaVars>>

\* AgentBundle.aclose: the clients are closed in any order.
CloseClient(r) ==
    /\ status \in {"returning", "raising"}
    /\ Open(r)
    /\ closed' = closed \cup {r}
    /\ UNCHANGED <<script, step, pc, read, underway, stored, status, quotaVars>>

\* Mutant: the denials are reported, not counted.
SummaryOnce == IF denied = {} THEN 0 ELSE 1

\* RunQuotaContext.summary
Summary == Cardinality(denied)

\* The run task: run() is over, the result stored and the terminal event put.
RunEnds ==
    /\ status \in {"returning", "raising"}
    /\ closed = Stack
    /\ status' = IF status = "returning" THEN "complete" ELSE "error"
    /\ summary' = Summary
    /\ UNCHANGED <<script, step, pc, read, underway, stored, closed, denied, told>>

\* run_timeout_seconds: wait_for cancels run(), which waits for the agents of its
\* stage and goes on to its finally; or it cancels the closing of the clients.
TimesOut ==
    \/ /\ status = "running"
       /\ \A g \in script.stages[step] : pc[g] # "failed"
       /\ pc' = [g \in Agents |-> IF pc[g] \in Working THEN "cancelled" ELSE pc[g]]
       /\ status' = "raising"
       /\ UNCHANGED <<script, step, read, underway, stored, closed, quotaVars>>
    \/ /\ status \in {"returning", "raising"}
       /\ status' = "error"
       /\ summary' = Summary
       /\ UNCHANGED <<script, step, pc, read, underway, stored, closed, denied, told>>

-------------------------------------------------------------------------------
AgentInit ==
    /\ script \in Scripts
    /\ step = 1
    /\ pc = [g \in Agents |-> IF g \in script.stages[1] THEN "created" ELSE "waiting"]
    /\ read = Nothing(Agents)
    /\ underway = {}
    /\ stored = [g \in Agents |-> Absent]
    /\ closed = {}
    /\ status = "running"
    /\ denied = {} /\ told = FALSE /\ summary = 0

AgentSteps(g) ==
    \/ StartAgent(g) \/ Retrieve(g) \/ CallLlm(g) \/ CheckLlmQuota(g)
    \/ LlmAnswers(g) \/ Publish(g) \/ Published(g)

AgentNext ==
    \/ \E g \in Agents : AgentSteps(g) \/ AgentRaises(g) \/ RegistryStores(g) \/ RequestLost(g)
    \/ NextStage \/ StageRaises \/ RunEnds \/ TimesOut
    \/ \E r \in Stack : CloseClient(r)

\* The event loop runs every ready task, and every await ends: httpx and the
\* LLM clients have time limits, so an agent that cannot go on raises.
AgentFairness ==
    /\ WF_agentVars(\E g \in Agents : AgentSteps(g) \/ AgentRaises(g))
    /\ WF_agentVars(NextStage \/ StageRaises \/ RunEnds \/ \E r \in Stack : CloseClient(r))

AgentSpec == AgentInit /\ [][AgentNext]_agentVars /\ AgentFairness

-------------------------------------------------------------------------------
(* Properties *)

\* The lineage graph of a completed run is what the registries hold: every
\* node is stored, and the edges written out by hand are exactly the stored
\* derivations.
GraphIsWhatIsStored ==
    status \in {"returning", "complete"} =>
        /\ \A g \in Agents : stored[g] # Absent
        /\ script.edges = {e \in Agents \X Agents : e[1] \in Members(stored[e[2]])}

\* Agents outlive their run only when it raised: run() does not return while
\* a task of its own is at work.
NoStragglerOfACompleteRun ==
    status \in {"returning", "complete"} => \A g \in Agents : pc[g] \in Ended

\* docs/http-api.md 54-57: an LLM quota hit never "falls back silently"; the run
\* emits llm.quota_exceeded and the summary carries llm_calls_on_mock.  For a run
\* that completes every fallback of every concurrent agent is counted, and the
\* client learns of the quota before the terminal event, after which a stream
\* ends.
CompleteRunReportsAll ==
    status = "complete" => summary = Cardinality(denied) /\ (denied # {} => told)

\* Every run ends, and so does every agent it started, stragglers included.
EverythingEnds ==
    <>[](status \in {"complete", "error"} /\ \A g \in Agents : pc[g] \in Ended \cup {"waiting"})
================================================================================
