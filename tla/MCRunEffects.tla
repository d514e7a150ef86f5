------------------------------ MODULE MCRunEffects ------------------------------
(***************************************************************************)
(* Instance for TLC of what runs do to the services around them: the       *)
(* notifications of the control plane, the webhooks and operator calls     *)
(* beside them, and the agents.  These share no state, so a behaviour      *)
(* exercises one of them and leaves the others at rest.                    *)
(***************************************************************************)
EXTENDS ControlPlane, AgentRuns

CONSTANTS t1, h1, h2, h3, h4, h5

\* An event that names its tenant, one attributed to the reserved tenant by
\* its header, and the three kinds of delivery the receiver does not forward.
MCForm == [h \in Hooks |-> CASE h = h3 -> "unsigned" [] h = h4 -> "not json"
                             [] h = h5 -> "other schema" [] OTHER -> "event"]
MCBodyTenant == [h \in Hooks |-> IF h = h1 THEN t1 ELSE NoTenant]
MCHeadTenant == [h \in Hooks |-> Reserved]

MCTroubles == {{"busy"}, {"busy", "unavailable", "refused", "lost"},
               {"busy", "refused", "lost", "late"}, {"no url"}, {"no admin token"}}

VARIABLE part

vars == <<part, bridgeVars, agentVars>>

Init ==
    /\ part \in {"runs", "hooks", "agents"}
    /\ BridgeInit /\ (part = "agents" => trouble = {"busy"})
    /\ AgentInit /\ (part # "agents" => script = S1)

Next ==
    /\ \/ part = "runs" /\ BridgeNext /\ UNCHANGED <<received, admin, agentVars>>
       \/ part = "hooks" /\ BridgeNext /\ UNCHANGED <<stage, agentVars>>
       \/ part = "agents" /\ AgentNext /\ UNCHANGED bridgeVars
    /\ UNCHANGED part

\* The fairness of the part that is exercised.
Spec ==
    /\ Init /\ [][Next]_vars
    /\ \A r \in Runs : WF_bridgeVars(part = "runs" /\ RunStep(r))
    /\ \A p \in Posts : /\ WF_bridgeVars(Answer(p)) /\ WF_bridgeVars(Repost(p))
                        /\ WF_bridgeVars(Waiting(p) /\ CPApplies(Attempt(p)))
    /\ WF_agentVars(part = "agents" /\ \E g \in Agents : AgentSteps(g) \/ AgentRaises(g))
    /\ WF_agentVars(/\ part = "agents"
                    /\ NextStage \/ StageRaises \/ RunEnds \/ \E r \in Stack : CloseClient(r))

\* Every run ends whatever the services around it do: one that notified the
\* control plane of its start returns (control_plane.py 139-141), and one with
\* agents at work ends, and so does every agent it started.
RunsAndAgentsEnd == RunSurvivesOutage /\ (part = "agents" => EverythingEnds)
===============================================================================
