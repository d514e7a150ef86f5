----------------------------- MODULE ControlPlane -----------------------------
(***************************************************************************)
(* The control-plane bridge: what a run's coroutine tells the control      *)
(* plane (playground/scenarios/runner.py), what the registry webhook       *)
(* receiver forwards to it (playground/api/webhooks.py), and the client    *)
(* both go through (playground/control_plane.py).                          *)
(*                                                                         *)
(* A call of _post is one or two HTTP attempts.  An attempt stays in wire  *)
(* until the control plane applies it or it is lost; the caller meanwhile  *)
(* waits for an answer, at most ten seconds.  An attempt whose caller has  *)
(* given up (transport timeout) or has been answered by a gateway (502,    *)
(* 504) may still be in wire: it is applied later, or never.               *)
(***************************************************************************)
EXTENDS Naturals, Sequences, FiniteSets, SequencesExt

CONSTANTS
    Runs,        \* runs launched
    Hooks,       \* webhook deliveries of the registry
    Form,        \* Form[h]: what the receiver makes of delivery h
    BodyTenant,  \* BodyTenant[h]: the event's tenant_id, or NoTenant
    HeadTenant,  \* HeadTenant[h]: the X-Tenant-Id header, or NoTenant
    NoTenant, Reserved,
    Admins,      \* operator calls
    Troubles,    \* the combinations of trouble that behaviours may meet
    MaxFaults    \* bound on the faults among them

FaultKinds == {"busy", "unavailable", "refused", "lost", "late"}

ASSUME BridgeAssumption ==
    /\ Troubles \subseteq SUBSET (FaultKinds \cup {"no url", "no admin token"})
    /\ MaxFaults \in Nat
    /\ Form \in [Hooks -> {"event", "unsigned", "not json", "other schema"}]
    /\ Reserved # NoTenant

Start(r)    == <<"started", r>>
Complete(r) == <<"complete", r>>
Forward(h)  == <<"ingest", h>>
Posts == {Start(r) : r \in Runs} \cup {Complete(r) : r \in Runs}
            \cup {Forward(h) : h \in Hooks}

VARIABLES
    trouble,  \* the faults the network and the control plane may show, and the
              \* settings (control_plane_url, control_plane_admin_token) not made
    stage,    \* stage[r]: how far the coroutine of execute_run is
    outcome,  \* outcome[r]: RunResult.status
    received, \* received[h]: the HTTP status the registry got, 0 before
    tenant,   \* tenant[h]: the tenant the forward asserts
    post,     \* post[p]: the progress of the _post call p
    wire,     \* attempts <<p, n>> the control plane has not dealt with
    seen,     \* what the control plane applied, in order
    cpRun,    \* cpRun[r]: the run as the control plane's dashboard has it
    admin,    \* admin[a]: the progress of the operator call a
    faults    \* faults so far

bridgeVars == <<trouble, stage, outcome, received, tenant, post, wire, seen, cpRun,
                admin, faults>>
runVars == <<stage, outcome>>
hookVars == <<received, tenant>>
cpVars == <<trouble, seen, cpRun>>

Enabled == "no url" \notin trouble
AdminToken == "no admin token" \notin trouble

BridgeInit ==
    /\ trouble \in Troubles
    /\ stage = [r \in Runs |-> "new"]
    /\ outcome = [r \in Runs |-> "none"]
    /\ received = [h \in Hooks |-> 0]
    /\ tenant = [h \in Hooks |-> NoTenant]
    /\ post = [p \in Posts |-> "idle"]
    /\ wire = {} /\ seen = << >>
    /\ cpRun = [r \in Runs |-> "unknown"]
    /\ admin = [a \in Admins |-> "idle"]
    /\ faults = 0

-------------------------------------------------------------------------------
(* _post: one attempt, and one more after an answer that names a wait *)

\* The call starts: a no-op when the bridge is disabled, else a first attempt.
Post(p) ==
    /\ post[p] = "idle"
    /\ post' = [post EXCEPT ![p] = IF Enabled THEN "first" ELSE "over"]
    /\ wire' = IF Enabled THEN wire \cup {<<p, 1>>} ELSE wire

Attempt(p) == <<p, IF post[p] = "first" THEN 1 ELSE 2>>
Waiting(p) == post[p] \in {"first", "second"}

\* _RETRYABLE with a Retry-After that parses: sleep once, then post again.
AfterBusy(p) == IF post[p] = "first" THEN "sleep" ELSE "over"

Fault(kind) == /\ kind \in trouble /\ faults < MaxFaults
               /\ faults' = faults + 1

\* A success answer: the control plane has applied the attempt.
Accepted(p) ==
    /\ Waiting(p) /\ Attempt(p) \notin wire
    /\ post' = [post EXCEPT ![p] = "over"]
    /\ UNCHANGED <<runVars, hookVars, wire, cpVars, admin, faults>>

\* 429, 502, 503 or 504 with Retry-After.  The attempt was turned away, or a
\* gateway gave up on it while it goes on ("late").
Busy(p) ==
    /\ Waiting(p) /\ Attempt(p) \in wire
    /\ Fault("busy")
    /\ post' = [post EXCEPT ![p] = AfterBusy(p)]
    /\ wire' \in {wire \ {Attempt(p)}} \cup (IF "late" \in trouble THEN {wire} ELSE {})
    /\ UNCHANGED <<runVars, hookVars, cpVars, admin>>

\* The same without a usable Retry-After, or any other refusal: logged only.
Refused(p) ==
    /\ Waiting(p) /\ Attempt(p) \in wire
    /\ \E kind \in {"unavailable", "refused"} : Fault(kind)
    /\ post' = [post EXCEPT ![p] = "over"]
    /\ wire' = wire \ {Attempt(p)}
    /\ UNCHANGED <<runVars, hookVars, cpVars, admin>>

\* httpx.HTTPError: connection failed, or no answer within the ten seconds.
\* The request is lost, or on its way still, or was applied.
TransportError(p) ==
    /\ Waiting(p)
    /\ \/ Fault("lost") /\ wire' = wire \ {Attempt(p)}
       \/ Fault("late") /\ wire' = wire
    /\ post' = [post EXCEPT ![p] = "over"]
    /\ UNCHANGED <<runVars, hookVars, cpVars, admin>>

\* asyncio.sleep(min(delay, 30)) is over: the second and last attempt.
Repost(p) ==
    /\ post[p] = "sleep"
    /\ post' = [post EXCEPT ![p] = "second"]
    /\ wire' = wire \cup {<<p, 2>>}
    /\ UNCHANGED <<runVars, hookVars, cpVars, admin, faults>>

-------------------------------------------------------------------------------
(* The control plane, as control_plane.py describes it (external) *)

\* Mutant: the status is sent as RunResult has it.
CPStatusRaw(status) == status

\* _CP_TERMINAL_STATUS.get(status, status)
CPStatus(status) == IF status = "complete" THEN "completed" ELSE status

\* /runs/{id}/complete: 404 for a run not started, 400 for another vocabulary.
\* A duplicate start of a known run changes nothing.
CPApply(p) ==
    CASE p[1] = "started" /\ cpRun[p[2]] = "unknown" ->
            [cpRun EXCEPT ![p[2]] = "running"]
      [] p[1] = "complete" /\ cpRun[p[2]] = "running"
            /\ CPStatus(outcome[p[2]]) \in {"completed", "failed", "cancelled"} ->
            [cpRun EXCEPT ![p[2]] = CPStatus(outcome[p[2]])]
      [] OTHER -> cpRun

CPApplies(m) ==
    /\ m \in wire
    /\ wire' = wire \ {m}
    /\ seen' = Append(seen, m[1])
    /\ cpRun' = CPApply(m[1])
    /\ UNCHANGED <<trouble, runVars, hookVars, post, admin, faults>>

-------------------------------------------------------------------------------
(* execute_run, seen from the bridge *)

RunPost(p) == Post(p) /\ UNCHANGED <<hookVars, cpVars, admin, faults>>

NotifyStarted(r) ==
    /\ stage[r] = "new"
    /\ stage' = [stage EXCEPT ![r] = "notified"]
    /\ RunPost(Start(r))
    /\ UNCHANGED outcome

\* Mutant: the start is fired off and not awaited.
StartAwaitedNot(r) == post[Start(r)] # "idle"

\* await cp.notify_run_started(...) has returned.
StartAwaited(r) == post[Start(r)] = "over"

\* The scenario runs and ends, by returning, raising or timing out, and the
\* result is kept.  The next statement notifies its completion.
NotifyComplete(r) ==
    /\ stage[r] = "notified" /\ StartAwaited(r)
    /\ stage' = [stage EXCEPT ![r] = "ended"]
    /\ \E status \in {"complete", "failed"} : outcome' = [outcome EXCEPT ![r] = status]
    /\ RunPost(Complete(r))

RunReturns(r) ==
    /\ stage[r] = "ended" /\ post[Complete(r)] = "over"
    /\ stage' = [stage EXCEPT ![r] = "returned"]
    /\ UNCHANGED <<outcome, hookVars, post, wire, cpVars, admin, faults>>

-------------------------------------------------------------------------------
(* The webhook receiver and forward_webhook *)

\* The receiver lifts the header onto an event without tenant_id.
EventTenant(h) == IF BodyTenant[h] = NoTenant THEN HeadTenant[h] ELSE BodyTenant[h]

\* Mutant: a reserved tenant is forwarded.
ForwardGuardNone(h) == TRUE

\* reject_reserved_tenant raises in the forwarding task.
ForwardGuard(h) == EventTenant(h) # Reserved

\* receive_acdp_webhook: 401, 400, 204 for what is not a WebhookEvent, and
\* else 204 with a task that forwards the delivery.
Receive(h) ==
    /\ received[h] = 0
    /\ received' = [received EXCEPT ![h] =
            CASE Form[h] = "unsigned" -> 401 [] Form[h] = "not json" -> 400 [] OTHER -> 204]
    /\ IF Form[h] = "event" /\ ForwardGuard(h)
       THEN /\ tenant' = [tenant EXCEPT ![h] = EventTenant(h)]
            /\ Post(Forward(h))
       ELSE UNCHANGED <<tenant, post, wire>>
    /\ UNCHANGED <<runVars, cpVars, admin, faults>>

-------------------------------------------------------------------------------
(* Operator calls: one attempt, None unless it succeeds *)

Ask(a, op, allowed) ==
    /\ admin[a] = "idle"
    /\ admin' = [admin EXCEPT ![a] = IF Enabled /\ allowed THEN op ELSE "none"]
    /\ UNCHANGED <<runVars, hookVars, post, wire, cpVars, faults>>

Introspect(a)        == Ask(a, "introspect", AdminToken)
Revocations(a)       == Ask(a, "revocations", AdminToken)
Events(a)            == Ask(a, "events", AdminToken)
DeclareCapability(a) == Ask(a, "declare_capability", AdminToken)
DomainPacks(a)       == Ask(a, "domain_packs", TRUE)
ReloadPinnedKeys(a)  == Ask(a, "reload_pinned_keys", AdminToken)

AdminAnswer(a) ==
    /\ admin[a] \notin {"idle", "none", "json"}
    /\ \/ admin' = [admin EXCEPT ![a] = "json"] /\ UNCHANGED faults
       \/ /\ \E kind \in {"refused", "lost"} : Fault(kind)
          /\ admin' = [admin EXCEPT ![a] = "none"]
    /\ UNCHANGED <<runVars, hookVars, post, wire, cpVars>>

-------------------------------------------------------------------------------

RunStep(r) == NotifyStarted(r) \/ NotifyComplete(r) \/ RunReturns(r)
Answer(p) == Accepted(p) \/ Busy(p) \/ Refused(p) \/ TransportError(p)
Operator(a) ==
    \/ Introspect(a) \/ Revocations(a) \/ Events(a)
    \/ DeclareCapability(a) \/ DomainPacks(a) \/ ReloadPinnedKeys(a)

BridgeNext ==
    \/ \E r \in Runs : RunStep(r)
    \/ \E h \in Hooks : Receive(h)
    \/ \E p \in Posts : Answer(p) \/ Repost(p)
    \/ \E m \in wire : CPApplies(m)
    \/ \E a \in Admins : Operator(a) \/ AdminAnswer(a)

\* The event loop runs every ready coroutine, a sleep ends, and an attempt is
\* answered or times out.  An attempt without a fault reaches the control plane.
BridgeFairness ==
    /\ \A r \in Runs : WF_bridgeVars(RunStep(r))
    /\ \A p \in Posts : WF_bridgeVars(Answer(p)) /\ WF_bridgeVars(Repost(p))
                        /\ WF_bridgeVars(Waiting(p) /\ CPApplies(Attempt(p)))
    /\ \A a \in Admins : WF_bridgeVars(AdminAnswer(a))

BridgeSpec == BridgeInit /\ [][BridgeNext]_bridgeVars /\ BridgeFairness

-------------------------------------------------------------------------------
(* Properties *)

\* runner.py 65-71: the completion of a run cannot overtake its start, that
\* is, the control plane never applies the completion of a run first and its
\* start later, when it would have answered 404 to the completion.  It needs a
\* network in which no attempt outlives its caller's ten seconds.
CompletionNeverOvertakes ==
    "late" \notin trouble => \A r \in Runs : \A i, j \in DOMAIN seen :
        seen[i] = Complete(r) /\ seen[j] = Start(r) => \E k \in 1 .. i : seen[k] = Start(r)

\* control_plane.py 48-52: the run is not stuck "running" in the dashboard.  A
\* run that starts is closed at the control plane with its own outcome, one
\* rate-limited attempt of either notification notwithstanding.
OutcomeReachesControlPlane ==
    \A r \in Runs : stage[r] = "notified" /\ trouble = {"busy"} ~>
        \/ faults > 1
        \/ /\ cpRun[r] = CPStatus(outcome[r])
           /\ outcome[r] \in {"complete", "failed"}

\* control_plane.py 139-141: a control-plane outage never breaks a run.  A run
\* that notified its start returns, whatever the bridge's calls meet.
RunSurvivesOutage == \A r \in Runs : stage[r] = "notified" ~> stage[r] = "returned"

\* api/webhooks.py 42-83, control_plane.py 209-215: what the control plane
\* applies of the registry's deliveries was signed, is an event, and carries
\* the event's own tenant, never the reserved one.
ForwardedIsAttributed ==
    \A h \in Hooks : Forward(h) \in Range(seen) =>
        /\ received[h] = 204 /\ Form[h] = "event"
        /\ tenant[h] # Reserved
        /\ BodyTenant[h] # NoTenant => tenant[h] = BodyTenant[h]
===============================================================================
