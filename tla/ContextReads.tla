----------------------------- MODULE ContextReads -----------------------------
(***************************************************************************)
(* Reading contexts with AcdpClient (acdp_client/client.py): which answers *)
(* of a registry become a result, and which an error.  The registry may    *)
(* serve any JSON under any request; a result is bound to the request by   *)
(* _bind_served_ctx_id, _get_lineage and the models of models.py.          *)
(*                                                                         *)
(* JSON is kept to what the code tells apart: a body with its ctx_id and   *)
(* lineage_id, an envelope around one, a list of envelopes, anything else. *)
(***************************************************************************)
EXTENDS Naturals, Sequences, FiniteSets, SequencesExt

CONSTANTS
    CtxIds,     \* well-formed context ids
    Lineages,   \* lineage ids
    Authority,  \* Authority[i]: the registry named in the id i
    Home,       \* the registry of the client itself
    Peers       \* the registries of the authority_map

Missing   == "missing"     \* a member that is absent, or not a string
Malformed == "malformed"   \* an id CtxId::parse refuses

\* whole: the other required members are there.
Bodies == [t : {"body"}, ctx : CtxIds \cup {Missing, Malformed},
           lin : Lineages \cup {Missing}, whole : BOOLEAN]
Junk == [t |-> "junk"]
Envelope(b) == [t |-> "envelope", body |-> b]
Bare == [t |-> "envelope"]              \* an object without a body member
Envelopes == {Envelope(b) : b \in Bodies \cup {Junk}} \cup {Bare}
HasBody(x) == "body" \in DOMAIN x

\* A pair of envelopes stands for a list: two bodies decide every list.
Lists == {<<x>> : x \in Envelopes}
            \cup {<<x, y>> : x, y \in {Envelope(b) : b \in {b \in Bodies : b.whole}}}
Payloads == {Junk} \cup Bodies \cup Envelopes \cup {[t |-> "list", items |-> l] : l \in Lists}

Codes == {"superseded_target", "not_authorized", "immutable_field",
          "invalid_lifecycle_transition", "invalid_log_proof", "none"}

ByCtx == {"retrieve", "retrieve_raw", "retrieve_body", "retract", "republish"}
ByLineage == {"lineage", "current"}
Raw == {"retrieve_raw"}

VARIABLES
    op,      \* the call, "idle" between calls
    asked,   \* the ctx_id or lineage_id it asks for
    binding, \* verify_binding, of the client or of the call
    at,      \* the registry it is sent to
    outcome  \* how it ended

readVars == <<op, asked, binding, at, outcome>>

Raised(e) == [t |-> "raised", error |-> e]
Pending == [t |-> "pending"]
Returned(p) == [t |-> "returned", payload |-> p]

-------------------------------------------------------------------------------
(* _served_bodies *)

Shape(o) == CASE o = "retrieve_body" -> "bare" [] o = "lineage" -> "envelope_list"
              [] OTHER -> "envelope"

\* A bare body is an object without a body member too.
OfEnvelope(x) == CASE x.t = "envelope" -> IF HasBody(x) THEN <<x.body>> ELSE << >>
                   [] x.t = "body"     -> << >>
                   [] OTHER            -> <<x>>

ServedBodies(p, shape) ==
    IF shape = "bare" THEN <<p>>
    ELSE IF shape = "envelope_list" /\ p.t = "list"
         THEN FlattenSeq([i \in DOMAIN p.items |-> OfEnvelope(p.items[i])])
         ELSE OfEnvelope(p)

-------------------------------------------------------------------------------
(* _bind_served_ctx_id and the lineage check *)

\* AcdpVerifier.verify_ctx_id_binding: the body and both ids parse, then compare.
VerifyBinding(body, expected) ==
    CASE ~body.whole \/ Malformed \in {body.ctx, expected} -> "malformed"
      [] body.ctx # expected -> "mismatch"
      [] OTHER -> "ok"

\* Mutant: a body without ctx_id is let through.
BindOneLax(body, expected) ==
    CASE body.t # "body"    -> "unverifiable"
      [] body.ctx = Missing -> "ok"
      [] OTHER -> VerifyBinding(body, IF expected = Missing THEN body.ctx ELSE expected)

\* expected = Missing when the request was keyed by a lineage: form only.
BindOne(body, expected) ==
    CASE body.t # "body"    -> "unverifiable"
      [] body.ctx = Missing -> "unverifiable"
      [] OTHER -> VerifyBinding(body, IF expected = Missing THEN body.ctx ELSE expected)

\* The first body that fails decides.
FirstFailure(verdicts) ==
    LET bad == SelectSeq(verdicts, LAMBDA v : v # "ok")
    IN  IF bad = << >> THEN "ok" ELSE Head(bad)

Bind(bodies, expected) ==
    IF ~binding THEN "ok"
    ELSE FirstFailure([i \in DOMAIN bodies |-> BindOne(bodies[i], expected)])

LineageVerdict(bodies) ==
    IF \E i \in DOMAIN bodies : bodies[i].t = "body" /\ bodies[i].lin # asked
    THEN "mismatch" ELSE "ok"

-------------------------------------------------------------------------------
(* FullContext and Body: what the models accept *)

IsBody(b) == b.t = "body" /\ b.whole /\ b.ctx # Missing /\ b.lin # Missing
IsFullContext(x) == x.t = "envelope" /\ HasBody(x) /\ IsBody(x.body)

Validates(p) ==
    CASE op \in Raw -> TRUE
      [] op = "retrieve_body" -> IsBody(p)
      [] op = "lineage" -> p.t = "list" /\ \A i \in DOMAIN p.items : IsFullContext(p.items[i])
      [] OTHER -> IsFullContext(p)

\* The calls up to their result: bind, check the lineage, validate.
Result(p) ==
    LET bodies == ServedBodies(p, Shape(op))
        bound == Bind(bodies, IF op \in ByCtx THEN asked ELSE Missing)
        inLineage == IF op \in ByLineage THEN LineageVerdict(bodies) ELSE "ok"
    IN  CASE bound # "ok"     -> Raised(bound)
          [] inLineage # "ok" -> Raised(inLineage)
          [] ~Validates(p)    -> Raised("ValidationError")
          [] OTHER            -> Returned(p)

\* _build_http_error: 413 by status, the others by the envelope's code.
ErrorClass(status, code) ==
    CASE status = 413 -> "PayloadTooLargeError"
      [] code = "superseded_target" -> "SupersededError"
      [] code = "not_authorized" -> "NotAuthorizedError"
      [] code = "immutable_field" -> "ImmutableFieldError"
      [] code = "invalid_lifecycle_transition" -> "InvalidLifecycleTransitionError"
      [] code = "invalid_log_proof" -> "InvalidLogProofError"
      [] OTHER -> "AcdpHTTPError"

-------------------------------------------------------------------------------

ReadInit == /\ op = "idle" /\ asked = Missing /\ binding = TRUE
        /\ at = Home /\ outcome = Pending

Send(o, id, verify, registry) ==
    /\ op = "idle"
    /\ op' = o /\ asked' = id /\ binding' = verify /\ at' = registry
    /\ outcome' = Pending

Ids == CtxIds \cup {Malformed}

\* The client's own default is to verify; a scenario may turn it off.
Retrieve(id, verify)     == Send("retrieve", id, verify, Home)
RetrieveRaw(id, verify)  == Send("retrieve_raw", id, verify, Home)
RetrieveBody(id, verify) == Send("retrieve_body", id, verify, Home)
Lifecycle(o, id, verify) == o \in {"retract", "republish"} /\ Send(o, id, verify, Home)
Lineage(lin, verify)     == Send("lineage", lin, verify, Home)
Current(lin, verify)     == Send("current", lin, verify, Home)

\* authority_map.get(authority, self)
Owner(id) == IF id \in CtxIds /\ Authority[id] \in Peers THEN Authority[id] ELSE Home

Resolve(id) == Send("retrieve", id, TRUE, Owner(id))

\* A success answer, whatever it carries, or an error answer.
Answer ==
    /\ op # "idle" /\ outcome = Pending
    /\ \/ \E p \in Payloads : outcome' = Result(p)
       \/ \E status \in {400, 413}, code \in Codes : outcome' = Raised(ErrorClass(status, code))
    /\ UNCHANGED <<op, asked, binding, at>>

Return == outcome # Pending /\ op' = "idle" /\ UNCHANGED <<asked, binding, at, outcome>>

ReadNext ==
    \/ \E id \in Ids, verify \in BOOLEAN :
          \/ Retrieve(id, verify) \/ RetrieveRaw(id, verify) \/ RetrieveBody(id, verify)
          \/ \E o \in {"retract", "republish"} : Lifecycle(o, id, verify)
    \/ \E lin \in Lineages, verify \in BOOLEAN : Lineage(lin, verify) \/ Current(lin, verify)
    \/ \E id \in Ids : Resolve(id)
    \/ Answer \/ Return

ReadSpec == ReadInit /\ [][ReadNext]_readVars

-------------------------------------------------------------------------------
(* Properties *)

\* The bodies a caller can read in a result.
Readable == IF outcome.t # "returned" THEN {}
            ELSE ToSet(ServedBodies(outcome.payload, Shape(op)))

\* client.py 448-474 and 831-836: what is read is what was asked for.  No answer
\* of the registry makes a verifying read by id return another context's body, or
\* one that cannot be bound, or a lineage read return a version of another
\* lineage or, when the client verifies, one without a well-formed id.
ReturnedIsRequested ==
    \A b \in Readable :
        /\ op \in ByCtx /\ binding => b.t = "body" /\ b.whole /\ b.ctx = asked
        /\ op \in ByLineage => b.t = "body" /\ b.lin = asked
        /\ op \in ByLineage /\ binding => b.ctx \in CtxIds

===============================================================================
