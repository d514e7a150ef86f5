----------------------------- MODULE OfflineCores ------------------------------
(***************************************************************************)
(* The offline cores of the scenarios: each hands artefacts it made itself *)
(* to a verifier and compares the verdict with the one it expects, and its *)
(* status is the conjunction of the comparisons.  What a core is worth is  *)
(* what it notices: the verifiers here may have lost some of their checks, *)
(* one of them may reject everything, or the SDK may have to be called in  *)
(* another way (`playground.scenarios._sdk_guard` tells of such a break).  *)
(*                                                                         *)
(* A probe names the verifier it is put to, the checks its artefact breaks *)
(* in the order the verifier reaches them, and the verdict that the code   *)
(* takes for the right one: "accepted", "rejected" (whatever the reason),  *)
(* or the check whose message, type or flag it looks for.                  *)
(***************************************************************************)
EXTENDS Naturals, Sequences, FiniteSets, SequencesExt

CONSTANTS
    Suites,  \* the scenarios that are run
    MaxLapses   \* bound: checks that the verifiers have lost

Probe(by, breaks, expects) ==
    [by |-> by, breaks |-> breaks, expects |-> expects, escapes |-> FALSE]
\* A call outside every guard: a rejection leaves run().
Bare(by, breaks, expects) ==
    [by |-> by, breaks |-> breaks, expects |-> expects, escapes |-> TRUE]
\* A comparison of the scenario's own.
Compare(b) == Probe("local", IF b THEN << >> ELSE <<"wrong">>, "accepted")

-------------------------------------------------------------------------------
(* The cores *)

\* Two pinned keys at an instant before, inside and after their overlap.
S12Core == <<Probe("window", <<"valid_from">>, "rejected"),
             Probe("window", << >>, "accepted"),
             Probe("window", <<"valid_until">>, "rejected")>>

\* Metadata address, mixed answer, other port, default port, http, public host.
S16Core == <<Probe("screen_host", <<"imds">>, "rejected"),
             Probe("screen_host", <<"private">>, "rejected"),
             Probe("same_authority", <<"port">>, "rejected"),
             Probe("same_authority", << >>, "accepted"),
             Probe("check_url", <<"scheme">>, "rejected"),
             Probe("screen_host", << >>, "accepted")>>

\* Shape of the verification method; the document resolves to the signing key.
S19Core == <<Probe("producer", << >>, "accepted"), Probe("resolver", << >>, "accepted")>>

\* The sentinel, no tenant, a tenant; the client and the bridge refuse it too.
S20Core == <<Probe("guard", <<"reserved">>, "rejected"), Probe("guard", << >>, "accepted"),
             Probe("guard", << >>, "accepted"), Probe("client", <<"client">>, "rejected"),
             Probe("bridge", <<"bridge">>, "rejected")>>

\* The signature over the declaration verifies.
S21Core == <<Probe("signature", << >>, "accepted")>>

\* The receipts (b) to (h) all carry the bogus signature of the base receipt.
S23Core == <<Probe("policy", <<"required">>, "required"),
             Probe("receipt", <<"canonical", "created_at", "signature">>, "rejected"),
             Probe("receipt", <<"fingerprint", "signature">>, "rejected"),
             Probe("receipt", <<"ctx_id", "signature">>, "rejected"),
             Probe("receipt", <<"content_hash", "signature">>, "rejected"),
             Probe("receipt", <<"signature">>, "rejected"),
             Probe("receipt", <<"lineage_id", "signature">>, "lineage_id"),
             Probe("receipt", <<"origin_registry", "signature">>, "origin_registry"),
             Probe("retrieve", <<"served_ctx">>, "served_ctx")>>

\* historical is what the resolver reports of a retired key.
S24Core == <<Bare("signature", << >>, "accepted"),
             Probe("signature", <<"signature">>, "rejected"),
             Bare("policy", << >>, "accepted"),
             Bare("resolver", <<"historical">>, "historical"),
             Bare("signature", << >>, "accepted"),
             Probe("policy", <<"no_receipt">>, "no_receipt"),
             Probe("resolver", <<"removed">>, "removed")>>

S27Core == <<Bare("resolver", <<"historical">>, "historical"),
             Bare("receipt", << >>, "accepted"),
             Bare("resolver", << >>, "accepted"), Bare("receipt", << >>, "accepted"),
             Probe("resolver", <<"removed">>, "removed"),
             Probe("resolver", <<"algorithm">>, "rejected"),
             Probe("receipt", <<"content_hash">>, "rejected"),
             Probe("receipt", <<"created_at">>, "created_at")>>

\* _retraction_state: the last retraction or republication decides.
RetractionState(events) ==
    LET known == SelectSeq(events, LAMBDA e : e \in {"retracted", "republished"})
    IN  known # << >> /\ Last(known) = "retracted"

Derivation ==
    /\ RetractionState(<<"retracted">>)
    /\ ~RetractionState(<<"retracted", "republished">>)
    /\ RetractionState(<<"retracted", "republished", "retracted">>)
    /\ ~RetractionState(<<"retracted", "republished", "annotated">>)

S28Events == <<Probe("event", << >>, "accepted"), Probe("event", <<"ctx_id">>, "rejected"),
               Probe("event", <<"signature">>, "rejected"),
               Probe("event", <<"unsigned">>, "rejected"), Compare(Derivation)>>

\* The event of a stranger is authentic and names its actor: who may retract is
\* for the caller to decide.
S28Core == Append(S28Events, Probe("event", << >>, "accepted"))

S29Core == <<Probe("checkpoint", << >>, "accepted"), Probe("inclusion", << >>, "accepted"),
             Probe("consistency", << >>, "accepted"),
             Probe("inclusion", <<"path">>, "rejected"),
             Probe("checkpoint", <<"signature">>, "rejected"),
             Probe("consistency", <<"root">>, "rejected"),
             Probe("inclusion", <<"embedded">>, "rejected")>>

\* Fresh, aged, from the future, the new head, a replay of the old receipt, and
\* a changed status, which contradicts the expectation and the signature.
S30Core == <<Probe("head", << >>, "accepted"), Probe("head", <<"stale">>, "stale"),
             Probe("head", <<"future">>, "rejected"), Probe("head", << >>, "accepted"),
             Probe("head", <<"head">>, "rejected"),
             Probe("head", <<"status", "signature">>, "rejected")>>

\* The two checks of the obligation, the cosignature, the quorum, a lie.
S31Core == <<Probe("checkpoint", << >>, "accepted"), Probe("consistency", << >>, "accepted"),
             Probe("cosignature", << >>, "accepted"), Probe("quorum", << >>, "accepted"),
             Probe("cosignature", <<"binding">>, "rejected"),
             Probe("quorum", <<"counted">>, "rejected")>>

\* The revocation; published before the boundary, after it, at no known time;
\* a revocation by the revoked key.
S32Core == <<Bare("body", << >>, "accepted"), Bare("revocation", << >>, "accepted"),
             Bare("receipt", << >>, "accepted"), Probe("classify", << >>, "accepted"),
             Bare("receipt", << >>, "accepted"),
             Probe("classify", <<"after_boundary">>, "rejected"),
             Probe("classify", <<"no_time">>, "rejected"),
             Probe("revocation", <<"self_signed">>, "rejected")>>

\* As published and as served; wrong preimage; foreign root and foreign embedded
\* hash; both hashes; none; null; changed content, as published and as served.
S34Core == <<Bare("request", << >>, "accepted"), Bare("body", << >>, "accepted"),
             Probe("build", <<"embedded">>, "embedded"), Probe("build", << >>, "accepted"),
             Bare("request", << >>, "accepted"), Probe("build", <<"embedded">>, "embedded"),
             Bare("request", << >>, "accepted"), Bare("request", << >>, "accepted"),
             Probe("request", <<"null", "content_hash">>, "null"),
             Probe("request", <<"content_hash">>, "content_hash"),
             Probe("body", <<"served_embedded", "content_hash">>, "served_embedded")>>

Core(s) ==
    CASE s = "s12" -> S12Core [] s = "s16" -> S16Core [] s = "s19" -> S19Core
      [] s = "s20" -> S20Core [] s = "s21" -> S21Core [] s = "s23" -> S23Core
      [] s = "s24" -> S24Core [] s = "s27" -> S27Core [] s = "s28" -> S28Core
      [] s = "s29" -> S29Core [] s = "s30" -> S30Core [] s = "s31" -> S31Core
      [] s = "s32" -> S32Core [] s = "s34" -> S34Core

\* The checks the documentation of a scenario says its core shows.  S32 speaks
\* of a publish "at/after" the boundary.
Claimed(s) ==
    CASE s = "s30" -> {"stale", "future", "head", "signature"}
      [] s = "s32" -> {"after_boundary", "at_boundary", "no_time", "self_signed"}
      [] OTHER -> UNION {ToSet(Core(s)[i].breaks) : i \in DOMAIN Core(s)}

Verifiers(s) == {Core(s)[i].by : i \in DOMAIN Core(s)}
\* Code of the playground itself, which is not called through the bindings.
InProcess == {"local", "window", "screen_host", "same_authority", "check_url", "guard",
              "client", "bridge", "policy", "retrieve"}

-------------------------------------------------------------------------------
VARIABLES
    suite,    \* the scenario
    lapses,  \* checks the verifiers have lost
    strict,  \* a verifier that rejects everything ("none": there is none)
    broken,  \* the bindings are called wrongly: a call of theirs is a TypeError
    held,    \* for every probe made, whether its verdict was the expected one
    verdict   \* "running", "degraded", "complete", "failed" or "raised"

coreVars == <<suite, lapses, strict, broken, held, verdict>>
sdk == <<lapses, strict, broken>>

\* The flags that come with an acceptance count as one.
Accepting == {"accepted", "historical", "stale"}

\* The verdict on a probe; where it should reject, a strict verifier is right.
Outcome(p) ==
    LET reached == SelectSeq(p.breaks, LAMBDA c : c \notin lapses)
    IN  CASE p.by = strict /\ p.expects \in Accepting -> "refused"
          [] reached = << >> -> "accepted"
          [] OTHER -> reached[1]

AsExpected(p) ==
    CASE p.expects = "rejected" -> Outcome(p) \notin Accepting
      [] OTHER -> Outcome(p) = p.expects

\* run_guarded and expect_rejection let through what the SDK cannot say as a
\* verdict; a rejection nothing expects leaves run() where there is no guard.
Guarded(p) ==
    IF \/ broken /\ p.by \notin InProcess
       \/ p.escapes /\ Outcome(p) \notin Accepting
    THEN verdict' = "raised" /\ UNCHANGED held
    ELSE held' = Append(held, AsExpected(p)) /\ UNCHANGED verdict

MakeProbe ==
    /\ verdict = "running"
    /\ Len(held) < Len(Core(suite))
    /\ Guarded(Core(suite)[Len(held) + 1])
    /\ UNCHANGED <<suite, sdk>>

\* Mutant: the last comparison is left out of the conjunction.
AllButLast ==
    /\ verdict = "running"
    /\ Len(held) = Len(Core(suite))
    /\ verdict' = IF FALSE \in ToSet(Front(held)) THEN "failed" ELSE "complete"
    /\ UNCHANGED <<suite, sdk, held>>

Conclude ==
    /\ verdict = "running"
    /\ Len(held) = Len(Core(suite))
    /\ verdict' = IF FALSE \in ToSet(held) THEN "failed" ELSE "complete"
    /\ UNCHANGED <<suite, sdk, held>>

\* S23 without a receipt key to derive the verification key from.
NoReceiptKey ==
    /\ suite = "s23" /\ held = << >>
    /\ verdict = "running"
    /\ verdict' = "degraded"
    /\ UNCHANGED <<suite, sdk, held>>

-------------------------------------------------------------------------------
CoreInit ==
    /\ suite \in Suites
    /\ lapses \in {l \in SUBSET Claimed(suite) : Cardinality(l) <= MaxLapses}
    /\ strict \in {"none"} \cup (Verifiers(suite) \ {"local"})
    /\ broken \in {FALSE, ~(Verifiers(suite) \subseteq InProcess)}
    /\ held = << >>
    /\ verdict = "running"

CoreNext == MakeProbe \/ Conclude \/ NoReceiptKey

CoreSpec == CoreInit /\ [][CoreNext]_coreVars

-------------------------------------------------------------------------------
(* Properties *)

\* Claimed checks whose loss a core cannot notice: the tampered receipts of S23
\* carry a bogus signature as well and are scored on any rejection, the receipt
\* of S30 with a broken signature also contradicts the expected status, and S32
\* classifies nothing at the boundary itself.
Unprobed ==
    CASE suite = "s23" -> {"canonical", "created_at", "fingerprint", "ctx_id", "content_hash"}
      [] suite = "s30" -> {"signature"}
      [] suite = "s32" -> {"at_boundary"}
      [] OTHER -> {}

\* Verifiers that a core shows nothing genuine.
Unshown ==
    CASE suite = "s16" -> {"check_url"}
      [] suite = "s20" -> {"client", "bridge"}
      [] suite = "s23" -> {"policy", "receipt", "retrieve"}
      [] OTHER -> {}

\* A core that passes shows that the verifier makes every check the scenario
\* names, but for the Unprobed ones, and does not reject whatever it is given,
\* but for the Unshown ones.  And "a call-convention break surfaces as a loud run
\* error instead of a silent false pass" (_sdk_guard.py): it ends as a raised
\* error, not as a verdict of either kind.
VerdictIsEarned ==
    /\ verdict = "complete" => /\ lapses \cap Claimed(suite) \subseteq Unprobed
                               /\ strict \in {"none"} \cup Unshown
    /\ broken => verdict \notin {"complete", "failed"}
================================================================================
