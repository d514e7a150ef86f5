---------------------------- MODULE AccessScenarios ----------------------------
(***************************************************************************)
(* The scenarios that probe a rule of the registry or the control plane:   *)
(* S6, S7, S9, S10, S11, S13, S14, S15, S17, S18, S25 and S26.  For each,  *)
(* the contract its documentation claims of every call, and its run().     *)
(***************************************************************************)
EXTENDS ScenarioSteps, TLC

-------------------------------------------------------------------------------
(* S6: restricted visibility *)

S6Contract == [publish |-> "allow", anonymous |-> "hide", outsider |-> "deny",
               audience_member |-> "allow"]
S6Reads == {"anonymous", "outsider", "audience_member"}

\* Mutant: the outsider's read is not part of the verdict.
S6NoOutsider(got, conf) ==
    CASE ~Has(got, {"publish"})    -> Await({"publish"})
      [] got["publish"] = "token"  -> Ends("complete", TRUE, {})
      [] got["publish"] # "ok"     -> Raises
      [] ~Has(got, S6Reads)        -> Await(S6Reads)
      [] OTHER -> Verdict(got["anonymous"] \in Denied /\ got["audience_member"] = "ok",
                          FALSE, {"publish"})

S6(got, conf) ==
    CASE ~Has(got, {"publish"})    -> Await({"publish"})
      [] got["publish"] = "token"  -> Ends("complete", TRUE, {})
      [] got["publish"] # "ok"     -> Raises
      [] ~Has(got, S6Reads)        -> Await(S6Reads)
      [] OTHER -> Verdict(/\ got["anonymous"] \in Denied
                          /\ got["outsider"] \in Denied
                          /\ got["audience_member"] = "ok", FALSE, {"publish"})

-------------------------------------------------------------------------------
(* S10: tenant isolation *)

S10Contract == [publish |-> "allow", cross_read |-> "deny", own_read |-> "allow",
                conflict_header |-> "deny"]
S10Reads == {"cross_read", "own_read", "conflict_header"}

\* _attempt: anything but an allowed, denied or tokenless read is an "error",
\* which passes for the conflicting header.
S10(got, conf) ==
    LET published == Is(got, "publish", {"ok"})
        degraded == \E c \in DOMAIN got : got[c] = "token"
        correct == /\ published
                   /\ got["cross_read"] \in Denied
                   /\ got["own_read"] = "ok"
                   /\ got["conflict_header"] \in Denied \cup {"other", "down"}
    IN  CASE ~Has(got, {"publish"})               -> Await({"publish"})
          [] got["publish"] = "down"              -> Raises
          [] published /\ ~Has(got, S10Reads)     -> Await(S10Reads)
          [] OTHER -> Verdict(correct \/ degraded, degraded,
                              IF published THEN {"publish"} ELSE {})

-------------------------------------------------------------------------------
(* S11: token revocation *)

S11Contract == [publish |-> "allow", revoke |-> "allow", reuse |-> "deny"]

\* The mint and the publish share their try; TokenManager.revoke answers
\* False for every refusal and every transport failure.
S11(got, conf) ==
    CASE ~Has(got, {"publish"})   -> Await({"publish"})
      [] got["publish"] = "token" -> Ends("complete", TRUE, {})
      [] got["publish"] # "ok"    -> Raises
      [] ~Has(got, {"revoke"})    -> Await({"revoke"})
      [] OTHER -> Verdict(got["revoke"] \in {"ok", "token"}, got["revoke"] = "token", {})

-------------------------------------------------------------------------------
(* S13: the guarded endpoint of the control plane *)

S13Contract == [anonymous |-> "authz", admin |-> "http"]

\* An admin request that finds nobody leaves admin_status None, like no token.
S13(got, conf) ==
    CASE "control_plane" \notin conf  -> Ends("complete", TRUE, {})
      [] ~Has(got, {"anonymous"})     -> Await({"anonymous"})
      [] got["anonymous"] = "down"    -> Ends("complete", TRUE, {})
      [] "admin_token" \in conf /\ ~Has(got, {"admin"}) -> Await({"admin"})
      [] OTHER -> Verdict(/\ got["anonymous"] = "forbidden"
                          /\ Is(got, "admin", {"ok", "down"}) \/ ~Has(got, {"admin"}), FALSE, {})

-------------------------------------------------------------------------------
(* S14: context types gated by domain packs *)

S14Contract == [packs |-> "http", base |-> "http", unknown |-> "refuse"]

\* packs answers ok when it lists some; an error status counts as no packs.
S14(got, conf) ==
    CASE "control_plane" \notin conf  -> Ends("complete", TRUE, {})
      [] ~Has(got, {"packs"})         -> Await({"packs"})
      [] got["packs"] = "down"        -> Ends("complete", TRUE, {})
      [] ~Has(got, {"base"})          -> Await({"base"})
      [] ~Has(got, {"unknown"})       -> Await({"unknown"})
      [] OTHER -> Verdict(/\ got["base"] = "ok"
                          /\ got["unknown"] = "rejected" \/ got["packs"] # "ok", FALSE, {})

-------------------------------------------------------------------------------
(* S7 and S15: supersession, without and with the lineage guard *)

S7Contract == [publish |-> "serve", retrieve |-> "serve", supersede |-> "same",
               lineage |-> "same", current |-> "same"]
S7Calls == <<"publish", "retrieve", "supersede", "lineage", "current">>

\* Nothing is caught: every failure is a run.error.  wrong: another lineage, a
\* length other than 2, another head.
S7(got, conf) ==
    IF \E c \in DOMAIN got : ~Answered(got[c]) THEN Raises
    ELSE IF Cardinality(DOMAIN got) < 5 THEN Await({S7Calls[Cardinality(DOMAIN got) + 1]})
    ELSE Verdict(\A c \in {"supersede", "lineage", "current"} : got[c] = "ok",
                 FALSE, {"publish", "supersede"})

S15Contract == S7Contract @@ [v1_guard |-> "local"]

\* The two queries share a try that swallows everything, and are not judged.
S15(got, conf) ==
    LET published == {"v1_guard", "publish", "retrieve", "supersede"}
    IN  CASE ~Has(got, {"v1_guard"})  -> Await({"v1_guard"})
          [] \E c \in DOMAIN got \cap published : ~Answered(got[c]) -> Raises
          [] ~Has(got, {"publish"})   -> Await({"publish"})
          [] ~Has(got, {"retrieve"})  -> Await({"retrieve"})
          [] ~Has(got, {"supersede"}) -> Await({"supersede"})
          [] ~Has(got, {"lineage"})   -> Await({"lineage"})
          [] Answered(got["lineage"]) /\ ~Has(got, {"current"}) -> Await({"current"})
          [] OTHER -> Verdict(got["v1_guard"] = "ok" /\ got["supersede"] = "ok",
                              FALSE, {"publish", "supersede"})

-------------------------------------------------------------------------------
(* S9: a P-256 signature, checked locally and through the registry *)

S9Contract == [crypto |-> "local", publish |-> "serve", retrieve |-> "same"]

\* The round trip is reported, never judged.
S9(got, conf) ==
    CASE ~Has(got, {"crypto"})  -> Await({"crypto"})
      [] ~Has(got, {"publish"}) -> Await({"publish"})
      [] got["publish"] = "ok" /\ ~Has(got, {"retrieve"}) -> Await({"retrieve"})
      [] OTHER -> Verdict(got["crypto"] = "ok", FALSE,
                          IF got["publish"] = "ok" THEN {"publish"} ELSE {})

-------------------------------------------------------------------------------
(* S17: supersession by another identity *)

S17Contract == [publish |-> "serve", retrieve |-> "serve", takeover |-> "guard"]

\* rejected: SupersededError, or the SDK already refuses to build the request.
S17(got, conf) ==
    CASE ~Has(got, {"publish"})     -> Await({"publish"})
      [] ~Answered(got["publish"])  -> Ends("complete", TRUE, {})
      [] ~Has(got, {"retrieve"})    -> Await({"retrieve"})
      [] ~Answered(got["retrieve"]) -> Ends("complete", TRUE, {})
      [] ~Has(got, {"takeover"})    -> Await({"takeover"})
      [] got["takeover"] = "down"   -> Ends("complete", TRUE, {"publish"})
      [] OTHER -> Verdict(got["takeover"] \in {"forbidden", "rejected"}, FALSE, {"publish"})

-------------------------------------------------------------------------------
(* S18: one idempotency key, sent twice *)

S18Contract == [publish |-> "serve", again |-> "same"]

S18(got, conf) ==
    CASE ~Has(got, {"publish"})    -> Await({"publish"})
      [] ~Answered(got["publish"]) -> Ends("complete", TRUE, {})
      [] ~Has(got, {"again"})      -> Await({"again"})
      [] ~Answered(got["again"])   -> Ends("complete", TRUE, {})
      [] OTHER -> Verdict(got["again"] = "ok", FALSE, {"publish"})

-------------------------------------------------------------------------------
(* S25: ephemeral did:key agents (two of them) *)

S25Contract == [offline |-> "local", publish |-> "serve", publish2 |-> "serve",
                retrieve |-> "same", retrieve2 |-> "same", takeover |-> "any4xx"]
S25Live == <<"publish", "publish2", "retrieve", "retrieve2", "takeover">>

\* A call that raises ends the live half; a served body that does not verify
\* raises too.  Any 4xx refuses the takeover, a 2xx fails the run.
S25(got, conf) ==
    LET live == DOMAIN got \ {"offline"}
        over == \E c \in live : got[c] # "ok"
        shown == \A i \in 1..5 : Is(got, S25Live[i], IF i < 5 THEN {"ok"}
                                        ELSE {"forbidden", "absent", "rejected"})
    IN  CASE ~Has(got, {"offline"})          -> Await({"offline"})
          [] ~over /\ Cardinality(live) < 5  -> Await({S25Live[Cardinality(live) + 1]})
          [] OTHER -> Verdict(got["offline"] = "ok" /\ ~Is(got, "takeover", {"ok"}), ~shown,
                              {c \in {"publish", "publish2"} : Is(got, c, {"ok"})})

-------------------------------------------------------------------------------
(* S26: a body changed after it was hashed *)

S26Contract == [diagnostics |-> "local", tampered |-> "refuse"]

\* Only an unreachable registry is marked as degraded.
S26(got, conf) ==
    CASE ~Has(got, {"diagnostics"}) -> Await({"diagnostics"})
      [] ~Has(got, {"tampered"})    -> Await({"tampered"})
      [] OTHER -> Verdict(got["diagnostics"] = "ok" /\ got["tampered"] # "ok",
                          got["tampered"] = "down", {})
================================================================================
