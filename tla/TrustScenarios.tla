---------------------------- MODULE TrustScenarios -----------------------------
(***************************************************************************)
(* The live halves of the trust-profile scenarios S22, S24, S27, S28, S30, *)
(* S32 and S34.  They share a shape: an offline core decides the status;   *)
(* the live half runs in one try whose handlers turn whatever leaves it    *)
(* into a reported outcome, and every fact it did not establish by then    *)
(* makes the run degraded.  The cores are modelled in OfflineCores.        *)
(***************************************************************************)
EXTENDS ScenarioSteps, Sequences

\* live: the calls in order; goesOn: the answers other than ok after which the
\* code continues with the next call, every other one raises out of the try;
\* contract: what is claimed of each call; listed: the contexts of the result.
RoundTrip(got, live, goesOn, contract, listed) ==
    LET answered == DOMAIN got \ {"core"}
        raised == \E c \in answered : got[c] # "ok" /\ <<c, got[c]>> \notin goesOn
        shown == \A c \in DOMAIN contract : Is(got, c, Right[contract[c]])
    IN  CASE ~Has(got, {"core"}) -> Await({"core"})
          [] ~raised /\ Cardinality(answered) < Len(live)
                 -> Await({live[Cardinality(answered) + 1]})
          [] OTHER -> Verdict(got["core"] = "ok", ~shown, {c \in listed : Is(got, c, {"ok"})})

-------------------------------------------------------------------------------
(* S22, S24 and S27: the receipt of a fresh publish *)

\* receipt: the receipt served with the body verifies (absent: none served).
ReceiptContract == [core |-> "local", publish |-> "serve", retrieve |-> "serve",
                    receipt |-> "proof"]

\* Without a key to verify with, the receipt is never looked at.
ReceiptCalls(conf) ==
    <<"publish", "retrieve">> \o IF "receipt_key" \in conf THEN <<"receipt">> ELSE << >>

S22(got, conf) == RoundTrip(got, ReceiptCalls(conf), {}, ReceiptContract, {"publish"})
S24(got, conf) == RoundTrip(got, ReceiptCalls(conf), {}, ReceiptContract, {"publish"})
S27(got, conf) == RoundTrip(got, ReceiptCalls(conf), {}, ReceiptContract, {"publish"})

-------------------------------------------------------------------------------
(* S28: retraction and republication *)

S28Contract == [core |-> "local", publish |-> "serve", retrieve |-> "serve",
                supersede |-> "serve", retract |-> "same", retracted |-> "same",
                events |-> "local", search |-> "same", current |-> "gone",
                again |-> "refuse", republish |-> "same", restored |-> "same"]
S28Live == <<"publish", "retrieve", "supersede", "retract", "retracted", "events",
             "search", "current", "again", "republish", "restored">>

\* Only the second retract and the lookup of the head have handlers of their
\* own: any error status for current, InvalidLifecycleTransition for again.
S28GoesOn ==
    {<<c, "wrong">> : c \in {"retract", "retracted", "events", "search", "republish"}}
        \cup {<<"current", a>> : a \in {"absent", "forbidden", "other"}}
        \cup {<<"again", "rejected">>}

\* Mutant: the head after the republish is not asserted.
S28Unrestored(got, conf) ==
    RoundTrip(got, S28Live, S28GoesOn,
              [c \in DOMAIN S28Contract \ {"restored"} |-> S28Contract[c]], {"publish", "supersede"})

S28(got, conf) == RoundTrip(got, S28Live, S28GoesOn, S28Contract, {"publish", "supersede"})

-------------------------------------------------------------------------------
(* S30: receipts of the lineage head *)

S30Contract == [core |-> "local", publish |-> "serve", current |-> "same",
                retrieve |-> "serve", supersede |-> "serve", current2 |-> "same"]
S30Live == <<"publish", "current", "retrieve", "supersede", "current2">>

\* No receipt key stops the live half before anything is published; a current
\* that carries no head receipt raises (absent), one that does not verify or
\* names another head is only noted.
S30(got, conf) ==
    RoundTrip(got, IF "receipt_key" \in conf THEN S30Live ELSE << >>,
              {<<"current", "wrong">>}, S30Contract, {"publish", "supersede"})

-------------------------------------------------------------------------------
(* S32: a revocation published after the context of the revoked key *)

S32Contract == [core |-> "local", publish |-> "serve", retrieve |-> "same",
                publish2 |-> "serve", retrieve2 |-> "same"]
S32Live == <<"publish", "retrieve", "publish2", "retrieve2">>

\* publish is the victim's context, which the result does not list.
S32(got, conf) ==
    RoundTrip(got, IF "receipt_key" \in conf THEN S32Live ELSE << >>, {},
              S32Contract, {"publish2"})

-------------------------------------------------------------------------------
(* S34: embedded data references, carried forward by a supersede *)

S34Contract == [core |-> "local", publish |-> "serve", retrieve |-> "same",
                refs |-> "local", supersede |-> "serve", retrieve2 |-> "same"]
S34Live == <<"publish", "retrieve", "refs", "supersede", "retrieve2">>

\* A body that does not verify raises, references that changed are only noted.
S34(got, conf) ==
    RoundTrip(got, S34Live, {<<"refs", "wrong">>}, S34Contract, {"publish", "supersede"})
================================================================================
