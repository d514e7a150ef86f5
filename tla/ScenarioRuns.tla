----------------------------- MODULE ScenarioRuns ------------------------------
(***************************************************************************)
(* Runs of the probing scenarios against services that may break their     *)
(* contract and may fail: every call is answered rightly, wrongly or not   *)
(* at all, in the order the scenario awaits them, gathered calls in any    *)
(* order.  The properties say what a RunResult is worth.                   *)
(***************************************************************************)
EXTENDS AccessScenarios, TrustScenarios

CONSTANTS
    Scenarios,  \* the scenarios that are run
    MaxFaults   \* bound: calls of a run that meet a fault

Settings == {"control_plane", "admin_token", "receipt_key"}

VARIABLES
    scen,  \* the scenario
    conf,  \* what is configured
    got,   \* the answers so far
    result \* the RunResult, Running before

probeVars == <<scen, conf, got, result>>

Running == [t |-> "await"]

Contract(s) ==
    CASE s = "s6"  -> S6Contract  [] s = "s7"  -> S7Contract  [] s = "s9"  -> S9Contract
      [] s = "s10" -> S10Contract [] s = "s11" -> S11Contract [] s = "s13" -> S13Contract
      [] s = "s14" -> S14Contract [] s = "s15" -> S15Contract [] s = "s17" -> S17Contract
      [] s = "s18" -> S18Contract [] s = "s25" -> S25Contract [] s = "s26" -> S26Contract
      [] s \in {"s22", "s24", "s27"} -> ReceiptContract
      [] s = "s28" -> S28Contract [] s = "s30" -> S30Contract
      [] s = "s32" -> S32Contract [] s = "s34" -> S34Contract

Does(s) ==
    CASE s = "s6"  -> S6(got, conf)  [] s = "s7"  -> S7(got, conf)  [] s = "s9"  -> S9(got, conf)
      [] s = "s10" -> S10(got, conf) [] s = "s11" -> S11(got, conf) [] s = "s13" -> S13(got, conf)
      [] s = "s14" -> S14(got, conf) [] s = "s15" -> S15(got, conf) [] s = "s17" -> S17(got, conf)
      [] s = "s18" -> S18(got, conf) [] s = "s25" -> S25(got, conf) [] s = "s26" -> S26(got, conf)
      [] s = "s22" -> S22(got, conf) [] s = "s24" -> S24(got, conf) [] s = "s27" -> S27(got, conf)
      [] s = "s28" -> S28(got, conf) [] s = "s30" -> S30(got, conf)
      [] s = "s32" -> S32(got, conf) [] s = "s34" -> S34(got, conf)

Faulty == {c \in DOMAIN got : got[c] \in Faults(Contract(scen)[c])}

\* A call is answered.
Answer(c, a) ==
    /\ result = Running
    /\ c \in Does(scen).calls \ DOMAIN got
    /\ got' = (c :> a) @@ got
    /\ UNCHANGED <<scen, conf, result>>

\* run() returns its RunResult, or raises.
Ending ==
    /\ result = Running
    /\ Does(scen).t # "await"
    /\ result' = Does(scen)
    /\ UNCHANGED <<scen, conf, got>>

-------------------------------------------------------------------------------
ProbeInit ==
    /\ scen \in Scenarios
    /\ conf \in SUBSET Settings
    /\ got = << >>
    /\ result = Running

Awaiting == result = Running /\ Does(scen).t = "await"

ProbeNext ==
    \/ /\ Awaiting
       /\ \E c \in Does(scen).calls \ DOMAIN got :
              LET kind == Contract(scen)[c]
              IN  \E a \in Right[kind] \cup Wrong[kind]
                              \cup (IF Cardinality(Faulty) < MaxFaults THEN Faults(kind) ELSE {}) :
                      Answer(c, a)
    \/ Ending

ProbeSpec == ProbeInit /\ [][ProbeNext]_probeVars

-------------------------------------------------------------------------------
(* Properties *)

\* The calls the scenario's documentation makes a claim about.  The round trip
\* of S9 is documented as optional, S13 has no admin request without an admin
\* token, and S14 claims nothing where no pack is listed.
Claims ==
    CASE scen = "s9"  -> {"crypto"}
      [] scen = "s13" /\ "admin_token" \notin conf -> {"anonymous"}
      [] scen = "s14" /\ ~Is(got, "packs", {"ok"}) -> {}
      [] OTHER -> DOMAIN Contract(scen)

Breach == {c \in Claims \cap DOMAIN got : got[c] \in Wrong[Contract(scen)[c]]}
Clean == result.t = "ends" /\ result.status = "complete" /\ ~result.degraded

\* Claims that a clean pass does not rest on, against the documentation: S10
\* takes any error for the refusal of a conflicting header, S11 never uses the
\* revoked token, S13 takes an admin request without an answer for an allowed
\* one, S15 reports its two queries and does not judge them, and S26 takes any
\* error for the refusal of the tampered body.
Unjudged ==
    CASE scen = "s10" -> {"conflict_header"} [] scen = "s11" -> {"reuse"}
      [] scen = "s13" -> {"admin"}           [] scen = "s15" -> {"lineage", "current"}
      [] scen = "s26" -> {"tampered"}        [] OTHER -> {}

\* Contexts that run() publishes and does not list: that of S11 and that of the
\* key S32 revokes.
Unlisted == IF scen \in {"s11", "s32"} THEN {"publish"} ELSE {}

\* A run that completes and is not marked degraded has seen every judged claim
\* of its scenario hold: no call it rests on was skipped, unanswered or misread.
\* And it lists the "ctx ids produced" (docs/http-api.md 183): every context whose
\* publish was answered, but for the Unlisted ones.
CleanPassIsEarned ==
    Clean => /\ \A c \in Claims \ Unjudged :
                    c \in DOMAIN got /\ got[c] \in Right[Contract(scen)[c]]
             /\ {c \in DOMAIN got : c \in {"publish", "publish2", "supersede"}
                                      /\ Answered(got[c])} \subseteq result.contexts \cup Unlisted

\* The claims whose breach fails the run.  The live halves of the trust profiles
\* only degrade it, a receipt or a body that does not verify included.
Decisive ==
    CASE scen \in {"s22", "s24", "s27", "s28", "s30", "s32", "s34"} -> {"core"}
      [] scen = "s25" -> {"offline", "takeover"}
      [] scen = "s15" -> Claims \ Unjudged
      [] OTHER -> Claims

\* A run is reported as failed if and only if it was shown a breach.  A decisive
\* breach is not reported as a completed run, whatever else failed around it; the
\* exception is S10, where a token that could not be minted for one read masks
\* what another read showed.  And an outage, a refused token or an error status
\* alone never fails a run; S6, S10, S11, S13, S14 and S17 also fail on an answer
\* that shows nothing, but not without one.
FailedMeansBreach ==
    result.t = "ends" =>
        /\ Breach \cap Decisive # {} =>
               result.status = "failed" \/ (scen = "s10" /\ result.degraded)
        /\ result.status = "failed" =>
               IF scen \in {"s6", "s10", "s11", "s13", "s14", "s17"}
               THEN \E c \in DOMAIN got : got[c] \notin Right[Contract(scen)[c]]
               ELSE Breach # {}
================================================================================
