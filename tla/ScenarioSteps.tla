----------------------------- MODULE ScenarioSteps -----------------------------
(***************************************************************************)
(* The vocabulary of the scenario models.  A scenario is written as what   *)
(* its run() does next given the answers it has so far: it awaits calls    *)
(* (several at once under asyncio.gather), or it returns a RunResult, or   *)
(* an exception leaves it and the runner reports run.error.                *)
(*                                                                         *)
(* `got` maps the calls already answered to their answers; `conf` holds    *)
(* what the settings configure.  A local computation of the SDK is a call  *)
(* too: it can be answered rightly or wrongly, but cannot be unavailable.  *)
(***************************************************************************)
EXTENDS Naturals, FiniteSets

Await(calls) == [t |-> "await", calls |-> calls]
Ends(status, degraded, contexts) ==
    [t |-> "ends", status |-> status, degraded |-> degraded, contexts |-> contexts]
Raises == [t |-> "raises"]
Verdict(ok, degraded, contexts) ==
    Ends(IF ok THEN "complete" ELSE "failed", degraded, contexts)

\* The answers a call can get: a 2xx whose content is right (ok) or not
\* (wrong), 401/403, 404, the 4xx the contract names for the probe, any other
\* error status, a TokenError, and no answer at all.
Answers == {"ok", "wrong", "forbidden", "absent", "rejected", "other", "token", "down"}
Answered(a) == a \in {"ok", "wrong"}

\* What a contract makes of them.  Every other answer shows nothing.
\* serve: served; allow: served, not refused, to a bearer; http: the same
\* without a token manager; same: served with the right content; deny: hidden
\* or refused to a bearer; hide: the same to an anonymous caller; authz:
\* refused with 401/403; guard: refused with the code of the rule or 401/403;
\* any4xx: refused with any 4xx; refuse: with the code of the rule; gone:
\* hidden; local: computed in the process; proof: a served artefact verifies.
Right == [serve |-> {"ok"}, allow |-> {"ok"}, http |-> {"ok"}, same |-> {"ok"},
          local |-> {"ok"}, proof |-> {"ok"},
          deny |-> {"forbidden", "absent"}, hide |-> {"forbidden", "absent"},
          authz |-> {"forbidden"}, guard |-> {"forbidden", "rejected"},
          refuse |-> {"rejected"}, gone |-> {"absent"},
          any4xx |-> {"forbidden", "absent", "rejected"}]
Wrong == [serve |-> {}, allow |-> {"forbidden", "absent"},
          http |-> {"forbidden", "absent"}, same |-> {"wrong"},
          local |-> {"wrong"}, proof |-> {"wrong"},
          deny |-> {"ok"}, hide |-> {"ok"}, authz |-> {"ok"}, guard |-> {"ok"},
          refuse |-> {"ok"}, gone |-> {"ok"}, any4xx |-> {"ok"}]
Faults(kind) ==
    CASE kind = "local" -> {}
      [] kind = "proof" -> {"absent"}
      [] kind \in {"allow", "deny"} -> {"other", "token", "down"}
      [] OTHER -> ({"forbidden", "absent", "other", "down"} \ Right[kind]) \ Wrong[kind]

Has(got, calls) == calls \subseteq DOMAIN got
Is(got, c, a) == c \in DOMAIN got /\ got[c] \in a
Denied == {"forbidden", "absent"}
================================================================================
