-------------------------------- MODULE MCClient --------------------------------
(***************************************************************************)
(* Instance of the client library for TLC.  Its four parts share no state, *)
(* so a behaviour exercises one of them and leaves the others at rest:     *)
(* interleaving them would add states and no behaviour.                    *)
(***************************************************************************)
EXTENDS TokenManager, ContextReads, SearchPaging, SafeFetch

CONSTANTS k1, c1, c2, home, peer, other

\* All callers act for one pair of agent and registry.
OneKey == [c \in Callers |-> k1]

\* A context of the client's own registry, one of a mapped registry, and one of
\* a registry nobody maps.
MCAuthority == [i \in CtxIds |-> CASE i = c1 -> home [] i = c2 -> peer [] OTHER -> other]

\* Behaviours meet at most two kinds of trouble, cancellation apart.
MCTroubles == {{"rotate", "cancel"}, {"rotate", "revoke"},
               {"expire", "revoke", "cancel"}, {"fail", "revoke"}}

VARIABLE part

vars == <<part, tokenVars, readVars, searchVars, fetchVars>>

\* A part at rest is in one of its initial states: no call is made of it.
Init ==
    /\ part \in {"tokens", "reads", "search", "fetch"}
    /\ TokenInit /\ (part # "tokens" => trouble = {"fail", "revoke"})
    /\ ReadInit
    /\ SearchInit /\ (part # "search" => honest /\ rows = 0)
    /\ FetchInit
    /\ part # "fetch" => ~ref.located /\ ref.hash = "none" /\ ref.url = CHOOSE u \in Urls : TRUE

Next ==
    /\ \/ part = "tokens" /\ TokenNext /\ UNCHANGED <<readVars, searchVars, fetchVars>>
       \/ part = "reads" /\ ReadNext /\ UNCHANGED <<tokenVars, searchVars, fetchVars>>
       \/ part = "search" /\ SearchNext /\ UNCHANGED <<tokenVars, readVars, fetchVars>>
       \/ part = "fetch" /\ FetchNext /\ UNCHANGED <<tokenVars, readVars, searchVars>>
    /\ UNCHANGED part

\* The fairness of the part that is exercised.
Spec ==
    /\ Init /\ [][Next]_vars
    /\ \A c \in Callers : WF_tokenVars(part = "tokens" /\ Step(c))
    /\ WF_searchVars(part = "search" /\ (Search \/ Truncate))
    /\ WF_fetchVars(part = "fetch" /\ FetchNext)

\* Every call of the client ends: whoever waits for a token is answered or gives
\* up, a search stops though every page has a cursor (client.py 798-802), and a
\* fetch stops though every answer is a redirect (safe_http.py 207-217).
ClientCallsEnd == EveryCallEnds /\ SearchEnds /\ FetchEnds
===============================================================================
