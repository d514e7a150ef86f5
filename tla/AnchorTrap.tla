------------------------------- MODULE AnchorTrap -------------------------------
(***************************************************************************)
(* S33 (s33_anchors.py): the DNS trap that watches verification,           *)
(* and the runs that take it.  _dns_trap replaces socket.getaddrinfo, which *)
(* the whole process shares, and puts back on exit the function it found   *)
(* on entry.  The offline half holds it over synchronous calls only; the   *)
(* live half holds it across `await client.retrieve_raw`, so the traps of  *)
(* runs that overlap need not nest.                                        *)
(***************************************************************************)
EXTENDS Naturals, Sequences, FiniteSets

CONSTANT Runs   \* concurrent S33 runs of one process

Real == <<"socket">>
Scopes == 1..2                      \* the two traps of the live half
Guards == {<<"guarded", r, k>> : r \in Runs, k \in Scopes}

VARIABLES
    derefs,   \* the verifiers of the SDK that resolve anchors[].uri: none should
    pc,       \* pc[r]: the await the run is suspended at
    patch,    \* socket.getaddrinfo
    found,    \* found[g]: real_getaddrinfo of the guard g, None before entry
    seen,     \* seen[r]: the live facts established
    outcome,  \* outcome[r]: registry_outcome
    status    \* status[r]

trapVars == <<derefs, pc, patch, found, seen, outcome, status>>

None == <<"none">>
Facts == {"retrieved_anchors_match", "carry_forward_ok", "clear_anchors_ok"}
Guard(r, k) == <<"guarded", r, k>>

-------------------------------------------------------------------------------
(* _dns_trap *)

\* Mutant: guarded() calls whatever socket.getaddrinfo is by then.
EnterLate(r, k) ==
    /\ found' = [found EXCEPT ![Guard(r, k)] = Guard(r, k)]
    /\ patch' = Guard(r, k)

Enter(r, k) ==
    /\ found' = [found EXCEPT ![Guard(r, k)] = patch]
    /\ patch' = Guard(r, k)

Exit(r, k) == patch' = found[Guard(r, k)]

\* Any guard on the way to the resolver refuses the poison host.
Trapped == patch # Real

-------------------------------------------------------------------------------
(* run *)

\* The offline half: build, trap, verify, tamper; nothing is awaited.  core:
\* its three verdicts are right.  A dereference raises out of run().
Offline(r, core) ==
    /\ pc[r] = "start"
    /\ IF "publish" \in derefs
       THEN pc' = [pc EXCEPT ![r] = "end"] /\ status' = [status EXCEPT ![r] = "error"]
       ELSE pc' = [pc EXCEPT ![r] = "publish1"] /\ UNCHANGED status
    /\ seen' = [seen EXCEPT ![r] = IF core THEN {"offline_core_ok"} ELSE {}]
    /\ UNCHANGED <<derefs, patch, found, outcome>>

\* publish answers; the code up to the next await enters the trap.
Published(r, k) ==
    /\ pc[r] = <<"publish1", "publish2">>[k]
    /\ Enter(r, k)
    /\ pc' = [pc EXCEPT ![r] = <<"retrieve1", "retrieve2">>[k]]
    /\ UNCHANGED <<derefs, seen, outcome, status>>

\* retrieve_raw answers in the trap; v1 is verified, then the trap is left.
Retrieved1(r, same) ==
    /\ pc[r] = "retrieve1"
    /\ Exit(r, 1)
    /\ IF "body" \in derefs /\ Trapped
       THEN \* the AssertionError ends the live half in its except Exception
            /\ outcome' = [outcome EXCEPT ![r] = "unreachable:AssertionError"]
            /\ pc' = [pc EXCEPT ![r] = "verdict"]
            /\ UNCHANGED seen
       ELSE /\ seen' = [seen EXCEPT ![r] = IF same THEN @ \cup {"retrieved_anchors_match"} ELSE @]
            /\ pc' = [pc EXCEPT ![r] = "publish2"]
            /\ UNCHANGED outcome
    /\ UNCHANGED <<derefs, found, status>>

Retrieved2(r, same) ==
    /\ pc[r] = "retrieve2"
    /\ Exit(r, 2)
    /\ seen' = [seen EXCEPT ![r] = IF same THEN @ \cup {"carry_forward_ok"} ELSE @]
    /\ pc' = [pc EXCEPT ![r] = "publish3"]
    /\ UNCHANGED <<derefs, found, outcome, status>>

Published3(r) ==
    /\ pc[r] = "publish3"
    /\ pc' = [pc EXCEPT ![r] = "retrieve3"]
    /\ UNCHANGED <<derefs, patch, found, seen, outcome, status>>

Retrieved3(r, gone) ==
    /\ pc[r] = "retrieve3"
    /\ seen' = [seen EXCEPT ![r] = IF gone THEN @ \cup {"clear_anchors_ok"} ELSE @]
    /\ outcome' = [outcome EXCEPT ![r] = "published_3"]
    /\ pc' = [pc EXCEPT ![r] = "verdict"]
    /\ UNCHANGED <<derefs, patch, found, status>>

\* An await raises an AcdpHTTPError or anything else.  A trap is left first.
LiveFails(r) ==
    /\ pc[r] \in {"publish1", "retrieve1", "publish2", "retrieve2", "publish3", "retrieve3"}
    /\ CASE pc[r] = "retrieve1" -> Exit(r, 1)
         [] pc[r] = "retrieve2" -> Exit(r, 2)
         [] OTHER -> UNCHANGED patch
    /\ outcome' = [outcome EXCEPT ![r] = "failed"]
    /\ pc' = [pc EXCEPT ![r] = "verdict"]
    /\ UNCHANGED <<derefs, found, seen, status>>

Concludes(r) ==
    /\ pc[r] = "verdict"
    /\ pc' = [pc EXCEPT ![r] = "end"]
    /\ status' = [status EXCEPT ![r] =
            CASE "offline_core_ok" \notin seen[r] -> "failed"
              [] Facts \subseteq seen[r]          -> "complete"
              [] OTHER                            -> "degraded"]
    /\ UNCHANGED <<derefs, patch, found, seen, outcome>>

-------------------------------------------------------------------------------
TrapInit ==
    /\ derefs \in SUBSET {"publish", "body"}
    /\ pc = [r \in Runs |-> "start"]
    /\ patch = Real
    /\ found = [g \in Guards |-> None]
    /\ seen = [r \in Runs |-> {}]
    /\ outcome = [r \in Runs |-> "skipped"]
    /\ status = [r \in Runs |-> "running"]

TrapNext == \E r \in Runs :
    \/ \E core \in BOOLEAN : Offline(r, core)
    \/ \E k \in Scopes : Published(r, k)
    \/ \E same \in BOOLEAN : Retrieved1(r, same) \/ Retrieved2(r, same) \/ Retrieved3(r, same)
    \/ Published3(r)
    \/ LiveFails(r)
    \/ Concludes(r)

TrapSpec == TrapInit /\ [][TrapNext]_trapVars

-------------------------------------------------------------------------------
(* Properties *)

\* The resolver and the guards from which a lookup comes to it.
Resolving ==
    LET within[n \in 0 .. Cardinality(Guards)] ==
            IF n = 0 THEN {Real}
            ELSE within[n - 1] \cup {g \in Guards : found[g] \in within[n - 1]}
    IN  within[Cardinality(Guards)]

\* Whatever traps of other runs were installed, overlapped or left behind, a
\* lookup of any other host still reaches the real resolver: no guard calls
\* itself, and none calls one that was never installed.
LookupsReachTheResolver == patch \in Resolving

================================================================================
