----------------------------- MODULE TokenManager -----------------------------
(***************************************************************************)
(* The bearer tokens of the registry client: TokenManager                  *)
(* (acdp_client/token_manager.py) under the requests and retries of        *)
(* AcdpClient._retrying (acdp_client/client.py).                           *)
(*                                                                         *)
(* Callers are coroutines: a request, or a call of revoke.  A step is what *)
(* one of them does between two suspensions.  The registry issues tokens   *)
(* numbered from 1, may rotate its signing secret, and judges a request    *)
(* when it handles it; the answer reaches the caller at any time later.    *)
(***************************************************************************)
EXTENDS Naturals, Sequences, FiniteSets

CONSTANTS
    Requests,      \* coroutines sending one authenticated request
    Revokers,      \* coroutines calling revoke
    Keys,          \* (agent DID, registry) pairs
    KeyOf,         \* KeyOf[c]: the pair the caller c acts for
    TTL,           \* lifetime the registry gives a token
    Leeway,        \* leeway_seconds
    MaxTime,       \* bound on the clock
    MaxRotations,  \* bound on the registry's secret rotations
    Troubles,      \* the combinations of trouble that behaviours may meet
    NoOne

Callers == Requests \cup Revokers
MaxMints == 2 * Cardinality(Callers)   \* a caller asks for a token twice at most

ASSUME TokenAssumption ==
    /\ Requests \cap Revokers = {} /\ NoOne \notin Callers
    /\ KeyOf \in [Callers -> Keys]
    /\ TTL \in Nat /\ Leeway \in Nat /\ MaxTime \in Nat /\ MaxRotations \in Nat
    /\ Leeway < TTL
    /\ Troubles \subseteq SUBSET {"fail", "cancel", "rotate", "revoke", "expire"}

VARIABLES
    trouble,   \* what may happen: a call fails, a caller is cancelled, the secret
               \* is rotated, revoke is called, time passes
    now,       \* the clock
    cache,     \* cache[k]: the token in _cache, 0 if none
    pending,   \* pending[k]: _pending_reasons, "none" if absent
    holder,    \* holder[k]: who holds the key's asyncio.Lock, or NoOne
    queue,     \* queue[k]: who waits for it, in order
    pc,        \* pc[c]: where the coroutine is suspended
    try,       \* try[c]: the attempt of _post_cooperative it is in
    tok,       \* tok[c]: the token the caller holds, 0 if none
    rejected,  \* rejected[c]: the token a 401 made it drop, 0 if none
    reason,    \* reason[c]: the refresh reason of its last mint
    answer,    \* answer[c]: how the call ended
    issued,    \* tokens issued so far
    expires,   \* expires[t]: expiry of token t
    dead,      \* tokens the registry no longer accepts
    rotations, \* secret rotations so far
    mints,     \* mints[k]: mints completed for the pair k
    killed     \* tokens whose revoke has returned

tokenVars == <<trouble, now, cache, pending, holder, queue, pc, try, tok, rejected, reason, answer,
              issued, expires, dead, rotations, mints, killed>>
lock == <<holder, queue>>
registry == <<trouble, issued, expires, dead, rotations>>

TokenInit ==
    /\ trouble \in Troubles
    /\ now = 0 /\ issued = 0 /\ rotations = 0
    /\ cache = [k \in Keys |-> 0]
    /\ pending = [k \in Keys |-> "none"]
    /\ holder = [k \in Keys |-> NoOne]
    /\ queue = [k \in Keys |-> << >>]
    /\ pc = [c \in Callers |-> "idle"]
    /\ try = [c \in Callers |-> "first"]
    /\ tok = [c \in Callers |-> 0]
    /\ rejected = [c \in Callers |-> 0]
    /\ reason = [c \in Callers |-> "none"]
    /\ answer = [c \in Callers |-> "none"]
    /\ expires = [t \in 1 .. MaxMints |-> 0]
    /\ mints = [k \in Keys |-> 0]
    /\ dead = {} /\ killed = {}

-------------------------------------------------------------------------------
(* token_for *)

\* Mutant: the leeway is not subtracted.
FreshNow(t) == t # 0 /\ now < expires[t]

\* cached and cached.is_fresh(leeway)
Fresh(t) == t # 0 /\ now + Leeway < expires[t]

\* Mutant: no recheck once the lock is held.
RecheckNever(t) == FALSE

Recheck(t) == Fresh(t)

\* token_for returns t to c, which sends its request with it at once.
Returns(c, t) ==
    /\ tok' = [tok EXCEPT ![c] = t]
    /\ pc' = [pc EXCEPT ![c] = "sent"]

\* _classify_refresh takes the pending reason, and _mint posts the challenge.
StartMint(c, pend, cached) ==
    LET k == KeyOf[c] IN
    /\ reason' = [reason EXCEPT ![c] =
            IF pend # "none" THEN pend
            ELSE IF cached # 0 THEN "proactive_refresh" ELSE "first_use"]
    /\ pending' = [pending EXCEPT ![k] = "none"]
    /\ pc' = [pc EXCEPT ![c] = "challenge"]
    /\ try' = [try EXCEPT ![c] = "first"]
    /\ UNCHANGED tok

\* token_for up to its first suspension, the cache and the pending reason of
\* its key being as given: a fresh token at once, else the key's lock, and with
\* the lock free the challenge.
TokenFor(c, cached, pend) ==
    LET k == KeyOf[c] IN
    IF Fresh(cached)
    THEN /\ Returns(c, cached)
         /\ pending' = [pending EXCEPT ![k] = pend]
         /\ UNCHANGED <<lock, try, reason>>
    ELSE IF holder[k] = NoOne
    THEN /\ holder' = [holder EXCEPT ![k] = c]
         /\ StartMint(c, pend, cached)
         /\ UNCHANGED queue
    ELSE /\ queue' = [queue EXCEPT ![k] = Append(@, c)]
         /\ pc' = [pc EXCEPT ![c] = "wait"]
         /\ pending' = [pending EXCEPT ![k] = pend]
         /\ UNCHANGED <<holder, try, reason, tok>>

HasLock(c) == holder[KeyOf[c]] = c

\* The lock is left, and passes to the first waiter.
Release(k) ==
    IF queue[k] = << >>
    THEN holder' = [holder EXCEPT ![k] = NoOne] /\ UNCHANGED queue
    ELSE /\ holder' = [holder EXCEPT ![k] = Head(queue[k])]
         /\ queue' = [queue EXCEPT ![k] = Tail(@)]

\* The call starts: the client's headers, or revoke, ask for a token.
Begin(c) ==
    /\ pc[c] = "idle" /\ (c \in Revokers => "revoke" \in trouble)
    /\ TokenFor(c, cache[KeyOf[c]], pending[KeyOf[c]])
    /\ UNCHANGED <<now, cache, rejected, answer, registry, mints, killed>>

\* A waiter obtains the lock: recheck, and mint only if still needed.
Locked(c) ==
    LET k == KeyOf[c] IN
    /\ pc[c] = "wait" /\ HasLock(c)
    /\ IF Recheck(cache[k])
       THEN Returns(c, cache[k]) /\ Release(k) /\ UNCHANGED <<pending, try, reason>>
       ELSE StartMint(c, pending[k], cache[k]) /\ UNCHANGED lock
    /\ UNCHANGED <<now, cache, rejected, answer, registry, mints, killed>>

-------------------------------------------------------------------------------
(* _mint: challenge, signature, token, each post with one cooperative retry *)

Minting(c) == pc[c] \in {"challenge", "token"}

\* 429 or 503 with a Retry-After that parses, on the first attempt.
RateLimited(c) ==
    /\ "fail" \in trouble /\ Minting(c) /\ try[c] = "first"
    /\ try' = [try EXCEPT ![c] = "sleep"]
    /\ UNCHANGED <<now, cache, pending, lock, pc, tok, rejected, reason, answer,
                   registry, mints, killed>>

Again(c) ==
    /\ try[c] = "sleep" /\ Minting(c)
    /\ try' = [try EXCEPT ![c] = "second"]
    /\ UNCHANGED <<now, cache, pending, lock, pc, tok, rejected, reason, answer,
                   registry, mints, killed>>

\* The challenge is answered and signed, and the token requested.
Challenged(c) ==
    /\ pc[c] = "challenge" /\ try[c] # "sleep"
    /\ pc' = [pc EXCEPT ![c] = "token"]
    /\ try' = [try EXCEPT ![c] = "first"]
    /\ UNCHANGED <<now, cache, pending, lock, tok, rejected, reason, answer,
                   registry, mints, killed>>

\* The registry issues the token; its answer is on the way.
Issue(c) ==
    /\ pc[c] = "token" /\ try[c] # "sleep"
    /\ issued < MaxMints
    /\ issued' = issued + 1
    /\ expires' = [expires EXCEPT ![issued + 1] = now + TTL]
    /\ tok' = [tok EXCEPT ![c] = issued + 1]
    /\ pc' = [pc EXCEPT ![c] = "issued"]
    /\ UNCHANGED <<now, cache, pending, lock, try, rejected, reason, answer,
                   trouble, dead, rotations, mints, killed>>

\* The token arrives: into the cache, the lock released, the request sent.
Minted(c) ==
    LET k == KeyOf[c] IN
    /\ pc[c] = "issued"
    /\ cache' = [cache EXCEPT ![k] = tok[c]]
    /\ mints' = [mints EXCEPT ![k] = @ + 1]
    /\ Release(k)
    /\ pc' = [pc EXCEPT ![c] = "sent"]
    /\ UNCHANGED <<now, pending, try, tok, rejected, reason, answer, registry, killed>>

\* Mutant: a failed mint keeps the lock.
LeaveKeeps(c) ==
    IF HasLock(c) THEN UNCHANGED lock
    ELSE /\ queue' = [queue EXCEPT ![KeyOf[c]] = SelectSeq(@, LAMBDA x : x # c)]
         /\ UNCHANGED holder

\* async with: the holder leaves the lock, a waiter the queue.
Leave(c) ==
    IF HasLock(c) THEN Release(KeyOf[c])
    ELSE /\ queue' = [queue EXCEPT ![KeyOf[c]] = SelectSeq(@, LAMBDA x : x # c)]
         /\ UNCHANGED holder

\* ChallengeError or TokenIssueError (transport, status or malformed answer),
\* or CancelledError while waiting or minting.
MintFails(c) ==
    /\ \/ "fail" \in trouble /\ pc[c] \in {"challenge", "token", "issued"} /\ try[c] # "sleep"
       \/ "cancel" \in trouble /\ pc[c] \in {"wait", "challenge", "token", "issued"}
    /\ Leave(c)
    /\ pc' = [pc EXCEPT ![c] = "done"]
    /\ answer' = [answer EXCEPT ![c] = "error"]
    /\ UNCHANGED <<now, cache, pending, try, tok, rejected, reason, registry, mints, killed>>

-------------------------------------------------------------------------------
(* The registry (external) *)

Accepts(t) == t \notin dead /\ now < expires[t]

\* It handles a request: success or 403 with a token it accepts, else 401.
\* A revoke kills the token.  The answer is on the way.
Handle(c) ==
    /\ pc[c] = "sent"
    /\ pc' = [pc EXCEPT ![c] = "answered"]
    /\ answer' = [answer EXCEPT ![c] =
            IF ~Accepts(tok[c]) THEN "401" ELSE IF c \in Revokers THEN "revoked" ELSE "ok"]
    /\ dead' = IF c \in Revokers /\ Accepts(tok[c]) THEN dead \cup {tok[c]} ELSE dead
    /\ UNCHANGED <<now, cache, pending, lock, try, tok, rejected, reason,
                   trouble, issued, expires, rotations, mints, killed>>

\* The signing secret changes: no token issued so far is accepted any more.
Rotate ==
    /\ "rotate" \in trouble /\ rotations < MaxRotations
    /\ rotations' = rotations + 1
    /\ dead' = 1 .. issued
    /\ UNCHANGED <<now, cache, pending, lock, pc, try, tok, rejected, reason,
                   answer, trouble, issued, expires, mints, killed>>

\* Time passes, but a round trip is short against a token's lifetime: not while
\* a new token is on its way, nor so far that a token expires under way.
Tick ==
    /\ "expire" \in trouble /\ now < MaxTime
    /\ \A c \in Callers : /\ pc[c] # "issued"
                          /\ pc[c] = "sent" => now + 1 < expires[tok[c]]
    /\ now' = now + 1
    /\ UNCHANGED <<cache, pending, lock, pc, try, tok, rejected, reason, answer,
                   registry, mints, killed>>

-------------------------------------------------------------------------------
(* _retrying and revoke after the answer *)

\* Mutant: the rejected token stays in the cache.
InvalidateNothing(k) == cache

\* invalidate() pops the key's token, whichever it is by now.
Invalidate(k) == [cache EXCEPT ![k] = 0]

\* A first 401: the key is invalidated and the request sent once more.
Rejected(c) ==
    LET k == KeyOf[c] IN
    /\ c \in Requests /\ pc[c] = "answered" /\ answer[c] = "401" /\ rejected[c] = 0
    /\ rejected' = [rejected EXCEPT ![c] = tok[c]]
    /\ cache' = Invalidate(k)
    /\ TokenFor(c, cache'[k], "reactive_401")
    /\ UNCHANGED <<now, answer, registry, mints, killed>>

\* Any other answer is the caller's result; a transport error is raised.
Finished(c) ==
    /\ c \in Requests
    /\ \/ /\ pc[c] = "answered" /\ (answer[c] # "401" \/ rejected[c] # 0)
          /\ UNCHANGED answer
       \/ /\ "fail" \in trouble /\ pc[c] \in {"sent", "answered"}
          /\ answer' = [answer EXCEPT ![c] = "error"]
    /\ pc' = [pc EXCEPT ![c] = "done"]
    /\ UNCHANGED <<now, cache, pending, lock, try, tok, rejected, reason,
                   registry, mints, killed>>

\* Mutant: revoke drops the local copy only when the registry says it is dead.
RevokeDrops(c) == IF answer[c] = "revoked" THEN Invalidate(KeyOf[c]) ELSE cache

\* revoke: the local copy is dropped whatever the answer, a failed one included.
RevokeDrop(c) == Invalidate(KeyOf[c])

\* A token without jti cannot be revoked: nothing is posted, nothing dropped.
NoJti(c) ==
    /\ c \in Revokers /\ pc[c] = "sent"
    /\ pc' = [pc EXCEPT ![c] = "done"]
    /\ answer' = [answer EXCEPT ![c] = "no jti"]
    /\ UNCHANGED <<now, cache, pending, lock, try, tok, rejected, reason,
                   registry, mints, killed>>

Revoked(c) ==
    /\ c \in Revokers
    /\ \/ pc[c] = "answered" /\ UNCHANGED answer
       \/ /\ "fail" \in trouble /\ pc[c] \in {"sent", "answered"}
          /\ answer' = [answer EXCEPT ![c] = "error"]
    /\ pc' = [pc EXCEPT ![c] = "done"]
    /\ cache' = RevokeDrop(c)
    /\ pending' = [pending EXCEPT ![KeyOf[c]] = "reactive_401"]
    /\ killed' = killed \cup {tok[c]}
    /\ UNCHANGED <<now, lock, try, tok, rejected, reason, registry, mints>>

-------------------------------------------------------------------------------

Step(c) ==
    \/ Begin(c) \/ Locked(c) \/ RateLimited(c) \/ Again(c) \/ Challenged(c)
    \/ Issue(c) \/ Minted(c) \/ MintFails(c) \/ Rejected(c) \/ Finished(c)
    \/ NoJti(c) \/ Revoked(c) \/ Handle(c)

TokenNext == (\E c \in Callers : Step(c)) \/ Rotate \/ Tick

\* The event loop resumes every ready coroutine; the registry answers or the
\* request times out; asyncio.Lock wakes its waiters in order.
TokenSpec == TokenInit /\ [][TokenNext]_tokenVars /\ \A c \in Callers : WF_tokenVars(Step(c))

-------------------------------------------------------------------------------
(* Properties *)

\* token_manager.py 27-30, single-flight: every completed mint of a key beyond
\* the first has a cause of its own: a 401, a revoke, or a lifetime that is over.
\* Concurrent requests never pay for it twice.
SingleFlight ==
    \A k \in Keys :
        mints[k] <= 1 + Cardinality({c \in Requests : KeyOf[c] = k /\ rejected[c] # 0})
                      + Cardinality({c \in Revokers : KeyOf[c] = k /\ pc[c] = "done"})
                      + now \div (TTL - Leeway)

\* client.py 413-416: the retry after a 401 never repeats the rejected token,
\* nor one older than it, whatever other callers mint, revoke or drop meanwhile.
RetryUsesNewerToken ==
    \A c \in Requests : pc[c] = "sent" /\ rejected[c] # 0 => tok[c] > rejected[c]

\* token_manager.py 512-514: a token revoke has tried to kill is not handed out
\* to a request any more once revoke has returned, whether or not it succeeded.
KilledNotHandedOut ==
    [][\A c \in Callers : pc[c] # "sent" /\ pc'[c] = "sent" => tok'[c] \notin killed]_tokenVars

\* token_manager.py 223-225: the token token_for returns is fresh, with the
\* leeway to spare.
ReturnedFresh ==
    [][\A c \in Callers : pc[c] # "sent" /\ pc'[c] = "sent" =>
            now + Leeway < expires[tok'[c]]]_tokenVars

\* client.py 409-416: every request and every revoke ends, however often others
\* invalidate its key.
EveryCallEnds == \A c \in Callers : pc[c] # "idle" ~> pc[c] = "done"
===============================================================================
