------------------------------ MODULE RunLimiter ------------------------------
(***************************************************************************)
(* The launch limits of POST /runs (playground/rate_limit.py, class        *)
(* RunLimiter): a sliding window of launches per client IP, and a cap on   *)
(* the runs in flight.  `acquire` has no await in it, so each of its       *)
(* outcomes is one step.                                                   *)
(*                                                                         *)
(* Time is counted in ticks, TicksPerSecond of them to a second: the code  *)
(* compares float seconds, and rounds only when it computes Retry-After.   *)
(***************************************************************************)
EXTENDS Integers, Sequences, FiniteSets

CONSTANTS
    IPs,             \* the client IPs that per-IP limits charge
    NoIP,            \* a request that carries no IP to charge
    MaxConcurrent,   \* MAX_CONCURRENT_RUNS
    PerIP,           \* RUN_RATE_LIMIT_PER_IP
    Window,          \* RUN_RATE_LIMIT_WINDOW_SECONDS
    PruneAt,         \* size of the launch map from which _prune works (1024)
    TicksPerSecond,  \* resolution of the clock
    Horizon          \* bound: the last tick

\* The settings are declared with gt=0 (playground/config.py).
ASSUME LimiterAssumption ==
    /\ NoIP \notin IPs
    /\ {MaxConcurrent, PerIP, Window, PruneAt, TicksPerSecond} \subseteq Nat \ {0}
    /\ Horizon \in Nat

VARIABLES
    now,       \* the monotonic clock
    launches,  \* _launches: per tracked IP, the deque of its launch times
    active,    \* active: the slots taken
    granted,   \* history: per IP, the times of all its charged launches
    refusal    \* history: per IP, the last run_rate_limited answer

limiterVars == <<now, launches, active, granted, refusal>>

-----------------------------------------------------------------------------
(* Helpers *)

WindowTicks == Window * TicksPerSecond

Larger(a, b) == IF a >= b THEN a ELSE b

\* math.ceil of a number of ticks, in seconds
CeilSeconds(ticks) == (ticks + TicksPerSecond - 1) \div TicksPerSecond

\* The prefix that the popleft loop removes: the longest one that is at or
\* before the cutoff.
AgedOut(q, cutoff) ==
    CHOOSE n \in 0..Len(q) :
        /\ \A i \in 1..n : q[i] <= cutoff
        /\ n < Len(q) => q[n + 1] > cutoff

DropAged(q, cutoff) == SubSeq(q, AgedOut(q, cutoff) + 1, Len(q))

\* launches.setdefault(ip, deque())
Deque(ip) == IF ip \in DOMAIN launches THEN launches[ip] ELSE <<>>

\* The deque as the window check sees it
Live(ip) == DropAged(Deque(ip), now - WindowTicks)

Tracking(ip, q) ==
    [x \in DOMAIN launches \cup {ip} |-> IF x = ip THEN q ELSE launches[x]]

\* _prune: once the map has grown to PruneAt, forget the IPs whose newest
\* launch has aged out.
Prune(map, cutoff) ==
    IF Cardinality(DOMAIN map) < PruneAt THEN map
    ELSE [ip \in {x \in DOMAIN map :
                    map[x] # <<>> /\ map[x][Len(map[x])] > cutoff} |-> map[ip]]

-----------------------------------------------------------------------------
(* acquire and release *)

SlotFree == active < MaxConcurrent

\* Mutant: one launch too many.
UnderRateOffByOne(ip) == ip = NoIP \/ Len(Live(ip)) <= PerIP

UnderRate(ip) == ip = NoIP \/ Len(Live(ip)) < PerIP

Charge(ip) ==
    IF ip = NoIP THEN UNCHANGED <<launches, granted>>
    ELSE /\ launches' = Prune(Tracking(ip, Append(Live(ip), now)),
                              now - WindowTicks)
         /\ granted' = [granted EXCEPT ![ip] = Append(@, now)]

\* A slot is reserved and the launch is charged.
Acquire(ip) ==
    /\ SlotFree
    /\ UnderRate(ip)
    /\ Charge(ip)
    /\ active' = active + 1
    /\ UNCHANGED <<now, refusal>>

\* max_concurrent_runs: looked at first, and the launch is not charged.
RefuseConcurrency(ip) ==
    /\ ~SlotFree
    /\ UNCHANGED limiterVars

\* Mutant: the wait is rounded down.
RetryAfterFloor(ip) == Larger(1, (Live(ip)[1] + WindowTicks - now) \div TicksPerSecond)

\* The Retry-After of a run_rate_limited answer: when the oldest launch that
\* counts leaves the window.
RetryAfter(ip) == Larger(1, CeilSeconds(Live(ip)[1] + WindowTicks - now))

\* run_rate_limited: the deque has lost its aged launches, nothing is charged.
RefuseRate(ip) ==
    /\ SlotFree
    /\ ~UnderRate(ip)
    /\ launches' = Tracking(ip, Live(ip))
    /\ refusal' = [refusal EXCEPT ![ip] =
                     [at |-> now, retry |-> RetryAfter(ip), after |-> Len(granted[ip])]]
    /\ UNCHANGED <<now, active, granted>>

Release ==
    /\ active' = Larger(0, active - 1)
    /\ UNCHANGED <<now, launches, granted, refusal>>

Tick ==
    /\ now < Horizon
    /\ now' = now + 1
    /\ UNCHANGED <<launches, active, granted, refusal>>

-----------------------------------------------------------------------------
(* The limiter on its own: a run that holds a slot may end at any time. *)

LimiterInit ==
    /\ now = 0
    /\ launches = [ip \in {} |-> <<>>]
    /\ active = 0
    /\ granted = [ip \in IPs |-> <<>>]
    /\ refusal = [ip \in IPs |-> [at |-> 0, retry |-> 0, after |-> -1]]

RunEnds == active > 0 /\ Release

LimiterNext ==
    \/ \E ip \in IPs \cup {NoIP} :
          Acquire(ip) \/ RefuseConcurrency(ip) \/ RefuseRate(ip)
    \/ RunEnds
    \/ Tick

LimiterSpec == LimiterInit /\ [][LimiterNext]_limiterVars

-----------------------------------------------------------------------------
(* Properties *)

\* Type invariant: the slots taken never exceed MAX_CONCURRENT_RUNS, the deques
\* hold clock readings, and a refusal carries a positive Retry-After.
LimiterTypeOK ==
    /\ now \in Nat
    /\ DOMAIN launches \subseteq IPs
    /\ launches \in [DOMAIN launches -> Seq(Nat)]
    /\ active \in 0..MaxConcurrent
    /\ granted \in [IPs -> Seq(Nat)]
    /\ refusal \in [IPs -> [at : Nat, retry : Nat, after : Nat \cup {-1}]]

\* A history g of launch times keeps the limit: a launch and the PerIP-th one
\* after it are at least a window apart.
Spaced(g) ==
    \A i \in 1..Len(g) : i + PerIP <= Len(g) => g[i + PerIP] - g[i] >= WindowTicks

\* The promise of the module docstring: at most PerIP launches of one IP in ANY
\* sliding window, over the whole history and not only in the deque that
\* `acquire` looks at.
SlidingWindow == \A ip \in IPs : Spaced(granted[ip])

\* A deque d is the recent part of the history g at time t: the end of it, and
\* what is missing has left the window.
Recent(g, d, t) ==
    /\ Len(d) <= Len(g)
    /\ \A i \in 1..Len(d) : d[i] = g[Len(g) - Len(d) + i]
    /\ \A i \in 1..Len(g) - Len(d) : g[i] <= t - WindowTicks

\* Neither the popleft loop nor _prune forgets a launch that still counts: each
\* deque, also the empty one of an IP that is not tracked, is the recent part
\* of the launches of its IP.
NoLiveLaunchForgotten == \A ip \in IPs : Recent(granted[ip], Deque(ip), now)

\* Retry-After is honest.  A client that was refused by the rate limit and
\* launched nothing since is under the limit again once the announced seconds
\* have passed, and was not told to wait a whole second longer than needed.
HonestRetryAfter ==
    \A ip \in IPs :
        LET r == refusal[ip]
        IN  r.after = Len(granted[ip]) =>
              /\ now >= r.at + r.retry * TicksPerSecond => UnderRate(ip)
              /\ now < r.at + (r.retry - 1) * TicksPerSecond => ~UnderRate(ip)

=============================================================================
