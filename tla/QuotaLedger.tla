------------------------------ MODULE QuotaLedger ------------------------------
(***************************************************************************)
(* What the LLM quotas promise (playground/quota.py): a call is charged to *)
(* all of its counters at once or to none, never past a limit, and only a  *)
(* charged call goes to the real model.  MemoryQuotaStore is this ledger   *)
(* nearly word for word; LlmQuota shows that the Postgres store implements *)
(* it.                                                                     *)
(***************************************************************************)
EXTENDS Integers, FiniteSets

CONSTANTS
    Calls,       \* calls to the real model
    Runs,        \* runs that make them
    RunOf,       \* the run of a call
    IPs, NoIP,   \* client IPs, and the IP of a run that has none to charge
    IpOf,        \* the IP of a run
    Everyone,    \* GLOBAL_SUBJECT
    Limit,       \* the four limits, by scope
    LastDay,     \* bound: the calendar has the days 0..LastDay
    MonthStart   \* the first day of the month of a day

Scopes == {"global_day", "global_month", "ip_day", "ip_month"}

ASSUME LedgerAssumption ==
    /\ IsFiniteSet(Calls)
    /\ RunOf \in [Calls -> Runs]
    /\ NoIP \notin IPs
    /\ Everyone \notin IPs
    /\ IpOf \in [Runs -> IPs \cup {NoIP}]
    /\ Limit \in [Scopes -> Nat \ {0}]
    /\ LastDay \in Nat
    /\ MonthStart \in [0..LastDay -> 0..LastDay]
    /\ \A d \in 0..LastDay : MonthStart[d] <= d
    /\ \A d, e \in 0..LastDay : d <= e => MonthStart[d] <= MonthStart[e]

VARIABLES
    today,    \* the UTC date
    on,       \* the date on which a call was counted
    counts,   \* the usage table; a row that does not exist counts 0
    charged,  \* history: the calls that were charged
    answer    \* what became of a call

ledgerVars == <<today, on, counts, charged, answer>>

-----------------------------------------------------------------------------
(* Counters *)

Days == 0..LastDay
Keys == [scope : Scopes, subject : IPs \cup {Everyone}, window : Days]

ScopeAt == [i \in 1..4 |-> CASE i = 1 -> "global_day" [] i = 2 -> "global_month"
                             [] i = 3 -> "ip_day"     [] i = 4 -> "ip_month"]

ClientOf(c) == IpOf[RunOf[c]]

\* counters_for: how many counters a call has, and its i-th one.  The order is
\* the same for all calls.
Width(c) == IF ClientOf(c) = NoIP THEN 2 ELSE 4

CounterAt(c, i) ==
    [scope |-> ScopeAt[i],
     subject |-> IF i <= 2 THEN Everyone ELSE ClientOf(c),
     window |-> IF i \in {1, 3} THEN on[c] ELSE MonthStart[on[c]]]

\* Mutant: the counters are a set, whose order differs from call to call.
CounterOfSet(c, i) ==
    CounterAt(c, IF c = CHOOSE d \in Calls : TRUE THEN Width(c) + 1 - i ELSE i)

Counter(c, i) == CounterAt(c, i)

CountersOf(c) == {Counter(c, i) : i \in 1..Width(c)}

Full(k) == counts[k] >= Limit[k.scope]

-----------------------------------------------------------------------------
(* The ledger *)

LedgerInit ==
    /\ today = 0
    /\ on = [c \in Calls |-> 0]
    /\ counts = [k \in Keys |-> 0]
    /\ charged = {}
    /\ answer = [c \in Calls |-> "idle"]

\* A call asks for permission; its windows are those of this moment.
Ask(c) ==
    /\ answer[c] = "idle"
    /\ answer' = [answer EXCEPT ![c] = "asked"]
    /\ on' = [on EXCEPT ![c] = today]
    /\ UNCHANGED <<today, counts, charged>>

\* All counters at once; it may happen although the caller has given up.
Charge(c) ==
    /\ answer[c] # "idle"
    /\ c \notin charged
    /\ \A k \in CountersOf(c) : ~Full(k)
    /\ counts' = [k \in Keys |-> IF k \in CountersOf(c) THEN counts[k] + 1 ELSE counts[k]]
    /\ charged' = charged \cup {c}
    /\ UNCHANGED <<today, on, answer>>

Answers(c, a) ==
    /\ answer[c] = "asked"
    /\ answer' = [answer EXCEPT ![c] = a]
    /\ UNCHANGED <<today, on, counts, charged>>

Permit(c) == c \in charged /\ Answers(c, "real")

\* A quota denial: a counter of the call is full, and nothing was charged.
Refuse(c) ==
    /\ c \notin charged
    /\ \E k \in CountersOf(c) : Full(k)
    /\ Answers(c, "denied")

\* quota_store_unavailable
FailClosed(c) == Answers(c, "unavailable")

NextDay ==
    /\ today < LastDay
    /\ today' = today + 1
    /\ UNCHANGED <<on, counts, charged, answer>>

\* Rows of months that are over may go.
Forget ==
    /\ \E cutoff \in 0..MonthStart[today] :
          counts' = [k \in Keys |-> IF k.window < cutoff THEN 0 ELSE counts[k]]
    /\ UNCHANGED <<today, on, charged, answer>>

\* The run is cancelled while the call waits, or the process dies with all that
\* wait; the table does not.
Lose(c) == Answers(c, "lost")

Crash ==
    /\ answer' = [c \in Calls |-> IF answer[c] = "asked" THEN "lost" ELSE answer[c]]
    /\ UNCHANGED <<today, on, counts, charged>>

LedgerNext ==
    \/ \E c \in Calls :
          Ask(c) \/ Charge(c) \/ Permit(c) \/ Refuse(c) \/ FailClosed(c) \/ Lose(c)
    \/ NextDay \/ Forget \/ Crash

LedgerSpec == LedgerInit /\ [][LedgerNext]_ledgerVars
=============================================================================
