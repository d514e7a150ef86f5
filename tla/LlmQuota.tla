------------------------------- MODULE LlmQuota -------------------------------
(***************************************************************************)
(* LLM calls against the Postgres quota store (playground/quota.py): the   *)
(* connection pool and its creation, one transaction per call that locks   *)
(* the counters row by row, rollback, the 10 s deadline of the check, the  *)
(* cancellation of a run and the restart of the process.  The caller and   *)
(* its transaction are separate: a transaction whose caller has given up   *)
(* is ended by the server, which may still find a COMMIT in the pipe.      *)
(***************************************************************************)
EXTENDS QuotaLedger

CONSTANTS
    PoolSize,     \* max_size of the pool
    KeepDays,     \* the prune keeps this many days before the month
    MaxRestarts   \* bound

ASSUME QuotaAssumption ==
    /\ PoolSize \in Nat \ {0}
    /\ KeepDays \in Nat
    /\ \A d \in 1..LastDay : MonthStart[d] - MonthStart[d - 1] <= KeepDays
    /\ MaxRestarts \in Nat

VARIABLES
    pool,      \* _pool is set
    opener,    \* who holds _init_lock, as a set of at most one call
    at,        \* how far the transaction of a call is
    held,      \* how many counters it has upserted, and so row-locked
    denials,   \* number of entries of RunQuotaContext.denials
    told,      \* number of llm.quota_exceeded events of a run
    dead,      \* runs of a process that is gone
    restarts

vars == <<ledgerVars, pool, opener, at, held, denials, told, dead, restarts>>

Waiting(c) == answer[c] = "asked"

InTransaction == {c \in Calls : at[c] \in {"open", "rollback", "commit"}}

\* Connections of this process that are in use.
Connected == {c \in Calls : Waiting(c) /\ at[c] \in {"open", "rollback", "commit", "landed"}}

\* The rows a transaction has locked, and whether its next row is another's.
Rows(c) == IF c \in InTransaction THEN {Counter(c, i) : i \in 1..held[c]} ELSE {}

NextRow(c) == Counter(c, held[c] + 1)

Blocked(c) == \E d \in Calls \ {c} : NextRow(c) \in Rows(d)

Init ==
    /\ LedgerInit
    /\ pool = FALSE
    /\ opener = {}
    /\ at = [c \in Calls |-> "none"]
    /\ held = [c \in Calls |-> 0]
    /\ denials = [r \in Runs |-> 0]
    /\ told = [r \in Runs |-> 0]
    /\ dead = {}
    /\ restarts = 0

-----------------------------------------------------------------------------
(* Getting a connection *)

\* check_llm_quota starts: counters_for reads the clock.
StartCheck(c) ==
    /\ RunOf[c] \notin dead
    /\ Ask(c)
    /\ UNCHANGED <<pool, opener, at, held, denials, told, dead, restarts>>

\* _get_pool: the first caller takes _init_lock, the others wait for it.
LockPool(c) ==
    /\ Waiting(c) /\ at[c] = "none"
    /\ ~pool /\ opener = {}
    /\ opener' = {c}
    /\ UNCHANGED <<ledgerVars, pool, at, held, denials, told, dead, restarts>>

\* Mutant: nothing is kept but the month.
CutoffAtMonth == MonthStart[today]

\* The prune keeps KeepDays (62) more days than the month.
Cutoff == MonthStart[today] - KeepDays

\* The pool exists, and so does the table; the prune waits for locked rows.
OpenPool(c) ==
    /\ opener = {c}
    /\ \A d \in Calls : \A k \in Rows(d) : k.window >= Cutoff
    /\ pool' = TRUE
    /\ opener' = {}
    /\ counts' = [k \in Keys |-> IF k.window < Cutoff THEN 0 ELSE counts[k]]
    /\ UNCHANGED <<today, on, charged, answer, at, held, denials, told, dead, restarts>>

\* pool.acquire and BEGIN
Begin(c) ==
    /\ Waiting(c) /\ at[c] = "none"
    /\ pool
    /\ Cardinality(Connected) < PoolSize
    /\ at' = [at EXCEPT ![c] = "open"]
    /\ UNCHANGED <<ledgerVars, pool, opener, held, denials, told, dead, restarts>>

-----------------------------------------------------------------------------
(* The transaction *)

\* RETURNING calls is the committed count plus this transaction's one.
OverLimit(k) == counts[k] + 1 > Limit[k.scope]

\* One upsert.  Over the limit the transaction will roll back; after the last
\* counter it will commit.
Upsert(c) ==
    /\ Waiting(c) /\ at[c] = "open"
    /\ ~Blocked(c)
    /\ held' = [held EXCEPT ![c] = @ + 1]
    /\ at' = [at EXCEPT ![c] = IF OverLimit(NextRow(c)) THEN "rollback"
                               ELSE IF held[c] + 1 = Width(c) THEN "commit" ELSE "open"]
    /\ UNCHANGED <<ledgerVars, pool, opener, denials, told, dead, restarts>>

\* The server executes COMMIT, whether or not the caller still waits.
Land(c) ==
    /\ at[c] = "commit"
    /\ counts' = [k \in Keys |-> IF k \in Rows(c) THEN counts[k] + 1 ELSE counts[k]]
    /\ charged' = charged \cup {c}
    /\ at' = [at EXCEPT ![c] = "landed"]
    /\ UNCHANGED <<today, on, answer, pool, opener, held, denials, told, dead, restarts>>

\* The server ends a transaction that its caller has left.
Abandon(c) ==
    /\ ~Waiting(c) /\ c \in InTransaction
    /\ at' = [at EXCEPT ![c] = "closed"]
    /\ UNCHANGED <<ledgerVars, pool, opener, held, denials, told, dead, restarts>>

-----------------------------------------------------------------------------
(* The answer *)

Reply(c, a) ==
    /\ Waiting(c)
    /\ answer' = [answer EXCEPT ![c] = a]
    /\ UNCHANGED <<today, on, counts, charged>>

\* What becomes of the caller's end of the transaction.
Leave(c) == IF c \in InTransaction THEN at[c] ELSE "closed"

\* Denied: the denial is recorded, and the first one of a run is announced.
Record(r) ==
    /\ denials' = [denials EXCEPT ![r] = @ + 1]
    /\ told' = [told EXCEPT ![r] = IF denials[r] = 0 THEN @ + 1 ELSE @]

\* consume returned None: ainvoke goes to the real model.
Grant(c) ==
    /\ at[c] = "landed"
    /\ Reply(c, "real")
    /\ at' = [at EXCEPT ![c] = "closed"]
    /\ UNCHANGED <<pool, opener, held, denials, told, dead, restarts>>

\* Mutant: no rollback, so the counters before the full one stay charged.
DenyCommits(c) ==
    /\ at[c] = "rollback" /\ Waiting(c)
    /\ answer' = [answer EXCEPT ![c] = "denied"]
    /\ counts' = [k \in Keys |-> IF k \in Rows(c) \ {Counter(c, held[c])}
                                 THEN counts[k] + 1 ELSE counts[k]]
    /\ at' = [at EXCEPT ![c] = "closed"]
    /\ Record(RunOf[c])
    /\ UNCHANGED <<today, on, charged, pool, opener, held, dead, restarts>>

\* _OverLimit left the transaction, which is rolled back by now: the mock answers.
Deny(c) ==
    /\ at[c] = "rollback"
    /\ Reply(c, "denied")
    /\ at' = [at EXCEPT ![c] = "closed"]
    /\ Record(RunOf[c])
    /\ UNCHANGED <<pool, opener, held, dead, restarts>>

\* Mutant: an error lets the call through.
CheckFailsOpen(c) ==
    /\ Reply(c, "real")
    /\ at' = [at EXCEPT ![c] = Leave(c)]
    /\ opener' = opener \ {c}
    /\ UNCHANGED <<pool, held, denials, told, dead, restarts>>

\* Mutant: no deadline for the COMMIT.
CheckFailsBeforeCommit(c) ==
    /\ at[c] # "commit"
    /\ Reply(c, "unavailable")
    /\ at' = [at EXCEPT ![c] = Leave(c)]
    /\ opener' = opener \ {c}
    /\ Record(RunOf[c])
    /\ UNCHANGED <<pool, held, dead, restarts>>

\* The deadline or any error, at any point: fail closed.
CheckFails(c) ==
    /\ Reply(c, "unavailable")
    /\ at' = [at EXCEPT ![c] = Leave(c)]
    /\ opener' = opener \ {c}
    /\ Record(RunOf[c])
    /\ UNCHANGED <<pool, held, dead, restarts>>

\* The timeout of the run cancels the scenario in the middle of a check.
Cancelled(c) ==
    /\ Reply(c, "lost")
    /\ at' = [at EXCEPT ![c] = Leave(c)]
    /\ opener' = opener \ {c}
    /\ UNCHANGED <<pool, held, denials, told, dead, restarts>>

-----------------------------------------------------------------------------
(* The environment *)

\* Midnight.  A check lasts ten seconds at most and sees one midnight.
Midnight ==
    /\ \A c \in Calls : Waiting(c) => on[c] = today
    /\ NextDay
    /\ UNCHANGED <<pool, opener, at, held, denials, told, dead, restarts>>

\* The process is replaced: its runs and its memory are gone, not the table.
Restart ==
    /\ restarts < MaxRestarts
    /\ restarts' = restarts + 1
    /\ Crash
    /\ at' = [c \in Calls |-> IF Waiting(c) THEN Leave(c) ELSE at[c]]
    /\ dead' = dead \cup {RunOf[c] : c \in {d \in Calls : answer[d] # "idle"}}
    /\ pool' = FALSE
    /\ opener' = {}
    /\ UNCHANGED <<held, denials, told>>

CallStep(c) == LockPool(c) \/ OpenPool(c) \/ Begin(c) \/ Upsert(c)
                 \/ Grant(c) \/ Deny(c) \/ CheckFails(c)

Next ==
    \/ \E c \in Calls : StartCheck(c) \/ CallStep(c) \/ Land(c) \/ Abandon(c) \/ Cancelled(c)
    \/ Midnight \/ Restart

Spec == Init /\ [][Next]_vars

\* The event loop runs a caller that can move, and the deadline of wait_for
\* always can; nothing is assumed of the database.
FairSpec == Spec /\ \A c \in Calls : WF_vars(CallStep(c))

-----------------------------------------------------------------------------
(* Properties *)

TypeOK ==
    /\ today \in Days
    /\ on \in [Calls -> Days]
    /\ counts \in [Keys -> Nat]
    /\ charged \subseteq Calls
    /\ answer \in [Calls -> {"idle", "asked", "real", "denied", "unavailable", "lost"}]
    /\ pool \in BOOLEAN
    /\ opener \subseteq Calls
    /\ at \in [Calls -> {"none", "open", "rollback", "commit", "landed", "closed"}]
    /\ held \in [Calls -> 0..4]
    /\ denials \in [Runs -> Nat]
    /\ told \in [Runs -> Nat]
    /\ dead \subseteq Runs
    /\ restarts \in 0..MaxRestarts

Spent(k) == {c \in Calls : answer[c] = "real" /\ k \in CountersOf(c)}

\* The calls that reach the real model never exceed any of the four limits, in
\* any day or month, whatever interleaving of transactions, deadlines, restarts
\* and prunes (consume, _get_pool): also not when a check that began before
\* midnight meets a prune of the next month.
SpendWithinLimits == \A k \in Keys : Cardinality(Spent(k)) <= Limit[k.scope]

\* All or nothing (consume): a counter of the running month is the number of
\* charged calls that it counts.  A refused or abandoned transaction leaves no
\* trace, and neither restart nor prune loses one.
ChargedExactly ==
    \A k \in Keys : k.window >= MonthStart[today] =>
        counts[k] = Cardinality({c \in charged : k \in CountersOf(c)})

\* "Concurrent calls serialise per row without deadlocking" (PostgresQuotaStore):
\* among the open transactions there is one that waits for no other.
SomeTransactionMoves ==
    InTransaction # {} => \E c \in InTransaction : at[c] = "open" => ~Blocked(c)

\* A wedged database holds no call for ever (QUOTA_CHECK_TIMEOUT_S).
EveryCallAnswered == \A c \in Calls : Waiting(c) ~> ~Waiting(c)

\* The Postgres store implements the ledger: charges are atomic, a denial means
\* that a counter is full, and the real model is called only for a charge.
ImplementsLedger == LedgerSpec
=============================================================================
