---------------------------- MODULE LlmQuotaProofs ----------------------------
(***************************************************************************)
(* Proofs about the LLM quotas, for any number of calls, runs, addresses   *)
(* and connections, any limits and any calendar: the invariant, what it    *)
(* gives, and the implementation of the ledger.                            *)
(***************************************************************************)
EXTENDS LlmQuotaSteps

\* Answers, ends of transactions, the init lock and the restart are Moves.
LEMMA StepsThatMove ==
    ASSUME TypeOK, CallInv, NEW c \in Calls,
           \/ LockPool(c) \/ Abandon(c) \/ Grant(c) \/ Deny(c) \/ CheckFails(c)
           \/ Cancelled(c) \/ Restart \/ UNCHANGED vars
    PROVE  Moves
  <1>1. ASSUME NEW d \in Calls PROVE Leave(d) \in {at[d], "closed"}
    BY DEF Leave
  <1> USE DEF TypeOK, Moves, ledgerVars, Waiting
  <1>2. CASE LockPool(c)
    BY <1>2 DEF LockPool
  <1>3. CASE Abandon(c)
    BY <1>3 DEF Abandon, CallInv, InTransaction
  <1>4. CASE Grant(c)
    BY <1>4 DEF Grant, Reply
  <1>5. CASE Deny(c)
    BY <1>5 DEF Deny, Reply
  <1>6. CASE CheckFails(c)
    BY <1>1, <1>6 DEF CheckFails, Reply
  <1>7. CASE Cancelled(c)
    BY <1>1, <1>7 DEF Cancelled, Reply
  <1>8. CASE Restart
    BY <1>1, <1>8 DEF Restart, Crash
  <1>9. CASE UNCHANGED vars
    BY <1>9 DEF vars
  <1> QED BY <1>2, <1>3, <1>4, <1>5, <1>6, <1>7, <1>8, <1>9

\* Midnight moves the cutoff forward only.
LEMMA MidnightPreserves ==
    ASSUME QuotaInv, TypeOK', Midnight
    PROVE  QuotaInv'
  <1> USE DEF QuotaInv
  <1>1. /\ UNCHANGED <<on, counts, charged, answer, at, held>>
        /\ today' = today + 1
        /\ \A c \in Calls : answer[c] = "asked" => on[c] = today
    BY DEF Midnight, NextDay, Waiting
  <1>2. ASSUME NEW d \in Calls
        PROVE  /\ Width(d)' = Width(d)
               /\ \A i : Counter(d, i)' = Counter(d, i)
               /\ Rows(d)' = Rows(d)
               /\ CountersOf(d)' = CountersOf(d)
    BY <1>1, SameCounters, SameRows
  <1>3. CallInv'
    BY <1>1, <1>2 DEF CallInv, Waiting, TypeOK, Days
  <1>4. LockInv'
    <2>1. \A k : OverLimit(k)' <=> OverLimit(k)
      BY <1>1 DEF OverLimit
    <2>2. ASSUME NEW d \in Calls, at'[d] = "rollback"
          PROVE  OverLimit(Counter(d, held[d]))'
      <3>1. OverLimit(Counter(d, held[d]))
        BY <1>1, <2>2 DEF LockInv
      <3>2. Counter(d, held[d])' = Counter(d, held[d])
        BY <1>1 DEF Counter, CounterAt, ClientOf
      <3> QED BY <1>1, <3>1, <3>2 DEF OverLimit
    <2> QED BY <1>1, <1>2, <2>1, <2>2 DEF LockInv
  <1>5. CountInv'
    <2>1. Cutoff \in Int /\ Cutoff' \in Int /\ Cutoff <= Cutoff'
      <3>1. today \in 0..LastDay /\ today' \in 0..LastDay /\ today <= today'
        BY <1>1, LedgerAssumption DEF TypeOK, Days
      <3>2. /\ MonthStart[today] \in Int /\ MonthStart[today'] \in Int
            /\ MonthStart[today] <= MonthStart[today']
        BY <3>1, LedgerAssumption
      <3> QED BY <3>2, QuotaAssumption DEF Cutoff
    <2>2. ASSUME NEW k PROVE ChargedOn(k)' = ChargedOn(k) /\ SpentOn(k)' = SpentOn(k)
      <3>1. ChargedOn(k)' = ChargedOn(k)
        BY <1>1, <1>2 DEF ChargedOn, TypeOK
      <3> QED BY <1>1, <3>1 DEF SpentOn
    <2>3. \A k \in Keys : k.window >= Cutoff' => k.window >= Cutoff
      BY <2>1, LedgerAssumption DEF Keys, Days
    <2> QED BY <1>1, <2>2, <2>3 DEF CountInv
  <1> QED BY <1>3, <1>4, <1>5

-----------------------------------------------------------------------------
(* Theorems *)

\* The invariant holds at the start: no row, no call, no transaction.
LEMMA QuotaInitially ==
    ASSUME Init
    PROVE  QuotaInv
  <1> USE DEF Init, LedgerInit
  <1>1. TypeOK
    <2>1. 0 \in Days /\ 0 \in 0..MaxRestarts
      BY LedgerAssumption, QuotaAssumption DEF Days
    <2>2. /\ today \in Days /\ on \in [Calls -> Days] /\ counts \in [Keys -> Nat]
          /\ charged \subseteq Calls /\ opener \subseteq Calls /\ dead \subseteq Runs
      BY <2>1
    <2>3. /\ denials \in [Runs -> Nat] /\ told \in [Runs -> Nat] /\ held \in [Calls -> 0..4]
          /\ restarts \in 0..MaxRestarts
      BY <2>1
    <2>4. /\ pool \in BOOLEAN
          /\ answer \in [Calls -> {"idle", "asked", "real", "denied", "unavailable", "lost"}]
          /\ at \in [Calls -> {"none", "open", "rollback", "commit", "landed", "closed"}]
      BY Zenon
    <2> QED BY <2>2, <2>3, <2>4 DEF TypeOK
  <1>2. CallInv
    BY DEF CallInv, Waiting
  <1>3. LockInv
    BY DEF LockInv, Rows, InTransaction
  <1>4. CountInv
    <2>1. ASSUME NEW k PROVE ChargedOn(k) = {} /\ SpentOn(k) = {}
      BY DEF ChargedOn, SpentOn
    <2>2. ASSUME NEW k \in Keys PROVE Limit[k.scope] \in Nat /\ counts[k] = 0
      <3>1. k.scope \in Scopes
        BY DEF Keys
      <3> QED BY <3>1, LedgerAssumption
    <2>3. Cardinality({}) = 0
      BY FS_EmptySet
    <2>4. ASSUME NEW k \in Keys
          PROVE  /\ Cardinality(ChargedOn(k)) = 0 /\ Cardinality(SpentOn(k)) = 0
                 /\ counts[k] = 0 /\ 0 <= Limit[k.scope]
      <3>1. ChargedOn(k) = {} /\ SpentOn(k) = {}
        BY <2>1
      <3>2. Cardinality(ChargedOn(k)) = 0 /\ Cardinality(SpentOn(k)) = 0
        BY ONLY <2>3, <3>1
      <3>3. counts[k] = 0 /\ Limit[k.scope] \in Nat
        BY <2>2
      <3> HIDE DEF Init, LedgerInit
      <3> QED BY <3>2, <3>3
    <2> QED BY <2>4 DEF CountInv
  <1> QED BY <1>1, <1>2, <1>3, <1>4 DEF QuotaInv

\* Every step keeps it.
LEMMA QuotaStep ==
    ASSUME QuotaInv, [Next]_vars
    PROVE  QuotaInv'
  <1>1. TypeOK /\ CallInv /\ TypeOK'
    BY TypeStep DEF QuotaInv
  <1>2. ASSUME NEW c \in Calls, StartCheck(c) PROVE QuotaInv'
    BY <1>1, <1>2, StartCheckPreserves
  <1>3. ASSUME NEW c \in Calls, OpenPool(c) PROVE QuotaInv'
    BY <1>1, <1>3, OpenPoolPreserves
  <1>4. ASSUME NEW c \in Calls, Begin(c) PROVE QuotaInv'
    BY <1>1, <1>4, BeginPreserves
  <1>5. ASSUME NEW c \in Calls, Upsert(c) PROVE QuotaInv'
    BY <1>1, <1>5, UpsertPreserves
  <1>6. ASSUME NEW c \in Calls, Land(c) PROVE QuotaInv'
    BY <1>1, <1>6, LandPreserves
  <1>7. ASSUME NEW c \in Calls, \/ LockPool(c) \/ Abandon(c) \/ Grant(c) \/ Deny(c)
                                \/ CheckFails(c) \/ Cancelled(c)
        PROVE  QuotaInv'
    BY <1>1, <1>7, StepsThatMove, MovesPreserve
  <1>8. CASE Midnight
    BY <1>1, <1>8, MidnightPreserves
  <1>9. CASE Restart
    <2>1. Moves
      <3>1. ASSUME NEW d \in Calls PROVE Leave(d) \in {at[d], "closed"}
        BY DEF Leave
      <3> QED BY <1>1, <1>9, <3>1 DEF Restart, Crash, Moves, TypeOK, Waiting
    <2> QED BY <1>1, <2>1, MovesPreserve
  <1>10. CASE UNCHANGED vars
    <2>1. Moves
      BY <1>10 DEF Moves, vars, ledgerVars
    <2> QED BY <1>1, <2>1, MovesPreserve
  <1> QED BY <1>2, <1>3, <1>4, <1>5, <1>6, <1>7, <1>8, <1>9, <1>10 DEF Next, CallStep

\* The invariant of the store.
LEMMA QuotaInvariant == Spec => []QuotaInv
  <1>1. Init => QuotaInv
    BY QuotaInitially
  <1>2. QuotaInv /\ [Next]_vars => QuotaInv'
    BY QuotaStep
  <1> QED BY <1>1, <1>2, PTL DEF Spec

\* The transaction that has locked the most rows waits for nobody: whoever holds
\* its next row has locked more.
LEMMA LongestMoves ==
    ASSUME QuotaInv
    PROVE  SomeTransactionMoves
  <1> SUFFICES ASSUME InTransaction # {},
                      \A c \in InTransaction : at[c] = "open" /\ Blocked(c)
               PROVE  FALSE
    BY DEF SomeTransactionMoves
  <1>1. ASSUME NEW c \in InTransaction
        PROVE  held[c] \in 0..4 /\ \E d \in InTransaction : held[d] > held[c]
    <2>1. c \in Calls /\ held[c] \in 0..4 /\ held[c] < Width(c) /\ Width(c) \in {2, 4}
      BY CounterIsKey DEF InTransaction, QuotaInv, TypeOK, CallInv
    <2>2. PICK d \in Calls : Counter(c, held[c] + 1) \in Rows(d)
      BY DEF Blocked, NextRow
    <2>3. d \in InTransaction /\ \E j \in 1..held[d] : Counter(c, held[c] + 1) = Counter(d, j)
      BY <2>2 DEF Rows
    <2>4. PICK j \in 1..held[d] : Counter(c, held[c] + 1) = Counter(d, j)
      BY <2>3
    <2>5. held[d] \in 0..4
      BY DEF QuotaInv, TypeOK
    <2>6. held[c] + 1 \in 1..4 /\ j \in 1..4
      BY <2>1, <2>4, <2>5
    <2>7. held[c] + 1 = j
      BY <2>4, <2>6, SamePlace
    <2> QED BY <2>1, <2>3, <2>5, <2>7
  <1>2. \A c \in InTransaction : held[c] # 4
    BY <1>1
  <1>3. \A c \in InTransaction : held[c] # 3
    BY <1>1, <1>2
  <1>4. \A c \in InTransaction : held[c] # 2
    BY <1>1, <1>2, <1>3
  <1>5. \A c \in InTransaction : held[c] # 1
    BY <1>1, <1>2, <1>3, <1>4
  <1>6. \A c \in InTransaction : held[c] # 0
    BY <1>1, <1>2, <1>3, <1>4, <1>5
  <1> QED BY <1>1, <1>2, <1>3, <1>4, <1>5, <1>6

\* What reached the model was charged and is within the limits.
LEMMA SpentWithin ==
    ASSUME QuotaInv
    PROVE  SpendWithinLimits
  <1> SUFFICES ASSUME NEW k \in Keys
               PROVE  Cardinality(Spent(k)) <= Limit[k.scope]
    BY DEF SpendWithinLimits
  <1>1. Spent(k) \subseteq SpentOn(k)
    BY DEF Spent, SpentOn, ChargedOn, QuotaInv, CallInv
  <1>2. IsFiniteSet(SpentOn(k)) /\ Cardinality(SpentOn(k)) \in Nat
    BY HistoriesFinite DEF QuotaInv
  <1>3. Cardinality(Spent(k)) <= Cardinality(SpentOn(k)) /\ Cardinality(Spent(k)) \in Nat
    BY <1>1, <1>2, FS_Subset, FS_CardinalityType
  <1>4. Cardinality(SpentOn(k)) <= Limit[k.scope] /\ Limit[k.scope] \in Nat
    BY LedgerAssumption DEF QuotaInv, CountInv, Keys
  <1> QED BY <1>2, <1>3, <1>4

\* The counters of the running month are among the kept ones.
LEMMA ExactlyCharged ==
    ASSUME QuotaInv
    PROVE  ChargedExactly
  <1> SUFFICES ASSUME NEW k \in Keys, k.window >= MonthStart[today]
               PROVE  counts[k] = Cardinality(ChargedOn(k))
    BY DEF ChargedExactly, ChargedOn
  <1>1. k.window \in Int /\ MonthStart[today] \in Int /\ KeepDays \in Nat
    BY LedgerAssumption, QuotaAssumption DEF Keys, Days, QuotaInv, TypeOK
  <1>2. k.window >= Cutoff
    BY <1>1 DEF Cutoff
  <1> QED BY <1>2 DEF QuotaInv, CountInv

\* For any number of calls, runs and connections, any limits and any calendar
\* whose months are no longer than KeepDays: the limits bound what is spent, the
\* counters are exact, and transactions do not deadlock (PostgresQuotaStore).
THEOREM QuotaCorrect ==
    Spec => [](TypeOK /\ SpendWithinLimits /\ ChargedExactly /\ SomeTransactionMoves)
  <1>1. QuotaInv => TypeOK /\ SpendWithinLimits /\ ChargedExactly /\ SomeTransactionMoves
    BY LongestMoves, SpentWithin, ExactlyCharged DEF QuotaInv
  <1> QED BY <1>1, QuotaInvariant, PTL

\* Every step is a step of the ledger or leaves the ledger alone.
LEMMA LedgerStep ==
    ASSUME QuotaInv, [Next]_vars
    PROVE  [LedgerNext]_ledgerVars
  <1>1. ASSUME NEW c \in Calls, StartCheck(c) PROVE LedgerNext
    BY <1>1 DEF StartCheck, LedgerNext
  <1>2. ASSUME NEW c \in Calls, LockPool(c) \/ Begin(c) \/ Upsert(c) \/ Abandon(c)
        PROVE  UNCHANGED ledgerVars
    BY <1>2 DEF LockPool, Begin, Upsert, Abandon
  <1>3. ASSUME NEW c \in Calls, OpenPool(c) PROVE Forget
    <2>1. Cutoff \in Int /\ Cutoff <= MonthStart[today] /\ MonthStart[today] \in Nat
      BY LedgerAssumption, QuotaAssumption DEF Cutoff, QuotaInv, TypeOK, Days
    <2> DEFINE cutoff == IF Cutoff < 0 THEN 0 ELSE Cutoff
    <2>2. cutoff \in 0..MonthStart[today]
      BY <2>1
    <2>3. ASSUME NEW k \in Keys PROVE k.window < Cutoff <=> k.window < cutoff
      BY <2>1, LedgerAssumption DEF Keys, Days
    <2>4. counts' = [k \in Keys |-> IF k.window < cutoff THEN 0 ELSE counts[k]]
      BY <1>3, <2>3 DEF OpenPool
    <2>5. UNCHANGED <<today, on, charged, answer>>
      BY <1>3 DEF OpenPool
    <2> HIDE DEF cutoff
    <2> QED BY <2>2, <2>4, <2>5 DEF Forget
  <1>4. ASSUME NEW c \in Calls, Land(c) PROVE Charge(c)
    <2>1. at[c] = "commit" /\ answer[c] # "idle" /\ c \notin charged /\ held[c] = Width(c)
      BY <1>4 DEF Land, QuotaInv, CallInv
    <2>2. Rows(c) = CountersOf(c)
      BY <2>1 DEF Rows, InTransaction, CountersOf
    <2>3. ASSUME NEW k \in CountersOf(c) PROVE ~Full(k)
      <3>1. ~OverLimit(k)
        BY <2>1, <2>2, <2>3 DEF QuotaInv, LockInv
      <3>2. k \in Keys
        BY <2>3, CounterIsKey DEF CountersOf, QuotaInv
      <3>3. counts[k] \in Nat /\ Limit[k.scope] \in Nat
        BY <3>2, LedgerAssumption, Zenon DEF Keys, QuotaInv, TypeOK
      <3> QED BY <3>1, <3>3 DEF OverLimit, Full
    <2> QED BY <1>4, <2>1, <2>2, <2>3 DEF Land, Charge
  <1>5. ASSUME NEW c \in Calls, Grant(c) PROVE Permit(c)
    BY <1>5 DEF Grant, Reply, Permit, Answers, Waiting, QuotaInv, CallInv
  <1>6. ASSUME NEW c \in Calls, Deny(c) PROVE Refuse(c)
    <2>1. at[c] = "rollback" /\ c \notin charged /\ held[c] \in 1..Width(c)
      BY <1>6 DEF Deny, QuotaInv, CallInv
    <2> DEFINE k == Counter(c, held[c])
    <2>2. k \in CountersOf(c) /\ OverLimit(k)
      BY <2>1 DEF CountersOf, QuotaInv, LockInv
    <2>3. k \in Keys
      BY <2>1, CounterIsKey DEF QuotaInv
    <2> HIDE DEF k
    <2>4. counts[k] \in Nat /\ Limit[k.scope] \in Nat
      BY <2>3, LedgerAssumption, Zenon DEF Keys, QuotaInv, TypeOK
    <2>5. Full(k)
      BY <2>2, <2>4 DEF OverLimit, Full
    <2> QED BY <1>6, <2>1, <2>2, <2>5 DEF Deny, Reply, Refuse, Answers, Waiting
  <1>7. ASSUME NEW c \in Calls, CheckFails(c) PROVE FailClosed(c)
    BY <1>7 DEF CheckFails, Reply, FailClosed, Answers, Waiting
  <1>8. ASSUME NEW c \in Calls, Cancelled(c) PROVE Lose(c)
    BY <1>8 DEF Cancelled, Reply, Lose, Answers, Waiting
  <1>9. Midnight => NextDay
    BY DEF Midnight
  <1>10. Restart => Crash
    BY DEF Restart
  <1>11. UNCHANGED vars => UNCHANGED ledgerVars
    BY DEF vars, ledgerVars
  <1> QED BY <1>1, <1>2, <1>3, <1>4, <1>5, <1>6, <1>7, <1>8, <1>9, <1>10, <1>11
          DEF Next, CallStep, LedgerNext

\* The Postgres store, with its pool, row locks, deadline and restarts, implements
\* the atomic ledger (consume of PostgresQuotaStore against MemoryQuotaStore).
THEOREM QuotaImplementsLedger == Spec => ImplementsLedger
  <1>1. Init => LedgerInit
    BY DEF Init
  <1>2. QuotaInv /\ [Next]_vars => [LedgerNext]_ledgerVars
    BY LedgerStep
  <1> QED BY <1>1, <1>2, QuotaInvariant, PTL DEF Spec, ImplementsLedger, LedgerSpec
=============================================================================
