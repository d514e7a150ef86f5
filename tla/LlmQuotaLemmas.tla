---------------------------- MODULE LlmQuotaLemmas ----------------------------
(***************************************************************************)
(* The inductive invariant of the LLM quotas, the lemmas about counters    *)
(* and rows it rests on, and the type correctness of every step.           *)
(***************************************************************************)
EXTENDS LlmQuota, FiniteSetTheorems, TLAPS

\* The calls a counter has been charged for, and those of them that reached the
\* model or still may.
ChargedOn(k) == {c \in charged : k \in CountersOf(c)}
SpentOn(k) == {c \in ChargedOn(k) : answer[c] \in {"real", "asked"}}

\* Where a caller and its transaction can be.
CallInv ==
    \A c \in Calls :
        /\ answer[c] = "idle" => at[c] = "none"
        /\ c \in charged => at[c] \in {"landed", "closed"}
        /\ at[c] = "landed" => c \in charged
        /\ answer[c] = "real" => c \in charged
        /\ Waiting(c) => on[c] \in {today, today - 1}
        /\ at[c] = "none" => held[c] = 0
        /\ at[c] = "open" => held[c] < Width(c)
        /\ at[c] = "rollback" => held[c] \in 1..Width(c)
        /\ at[c] = "commit" => held[c] = Width(c)

\* A row has one owner, who has room on the rows it passed and none on the row
\* that stopped it.
LockInv ==
    /\ \A c, d \in Calls : c # d => Rows(c) \cap Rows(d) = {}
    /\ \A c \in Calls : at[c] \in {"open", "commit"} =>
          \A k \in Rows(c) : ~OverLimit(k)
    /\ \A c \in Calls : at[c] = "rollback" => OverLimit(Counter(c, held[c]))

\* The table against the history.
CountInv ==
    /\ \A k \in Keys : counts[k] <= Limit[k.scope]
    /\ \A k \in Keys : k.window >= Cutoff => counts[k] = Cardinality(ChargedOn(k))
    /\ \A k \in Keys : Cardinality(SpentOn(k)) <= Limit[k.scope]

QuotaInv == TypeOK /\ CallInv /\ LockInv /\ CountInv

-----------------------------------------------------------------------------
(* Counters *)

\* counters_for: two or four counters, each a row of the table, for the date of
\* the call.
LEMMA CounterIsKey ==
    ASSUME TypeOK, NEW c \in Calls
    PROVE  /\ Width(c) \in {2, 4}
           /\ \A i \in 1..Width(c) :
                 /\ Counter(c, i) \in Keys
                 /\ Counter(c, i).window \in {on[c], MonthStart[on[c]]}
  <1>1. ClientOf(c) \in IPs \cup {NoIP}
    BY LedgerAssumption DEF ClientOf
  <1>2. Width(c) \in {2, 4} /\ (Width(c) = 4 => ClientOf(c) \in IPs)
    BY <1>1, LedgerAssumption DEF Width
  <1>3. ASSUME NEW i \in 1..Width(c)
        PROVE  /\ Counter(c, i) \in Keys
               /\ Counter(c, i).window \in {on[c], MonthStart[on[c]]}
    <2>1. i \in 1..4 /\ (i > 2 => ClientOf(c) \in IPs)
      BY <1>2
    <2>2. ScopeAt[i] \in Scopes
      BY <2>1 DEF ScopeAt, Scopes
    <2>3. on[c] \in Days /\ MonthStart[on[c]] \in Days
      BY LedgerAssumption DEF TypeOK, Days
    <2> QED BY <2>1, <2>2, <2>3 DEF Counter, CounterAt, Keys
  <1> QED BY <1>2, <1>3

\* The order of counters_for is fixed: a shared row has the same place in both
\* calls.
LEMMA SamePlace ==
    ASSUME NEW c, NEW d, NEW i \in 1..4, NEW j \in 1..4,
           Counter(c, i) = Counter(d, j)
    PROVE  i = j
  <1>1. ScopeAt[i] = ScopeAt[j]
    BY DEF Counter, CounterAt
  <1> QED BY <1>1 DEF ScopeAt

\* The counters of a call depend on its date only.
LEMMA SameCounters ==
    ASSUME NEW c \in Calls, on'[c] = on[c]
    PROVE  /\ Width(c)' = Width(c)
           /\ \A i : Counter(c, i)' = Counter(c, i)
           /\ CountersOf(c)' = CountersOf(c)
  <1>1. Width(c)' = Width(c)
    BY DEF Width, ClientOf
  <1>2. ASSUME NEW i PROVE Counter(c, i)' = Counter(c, i)
    BY DEF Counter, CounterAt, ClientOf
  <1> QED BY <1>1, <1>2 DEF CountersOf

\* Rows, while a transaction does not move.
LEMMA SameRows ==
    ASSUME NEW c \in Calls, on'[c] = on[c], at'[c] = at[c], held'[c] = held[c]
    PROVE  Rows(c)' = Rows(c)
  <1>1. \A i : Counter(c, i)' = Counter(c, i)
    BY SameCounters
  <1>2. (c \in InTransaction)' <=> c \in InTransaction
    BY DEF InTransaction
  <1> QED BY <1>1, <1>2 DEF Rows

\* The windows of a waiting call are never pruned: KeepDays spans the month
\* before the running one.
LEMMA WindowKept ==
    ASSUME TypeOK, NEW c \in Calls, on[c] \in {today, today - 1},
           NEW k \in CountersOf(c)
    PROVE  k \in Keys /\ k.window >= Cutoff
  <1>1. PICK i \in 1..Width(c) : k = Counter(c, i)
    BY DEF CountersOf
  <1>2. k \in Keys /\ k.window \in {on[c], MonthStart[on[c]]}
    BY <1>1, CounterIsKey
  <1>3. on[c] \in Days /\ today \in Days
    BY DEF TypeOK
  <1>4. MonthStart[on[c]] <= on[c] /\ MonthStart[on[c]] \in Int /\ MonthStart[today] \in Int
    BY <1>3, LedgerAssumption DEF Days
  <1>5. MonthStart[today] - MonthStart[on[c]] <= KeepDays
    <2>1. CASE on[c] = today
      BY <2>1, <1>4, QuotaAssumption
    <2>2. CASE on[c] = today - 1
      <3>1. today \in 1..LastDay
        BY <2>2, <1>3, LedgerAssumption DEF Days
      <3> QED BY <3>1, <2>2, QuotaAssumption
    <2> QED BY <2>1, <2>2
  <1>6. KeepDays \in Nat
    BY QuotaAssumption
  <1>7. MonthStart[on[c]] >= Cutoff /\ on[c] >= Cutoff
    BY <1>3, <1>4, <1>5, <1>6 DEF Cutoff, Days
  <1> QED BY <1>2, <1>7

-----------------------------------------------------------------------------
(* Steps *)

\* What the steps that leave the table, the dates and the locks alone have in
\* common: transactions may be closed, and waiting calls answered.
Moves ==
    /\ UNCHANGED <<today, on, counts, charged, held>>
    /\ \A c \in Calls : at'[c] = at[c] \/ (at'[c] = "closed" /\ answer[c] # "idle")
    /\ \A c \in Calls : \/ answer'[c] = answer[c]
                        \/ /\ answer[c] = "asked"
                           /\ answer'[c] \in {"real", "denied", "unavailable", "lost"}
    /\ \A c \in Calls : answer'[c] = "real" => answer[c] = "real" \/ at[c] = "landed"

\* The histories are finite sets.
LEMMA HistoriesFinite ==
    ASSUME TypeOK, NEW k
    PROVE  /\ IsFiniteSet(ChargedOn(k)) /\ Cardinality(ChargedOn(k)) \in Nat
           /\ SpentOn(k) \subseteq ChargedOn(k)
           /\ IsFiniteSet(SpentOn(k)) /\ Cardinality(SpentOn(k)) \in Nat
           /\ Cardinality(SpentOn(k)) <= Cardinality(ChargedOn(k))
  <1>1. ChargedOn(k) \subseteq Calls /\ SpentOn(k) \subseteq ChargedOn(k)
    BY DEF ChargedOn, SpentOn, TypeOK
  <1>2. IsFiniteSet(ChargedOn(k))
    BY <1>1, FS_Subset, LedgerAssumption
  <1> QED BY <1>1, <1>2, FS_Subset, FS_CardinalityType

\* The table against the history, when nothing is charged and the date stays:
\* calls may only leave the ones that can still reach the model.
LEMMA CountsStay ==
    ASSUME TypeOK, TypeOK', CountInv, UNCHANGED <<today, counts, charged>>,
           \A c \in charged : on'[c] = on[c]
                              /\ (answer'[c] \in {"real", "asked"} => answer[c] \in {"real", "asked"})
    PROVE  CountInv'
  <1>1. Cutoff' = Cutoff
    BY DEF Cutoff
  <1>2. ASSUME NEW k PROVE ChargedOn(k)' = ChargedOn(k)
    <2>1. \A c \in charged : CountersOf(c)' = CountersOf(c)
      BY SameCounters DEF TypeOK
    <2> QED BY <2>1 DEF ChargedOn
  <1>3. ASSUME NEW k \in Keys PROVE Cardinality(SpentOn(k)') <= Limit[k.scope]
    <2>1. SpentOn(k)' \subseteq SpentOn(k)
      BY <1>2 DEF SpentOn, ChargedOn
    <2>2. Cardinality(SpentOn(k)') <= Cardinality(SpentOn(k)) /\ Cardinality(SpentOn(k)') \in Nat
      BY <2>1, HistoriesFinite, FS_Subset, FS_CardinalityType
    <2>3. Cardinality(SpentOn(k)) \in Nat /\ Limit[k.scope] \in Nat
      BY HistoriesFinite, LedgerAssumption DEF Keys
    <2> QED BY <2>2, <2>3 DEF CountInv
  <1>4. \A k \in Keys : counts'[k] <= Limit[k.scope]
    BY DEF CountInv
  <1>5. \A k \in Keys : k.window >= Cutoff' => counts'[k] = Cardinality(ChargedOn(k)')
    BY <1>1, <1>2 DEF CountInv
  <1> QED BY <1>3, <1>4, <1>5 DEF CountInv

\* Moves keep the invariant: locks are only released.
LEMMA MovesPreserve ==
    ASSUME QuotaInv, TypeOK', Moves
    PROVE  QuotaInv'
  <1> USE DEF QuotaInv
  <1>1. ASSUME NEW c \in Calls
        PROVE  /\ Width(c)' = Width(c)
               /\ \A i : Counter(c, i)' = Counter(c, i)
               /\ Rows(c)' \in {Rows(c), {}}
               /\ at'[c] = at[c] => Rows(c)' = Rows(c)
    <2>1. Width(c)' = Width(c) /\ \A i : Counter(c, i)' = Counter(c, i)
      BY SameCounters DEF Moves
    <2>2. CASE at'[c] = at[c]
      BY <2>1, <2>2, SameRows DEF Moves
    <2>3. CASE at'[c] = "closed"
      BY <2>1, <2>2, <2>3 DEF Rows, InTransaction
    <2> QED BY <2>1, <2>2, <2>3 DEF Moves
  <1>2. CallInv'
    BY <1>1 DEF CallInv, Moves, Waiting
  <1>3. LockInv'
    <2>1. \A k : OverLimit(k)' <=> OverLimit(k)
      BY DEF OverLimit, Moves
    <2>2. \A c, d \in Calls : c # d => Rows(c)' \cap Rows(d)' = {}
      BY <1>1 DEF LockInv
    <2>3. \A c \in Calls : at'[c] \in {"open", "commit"} => \A k \in Rows(c)' : ~OverLimit(k)'
      BY <1>1, <2>1 DEF LockInv, Moves
    <2>4. ASSUME NEW c \in Calls, at'[c] = "rollback"
          PROVE  OverLimit(Counter(c, held[c]))'
      <3>1. OverLimit(Counter(c, held[c]))
        BY <2>4 DEF LockInv, Moves
      <3>2. Counter(c, held[c])' = Counter(c, held[c])
        BY <1>1 DEF Moves
      <3> QED BY <3>1, <3>2 DEF OverLimit, Moves
    <2> QED BY <2>2, <2>3, <2>4 DEF LockInv
  <1>4. CountInv'
    <2>1. \A c \in charged : on'[c] = on[c]
             /\ (answer'[c] \in {"real", "asked"} => answer[c] \in {"real", "asked"})
      BY DEF Moves, TypeOK
    <2> QED BY <2>1, CountsStay DEF Moves
  <1> QED BY <1>2, <1>3, <1>4

\* A new check: its date is fresh and it has no transaction yet.
LEMMA StartCheckPreserves ==
    ASSUME QuotaInv, TypeOK', NEW c \in Calls, StartCheck(c)
    PROVE  QuotaInv'
  <1> USE DEF QuotaInv
  <1>1. c \notin charged /\ at[c] = "none"
    BY DEF StartCheck, Ask, CallInv
  <1>2. /\ UNCHANGED <<today, counts, charged, at, held>>
        /\ answer[c] = "idle"
        /\ answer' = [answer EXCEPT ![c] = "asked"]
        /\ on' = [on EXCEPT ![c] = today]
    BY DEF StartCheck, Ask
  <1>3. ASSUME NEW d \in Calls
        PROVE  /\ Width(d)' = Width(d)
               /\ Rows(d)' = Rows(d)
               /\ d # c => on'[d] = on[d] /\ \A i : Counter(d, i)' = Counter(d, i)
    <2>1. CASE d = c
      BY <1>1, <1>2, <2>1 DEF Rows, InTransaction, Width, ClientOf
    <2>2. CASE d # c
      BY <1>2, <2>2, SameCounters, SameRows DEF TypeOK
    <2> QED BY <2>1, <2>2
  <1>4. CallInv'
    BY <1>1, <1>2, <1>3 DEF CallInv, Waiting, TypeOK
  <1>5. LockInv'
    <2>1. \A k : OverLimit(k)' <=> OverLimit(k)
      BY <1>2 DEF OverLimit
    <2>2. ASSUME NEW d \in Calls, at'[d] = "rollback"
          PROVE  OverLimit(Counter(d, held[d]))'
      <3>1. d # c /\ OverLimit(Counter(d, held[d]))
        BY <1>1, <1>2, <2>2 DEF LockInv
      <3>2. Counter(d, held[d])' = Counter(d, held[d])
        BY <1>2, <1>3, <3>1
      <3> QED BY <1>2, <3>1, <3>2 DEF OverLimit
    <2> QED BY <1>2, <1>3, <2>1, <2>2 DEF LockInv
  <1>6. CountInv'
    <2>1. \A d \in charged : on'[d] = on[d]
             /\ (answer'[d] \in {"real", "asked"} => answer[d] \in {"real", "asked"})
      BY <1>1, <1>2 DEF TypeOK
    <2> QED BY <1>2, <2>1, CountsStay
  <1> QED BY <1>4, <1>5, <1>6

\* A counter per run stays one.
LEMMA RecordTypes ==
    ASSUME TypeOK, NEW r \in Runs, Record(r)
    PROVE  denials' \in [Runs -> Nat] /\ told' \in [Runs -> Nat]
  <1>1. denials \in [Runs -> Nat] /\ told \in [Runs -> Nat]
    BY DEF TypeOK
  <1> QED BY <1>1 DEF Record

\* Type correctness of every step.
LEMMA TypeStep ==
    ASSUME TypeOK, CallInv, [Next]_vars
    PROVE  TypeOK'
  <1> USE DEF TypeOK
  <1>1. ASSUME NEW c \in Calls, StartCheck(c) PROVE TypeOK'
    BY <1>1 DEF StartCheck, Ask
  <1>2. ASSUME NEW c \in Calls, LockPool(c) PROVE TypeOK'
    BY <1>2 DEF LockPool, ledgerVars
  <1>3. ASSUME NEW c \in Calls, OpenPool(c) PROVE TypeOK'
    BY <1>3 DEF OpenPool
  <1>4. ASSUME NEW c \in Calls, Begin(c) PROVE TypeOK'
    BY <1>4 DEF Begin, ledgerVars
  <1>5. ASSUME NEW c \in Calls, Upsert(c) PROVE TypeOK'
    <2>1. held[c] < Width(c) /\ Width(c) \in {2, 4}
      BY <1>5, CounterIsKey DEF Upsert, CallInv
    <2>2. held' \in [Calls -> 0..4]
      BY <1>5, <2>1 DEF Upsert
    <2> QED BY <1>5, <2>2 DEF Upsert, ledgerVars
  <1>6. ASSUME NEW c \in Calls, Land(c) PROVE TypeOK'
    BY <1>6 DEF Land
  <1>7. ASSUME NEW c \in Calls, Abandon(c) PROVE TypeOK'
    BY <1>7 DEF Abandon, ledgerVars
  <1>8. ASSUME NEW c \in Calls PROVE RunOf[c] \in Runs /\ Leave(c) \in
          {"none", "open", "rollback", "commit", "landed", "closed"}
    BY LedgerAssumption DEF Leave
  <1>9. ASSUME NEW c \in Calls, Grant(c) PROVE TypeOK'
    BY <1>9 DEF Grant, Reply
  <1>10. ASSUME NEW c \in Calls, Deny(c) PROVE TypeOK'
    <2>1. denials' \in [Runs -> Nat] /\ told' \in [Runs -> Nat]
      BY <1>8, <1>10, RecordTypes DEF Deny
    <2> QED BY <1>10, <2>1 DEF Deny, Reply
  <1>11. ASSUME NEW c \in Calls, CheckFails(c) PROVE TypeOK'
    <2>1. denials' \in [Runs -> Nat] /\ told' \in [Runs -> Nat]
      BY <1>8, <1>11, RecordTypes DEF CheckFails
    <2> QED BY <1>8, <1>11, <2>1 DEF CheckFails, Reply
  <1>12. ASSUME NEW c \in Calls, Cancelled(c) PROVE TypeOK'
    BY <1>8, <1>12 DEF Cancelled, Reply
  <1>13. ASSUME Midnight PROVE TypeOK'
    BY <1>13, LedgerAssumption DEF Midnight, NextDay, Days
  <1>14. ASSUME Restart PROVE TypeOK'
    <2>1. at' \in [Calls -> {"none", "open", "rollback", "commit", "landed", "closed"}]
      BY <1>8, <1>14 DEF Restart
    <2>2. dead' \subseteq Runs /\ restarts' \in 0..MaxRestarts
      BY <1>8, <1>14, QuotaAssumption DEF Restart
    <2> QED BY <1>14, <2>1, <2>2, Zenon DEF Restart, Crash
  <1>15. ASSUME UNCHANGED vars PROVE TypeOK'
    BY <1>15 DEF vars, ledgerVars
  <1> QED BY <1>1, <1>2, <1>3, <1>4, <1>5, <1>6, <1>7, <1>9, <1>10, <1>11, <1>12, <1>13,
             <1>14, <1>15, Zenon DEF Next, CallStep
=============================================================================
