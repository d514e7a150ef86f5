---------------------------- MODULE LlmQuotaSteps -----------------------------
(***************************************************************************)
(* The steps that move rows or counts keep the quota invariant.            *)
(***************************************************************************)
EXTENDS LlmQuotaLemmas

\* BEGIN locks nothing.
LEMMA BeginPreserves ==
    ASSUME QuotaInv, TypeOK', NEW c \in Calls, Begin(c)
    PROVE  QuotaInv'
  <1> USE DEF QuotaInv
  <1>1. /\ UNCHANGED <<today, on, counts, charged, answer, held>>
        /\ answer[c] = "asked" /\ at[c] = "none" /\ held[c] = 0
        /\ at' = [at EXCEPT ![c] = "open"]
    BY DEF Begin, Waiting, CallInv, ledgerVars
  <1>2. ASSUME NEW d \in Calls
        PROVE  /\ Width(d)' = Width(d) /\ Width(d) \in {2, 4}
               /\ Rows(d)' = Rows(d)
               /\ \A i : Counter(d, i)' = Counter(d, i)
    <2>1. Width(d)' = Width(d) /\ Width(d) \in {2, 4} /\ \A i : Counter(d, i)' = Counter(d, i)
      BY <1>1, SameCounters, CounterIsKey
    <2>2. CASE d = c
      <3>1. Rows(d) = {}
        BY <1>1, <2>2 DEF Rows, InTransaction
      <3>2. Rows(d)' = {Counter(d, i)' : i \in 1..0}
        BY <1>1, <2>2 DEF Rows, InTransaction, TypeOK
      <3>3. 1..0 = {}
        OBVIOUS
      <3> QED BY <2>1, <3>1, <3>2, <3>3
    <2>3. CASE d # c
      <3>1. on'[d] = on[d] /\ at'[d] = at[d] /\ held'[d] = held[d]
        BY <1>1, <2>3 DEF TypeOK
      <3> QED BY <2>1, <3>1, <2>3, SameRows
    <2> QED BY <2>1, <2>2, <2>3
  <1>3. CallInv'
    BY <1>1, <1>2 DEF CallInv, Waiting, TypeOK
  <1>4. LockInv'
    <2>1. \A k : OverLimit(k)' <=> OverLimit(k)
      BY <1>1 DEF OverLimit
    <2>2. Rows(c) = {}
      BY <1>1 DEF Rows, InTransaction
    <2>3. \A d \in Calls : at'[d] \in {"open", "commit"} => \A k \in Rows(d)' : ~OverLimit(k)'
      BY <1>1, <1>2, <2>1, <2>2 DEF LockInv, TypeOK
    <2>4. ASSUME NEW d \in Calls, at'[d] = "rollback"
          PROVE  OverLimit(Counter(d, held[d]))'
      <3>1. OverLimit(Counter(d, held[d]))
        BY <1>1, <2>4 DEF LockInv, TypeOK
      <3>2. Counter(d, held[d])' = Counter(d, held[d])
        BY <1>1, <1>2
      <3> QED BY <1>1, <3>1, <3>2 DEF OverLimit
    <2> QED BY <1>2, <2>3, <2>4 DEF LockInv
  <1>5. CountInv'
    BY <1>1, CountsStay
  <1> QED BY <1>3, <1>4, <1>5

\* An upsert takes a row that no other transaction has.
LEMMA UpsertPreserves ==
    ASSUME QuotaInv, TypeOK', NEW c \in Calls, Upsert(c)
    PROVE  QuotaInv'
  <1> USE DEF QuotaInv
  <1>1. /\ UNCHANGED <<today, on, counts, charged, answer>>
        /\ answer[c] = "asked" /\ at[c] = "open" /\ held[c] < Width(c)
        /\ held[c] \in 0..4
        /\ held' = [held EXCEPT ![c] = held[c] + 1]
        /\ at' = [at EXCEPT ![c] = IF OverLimit(NextRow(c)) THEN "rollback"
                                   ELSE IF held[c] + 1 = Width(c) THEN "commit" ELSE "open"]
    BY DEF Upsert, Waiting, CallInv, ledgerVars, TypeOK
  <1>2. ASSUME NEW d \in Calls
        PROVE  /\ Width(d)' = Width(d) /\ Width(d) \in {2, 4}
               /\ \A i : Counter(d, i)' = Counter(d, i)
               /\ d # c => Rows(d)' = Rows(d)
    BY <1>1, SameCounters, CounterIsKey, SameRows DEF TypeOK
  <1>3. Rows(c)' = Rows(c) \cup {NextRow(c)}
    <2>1. (c \in InTransaction)' /\ c \in InTransaction
      BY <1>1 DEF InTransaction, TypeOK
    <2>2. Rows(c)' = {Counter(c, i)' : i \in 1..(held[c] + 1)}
      BY <1>1, <2>1 DEF Rows, TypeOK
    <2>3. Rows(c)' = {Counter(c, i) : i \in 1..(held[c] + 1)}
      BY <1>2, <2>2
    <2>4. Rows(c) = {Counter(c, i) : i \in 1..held[c]}
      BY <2>1 DEF Rows
    <2>5. 1..(held[c] + 1) = (1..held[c]) \cup {held[c] + 1}
      BY <1>1
    <2> QED BY <2>3, <2>4, <2>5 DEF NextRow
  <1>4. CallInv'
    BY <1>1, <1>2 DEF CallInv, Waiting, TypeOK
  <1>5. LockInv'
    <2>1. \A k : OverLimit(k)' <=> OverLimit(k)
      BY <1>1 DEF OverLimit
    <2>2. \A d \in Calls : d # c => NextRow(c) \notin Rows(d)
      BY DEF Upsert, Blocked
    <2>3. \A d, e \in Calls : d # e => Rows(d)' \cap Rows(e)' = {}
      BY <1>2, <1>3, <2>2 DEF LockInv
    <2>4. ASSUME NEW d \in Calls, at'[d] \in {"open", "commit"}, NEW k \in Rows(d)'
          PROVE  ~OverLimit(k)'
      <3>1. CASE d # c
        BY <1>1, <1>2, <2>1, <2>4, <3>1 DEF LockInv, TypeOK
      <3>2. CASE d = c
        <4>1. ~OverLimit(NextRow(c))
          BY <1>1, <2>4, <3>2 DEF TypeOK
        <4> QED BY <1>1, <1>3, <2>1, <2>4, <3>2, <4>1 DEF LockInv
      <3> QED BY <3>1, <3>2
    <2>5. ASSUME NEW d \in Calls, at'[d] = "rollback"
          PROVE  OverLimit(Counter(d, held[d]))'
      <3>1. Counter(d, held[d])' = Counter(d, held'[d])
        BY <1>1 DEF Counter, CounterAt, ClientOf
      <3>2. CASE d # c
        <4>1. OverLimit(Counter(d, held[d])) /\ held'[d] = held[d]
          BY <1>1, <2>5, <3>2 DEF LockInv, TypeOK
        <4> QED BY <1>1, <3>1, <4>1 DEF OverLimit
      <3>3. CASE d = c
        <4>1. OverLimit(NextRow(c)) /\ held'[c] = held[c] + 1
          BY <1>1, <2>5, <3>3 DEF TypeOK
        <4> QED BY <1>1, <3>1, <3>3, <4>1 DEF OverLimit, NextRow
      <3> QED BY <3>2, <3>3
    <2> QED BY <2>3, <2>4, <2>5 DEF LockInv
  <1>6. CountInv'
    BY <1>1, CountsStay
  <1> QED BY <1>4, <1>5, <1>6

\* The prune: locked rows and rows that still count are younger than the cutoff.
LEMMA OpenPoolPreserves ==
    ASSUME QuotaInv, TypeOK', NEW c \in Calls, OpenPool(c)
    PROVE  QuotaInv'
  <1> USE DEF QuotaInv
  <1>1. /\ UNCHANGED <<today, on, charged, answer, at, held>>
        /\ counts' = [k \in Keys |-> IF k.window < Cutoff THEN 0 ELSE counts[k]]
        /\ \A d \in Calls : \A k \in Rows(d) : k.window >= Cutoff
    BY DEF OpenPool
  <1>2. Cutoff \in Int /\ Cutoff' = Cutoff
    BY <1>1, LedgerAssumption, QuotaAssumption DEF Cutoff, TypeOK, Days
  <1>3. ASSUME NEW d \in Calls
        PROVE  /\ Width(d)' = Width(d)
               /\ \A i : Counter(d, i)' = Counter(d, i)
               /\ Rows(d)' = Rows(d)
               /\ CountersOf(d)' = CountersOf(d)
    BY <1>1, SameCounters, SameRows
  <1>4. CallInv'
    BY <1>1, <1>3 DEF CallInv, Waiting
  <1>5. ASSUME NEW d \in Calls, NEW k \in Rows(d) PROVE k \in Keys /\ counts'[k] = counts[k]
    <2>1. PICK i \in 1..held[d] : k = Counter(d, i) /\ d \in InTransaction
      BY <1>5 DEF Rows
    <2>2. held[d] <= Width(d) /\ Width(d) \in {2, 4} /\ held[d] \in 0..4
      BY <2>1, CounterIsKey DEF CallInv, InTransaction, TypeOK
    <2>3. k \in Keys
      BY <2>1, <2>2, CounterIsKey
    <2>4. k.window >= Cutoff /\ k.window \in Int
      BY <1>1, <1>5, <2>3, LedgerAssumption DEF Keys, Days
    <2> QED BY <1>1, <1>2, <2>3, <2>4
  <1>6. LockInv'
    <2>1. \A d \in Calls : \A k \in Rows(d) : OverLimit(k)' <=> OverLimit(k)
      BY <1>5 DEF OverLimit
    <2>2. ASSUME NEW d \in Calls, at'[d] = "rollback"
          PROVE  OverLimit(Counter(d, held[d]))'
      <3>1. OverLimit(Counter(d, held[d])) /\ held[d] \in 1..Width(d) /\ d \in InTransaction
        BY <1>1, <2>2 DEF LockInv, CallInv, InTransaction
      <3>2. Counter(d, held[d]) \in Rows(d)
        BY <3>1, CounterIsKey DEF Rows, TypeOK
      <3>3. Counter(d, held[d])' = Counter(d, held[d])
        BY <1>1 DEF Counter, CounterAt, ClientOf
      <3> QED BY <1>5, <3>1, <3>2, <3>3 DEF OverLimit
    <2>3. \A d \in Calls : at'[d] \in {"open", "commit"} => \A k \in Rows(d)' : ~OverLimit(k)'
      BY <1>1, <1>3, <2>1 DEF LockInv
    <2> QED BY <1>3, <2>2, <2>3 DEF LockInv
  <1>7. CountInv'
    <2>1. ASSUME NEW k PROVE ChargedOn(k)' = ChargedOn(k) /\ SpentOn(k)' = SpentOn(k)
      <3>1. ChargedOn(k)' = ChargedOn(k)
        BY <1>1, <1>3 DEF ChargedOn, TypeOK
      <3> QED BY <1>1, <3>1 DEF SpentOn
    <2>2. ASSUME NEW k \in Keys
          PROVE  /\ counts'[k] <= Limit[k.scope]
                 /\ k.window >= Cutoff => counts'[k] = counts[k]
      <3>1. k.window \in Int /\ Limit[k.scope] \in Nat
        BY LedgerAssumption DEF Keys, Days
      <3>2. counts[k] <= Limit[k.scope]
        BY DEF CountInv
      <3> QED BY <1>1, <1>2, <3>1, <3>2
    <2> QED BY <1>2, <2>1, <2>2 DEF CountInv
  <1> QED BY <1>4, <1>6, <1>7

\* COMMIT: the table and the history grow by the same call, on rows with room.
LEMMA LandPreserves ==
    ASSUME QuotaInv, TypeOK', NEW c \in Calls, Land(c)
    PROVE  QuotaInv'
  <1> USE DEF QuotaInv
  <1>1. /\ UNCHANGED <<today, on, answer, held>>
        /\ at[c] = "commit" /\ c \notin charged /\ held[c] = Width(c)
        /\ counts' = [k \in Keys |-> IF k \in Rows(c) THEN counts[k] + 1 ELSE counts[k]]
        /\ charged' = charged \cup {c}
        /\ at' = [at EXCEPT ![c] = "landed"]
    BY DEF Land, CallInv
  <1>2. Rows(c) = CountersOf(c) /\ answer[c] # "idle"
    BY <1>1 DEF Rows, InTransaction, CountersOf, CallInv
  <1>3. ASSUME NEW d \in Calls
        PROVE  /\ Width(d)' = Width(d)
               /\ \A i : Counter(d, i)' = Counter(d, i)
               /\ CountersOf(d)' = CountersOf(d)
               /\ d # c => at'[d] = at[d] /\ Rows(d)' = Rows(d)
    <2>1. d # c => at'[d] = at[d]
      BY <1>1 DEF TypeOK
    <2> QED BY <1>1, <2>1, SameCounters, SameRows
  <1>4. Rows(c)' = {} /\ at'[c] = "landed"
    BY <1>1 DEF Rows, InTransaction, TypeOK
  <1>5. CallInv'
    BY <1>1, <1>2, <1>3, <1>4 DEF CallInv, Waiting, TypeOK
  <1>6. LockInv'
    <2>1. ASSUME NEW d \in Calls, d # c, NEW k \in Rows(d) PROVE OverLimit(k)' <=> OverLimit(k)
      <3>1. k \notin Rows(c)
        BY <2>1 DEF LockInv
      <3>2. k \in Keys
        <4>1. PICK i \in 1..held[d] : k = Counter(d, i) /\ d \in InTransaction
          BY <2>1 DEF Rows
        <4>2. held[d] <= Width(d) /\ Width(d) \in {2, 4} /\ held[d] \in 0..4
          BY <4>1, CounterIsKey DEF CallInv, InTransaction, TypeOK
        <4> QED BY <4>1, <4>2, CounterIsKey
      <3> QED BY <1>1, <3>1, <3>2 DEF OverLimit
    <2>2. ASSUME NEW d \in Calls, at'[d] = "rollback"
          PROVE  OverLimit(Counter(d, held[d]))'
      <3>1. d # c /\ OverLimit(Counter(d, held[d])) /\ held[d] \in 1..Width(d) /\ d \in InTransaction
        BY <1>3, <1>4, <2>2 DEF LockInv, CallInv, InTransaction
      <3>2. Counter(d, held[d]) \in Rows(d)
        BY <3>1, CounterIsKey DEF Rows, TypeOK
      <3>3. Counter(d, held[d])' = Counter(d, held[d])
        BY <1>1 DEF Counter, CounterAt, ClientOf
      <3>4. OverLimit(Counter(d, held[d])) => counts'[Counter(d, held[d])] + 1 > Limit[Counter(d, held[d]).scope]
        BY <2>1, <3>1, <3>2 DEF OverLimit
      <3> QED BY <3>1, <3>3, <3>4 DEF OverLimit
    <2>3. \A d \in Calls : at'[d] \in {"open", "commit"} => \A k \in Rows(d)' : ~OverLimit(k)'
      BY <1>3, <1>4, <2>1 DEF LockInv
    <2>4. \A d, e \in Calls : d # e => Rows(d)' \cap Rows(e)' = {}
      BY <1>3, <1>4 DEF LockInv
    <2> QED BY <2>2, <2>3, <2>4 DEF LockInv
  <1>7. CountInv'
    <2>1. Cutoff' = Cutoff
      BY <1>1 DEF Cutoff
    <2>2. ASSUME NEW k \in Keys
          PROVE  /\ counts'[k] = IF k \in CountersOf(c) THEN counts[k] + 1 ELSE counts[k]
                 /\ counts'[k] <= Limit[k.scope]
                 /\ Cardinality(ChargedOn(k)') = IF k \in CountersOf(c) THEN Cardinality(ChargedOn(k)) + 1
                                                 ELSE Cardinality(ChargedOn(k))
      <3>1. counts'[k] = IF k \in CountersOf(c) THEN counts[k] + 1 ELSE counts[k]
        BY <1>1, <1>2
      <3>2. k \in CountersOf(c) => counts[k] + 1 <= Limit[k.scope]
        <4>1. k \in CountersOf(c) => ~OverLimit(k)
          BY <1>1, <1>2 DEF LockInv
        <4>2. counts[k] \in Nat /\ Limit[k.scope] \in Nat
          BY LedgerAssumption, Zenon DEF TypeOK, Keys
        <4> QED BY <4>1, <4>2 DEF OverLimit
      <3>3. ChargedOn(k)' = IF k \in CountersOf(c) THEN ChargedOn(k) \cup {c} ELSE ChargedOn(k)
        BY <1>1, <1>3 DEF ChargedOn, TypeOK
      <3>4. c \notin ChargedOn(k)
        BY <1>1 DEF ChargedOn
      <3>5. Cardinality(ChargedOn(k) \cup {c}) = Cardinality(ChargedOn(k)) + 1
        BY <3>4, HistoriesFinite, FS_AddElement, Zenon
      <3>6. counts[k] <= Limit[k.scope]
        BY DEF CountInv
      <3> QED BY <3>1, <3>2, <3>3, <3>5, <3>6
    <2>3. ASSUME NEW k \in Keys PROVE k.window >= Cutoff => counts'[k] = Cardinality(ChargedOn(k)')
      BY <2>2 DEF CountInv
    <2>4. ASSUME NEW k \in Keys PROVE Cardinality(SpentOn(k)') <= Limit[k.scope]
      <3>1. CASE k \in CountersOf(c) /\ answer[c] = "asked"
        <4>1. k.window >= Cutoff
          BY <3>1, WindowKept DEF CallInv, Waiting
        <4>2. Cardinality(ChargedOn(k)') <= Limit[k.scope]
          BY <2>2, <2>3, <4>1
        <4>3. /\ Cardinality(SpentOn(k)') <= Cardinality(ChargedOn(k)')
              /\ Cardinality(SpentOn(k)') \in Nat /\ Cardinality(ChargedOn(k)') \in Nat
          <5>1. ChargedOn(k)' \subseteq Calls /\ SpentOn(k)' \subseteq ChargedOn(k)'
            BY DEF ChargedOn, SpentOn, TypeOK
          <5> QED BY <5>1, FS_Subset, FS_CardinalityType, LedgerAssumption
        <4>4. Limit[k.scope] \in Nat
          BY LedgerAssumption DEF Keys
        <4> QED BY <4>2, <4>3, <4>4
      <3>2. CASE ~(k \in CountersOf(c) /\ answer[c] = "asked")
        <4>1. answer[c] # "real"
          BY <1>1 DEF CallInv
        <4>2. SpentOn(k)' = SpentOn(k)
          BY <1>1, <1>3, <3>2, <4>1 DEF SpentOn, ChargedOn, TypeOK
        <4> QED BY <4>2 DEF CountInv
      <3> QED BY <3>1, <3>2
    <2> QED BY <2>1, <2>2, <2>3, <2>4 DEF CountInv
  <1> QED BY <1>5, <1>6, <1>7
=============================================================================
