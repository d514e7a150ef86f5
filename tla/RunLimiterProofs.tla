--------------------------- MODULE RunLimiterProofs ---------------------------
(***************************************************************************)
(* For every set of clients and every setting of the limits: the run       *)
(* limiter is type correct and admits at most PerIP launches of a client   *)
(* in any sliding window.                                                  *)
(***************************************************************************)
EXTENDS RunLimiter, SequenceTheorems, WellFoundedInduction, TLAPS

-----------------------------------------------------------------------------
(* Arithmetic and the popleft loop *)

LEMMA WindowTicksType == WindowTicks \in Nat
  BY LimiterAssumption DEF WindowTicks

\* A non-empty set of naturals has a least element.
LEMMA LeastElement ==
  ASSUME NEW T \in SUBSET Nat, T # {}
  PROVE  \E x \in T : \A y \in T : x <= y
<1>1. PICK x \in T : \A y \in T : ~(<<y, x>> \in OpToRel(<, Nat))
  BY NatLessThanWellFounded, WFMin, Zenon
<1>2. \A y \in T : ~(y < x)
  BY <1>1, Zenon DEF OpToRel
<1> QED  BY <1>2

\* The popleft loop of `acquire` is well defined: the prefix it removes exists.
LEMMA AgedOutProperty ==
  ASSUME NEW q \in Seq(Nat), NEW cutoff \in Int
  PROVE  /\ AgedOut(q, cutoff) \in 0..Len(q)
         /\ \A i \in 1..AgedOut(q, cutoff) : q[i] <= cutoff
         /\ AgedOut(q, cutoff) < Len(q) => q[AgedOut(q, cutoff) + 1] > cutoff
<1> DEFINE P(n) == /\ \A i \in 1..n : q[i] <= cutoff
                   /\ n < Len(q) => q[n + 1] > cutoff
           Young == {i \in 1..Len(q) : q[i] > cutoff}
<1>1. Len(q) \in Nat /\ \A i \in 1..Len(q) : q[i] \in Nat
  BY LenProperties, ElementOfSeq
<1>2. \E n \in 0..Len(q) : P(n)
  <2>1. CASE Young = {}
    <3>1. P(Len(q))  BY <1>1, <2>1
    <3> QED  BY <1>1, <3>1
  <2>2. CASE Young # {}
    <3>1. Young \in SUBSET Nat  BY <1>1
    <3>2. PICK m \in Young : \A y \in Young : m <= y
      BY <2>2, <3>1, LeastElement, Zenon
    <3>3. m - 1 \in 0..Len(q)  BY <1>1, <3>2
    <3>4. P(m - 1)  BY <1>1, <3>2
    <3> QED  BY <3>3, <3>4, Zenon
  <2> QED  BY <2>1, <2>2
<1>3. AgedOut(q, cutoff) = CHOOSE n \in 0..Len(q) : P(n)
  BY DEF AgedOut
<1>4. AgedOut(q, cutoff) \in 0..Len(q) /\ P(AgedOut(q, cutoff))
  BY <1>2, <1>3, Zenon
<1> QED  BY <1>4

\* What is left of a deque is the rest of it.
LEMMA DropAgedProperty ==
  ASSUME NEW q \in Seq(Nat), NEW cutoff \in Int
  PROVE  /\ DropAged(q, cutoff) \in Seq(Nat)
         /\ Len(DropAged(q, cutoff)) = Len(q) - AgedOut(q, cutoff)
         /\ \A i \in 1..Len(DropAged(q, cutoff)) :
               DropAged(q, cutoff)[i] = q[AgedOut(q, cutoff) + i]
<1>1. Len(q) \in Nat /\ \A i \in 1..Len(q) : q[i] \in Nat
  BY LenProperties, ElementOfSeq
<1>2. PICK k : k = AgedOut(q, cutoff)  OBVIOUS
<1>3. k \in 0..Len(q)  BY <1>2, AgedOutProperty
<1>4. /\ SubSeq(q, k + 1, Len(q)) \in Seq(Nat)
      /\ Len(SubSeq(q, k + 1, Len(q))) = Len(q) - k
      /\ \A i \in 1..Len(q) - k : SubSeq(q, k + 1, Len(q))[i] = q[k + i]
  <2>1. \A i \in k + 1 .. Len(q) : q[i] \in Nat  BY <1>1, <1>3
  <2>2. k + 1 \in Int /\ Len(q) \in Int  BY <1>1, <1>3
  <2>3. /\ SubSeq(q, k + 1, Len(q)) \in Seq(Nat)
        /\ Len(SubSeq(q, k + 1, Len(q))) = IF k + 1 <= Len(q) THEN Len(q) - (k + 1) + 1 ELSE 0
        /\ \A i \in 1 .. Len(q) - (k + 1) + 1 :
              SubSeq(q, k + 1, Len(q))[i] = q[(k + 1) + i - 1]
    BY <2>1, <2>2, SubSeqProperties
  <2> QED  BY <1>1, <1>3, <2>3
<1> QED  BY <1>2, <1>4 DEF DropAged

-----------------------------------------------------------------------------
(* Histories and deques *)

\* A history is ordered, and nothing in it is later than t.
Ordered(g, t) ==
    /\ \A i, j \in 1..Len(g) : i <= j => g[i] <= g[j]
    /\ \A i \in 1..Len(g) : g[i] <= t

\* Aged launches may be dropped from a deque at any time.
LEMMA RecentAfterDrop ==
  ASSUME NEW g \in Seq(Nat), NEW d \in Seq(Nat), NEW t \in Nat, Recent(g, d, t)
  PROVE  Recent(g, DropAged(d, t - WindowTicks), t)
<1>1. t - WindowTicks \in Int  BY WindowTicksType
<1>2. PICK k : k = AgedOut(d, t - WindowTicks)  OBVIOUS
<1>3. PICK e : e = DropAged(d, t - WindowTicks)  OBVIOUS
<1>4. /\ k \in 0..Len(d)
      /\ \A i \in 1..k : d[i] <= t - WindowTicks
  BY <1>1, <1>2, AgedOutProperty, Zenon
<1>5. /\ Len(e) = Len(d) - k
      /\ \A i \in 1..Len(e) : e[i] = d[k + i]
  BY <1>1, <1>2, <1>3, DropAgedProperty
<1>6. Len(g) \in Nat /\ Len(d) \in Nat  BY LenProperties
<1>7. Len(e) <= Len(g)  BY <1>4, <1>5, <1>6 DEF Recent
<1>8. \A i \in 1..Len(e) : e[i] = g[Len(g) - Len(e) + i]
  <2> SUFFICES ASSUME NEW i \in 1..Len(e)
               PROVE  e[i] = g[Len(g) - Len(e) + i]
    OBVIOUS
  <2>1. k + i \in 1..Len(d)  BY <1>4, <1>5, <1>6
  <2>2. d[k + i] = g[Len(g) - Len(d) + (k + i)]
    <3>1. \A n \in 1..Len(d) : d[n] = g[Len(g) - Len(d) + n]  BY DEF Recent
    <3> QED  BY <2>1, <3>1, Zenon
  <2>3. Len(g) - Len(d) + (k + i) = Len(g) - Len(e) + i  BY <1>4, <1>5, <1>6
  <2> QED  BY <1>5, <2>2, <2>3
<1>9. \A i \in 1..Len(g) - Len(e) : g[i] <= t - WindowTicks
  <2> SUFFICES ASSUME NEW i \in 1..Len(g) - Len(e)
               PROVE  g[i] <= t - WindowTicks
    OBVIOUS
  <2>1. CASE i <= Len(g) - Len(d)  BY <1>6, <2>1 DEF Recent
  <2>2. CASE i > Len(g) - Len(d)
    <3>1. PICK j \in 1..k : i = Len(g) - Len(d) + j
      <4>1. i - (Len(g) - Len(d)) \in 1..k  BY <1>4, <1>5, <1>6, <2>2
      <4> QED  BY <1>6, <4>1
    <3>2. j \in 1..Len(d)  BY <1>4, <1>6, <3>1
    <3>3. d[j] = g[i]  BY <3>1, <3>2 DEF Recent
    <3> QED  BY <1>4, <3>1, <3>3
  <2> QED  BY <1>6, <2>1, <2>2
<1> QED  BY <1>3, <1>7, <1>8, <1>9 DEF Recent

\* A charged launch keeps the deque recent, the history ordered and spaced.
LEMMA ChargeKeepsSpacing ==
  ASSUME NEW g \in Seq(Nat), NEW e \in Seq(Nat), NEW t \in Nat,
         Recent(g, e, t), Ordered(g, t), Spaced(g), Len(e) < PerIP
  PROVE  /\ Recent(Append(g, t), Append(e, t), t)
         /\ Ordered(Append(g, t), t)
         /\ Spaced(Append(g, t))
<1> DEFINE h == Append(g, t)
           f == Append(e, t)
<1>1. Len(g) \in Nat /\ Len(e) \in Nat  BY LenProperties
<1>2. /\ Len(h) = Len(g) + 1
      /\ \A i \in 1..Len(g) : h[i] = g[i]
      /\ h[Len(g) + 1] = t
  OBVIOUS
<1>3. /\ Len(f) = Len(e) + 1
      /\ \A i \in 1..Len(e) : f[i] = e[i]
      /\ f[Len(e) + 1] = t
  OBVIOUS
<1>4. PerIP \in Nat \ {0} /\ WindowTicks \in Nat
  BY LimiterAssumption, WindowTicksType
<1>5. \A i \in 1..Len(g) : g[i] \in Nat  BY ElementOfSeq
<1> HIDE DEF h, f
<1>6. Recent(h, f, t)
  <2>1. Len(f) <= Len(h)  BY <1>1, <1>2, <1>3 DEF Recent
  <2>2. \A i \in 1..Len(f) : f[i] = h[Len(h) - Len(f) + i]
    <3> SUFFICES ASSUME NEW i \in 1..Len(f)
                 PROVE  f[i] = h[Len(h) - Len(f) + i]
      OBVIOUS
    <3>1. CASE i = Len(e) + 1  BY <1>1, <1>2, <1>3, <3>1
    <3>2. CASE i \in 1..Len(e)
      <4>1. e[i] = g[Len(g) - Len(e) + i]  BY <3>2 DEF Recent
      <4>2. Len(g) - Len(e) + i \in 1..Len(g)  BY <1>1, <3>2 DEF Recent
      <4>3. Len(h) - Len(f) + i = Len(g) - Len(e) + i  BY <1>1, <1>2, <1>3
      <4> QED  BY <1>2, <1>3, <3>2, <4>1, <4>2, <4>3, Zenon
    <3> QED  BY <1>1, <1>3, <3>1, <3>2
  <2>3. \A i \in 1..Len(h) - Len(f) : h[i] <= t - WindowTicks
    <3>1. Len(h) - Len(f) = Len(g) - Len(e)  BY <1>1, <1>2, <1>3
    <3>2. \A i \in 1..Len(g) - Len(e) : i \in 1..Len(g)  BY <1>1
    <3> QED  BY <1>2, <3>1, <3>2, Zenon DEF Recent
  <2> QED  BY <2>1, <2>2, <2>3 DEF Recent
<1>7. Ordered(h, t)
  <2>1. ASSUME NEW i \in 1..Len(h) PROVE h[i] <= t
    <3>1. CASE i = Len(g) + 1  BY <1>2, <3>1
    <3>2. CASE i \in 1..Len(g)
      <4>1. g[i] <= t  BY <3>2 DEF Ordered
      <4> QED  BY <1>2, <3>2, <4>1
    <3> QED  BY <1>1, <1>2, <3>1, <3>2
  <2>2. \A i, j \in 1..Len(h) : i <= j => h[i] <= h[j]
    <3> SUFFICES ASSUME NEW i \in 1..Len(h), NEW j \in 1..Len(h), i <= j
                 PROVE  h[i] <= h[j]
      OBVIOUS
    <3>1. CASE j = Len(g) + 1  BY <1>2, <2>1, <3>1
    <3>2. CASE j \in 1..Len(g)
      <4>1. i \in 1..Len(g)  BY <1>1, <3>2
      <4> QED  BY <1>2, <3>2, <4>1 DEF Ordered
    <3> QED  BY <1>1, <1>2, <3>1, <3>2
  <2> QED  BY <2>1, <2>2 DEF Ordered
<1>8. Spaced(h)
  <2> SUFFICES ASSUME NEW i \in 1..Len(h), i + PerIP <= Len(h)
               PROVE  h[i + PerIP] - h[i] >= WindowTicks
    BY DEF Spaced
  <2>1. i \in 1..Len(g) /\ h[i] = g[i]  BY <1>1, <1>2, <1>4
  <2>2. CASE i + PerIP <= Len(g)
    <3>1. i + PerIP \in 1..Len(g)  BY <1>1, <1>4, <2>2
    <3>2. g[i + PerIP] - g[i] >= WindowTicks  BY <2>1, <2>2 DEF Spaced
    <3>3. h[i + PerIP] = g[i + PerIP]  BY <1>2, <3>1
    <3> QED  BY <2>1, <3>2, <3>3
  <2>3. CASE i + PerIP = Len(g) + 1
    <3>1. h[i + PerIP] = t  BY <1>2, <2>3
    <3>2. i \in 1..Len(g) - Len(e)  BY <1>1, <1>4, <2>3
    <3>3. g[i] <= t - WindowTicks  BY <3>2 DEF Recent
    <3>4. g[i] \in Nat  BY <1>5, <2>1
    <3> QED  BY <1>4, <2>1, <3>1, <3>3, <3>4
  <2>4. i + PerIP <= Len(g) \/ i + PerIP = Len(g) + 1
    <3>1. i + PerIP <= Len(g) + 1  BY <1>2
    <3>2. i \in Nat /\ PerIP \in Nat /\ Len(g) \in Nat  BY <1>1, <1>4, <2>1
    <3>3. PICK n, m \in Nat : n = Len(g) /\ m = i + PerIP  BY <3>2
    <3>4. m <= n \/ m = n + 1  BY <3>1, <3>3
    <3> QED  BY <3>3, <3>4
  <2> QED  BY <2>2, <2>3, <2>4
<1> QED  BY <1>6, <1>7, <1>8 DEF h, f

\* When the newest launch of a deque has aged out, the deque may be forgotten.
LEMMA RecentAfterPrune ==
  ASSUME NEW g \in Seq(Nat), NEW d \in Seq(Nat), NEW t \in Nat,
         Recent(g, d, t), Ordered(g, t),
         d = <<>> \/ d[Len(d)] <= t - WindowTicks
  PROVE  Recent(g, <<>>, t)
<1>1. Len(g) \in Nat /\ Len(d) \in Nat /\ Len(<<>>) = 0  BY LenProperties
<1>2. CASE d = <<>>  BY <1>2
<1>3. CASE d # <<>> /\ d[Len(d)] <= t - WindowTicks
  <2>1. Len(d) \in 1..Len(g)  BY <1>1, <1>3, EmptySeq DEF Recent
  <2>2. d[Len(d)] = g[Len(g)]
    <3>1. d[Len(d)] = g[Len(g) - Len(d) + Len(d)]  BY <1>1, <2>1 DEF Recent
    <3>2. Len(g) - Len(d) + Len(d) = Len(g)  BY <1>1
    <3> QED  BY <3>1, <3>2
  <2>3. \A i \in 1..Len(g) : g[i] <= g[Len(g)]  BY <1>1, <2>1 DEF Ordered
  <2>4. \A i \in 1..Len(g) : g[i] \in Nat  BY ElementOfSeq
  <2>5. \A i \in 1..Len(g) : g[i] <= t - WindowTicks
    BY <1>1, <1>3, <2>1, <2>2, <2>3, <2>4, WindowTicksType
  <2> QED  BY <1>1, <2>5 DEF Recent
<1> QED  BY <1>2, <1>3

\* The passing of time keeps a deque recent.
LEMMA RecentLater ==
  ASSUME NEW g \in Seq(Nat), NEW d \in Seq(Nat), NEW t \in Nat,
         Recent(g, d, t), Ordered(g, t), NEW u \in Nat, t <= u
  PROVE  Recent(g, d, u) /\ Ordered(g, u)
<1>1. Len(g) \in Nat /\ Len(d) \in Nat  BY LenProperties
<1>2. \A i \in 1..Len(g) : g[i] \in Nat  BY ElementOfSeq
<1>3. \A i \in 1..Len(g) - Len(d) : i \in 1..Len(g)  BY <1>1 DEF Recent
<1>4. Recent(g, d, u)
  <2>1. \A i \in 1..Len(g) - Len(d) : g[i] <= t - WindowTicks  BY DEF Recent
  <2>2. \A i \in 1..Len(g) - Len(d) : g[i] <= u - WindowTicks
    BY <1>2, <1>3, <2>1, WindowTicksType
  <2> QED  BY <2>2 DEF Recent
<1>5. Ordered(g, u)  BY <1>2 DEF Ordered
<1> QED  BY <1>4, <1>5

-----------------------------------------------------------------------------
(* The inductive invariant *)

\* SlidingWindow is not inductive: it needs the link between the deque, which
\* `acquire` looks at, and the history, which the promise is about.
LimiterInv ==
    /\ LimiterTypeOK
    /\ \A ip \in IPs : /\ Recent(granted[ip], Deque(ip), now)
                       /\ Ordered(granted[ip], now)
                       /\ Spaced(granted[ip])

LEMMA DequeType ==
  ASSUME LimiterTypeOK, NEW ip \in IPs
  PROVE  /\ Deque(ip) \in Seq(Nat)
         /\ granted[ip] \in Seq(Nat)
         /\ now - WindowTicks \in Int
         /\ Live(ip) \in Seq(Nat)
<1>1. Deque(ip) \in Seq(Nat)
  <2>1. CASE ip \in DOMAIN launches
    <3>1. launches[ip] \in Seq(Nat)  BY <2>1 DEF LimiterTypeOK
    <3> QED  BY <2>1, <3>1 DEF Deque
  <2>2. CASE ip \notin DOMAIN launches  BY <2>2, EmptySeq DEF Deque
  <2> QED  BY <2>1, <2>2
<1>2. now - WindowTicks \in Int  BY WindowTicksType DEF LimiterTypeOK
<1> QED  BY <1>1, <1>2, DropAgedProperty DEF Live, LimiterTypeOK

\* Forgetting nothing but dead deques, _prune keeps a map of deques recent.
LEMMA PruneProperty ==
  ASSUME NEW map, NEW cutoff \in Int, DOMAIN map \subseteq IPs,
         map \in [DOMAIN map -> Seq(Nat)]
  PROVE  /\ DOMAIN Prune(map, cutoff) \subseteq DOMAIN map
         /\ Prune(map, cutoff) \in [DOMAIN Prune(map, cutoff) -> Seq(Nat)]
         /\ \A x \in DOMAIN Prune(map, cutoff) : Prune(map, cutoff)[x] = map[x]
         /\ \A x \in DOMAIN map \ DOMAIN Prune(map, cutoff) :
               map[x] = <<>> \/ map[x][Len(map[x])] <= cutoff
<1> DEFINE keep == {x \in DOMAIN map : map[x] # <<>> /\ map[x][Len(map[x])] > cutoff}
<1>1. CASE Cardinality(DOMAIN map) < PruneAt
  <2>1. Prune(map, cutoff) = map  BY <1>1 DEF Prune
  <2> QED  BY <2>1
<1>2. CASE ~(Cardinality(DOMAIN map) < PruneAt)
  <2>1. Prune(map, cutoff) = [x \in keep |-> map[x]]  BY <1>2 DEF Prune
  <2>2. DOMAIN Prune(map, cutoff) = keep  BY <2>1
  <2>3. \A x \in DOMAIN map : map[x] # <<>> => map[x][Len(map[x])] \in Nat
    <3> SUFFICES ASSUME NEW x \in DOMAIN map, map[x] # <<>>
                 PROVE  map[x][Len(map[x])] \in Nat
      OBVIOUS
    <3>1. map[x] \in Seq(Nat)  OBVIOUS
    <3>2. Len(map[x]) \in 1..Len(map[x])  BY <3>1, EmptySeq
    <3> QED  BY <3>1, <3>2, ElementOfSeq
  <2>4. \A x \in DOMAIN map \ keep : map[x] = <<>> \/ map[x][Len(map[x])] <= cutoff
    BY <2>3
  <2> QED  BY <2>1, <2>2, <2>4
<1> QED  BY <1>1, <1>2

\* The part of the invariant that is about one client
ClientInv(g, d, t) == Recent(g, d, t) /\ Ordered(g, t) /\ Spaced(g)

\* A map with one deque replaced
LEMMA TrackingProperty ==
  ASSUME LimiterTypeOK, NEW ip \in IPs, NEW q \in Seq(Nat)
  PROVE  /\ DOMAIN Tracking(ip, q) = DOMAIN launches \cup {ip}
         /\ Tracking(ip, q) \in [DOMAIN Tracking(ip, q) -> Seq(Nat)]
         /\ Tracking(ip, q)[ip] = q
         /\ \A x \in DOMAIN launches : x # ip => Tracking(ip, q)[x] = launches[x]
BY DEF Tracking, LimiterTypeOK

\* Charging a launch, whatever happens to the slot
LEMMA ChargePreserves ==
  ASSUME LimiterInv, NEW ip \in IPs \cup {NoIP}, UnderRate(ip), Charge(ip), now' = now
  PROVE  /\ DOMAIN launches' \subseteq IPs
         /\ launches' \in [DOMAIN launches' -> Seq(Nat)]
         /\ granted' \in [IPs -> Seq(Nat)]
         /\ \A x \in IPs : ClientInv(granted'[x], Deque(x)', now')
<1>1. CASE ip = NoIP
  <2>1. UNCHANGED <<launches, granted, now>>  BY <1>1 DEF Charge
  <2>2. \A x : Deque(x)' = Deque(x)  BY <2>1 DEF Deque
  <2> QED  BY <2>1, <2>2 DEF LimiterInv, LimiterTypeOK, ClientInv
<1>2. CASE ip \in IPs
  <2> DEFINE q == Append(Live(ip), now)
             map == Tracking(ip, q)
             cutoff == now - WindowTicks
  <2>1. /\ Deque(ip) \in Seq(Nat) /\ Live(ip) \in Seq(Nat)
        /\ granted[ip] \in Seq(Nat) /\ now \in Nat /\ cutoff \in Int
    BY <1>2, DequeType DEF LimiterInv, LimiterTypeOK
  <2>2. ip # NoIP  BY <1>2, LimiterAssumption
  <2>3. Len(Live(ip)) < PerIP  BY <2>2 DEF UnderRate
  <2>4. q \in Seq(Nat)  BY <2>1
  <2>5. /\ launches' = Prune(map, cutoff)
        /\ granted' = [granted EXCEPT ![ip] = Append(@, now)]
    BY <2>2 DEF Charge
  <2>6. /\ DOMAIN map = DOMAIN launches \cup {ip}
        /\ map \in [DOMAIN map -> Seq(Nat)]
        /\ map[ip] = q
        /\ \A x \in DOMAIN launches : x # ip => map[x] = launches[x]
    BY <1>2, <2>4, TrackingProperty, Zenon DEF LimiterInv
  <2>7. DOMAIN map \subseteq IPs  BY <1>2, <2>6 DEF LimiterInv, LimiterTypeOK
  <2> HIDE DEF map
  <2>8. /\ DOMAIN launches' \subseteq DOMAIN map
        /\ launches' \in [DOMAIN launches' -> Seq(Nat)]
        /\ \A x \in DOMAIN launches' : launches'[x] = map[x]
        /\ \A x \in DOMAIN map \ DOMAIN launches' :
              map[x] = <<>> \/ map[x][Len(map[x])] <= cutoff
    BY <2>1, <2>5, <2>6, <2>7, PruneProperty, Zenon
  <2>9. granted' \in [IPs -> Seq(Nat)]
    <3>1. Append(granted[ip], now) \in Seq(Nat)  BY <2>1
    <3> QED  BY <1>2, <2>5, <3>1 DEF LimiterInv, LimiterTypeOK
  <2>10. ClientInv(granted'[ip], q, now)
    <3>1. Recent(granted[ip], Live(ip), now)
      BY <1>2, <2>1, RecentAfterDrop DEF LimiterInv, Live
    <3>2. granted'[ip] = Append(granted[ip], now)
      BY <1>2, <2>5 DEF LimiterInv, LimiterTypeOK
    <3> QED
      BY <1>2, <2>1, <2>3, <3>1, <3>2, ChargeKeepsSpacing, Zenon DEF LimiterInv, ClientInv
  <2>11. \A x \in IPs : x # ip => ClientInv(granted'[x], Deque(x), now)
    BY <2>5 DEF LimiterInv, LimiterTypeOK, ClientInv
  <2>12. ASSUME NEW x \in IPs PROVE ClientInv(granted'[x], Deque(x)', now')
    <3> DEFINE d == IF x = ip THEN q ELSE Deque(x)
    <3>1. ClientInv(granted'[x], d, now)  BY <2>10, <2>11
    <3>2. d \in Seq(Nat)  BY <2>4, DequeType DEF LimiterInv
    <3>3. x \in DOMAIN map => map[x] = d  BY <2>6, Zenon DEF Deque
    <3>4. x \notin DOMAIN map => d = <<>>  BY <2>6 DEF Deque
    <3>5. CASE x \in DOMAIN launches'
      <4>1. Deque(x)' = d  BY <2>8, <3>3, <3>5, Zenon DEF Deque
      <4> QED  BY <3>1, <4>1
    <3>6. CASE x \notin DOMAIN launches'
      <4>1. Deque(x)' = <<>>  BY <3>6 DEF Deque
      <4>2. d = <<>> \/ d[Len(d)] <= now - WindowTicks  BY <2>8, <3>3, <3>4, <3>6, Zenon
      <4>3. granted'[x] \in Seq(Nat)  BY <2>9
      <4> HIDE DEF d
      <4>4. Recent(granted'[x], <<>>, now)
        BY <2>1, <3>1, <3>2, <4>2, <4>3, RecentAfterPrune, Zenon DEF ClientInv
      <4> QED  BY <3>1, <4>1, <4>4 DEF ClientInv
    <3> QED  BY <3>5, <3>6
  <2> QED  BY <2>7, <2>8, <2>9, <2>12
<1> QED  BY <1>1, <1>2

\* A rate refusal only drops aged launches, and its Retry-After is a number.
LEMMA RefuseRatePreserves ==
  ASSUME LimiterInv, NEW ip \in IPs \cup {NoIP}, RefuseRate(ip)
  PROVE  LimiterInv'
<1>1. ip \in IPs  BY DEF RefuseRate, UnderRate
<1>2. /\ Deque(ip) \in Seq(Nat) /\ Live(ip) \in Seq(Nat)
      /\ granted[ip] \in Seq(Nat) /\ now \in Nat
  BY <1>1, DequeType DEF LimiterInv, LimiterTypeOK
<1>3. /\ launches' = Tracking(ip, Live(ip))
      /\ UNCHANGED <<now, active, granted>>
  BY DEF RefuseRate
<1>4. /\ DOMAIN launches' = DOMAIN launches \cup {ip}
      /\ launches' \in [DOMAIN launches' -> Seq(Nat)]
      /\ launches'[ip] = Live(ip)
      /\ \A x \in DOMAIN launches : x # ip => launches'[x] = launches[x]
  <2> DEFINE map == Tracking(ip, Live(ip))
  <2>1. LimiterTypeOK  BY DEF LimiterInv
  <2>2. /\ DOMAIN map = DOMAIN launches \cup {ip}
        /\ map \in [DOMAIN map -> Seq(Nat)]
        /\ map[ip] = Live(ip)
        /\ \A x \in DOMAIN launches : x # ip => map[x] = launches[x]
    BY <1>1, <1>2, <2>1, TrackingProperty, Zenon
  <2>3. launches' = map  BY <1>3
  <2> HIDE DEF map
  <2> QED  BY <2>2, <2>3
<1>5. refusal' \in [IPs -> [at : Nat, retry : Nat, after : Nat \cup {-1}]]
  <2>1. Len(Live(ip)) >= PerIP /\ Len(Live(ip)) \in Nat /\ PerIP \in Nat \ {0}
    BY <1>1, <1>2, LimiterAssumption, LenProperties DEF RefuseRate, UnderRate
  <2>2. Live(ip)[1] \in Nat  BY <1>2, <2>1, ElementOfSeq
  <2>3. RetryAfter(ip) \in Nat
    <3>1. PICK ticks \in Int : ticks = Live(ip)[1] + WindowTicks - now
      BY <1>2, <2>2, WindowTicksType
    <3>2. TicksPerSecond \in Nat \ {0}  BY LimiterAssumption
    <3>3. CeilSeconds(ticks) \in Int  BY <3>2 DEF CeilSeconds
    <3> QED  BY <3>1, <3>3 DEF RetryAfter, Larger
  <2>4. Len(granted[ip]) \in Nat  BY <1>2, LenProperties
  <2> QED  BY <1>1, <1>2, <2>3, <2>4 DEF RefuseRate, LimiterInv, LimiterTypeOK
<1>6. LimiterTypeOK'  BY <1>1, <1>3, <1>4, <1>5 DEF LimiterInv, LimiterTypeOK
<1>7. ASSUME NEW x \in IPs PROVE Recent(granted[x], Deque(x)', now)
  <2>1. CASE x = ip
    <3>1. Deque(x)' = DropAged(Deque(ip), now - WindowTicks)
      BY <1>4, <2>1 DEF Deque, Live
    <3> QED  BY <1>1, <1>2, <2>1, <3>1, RecentAfterDrop DEF LimiterInv
  <2>2. CASE x # ip
    <3>1. Deque(x)' = Deque(x)  BY <1>4, <2>2 DEF Deque
    <3> QED  BY <3>1 DEF LimiterInv
  <2> QED  BY <2>1, <2>2
<1> QED  BY <1>3, <1>6, <1>7 DEF LimiterInv

LEMMA TickPreserves ==
  ASSUME LimiterInv, Tick
  PROVE  LimiterInv'
<1>1. now \in Nat /\ now' = now + 1 /\ UNCHANGED <<launches, active, granted, refusal>>
  BY DEF Tick, LimiterInv, LimiterTypeOK
<1>2. LimiterTypeOK'  BY <1>1 DEF LimiterInv, LimiterTypeOK
<1>3. ASSUME NEW x \in IPs
      PROVE  Recent(granted[x], Deque(x), now') /\ Ordered(granted[x], now')
  <2>1. Deque(x) \in Seq(Nat) /\ granted[x] \in Seq(Nat)
    BY DequeType DEF LimiterInv
  <2>2. now' \in Nat /\ now <= now'  BY <1>1
  <2> QED  BY <1>1, <2>1, <2>2, RecentLater DEF LimiterInv
<1>4. \A x : Deque(x)' = Deque(x)  BY <1>1 DEF Deque
<1> QED  BY <1>1, <1>2, <1>3, <1>4 DEF LimiterInv

\* A step that leaves the clock, the deques and the history alone
LEMMA SlotStepPreserves ==
  ASSUME LimiterInv, UNCHANGED <<now, launches, granted, refusal>>,
         active' \in 0..MaxConcurrent
  PROVE  LimiterInv'
<1>1. \A x : Deque(x)' = Deque(x)  BY DEF Deque
<1> QED  BY <1>1 DEF LimiterInv, LimiterTypeOK

LEMMA LimiterInitially == LimiterInit => LimiterInv
<1> SUFFICES ASSUME LimiterInit PROVE LimiterInv  OBVIOUS
<1>1. <<>> \in Seq(Nat) /\ Len(<<>>) = 0  BY EmptySeq
<1>2. LimiterTypeOK
  <2>1. DOMAIN launches = {}  BY DEF LimiterInit
  <2>2. launches \in [DOMAIN launches -> Seq(Nat)]  BY <2>1 DEF LimiterInit
  <2> QED  BY <1>1, <2>1, <2>2, LimiterAssumption DEF LimiterInit, LimiterTypeOK
<1>3. ASSUME NEW x \in IPs
      PROVE  Recent(granted[x], Deque(x), now) /\ Ordered(granted[x], now) /\ Spaced(granted[x])
  <2>1. granted[x] = <<>> /\ Deque(x) = <<>>  BY DEF LimiterInit, Deque
  <2> QED  BY <1>1, <2>1 DEF Recent, Ordered, Spaced
<1> QED  BY <1>2, <1>3 DEF LimiterInv

LEMMA LimiterStep == LimiterInv /\ [LimiterNext]_limiterVars => LimiterInv'
<1> SUFFICES ASSUME LimiterInv, [LimiterNext]_limiterVars
             PROVE  LimiterInv'
  OBVIOUS
<1>1. active \in 0..MaxConcurrent /\ MaxConcurrent \in Nat
  BY LimiterAssumption DEF LimiterInv, LimiterTypeOK
<1>2. ASSUME NEW ip \in IPs \cup {NoIP}, Acquire(ip)
      PROVE  LimiterInv'
  <2>1. active' \in 0..MaxConcurrent  BY <1>1, <1>2 DEF Acquire, SlotFree
  <2>2. /\ DOMAIN launches' \subseteq IPs
        /\ launches' \in [DOMAIN launches' -> Seq(Nat)]
        /\ granted' \in [IPs -> Seq(Nat)]
        /\ \A x \in IPs : ClientInv(granted'[x], Deque(x)', now')
    BY <1>2, ChargePreserves DEF Acquire
  <2> QED  BY <1>2, <2>1, <2>2 DEF Acquire, LimiterInv, LimiterTypeOK, ClientInv
<1>3. ASSUME NEW ip \in IPs \cup {NoIP}, RefuseConcurrency(ip)
      PROVE  LimiterInv'
  BY <1>1, <1>3, SlotStepPreserves DEF RefuseConcurrency, limiterVars
<1>4. ASSUME NEW ip \in IPs \cup {NoIP}, RefuseRate(ip)
      PROVE  LimiterInv'
  BY <1>4, RefuseRatePreserves
<1>5. CASE RunEnds
  <2>1. active' \in 0..MaxConcurrent  BY <1>1, <1>5 DEF RunEnds, Release, Larger
  <2> QED  BY <1>5, <2>1, SlotStepPreserves DEF RunEnds, Release
<1>6. CASE Tick  BY <1>6, TickPreserves
<1>7. CASE UNCHANGED limiterVars
  BY <1>1, <1>7, SlotStepPreserves DEF limiterVars
<1> QED  BY <1>2, <1>3, <1>4, <1>5, <1>6, <1>7 DEF LimiterNext

\* The run limiter is type correct, keeps the promise of its docstring (at most
\* RUN_RATE_LIMIT_PER_IP launches of a client in any sliding window) and never
\* forgets a launch that still counts.
THEOREM LimiterCorrect ==
  LimiterSpec => [](LimiterTypeOK /\ SlidingWindow /\ NoLiveLaunchForgotten)
<1>1. LimiterInv => LimiterTypeOK /\ SlidingWindow /\ NoLiveLaunchForgotten
  BY DEF LimiterInv, SlidingWindow, NoLiveLaunchForgotten
<1> QED  BY <1>1, LimiterInitially, LimiterStep, PTL DEF LimiterSpec

=============================================================================
