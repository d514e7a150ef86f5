---------------------------- MODULE SafeFetchProofs ----------------------------
(***************************************************************************)
(* The guarantees of the guarded fetch for every set of authorities and    *)
(* every redirect limit.                                                   *)
(***************************************************************************)
EXTENDS SafeFetch, TLAPS

Gets == [url : Urls, answers : SUBSET Addresses]

FetchTypeOK ==
    /\ ref \in [url : Urls, located : BOOLEAN, hash : Hashes]
    /\ current \in Urls
    /\ left \in Nat
    /\ gets \in Seq(Gets)
    /\ bytes \in [fits : BOOLEAN, matches : BOOLEAN]

\* The loop never leaves the authority it started at, and what it has spent
\* and what it has left add up to the limit.
FetchInv ==
    /\ FetchTypeOK
    /\ current.authority = ref.url.authority
    /\ Len(gets) + left = MaxRedirects + 1
    /\ GetsAreScreened
    /\ DataIsVerified

\* A fresh fetch has made no request.
LEMMA InitFetch == FetchInit => FetchInv
BY FetchAssumption DEF FetchInit, FetchInv, FetchTypeOK, GetsAreScreened, DataIsVerified, Gets

\* The request of one iteration (http.get in fetch) keeps the log of requests
\* screened and the budget exact.
LEMMA GetKeeps ==
    ASSUME FetchInv, NEW answers \in SUBSET Addresses, Get(answers), ref' = ref
    PROVE  /\ left' \in Nat /\ gets' \in Seq(Gets)
           /\ Len(gets') + left' = MaxRedirects + 1
           /\ GetsAreScreened'
<1> DEFINE g == [url |-> current, answers |-> answers]
<1>1. g \in Gets
  BY DEF Gets, FetchInv, FetchTypeOK
<1>2. gets \in Seq(Gets) /\ left \in Nat /\ gets' = Append(gets, g) /\ left' = left - 1 /\ left > 0
  BY DEF FetchInv, FetchTypeOK, Get
<1>3. answers = {"public"}
  BY DEF Get, ScreenedHost, Addresses
<1>4. left' \in Nat
  BY <1>2
<1>5. gets' \in Seq(Gets) /\ Len(gets') = Len(gets) + 1
  BY <1>1, <1>2
<1>6. Len(gets') + left' = MaxRedirects + 1
  <2>1. Len(gets) \in Nat
    BY <1>2
  <2> QED BY <1>2, <1>5, <2>1, FetchAssumption DEF FetchInv
<1>7. GetsAreScreened'
  <2> SUFFICES ASSUME NEW i \in DOMAIN gets'
               PROVE  /\ gets'[i].url.authority = ref.url.authority
                      /\ gets'[i].url.shape = "fine"
                      /\ gets'[i].answers = {"public"}
    BY DEF GetsAreScreened
  <2>1. CASE i \in DOMAIN gets
    <3>1. gets'[i] = gets[i]
      BY <1>1, <1>2, <2>1
    <3> QED BY <2>1, <3>1 DEF FetchInv, GetsAreScreened
  <2>2. CASE i \notin DOMAIN gets
    <3>1. gets'[i] = g
      BY <1>1, <1>2, <2>2
    <3>2. g.url.authority = ref.url.authority /\ g.url.shape = "fine"
      BY DEF FetchInv, Get, ScreenedUrl
    <3> QED BY <1>3, <3>1, <3>2
  <2> QED BY <2>1, <2>2
<1> QED BY <1>4, <1>5, <1>6, <1>7

\* Every step of fetch and fetch_data_ref keeps the invariant.
LEMMA StepFetch == FetchInv /\ [FetchNext]_fetchVars => FetchInv'
<1> SUFFICES ASSUME FetchInv, [FetchNext]_fetchVars PROVE FetchInv'
  OBVIOUS
<1>1. CASE UNCHANGED fetchVars
  BY <1>1 DEF fetchVars, FetchInv, FetchTypeOK, GetsAreScreened, DataIsVerified
<1>2. ASSUME NEW reason, reason # "data", Refuse(reason) PROVE FetchInv'
  BY <1>2 DEF Refuse, FetchInv, FetchTypeOK, GetsAreScreened, DataIsVerified
<1>3. CASE TooManyRedirects
  BY <1>2, <1>3 DEF TooManyRedirects
<1>4. ASSUME NEW answers \in SUBSET Addresses, Hop(answers) PROVE FetchInv'
  <2>1. CASE Blocked(answers)
    BY <1>2, <2>1 DEF Blocked
  <2>2. ASSUME NEW target \in Urls, Redirect(answers, target) PROVE FetchInv'
    <3>1. Get(answers) /\ ref' = ref /\ bytes' = bytes
      BY <2>2 DEF Redirect
    <3>2. current' \in Urls /\ current'.authority = ref.url.authority
      BY <2>2 DEF Redirect, SameAuthority, FetchInv, FetchTypeOK
    <3>3. result' # "data"
      BY <2>2 DEF Redirect, Get
    <3> QED BY GetKeeps, <3>1, <3>2, <3>3 DEF FetchInv, FetchTypeOK, DataIsVerified
  <2>3. ASSUME Get(answers), UNCHANGED <<ref, current, bytes>>, result' # "data"
        PROVE  FetchInv'
    BY GetKeeps, <2>3 DEF FetchInv, FetchTypeOK, DataIsVerified
  <2>4. CASE BadRedirect(answers)
    BY <2>3, <2>4 DEF BadRedirect
  <2>5. CASE Broken(answers)
    BY <2>3, <2>5 DEF Broken
  <2>6. ASSUME NEW fits \in BOOLEAN, NEW matches \in BOOLEAN, Content(answers, fits, matches)
        PROVE  FetchInv'
    <3>1. Get(answers) /\ UNCHANGED <<ref, current>>
      BY <2>6 DEF Content
    <3>2. bytes' = [fits |-> fits, matches |-> matches] /\ result' = Verdict(fits, matches)
      BY <2>6 DEF Content
    <3>3. DataIsVerified'
      BY <3>1, <3>2 DEF DataIsVerified, Verdict, FetchInv, FetchTypeOK, Hashes
    <3> QED BY GetKeeps, <3>1, <3>2, <3>3 DEF FetchInv, FetchTypeOK
  <2> QED BY <1>4, <2>1, <2>2, <2>4, <2>5, <2>6 DEF Hop
<1> QED BY <1>1, <1>3, <1>4 DEF FetchNext

\* Whatever DNS and the server answer, every request of fetch goes to the
\* authority it was given, over a screened answer.
THEOREM FetchScreened == FetchSpec => []GetsAreScreened
<1>1. FetchInv => GetsAreScreened
  BY DEF FetchInv
<1> QED BY InitFetch, StepFetch, <1>1, PTL DEF FetchSpec

\* A fetch makes at most max_redirects + 1 requests.
THEOREM FetchBounded == FetchSpec => []GetsAreBounded
<1>1. FetchInv => GetsAreBounded
  <2> SUFFICES ASSUME FetchInv PROVE GetsAreBounded
    OBVIOUS
  <2>1. Len(gets) \in Nat /\ left \in Nat
    BY DEF FetchInv, FetchTypeOK
  <2> QED BY <2>1, FetchAssumption DEF FetchInv, GetsAreBounded
<1> QED BY InitFetch, StepFetch, <1>1, PTL DEF FetchSpec

\* fetch_data_ref returns no bytes that exceed the cap or fail the hash.
THEOREM FetchVerified == FetchSpec => []DataIsVerified
<1>1. FetchInv => DataIsVerified
  BY DEF FetchInv
<1> QED BY InitFetch, StepFetch, <1>1, PTL DEF FetchSpec
================================================================================
