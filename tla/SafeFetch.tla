------------------------------- MODULE SafeFetch -------------------------------
(***************************************************************************)
(* The guarded fetch of a data_refs[] entry (safe_http.py): fetch screens  *)
(* a URL and every address its host resolves to, gets it, and follows a    *)
(* redirect within the same authority, up to max_redirects of them;        *)
(* fetch_data_ref checks the bytes against the entry's content_hash.  DNS  *)
(* and the server answer afresh at every hop.  The verdicts on a URL's     *)
(* shape and on an address belong to the Rust policy and are data here.    *)
(***************************************************************************)
EXTENDS Naturals, Sequences

CONSTANTS
    Authorities,    \* scheme, host and effective port
    MaxRedirects    \* SsrfPolicy.max_redirects

ASSUME FetchAssumption == MaxRedirects \in Nat /\ Authorities # {}

\* A URL: two pages of an authority can redirect to each other.
Urls == [authority : Authorities, page : {1, 2}, shape : {"fine", "refused"}]
Addresses == {"public", "forbidden"}
Hashes == {"none", "sha256", "other"}   \* algorithm of content_hash

VARIABLES
    ref,      \* the entry: its location, whether it has one, its hash
    current,  \* the URL the loop is at
    left,     \* iterations left of range(max_redirects + 1)
    gets,     \* the requests made: URL and the addresses screened for it
    bytes,    \* what the last response held: [fits, matches]
    result    \* "running", "data" or the reason of the exception

fetchVars == <<ref, current, left, gets, bytes, result>>

\* Mutant: range counts one more.
FetchInitOneMore ==
    /\ ref \in [url : Urls, located : BOOLEAN, hash : Hashes]
    /\ current = ref.url
    /\ left = MaxRedirects + 2
    /\ gets = <<>>
    /\ bytes = [fits |-> FALSE, matches |-> FALSE]
    /\ result = IF ref.located THEN "running" ELSE "no_location"

FetchInit ==
    /\ ref \in [url : Urls, located : BOOLEAN, hash : Hashes]
    /\ current = ref.url
    /\ left = MaxRedirects + 1
    /\ gets = <<>>
    /\ bytes = [fits |-> FALSE, matches |-> FALSE]
    /\ result = IF ref.located THEN "running" ELSE "no_location"

Refuse(reason) == result' = reason /\ UNCHANGED <<ref, current, left, gets, bytes>>

\* check_url, then screen_host on one answer of the resolver.
ScreenedUrl(url) == url.shape = "fine"
ScreenedHost(answers) == answers # {} /\ "forbidden" \notin answers

Blocked(answers) ==
    /\ result = "running" /\ left > 0
    /\ ~(ScreenedUrl(current) /\ ScreenedHost(answers))
    /\ Refuse("blocked")

\* The request of one iteration.
Get(answers) ==
    /\ result = "running" /\ left > 0
    /\ ScreenedUrl(current) /\ ScreenedHost(answers)
    /\ gets' = Append(gets, [url |-> current, answers |-> answers])
    /\ left' = left - 1

\* Mutant: the comparison is left out.
AnyAuthority(u, v) == TRUE

\* A redirect: without a Location, across the authority, or followed.
SameAuthority(u, v) == u.authority = v.authority

Redirect(answers, target) ==
    /\ Get(answers)
    /\ IF SameAuthority(current, target)
       THEN current' = target /\ result' = result
       ELSE current' = current /\ result' = "cross_authority_redirect"
    /\ UNCHANGED <<ref, bytes>>

BadRedirect(answers) ==
    /\ Get(answers)
    /\ result' = "bad_redirect"
    /\ UNCHANGED <<ref, current, bytes>>

\* The verdict on the bytes: the size in fetch, the hash in fetch_data_ref.
Verdict(fits, matches) ==
    CASE ~fits -> "response_too_large"
      [] fits /\ ref.hash = "other" -> "unsupported_algorithm"
      [] fits /\ ref.hash = "sha256" /\ ~matches -> "hash_mismatch"
      [] OTHER -> "data"

Content(answers, fits, matches) ==
    /\ Get(answers)
    /\ bytes' = [fits |-> fits, matches |-> matches]
    /\ result' = Verdict(fits, matches)
    /\ UNCHANGED <<ref, current>>

\* The connection fails or times out.
Broken(answers) ==
    /\ Get(answers)
    /\ result' = "http_error"
    /\ UNCHANGED <<ref, current, bytes>>

TooManyRedirects ==
    /\ result = "running" /\ left = 0
    /\ Refuse("too_many_redirects")

Hop(answers) ==
    \/ Blocked(answers)
    \/ \E target \in Urls : Redirect(answers, target)
    \/ BadRedirect(answers)
    \/ \E fits, matches \in BOOLEAN : Content(answers, fits, matches)
    \/ Broken(answers)

FetchNext == TooManyRedirects \/ \E answers \in SUBSET Addresses : Hop(answers)

\* Every await of fetch is a request with a timeout.
FetchSpec == FetchInit /\ [][FetchNext]_fetchVars /\ WF_fetchVars(FetchNext)

-------------------------------------------------------------------------------
(* Properties *)

\* Every request goes to the authority of the entry's location, over a whole
\* answer of the resolver without a forbidden address: the redirects compare
\* neighbours only, and DNS may change its mind between hops.
GetsAreScreened ==
    \A i \in DOMAIN gets :
        /\ gets[i].url.authority = ref.url.authority
        /\ gets[i].url.shape = "fine"
        /\ gets[i].answers = {"public"}

\* A fetch costs at most max_redirects + 1 requests.
GetsAreBounded == Len(gets) <= MaxRedirects + 1

\* Data is handed on only when it fits max_bytes and, if the entry carries a
\* content_hash, when the hash is a sha256 that matches: "a mismatch raises
\* DataRefHashMismatch and the data MUST NOT be reported as verified".
DataIsVerified ==
    result = "data" =>
        bytes.fits /\ (ref.hash # "none" => ref.hash = "sha256" /\ bytes.matches)

\* The fetch ends, although the server may redirect for ever.
FetchEnds == <>(result # "running")
================================================================================
