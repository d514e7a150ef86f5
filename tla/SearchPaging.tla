----------------------------- MODULE SearchPaging -----------------------------
(***************************************************************************)
(* AcdpClient.search_all (acdp_client/client.py): the pages of a search.   *)
(*                                                                         *)
(* The registry pages over its storage and filters each page by what the   *)
(* requester may see, so a page may be empty and not the last; while the   *)
(* caller pages, contexts are published behind the cursor's reach or       *)
(* retracted.  A registry that misbehaves serves cursors for ever.         *)
(***************************************************************************)
EXTENDS Naturals, Sequences, FiniteSets, SequencesExt

CONSTANTS
    MaxRows,      \* bound on the rows in storage, numbered from 1
    PageSize,     \* storage rows of a page
    MaxPages,     \* max_pages
    CursorErrors  \* cursors may be refused (invalid_cursor, cursor_expired)

ASSUME PagingAssumption ==
    /\ MaxRows \in Nat /\ PageSize \in Nat \ {0} /\ MaxPages \in Nat
    /\ CursorErrors \in BOOLEAN

NoCursor == 0

VARIABLES
    honest,   \* the registry serves the cursor of the next row
    rows,     \* rows in storage
    visible,  \* the rows the requester may see
    hidden,   \* rows that were visible during the search and are not any more
    cursor,   \* the cursor of the next request; row cursor is the last paged
    pages,    \* pages asked for
    yielded,  \* the hits yielded so far, in order
    state     \* of the generator

searchVars == <<honest, rows, visible, hidden, cursor, pages, yielded, state>>

SearchInit ==
    /\ honest \in BOOLEAN
    /\ rows \in 0 .. MaxRows /\ visible \in SUBSET (1 .. rows) /\ hidden = {}
    /\ cursor = NoCursor /\ pages = 0 /\ yielded = << >>
    /\ state = "created"

\* The storage rows of the page after row cur (external).
Page(cur) == {i \in (cur + 1) .. (cur + PageSize) : i <= rows}

\* next_cursor (external): the last row of the page if more rows follow.
NextCursors(cur) ==
    IF ~honest THEN 0 .. MaxRows
    ELSE {IF cur + PageSize < rows THEN cur + PageSize ELSE NoCursor}

\* Mutant: an empty page ends the search.
LastPageEmpty(matches, next) == next = NoCursor \/ matches = {}

\* if not resp.next_cursor: return
LastPage(matches, next) == next = NoCursor

\* for _ in range(max_pages)
Bound(n) == n >= MaxPages

\* The caller asks for the first hit: only now the generator runs.
Iterate ==
    /\ state = "created"
    /\ state' = "paging"
    /\ UNCHANGED <<honest, rows, visible, hidden, cursor, pages, yielded>>

\* One page: its matches are yielded, then the generator stops or goes on.
Search ==
    /\ state = "paging" /\ ~Bound(pages)
    /\ \E next \in NextCursors(cursor) :
          LET matches == Page(cursor) \cap visible
          IN  /\ yielded' = yielded \o SetToSortSeq(matches, LAMBDA a, b : a < b)
              /\ state' = IF LastPage(matches, next) THEN "done" ELSE "paging"
              /\ cursor' = next
    /\ pages' = pages + 1
    /\ UNCHANGED <<honest, rows, visible, hidden>>

\* _raise_cursor_error: 400 with invalid_cursor or cursor_expired.
CursorRefused ==
    /\ CursorErrors /\ state = "paging" /\ ~Bound(pages) /\ cursor # NoCursor
    /\ state' = "CursorError"
    /\ pages' = pages + 1
    /\ UNCHANGED <<honest, rows, visible, hidden, cursor, yielded>>

\* The page after the last allowed one is not asked for.
Truncate ==
    /\ state = "paging" /\ Bound(pages)
    /\ state' = "truncated"
    /\ UNCHANGED <<honest, rows, visible, hidden, cursor, pages, yielded>>

\* Meanwhile contexts are published and retracted (external).
Publish ==
    /\ state = "paging" /\ rows < MaxRows
    /\ rows' = rows + 1
    /\ visible' = visible \cup {rows + 1}
    /\ UNCHANGED <<honest, hidden, cursor, pages, yielded, state>>

Retract ==
    /\ state = "paging"
    /\ \E i \in visible : visible' = visible \ {i} /\ hidden' = hidden \cup {i}
    /\ UNCHANGED <<honest, rows, cursor, pages, yielded, state>>

SearchNext == Iterate \/ Search \/ CursorRefused \/ Truncate \/ Publish \/ Retract

\* Every request is answered.
SearchSpec == SearchInit /\ [][SearchNext]_searchVars /\ WF_searchVars(Search \/ Truncate)

-------------------------------------------------------------------------------
(* Properties *)

\* client.py 790-796: a search that runs to its end has yielded every match that
\* was visible throughout, empty pages on the way notwithstanding, and yielded
\* no match twice and none out of order, whatever is published or retracted
\* meanwhile.
EveryMatchOnce ==
    honest =>
        /\ \A i, j \in DOMAIN yielded : i < j => yielded[i] < yielded[j]
        /\ state = "done" => visible \subseteq ToSet(yielded)
        /\ ToSet(yielded) \subseteq visible \cup hidden

\* client.py 777-819: the search ends, with a cursor error or without, even when
\* the registry serves cursors for ever.
SearchEnds == state = "paging" ~> state # "paging"
===============================================================================
