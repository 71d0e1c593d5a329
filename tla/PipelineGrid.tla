---------------------------- MODULE PipelineGrid ----------------------------
(***************************************************************************)
(* The grid of a team's pipelines (PipelineListPage, PipelineList.js): a   *)
(* page of it at a time, by search and sort order, which are kept in the   *)
(* URL.  The server counts what matches and then reads the rows of the     *)
(* page, in two statements; pipelines come and go meanwhile.               *)
(***************************************************************************)
EXTENDS Router, Integers, FiniteSets

CONSTANTS
    Searches,     \* what can be typed; NoSearch is one of them
    NoSearch,     \* the empty search
    Matching,     \* of a search: the most pipelines that match it
    GridPage,     \* PAGE_SIZE
    MaxGridReqs,  \* bound: requests in flight
    MaxGridEdits, \* bound: pipelines that come or go
    GridLinks     \* URLs the page is opened with

ASSUME GridAssumption ==
    /\ NoSearch \in Searches /\ "none" \notin Searches
    /\ Matching \in [Searches -> Nat]
    /\ GridPage \in Nat \ {0} /\ MaxGridReqs \in Nat /\ MaxGridEdits \in Nat
    /\ GridLinks \subseteq [page : Nat, q : Searches \union {"none"}, sort : STRING]

VARIABLES
    lTotal,    \* server: the number of pipelines each search matches
    lEdits,    \* server: pipelines that came or went
    lAt,       \* page, q and sort of the list state
    lTyped,    \* what is typed in the search field
    lTimer,    \* the pause after a keystroke is running
    lUrl,      \* the query of the URL
    lReqs,     \* requests in flight
    lShown,    \* pipelines and meta: the page they are of and their number
    lMissed    \* history: the last request failed, or counted a pipeline that
               \* was gone when the rows were read

gridVars == <<lTotal, lEdits, lAt, lTyped, lTimer, lUrl, lReqs, lShown, lMissed>>

SORTS == {"name", "created"}
ListState == [page : Nat \ {0}, q : Searches, sort : SORTS]
NoShown == [at |-> [page |-> 1, q |-> NoSearch, sort |-> "name"], n |-> 0, total |-> 0]

ceil(n) == (n + GridPage - 1) \div GridPage
Lesser(a, b) == IF a < b THEN a ELSE b

\* rows of a page out of the pipelines that match
Rows(s, total) ==
    LET from == (s.page - 1) * GridPage
    IN  IF total <= from THEN 0 ELSE Lesser(GridPage, total - from)

-----------------------------------------------------------------------------
(* A parameter that is not in the URL has the value "none" (page: 0). *)

readListState(u) ==
    [page |-> IF u.page > 0 THEN u.page ELSE 1,
     q |-> IF u.q = "none" THEN NoSearch ELSE u.q,
     sort |-> IF u.sort \in SORTS THEN u.sort ELSE "name"]

writeListState(s) ==
    [page |-> IF s.page > 1 THEN s.page ELSE 0,
     q |-> IF s.q = NoSearch THEN "none" ELSE s.q,
     sort |-> IF s.sort = "name" THEN "none" ELSE s.sort]

\* The effect of a list state: write the URL, drop the answer of the request
\* before, ask for the page.  It runs when a part of the state has changed.
SetListState(s) ==
    /\ lAt' = s
    /\ IF s = lAt THEN UNCHANGED <<lUrl, lReqs, lMissed>>
       ELSE /\ lUrl' = writeListState(s)
            /\ lReqs' = {[r EXCEPT !.stale = TRUE] : r \in lReqs}
                           \union {[at |-> s, stale |-> FALSE, st |-> "sent", total |-> 0, n |-> 0]}
            /\ lMissed' = FALSE
            /\ Cardinality(lReqs') <= MaxGridReqs

GridIdle ==
    /\ lTotal = Matching /\ lEdits = 0
    /\ lAt = NoShown.at /\ lTyped = NoSearch /\ lTimer = FALSE
    /\ lUrl = writeListState(NoShown.at)
    /\ lReqs = {} /\ lShown = NoShown /\ lMissed = TRUE

\* a link, a reload or the back button: the component is mounted anew and reads
\* its state from the URL
OpenGrid(u) ==
    /\ page' = "grid" /\ page \in {Elsewhere, "grid"}
    /\ page = "grid" => u = lUrl
    /\ LET s == readListState(u)
       IN  /\ lAt' = s /\ lTyped' = s.q /\ lTimer' = FALSE
           /\ lUrl' = writeListState(s)
           /\ lReqs' = {[at |-> s, stale |-> FALSE, st |-> "sent", total |-> 0, n |-> 0]}
    /\ lShown' = NoShown /\ lMissed' = FALSE
    /\ UNCHANGED <<lTotal, lEdits>>

CloseGrid ==
    /\ Leave("grid")
    /\ lTotal' = Matching /\ lEdits' = 0
    /\ lAt' = NoShown.at /\ lTyped' = NoSearch /\ lTimer' = FALSE
    /\ lUrl' = writeListState(NoShown.at)
    /\ lReqs' = {} /\ lShown' = NoShown /\ lMissed' = TRUE

-----------------------------------------------------------------------------
(* The user. *)

TypeSearch(w) ==
    /\ On("grid") /\ w # lTyped
    /\ lTyped' = w
    /\ lTimer' = (w # lAt.q)
    /\ UNCHANGED <<lTotal, lEdits, lAt, lUrl, lReqs, lShown, lMissed>>

\* the pause is over: the search is applied, from its first page
Search ==
    /\ On("grid") /\ lTimer
    /\ SetListState([lAt EXCEPT !.q = lTyped, !.page = 1])
    /\ lTimer' = FALSE
    /\ UNCHANGED <<lTotal, lEdits, lTyped, lShown>>

setSort(o) ==
    /\ On("grid") /\ o # lAt.sort
    /\ SetListState([lAt EXCEPT !.sort = o, !.page = 1])
    /\ UNCHANGED <<lTotal, lEdits, lTyped, lTimer, lShown>>

\* the Pager offers the pages of the count it was last told, but the one it is on
Pager(p) ==
    /\ ceil(lShown.total) > 1
    /\ p \in {1, ceil(lShown.total)} \union {lAt.page - 1, lAt.page + 1}
    /\ p \in 1..ceil(lShown.total) /\ p # lAt.page

setPage(p) ==
    /\ On("grid") /\ Pager(p)
    /\ SetListState([lAt EXCEPT !.page = p])
    /\ UNCHANGED <<lTotal, lEdits, lTyped, lTimer, lShown>>

-----------------------------------------------------------------------------
(* The server: FilterSummary counts and then selects. *)

Put(r, f) == lReqs' = (lReqs \ {r}) \union {f}
Counted(r) == r.st = "sent" /\ Put(r, [r EXCEPT !.st = "counted", !.total = lTotal[r.at.q]])
Selected(r) == r.st = "counted" /\ Put(r, [r EXCEPT !.st = "ok", !.n = Rows(r.at, lTotal[r.at.q])])
Broken(r) == r.st \in {"sent", "counted"} /\ Put(r, [r EXCEPT !.st = "failed"])

FilterSummary(r) ==
    /\ On("grid")
    /\ Counted(r) \/ Selected(r) \/ Broken(r)
    /\ UNCHANGED <<lTotal, lEdits, lAt, lTyped, lTimer, lUrl, lShown, lMissed>>

\* a pipeline is deleted or created; one that a search matches is of the
\* unsearched list too
PipelineEdited(w, d) ==
    /\ On("grid") /\ lEdits < MaxGridEdits
    /\ LET t == [v \in Searches |-> IF v \in {w, NoSearch} THEN lTotal[v] + d ELSE lTotal[v]]
       IN  (\A v \in Searches : t[v] \in 0..Matching[v]) /\ lTotal' = t
    /\ lEdits' = lEdits + 1
    /\ UNCHANGED <<lAt, lTyped, lTimer, lUrl, lReqs, lShown, lMissed>>

-----------------------------------------------------------------------------
(* The answers. *)

\* the answer of a request that another has followed is dropped
StaleAnswer(r) ==
    /\ On("grid") /\ r.st \in {"ok", "failed"} /\ r.stale
    /\ lReqs' = lReqs \ {r}
    /\ UNCHANGED <<lTotal, lEdits, lAt, lTyped, lTimer, lUrl, lShown, lMissed>>

\* Mutant: an empty page is shown whatever its number.
PageGone_Never(r) == FALSE

\* the page no longer exists
PageGone(r) == r.at.page > 1 /\ r.n = 0 /\ r.total > 0

\* land on the last page that does; nothing is asked if that is the same page
LastPage(r) ==
    /\ On("grid") /\ r.st = "ok" /\ ~r.stale /\ PageGone(r)
    /\ LET s == [lAt EXCEPT !.page = ceil(r.total)]
           rest == lReqs \ {r}
       IN  /\ lAt' = s
           /\ IF s = lAt THEN lReqs' = rest /\ lMissed' = TRUE /\ lUrl' = lUrl
              ELSE /\ lUrl' = writeListState(s)
                   /\ lReqs' = rest \union {[at |-> s, stale |-> FALSE, st |-> "sent", total |-> 0, n |-> 0]}
                   /\ lMissed' = FALSE
    /\ UNCHANGED <<lTotal, lEdits, lTyped, lTimer, lShown>>

PageAnswered(r) ==
    /\ On("grid") /\ r.st = "ok" /\ ~r.stale /\ ~PageGone(r)
    /\ lShown' = [at |-> r.at, n |-> r.n, total |-> r.total]
    /\ lReqs' = lReqs \ {r}
    /\ UNCHANGED <<lTotal, lEdits, lAt, lTyped, lTimer, lUrl, lMissed>>

PageFailed(r) ==
    /\ On("grid") /\ r.st = "failed" /\ ~r.stale
    /\ lReqs' = lReqs \ {r}
    /\ lMissed' = TRUE
    /\ UNCHANGED <<lTotal, lEdits, lAt, lTyped, lTimer, lUrl, lShown>>

GridNext ==
    \/ \E u \in GridLinks \union {lUrl} : OpenGrid(u)
    \/ CloseGrid
    \/ \E w \in Searches : TypeSearch(w) \/ \E d \in {1, -1} : PipelineEdited(w, d)
    \/ Search
    \/ \E o \in SORTS : setSort(o)
    \/ \E p \in 1..ceil(Matching[NoSearch]) : setPage(p)
    \/ \E r \in lReqs : \/ FilterSummary(r) \/ StaleAnswer(r) \/ LastPage(r)
                        \/ PageAnswered(r) \/ PageFailed(r)

GridSpec == page = Elsewhere /\ GridIdle /\ [][GridNext]_<<page, gridVars>>

-----------------------------------------------------------------------------
GridTypeOK ==
    /\ lTotal \in [Searches -> Nat] /\ lEdits \in 0..MaxGridEdits
    /\ lAt \in ListState /\ lTyped \in Searches /\ lTimer \in BOOLEAN
    /\ \A r \in lReqs : r.at \in ListState /\ r.stale \in BOOLEAN /\ r.n \in 0..GridPage
    /\ lShown.at \in ListState /\ lMissed \in BOOLEAN

\* When the grid waits for nothing, it shows the page, search and order that
\* its fields and its URL name, and a page is shown without pipelines only if
\* there are none to show, whatever order the answers came in and however the
\* count shrank; and a search that is typed is never forgotten
\* (PipelineListPage: the effects of the list state and of the typed text).
GridCurrent ==
    page = "grid" =>
        /\ readListState(lUrl) = lAt
        /\ lTyped # lAt.q <=> lTimer
        /\ Cardinality({r \in lReqs : ~r.stale}) <= 1
        /\ (\A r \in lReqs : r.stale) /\ ~lMissed =>
               /\ lShown.at = lAt
               /\ lShown.n = 0 => lShown.at.page = 1 \/ lShown.total = 0
=============================================================================
