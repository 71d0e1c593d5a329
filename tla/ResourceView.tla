---------------------------- MODULE ResourceView ----------------------------
(***************************************************************************)
(* The versions of one resource (ResourceVersions of                       *)
(* assets/js/app/components/Resources.js): the first page, a poll that     *)
(* merges the newest page into the list, older pages fetched by scrolling, *)
(* and the pin.  The callback of the poll returns no promise, so polls     *)
(* overlap and are answered in any order.                                  *)
(***************************************************************************)
EXTENDS Router, Integers, FiniteSets

CONSTANTS
    MaxVersion,     \* bound: versions of the resource
    VersionPage,    \* versions of one answer (50 on the server)
    Pinnable,       \* the versions the user may pin
    MaxFetches      \* bound: requests in flight

ASSUME ResourceAssumption ==
    MaxVersion \in Nat /\ Pinnable \subseteq 1..MaxVersion /\ VersionPage \in Nat \ {0} /\ MaxFetches \in Nat \ {0}

VARIABLES
    latest,     \* the newest version at the server; ids count up
    pinnedAt,   \* the version pinned there, 0 for none
    versions,   \* the versions shown, in the order of their ids
    vOldest, vMore, \* oldestId, hasMore
    vFetching,  \* fetchingMore
    vPinned,    \* pinned_version_id of the resource shown, -1 before it is loaded
    fetches,    \* requests in flight
    behind      \* history: more than a page of versions came between two polls

resourceVars == <<latest, pinnedAt, versions, vOldest, vMore, vFetching, vPinned,
                  fetches, behind>>
paging == <<vOldest, vMore, vFetching>>

VersionIDs == 1..MaxVersion

\* a request; an answer holds the ids from low to high, or the pin
Fetch(k, a) == [kind |-> k, arg |-> a, st |-> "sent", low |-> 1, high |-> 0]
Higher(a, b) == IF a > b THEN a ELSE b
Newest == IF versions = {} THEN 0 ELSE CHOOSE v \in versions : \A w \in versions : w <= v

Behind(top, shownTop) == behind' = (behind \/ (shownTop > 0 /\ top - shownTop > VersionPage))

-----------------------------------------------------------------------------
ResourceIdle ==
    /\ latest = 0 /\ pinnedAt = 0 /\ versions = {}
    /\ vOldest = 0 /\ vMore = FALSE /\ vFetching = FALSE
    /\ vPinned = -1 /\ fetches = {} /\ behind = FALSE

OpenVersions(n) ==
    /\ Enter("resource")
    /\ latest' = n
    /\ fetches' = {Fetch("load", 0), Fetch("resource", 0)}
    /\ UNCHANGED <<pinnedAt, versions, paging, vPinned, behind>>

LeaveVersions ==
    /\ Leave("resource")
    /\ latest' = 0 /\ pinnedAt' = 0 /\ versions' = {}
    /\ vOldest' = 0 /\ vMore' = FALSE /\ vFetching' = FALSE
    /\ vPinned' = -1 /\ fetches' = {} /\ behind' = FALSE

\* the server: a check finds a version
NewVersion ==
    /\ On("resource") /\ latest < MaxVersion
    /\ latest' = latest + 1
    /\ Behind(latest', Newest)
    /\ UNCHANGED <<pinnedAt, versions, paging, vPinned, fetches>>

\* pollCallback: the resource and the newest page
PollVersions ==
    /\ On("resource") /\ Cardinality(fetches) + 2 <= MaxFetches
    /\ fetches' = fetches \union {Fetch("poll", 0), Fetch("resource", 0)}
    /\ UNCHANGED <<latest, pinnedAt, versions, paging, vPinned, behind>>

\* onScroll
onScroll ==
    /\ On("resource") /\ vPinned >= 0 /\ ~vFetching /\ vMore
    /\ vFetching' = TRUE
    /\ fetches' = fetches \union {Fetch("more", vOldest)}
    /\ UNCHANGED <<latest, pinnedAt, versions, vOldest, vMore, vPinned, behind>>

\* The server answers: a page ends below arg, or at the newest version.
AnswerFetch(f) ==
    /\ On("resource") /\ f.st = "sent"
    /\ LET high == IF f.kind = "more" THEN f.arg - 1 ELSE latest
           low == Higher(1, high - VersionPage + 1)
           answer == CASE f.kind = "resource" -> [f EXCEPT !.st = "ok", !.arg = pinnedAt]
                       [] f.kind \in {"pin", "unpin"} -> [f EXCEPT !.st = "ok"]
                       [] OTHER -> [f EXCEPT !.st = "ok", !.low = low, !.high = high]
       IN  fetches' = (fetches \ {f}) \union {answer}
    /\ pinnedAt' = CASE f.kind = "pin" -> f.arg
                     [] f.kind = "unpin" -> 0
                     [] OTHER -> pinnedAt
    /\ UNCHANGED <<latest, versions, paging, vPinned, behind>>

-----------------------------------------------------------------------------
(* Answers. *)

Fetched(f, k) == On("resource") /\ f.kind = k /\ f.st = "ok" /\ fetches' = fetches \ {f}

\* the ids an answer holds
PageOf(f) == f.low..f.high
Meta(f) == /\ vMore' = (f.low > 1 /\ f.high > 0)
           /\ vOldest' = IF f.high = 0 THEN 0 ELSE f.low

\* the initial page replaces whatever a poll has shown meanwhile
LoadVersions(f) ==
    /\ Fetched(f, "load")
    /\ versions' = PageOf(f)
    /\ Meta(f)
    /\ Behind(latest, f.high)
    /\ UNCHANGED <<latest, pinnedAt, vFetching, vPinned>>

\* Mutant: the poll's page replaces the versions.
MergeVersions_Replaced(f) ==
    /\ Fetched(f, "poll")
    /\ versions' = PageOf(f)
    /\ UNCHANGED <<latest, pinnedAt, paging, vPinned, behind>>

\* the poll's page is merged
MergeVersions(f) ==
    /\ Fetched(f, "poll")
    /\ versions' = versions \union PageOf(f)
    /\ UNCHANGED <<latest, pinnedAt, paging, vPinned, behind>>

MoreVersions(f) ==
    /\ Fetched(f, "more")
    /\ versions' = versions \union PageOf(f)
    /\ Meta(f)
    /\ vFetching' = FALSE
    /\ UNCHANGED <<latest, pinnedAt, vPinned, behind>>

ResourceShown(f) ==
    /\ Fetched(f, "resource")
    /\ vPinned' = f.arg
    /\ UNCHANGED <<latest, pinnedAt, versions, paging, behind>>

\* a request fails; the guard of scrolling is released
FetchFails(f) ==
    /\ On("resource") /\ f.st = "sent"
    /\ fetches' = fetches \ {f}
    /\ vFetching' = (vFetching /\ f.kind # "more")
    /\ UNCHANGED <<latest, pinnedAt, versions, vOldest, vMore, vPinned, behind>>

-----------------------------------------------------------------------------
(* The pin: onPinVersion toggles by what is shown; the answer is taken for   *)
(* granted in the resource shown.  onUnpin is the same for the version that  *)
(* is pinned.  The buttons stay enabled while a pin is in flight.            *)

onPinVersion(v) ==
    /\ On("resource") /\ vPinned >= 0 /\ v \in versions
    /\ Cardinality(fetches) < MaxFetches
    /\ fetches' = fetches \union {Fetch(IF vPinned = v THEN "unpin" ELSE "pin", v)}
    /\ UNCHANGED <<latest, pinnedAt, versions, paging, vPinned, behind>>

PinDone(f) ==
    /\ On("resource") /\ f.kind \in {"pin", "unpin"} /\ f.st = "ok"
    /\ fetches' = fetches \ {f}
    /\ vPinned' = IF f.kind = "pin" THEN f.arg ELSE 0
    /\ UNCHANGED <<latest, pinnedAt, versions, paging, behind>>

-----------------------------------------------------------------------------
ResourceNext ==
    \/ \E n \in 0..MaxVersion : OpenVersions(n)
    \/ LeaveVersions \/ NewVersion \/ PollVersions \/ onScroll
    \/ \E v \in Pinnable : onPinVersion(v)
    \/ \E f \in fetches : \/ AnswerFetch(f) \/ FetchFails(f) \/ LoadVersions(f)
                          \/ MergeVersions(f) \/ MoreVersions(f) \/ ResourceShown(f)
                          \/ PinDone(f)

ResourceSpec == page = Elsewhere /\ ResourceIdle /\ [][ResourceNext]_<<page, resourceVars>>

-----------------------------------------------------------------------------
ResourceTypeOK ==
    /\ latest \in 0..MaxVersion /\ pinnedAt \in 0..MaxVersion
    /\ versions \subseteq VersionIDs
    /\ vOldest \in 0..MaxVersion /\ vMore \in BOOLEAN /\ vFetching \in BOOLEAN
    /\ vPinned \in -1..MaxVersion /\ behind \in BOOLEAN

\* Every version from the oldest cursor to the newest one shown is in the list,
\* and what is below the cursor can still be scrolled to, however the first page,
\* polls and older pages overlap and fail.  It is so as long as a page holds the
\* versions that are found between two polls: the poll asks for the newest page
\* only, and nothing asks for what lies between.
VersionsWhole ==
    vOldest > 0 /\ ~behind =>
        /\ vOldest..Newest \subseteq versions
        /\ vOldest > 1 => vMore
=============================================================================
