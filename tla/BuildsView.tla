------------------------------ MODULE BuildsView ------------------------------
(***************************************************************************)
(* The tabs of a job's builds (JobBuilds of                                *)
(* assets/js/app/components/Jobs.js), against a server whose builds are    *)
(* created and go on while the page is shown.  BuildContent models what a  *)
(* tab shows when it is open.                                              *)
(*                                                                         *)
(* The page keeps a list of tabs, a cursor to the newest build it was told *)
(* of and one to the oldest, and sends requests whose answers come back in *)
(* any order: the initial load, the polling loop, the refresh after a      *)
(* command, the scroll to older builds and the fetch of one full build.    *)
(* A request is sent, answered with what the server holds then, and        *)
(* handled later, or fails; a process that awaits is its own request.      *)
(***************************************************************************)
EXTENDS Integers, Sequences, FiniteSets

CONSTANTS
    MaxBuild,   \* bound: builds the server ever creates
    Loaded,     \* how many builds the job may have when the page opens
    Initially,  \* the statuses they may have
    Births,     \* the statuses a new build may have
    Moves,      \* the changes of status the server may make
    PageSize,   \* builds of one answer (50 on the server)
    Cap,        \* buildListCap
    Polls,      \* polling calls that may be in flight at once
    Opened,     \* pairs of the build the URL asks for (0 for none) and whether
                \* it asks for one version (?version=)
    TrackIDs,   \* the builds on that version's path
    MaxRetries, \* bound: commands whose success refreshes the page
    MaxReqs     \* bound: requests in flight when the user starts another one

IDs == 1..MaxBuild

NonTerminal == {"pending", "started", "waiting_for_approval"}
Terminal == {"succeeded", "failed", "cancelled", "warning"}
Statuses == NonTerminal \union Terminal

ASSUME ViewAssumption ==
    /\ MaxBuild \in Nat /\ Loaded \subseteq 0..MaxBuild
    /\ Initially \subseteq Statuses /\ Births \subseteq Statuses
    /\ Moves \subseteq Statuses \X Statuses
    /\ PageSize \in Nat \ {0} /\ Cap \in Nat \ {0}
    /\ Opened \subseteq (0..MaxBuild) \X BOOLEAN
    /\ TrackIDs \subseteq 1..MaxBuild
    /\ MaxRetries \in Nat /\ MaxReqs \in Nat
    /\ IsFiniteSet(Polls) /\ Polls \intersect {"init", "new", "more", "fix"} = {}

VARIABLES
    srv,        \* the server's builds: a status, or "none"
    hidden, timeoutId, orphans,   \* the polling loop, see Polling
    bid, tracked,                 \* props: the build and version of the URL
    builds,     \* the tabs, a sequence of entries
    active,     \* activeBuildID, 0 for null
    newestID, oldestID, hasMore,  \* metaRef
    allBuilds,  \* the list the initial load is working on
    filter,     \* trackedBuildIDsRef, IDs when it is null
    reqs,       \* requests in flight
    retries,    \* refreshes after a command so far
    trimmed     \* history: the cap has dropped a tab

loop == <<hidden, timeoutId, orphans>>
props == <<bid, tracked>>
meta == <<newestID, oldestID, hasMore>>
vars == <<srv, loop, props, builds, active, meta, allBuilds, filter, reqs, retries, trimmed>>

\* A tab, and a build of an answer.  Ids are in the order in which builds are
\* created, in which the server lists them; a retry gets its main build's number and
\* an id of its own, so that the order of numbers is another one.
Entry == [id : IDs, status : Statuses]

Request == [who : {"init", "new", "more", "fix"} \union Polls,
            kind : {"job", "tracked", "load", "after", "before", "status", "one"},
            arg : 0..MaxBuild,    \* the cursor or the build asked for
            aim : 0..MaxBuild,    \* onRetry: the build to fetch next
            st : {"sent", "ok"},
            data : Seq(Entry)]

Req(who, kind, arg) ==
    [who |-> who, kind |-> kind, arg |-> arg, aim |-> 0, st |-> "sent", data |-> <<>>]

Room == Cardinality({r \in reqs : r.who \notin Polls}) < MaxReqs
Busy == {p \in Polls : \E r \in reqs : r.who = p}

Loop == INSTANCE Polling WITH
            stopped <- FALSE, ticks <- Cardinality(Busy), MaxLoops <- Cardinality(Polls)

-----------------------------------------------------------------------------
(* Sequences by position.  An element has its place by the number of those   *)
(* before it, which needs no recursion.                                      *)

\* the numbers of a finite set in their order
Ascending(S) ==
    [k \in 1..Cardinality(S) |->
        CHOOSE x \in S : Cardinality({y \in S : y < x}) = k - 1]

\* the entries of bs at the positions P, in the order of bs
At(bs, P) == [k \in 1..Cardinality(P) |-> bs[Ascending(P)[k]]]

-----------------------------------------------------------------------------
(* The server's answers. *)

Existing == {i \in IDs : srv[i] # "none"}

Row(i) == [id |-> i, status |-> srv[i]]

Descending(S) == LET n == Cardinality(S)
                 IN  [k \in 1..n |-> Ascending(S)[n + 1 - k]]
Lowest(S) == {i \in S : Cardinality({j \in S : j < i}) < PageSize}
Highest(S) == {i \in S : Cardinality({j \in S : j > i}) < PageSize}
Rows(S) == LET ids == Descending(S) IN [k \in DOMAIN ids |-> Row(ids[k])]

\* ListJobBuilds: after= takes the builds that follow the cursor, before= the
\* ones below it
Answer(kind, arg) ==
    CASE kind = "load" -> Rows(Highest(Existing))
      [] kind = "after" -> Rows(Lowest({i \in Existing : i > arg}))
      [] kind = "before" -> Rows(Highest({i \in Existing : i < arg}))
      [] kind = "status" ->
            Rows(Highest({i \in Existing : srv[i] \in NonTerminal}))
      [] kind = "one" -> Rows({arg} \intersect Existing)
      [] kind = "tracked" -> Rows(TrackIDs \intersect Existing)
      [] OTHER -> <<>>

\* the meta of an answer
NewestOf(data) == IF data = <<>> THEN 0 ELSE Head(data).id
OldestOf(data) == IF data = <<>> THEN 0 ELSE data[Len(data)].id

-----------------------------------------------------------------------------
(* Helpers of utils.js and of the page. *)

Ids(bs) == {bs[k].id : k \in DOMAIN bs}
Shown(i) == i \in Ids(builds)
Tab(i) == builds[CHOOSE k \in DOMAIN builds : builds[k].id = i]

\* sortBuilds compares the field number, as [major, minor], descending.  A build
\* of the API has build_number and no number: every key is '0', and a stable
\* sort of equal keys changes nothing.
Key(e) == IF "number" \in DOMAIN e THEN e.number ELSE 0
sortBuilds(bs) ==
    LET before(j) == {m \in DOMAIN bs : \/ Key(bs[m]) > Key(bs[j])
                                        \/ Key(bs[m]) = Key(bs[j]) /\ m < j}
    IN  [k \in DOMAIN bs |->
            bs[CHOOSE j \in DOMAIN bs : Cardinality(before(j)) = k - 1]]

\* selectActiveBuild: the requested build, else the first that is not over, else
\* the first
selectActiveBuild(bs, requested) ==
    IF bs = <<>> THEN 0
    ELSE IF requested \in Ids(bs) THEN requested
    ELSE LET live == {k \in DOMAIN bs : bs[k].status \in NonTerminal}
         IN  IF live = {} THEN Head(bs).id ELSE At(bs, live)[1].id

filterByTracked(bs) == At(bs, {k \in DOMAIN bs : bs[k].id \in filter})

\* Mutant: nothing is left out; or what is new is.
Fresh_All(data, bs) == data
Fresh_Known(data, bs) == At(data, {k \in DOMAIN data : data[k].id \in Ids(bs)})

Fresh(data, bs) == At(data, {k \in DOMAIN data : data[k].id \notin Ids(bs)})

\* Mutant: tabs that the answer does not name are dropped.
Replaced_OnlyNamed(bs, data) == At(data, {k \in DOMAIN data : data[k].id \in Ids(bs)})

\* the entry of every build that data holds, replaced
Replaced(bs, data) ==
    sortBuilds([k \in DOMAIN bs |->
                    IF bs[k].id \in Ids(data)
                    THEN data[CHOOSE m \in DOMAIN data : data[m].id = bs[k].id]
                    ELSE bs[k]])

\* the cap of fetchMoreBuilds: builds that are over go first, except warnings
Trimmed(bs) ==
    LET over == {k \in DOMAIN bs : bs[k].status \in {"succeeded", "failed", "cancelled"}}
        keep == At(bs, DOMAIN bs \ over) \o At(bs, over)
    IN  IF Len(bs) <= Cap THEN bs ELSE sortBuilds(SubSeq(keep, 1, Cap))

-----------------------------------------------------------------------------
(* The processes' requests. *)

\* fetchNewBuilds asks for nothing while there is no cursor
NewBuildsThen(p, newest) ==
    IF newest = 0 THEN Req(p, "status", 0) ELSE Req(p, "after", newest)

\* pollBuilds
pollBuilds(p) == IF tracked THEN Req(p, "tracked", 0) ELSE NewBuildsThen(p, newestID)

\* onRetry for build i
onRetry(i) ==
    {IF newestID = 0 THEN Req("fix", "one", i)
     ELSE [Req("new", "after", newestID) EXCEPT !.aim = i]}

Init ==
    /\ \E n \in Loaded :
         srv \in {f \in [IDs -> Initially \union {"none"}] :
                    \A i \in IDs : (f[i] = "none") <=> (i > n)}
    /\ \E o \in Opened : bid = o[1] /\ tracked = o[2]
    /\ hidden \in BOOLEAN /\ timeoutId = "null" /\ orphans = 0
    /\ builds = <<>> /\ active = 0
    /\ newestID = 0 /\ oldestID = 0 /\ hasMore = FALSE
    /\ allBuilds = <<>> /\ filter = IDs
    /\ \E p \in Polls :
         reqs = {Req("init", "job", 0)} \union
                (IF hidden THEN {} ELSE {pollBuilds(p)})
    /\ retries = 0 /\ trimmed = FALSE

-----------------------------------------------------------------------------
(* The server. *)

Born(s) == \E i \in IDs \ Existing :
              /\ \A j \in IDs \ Existing : i <= j
              /\ srv' = [srv EXCEPT ![i] = s]

page == <<loop, props, builds, active, meta, allBuilds, filter, retries, trimmed>>

Create == /\ \E s \in Births : Born(s)
          /\ UNCHANGED <<reqs, page>>

Advance(i) ==
    /\ \E m \in Moves : srv[i] = m[1] /\ srv' = [srv EXCEPT ![i] = m[2]]
    /\ UNCHANGED <<reqs, page>>

\* a request is answered with what the server holds now; one for a build that
\* does not exist is refused
Reply(r) ==
    /\ r.st = "sent"
    /\ r.kind = "one" => r.arg \in Existing
    /\ reqs' = (reqs \ {r}) \union
                 {[r EXCEPT !.st = "ok", !.data = Answer(r.kind, r.arg)]}
    /\ UNCHANGED <<srv, page>>

-----------------------------------------------------------------------------
(* The initial load (init in the effect of JobBuilds). *)

\* The promise of r settles: with the answer, or, for a request that is still on
\* its way, with an error.
Settled(r, who, kind) == r.who = who /\ r.kind = kind

\* fetchJob is over: the version's builds first, or no filter and no cursor
InitJob(r) ==
    /\ Settled(r, "init", "job")
    /\ IF tracked
       THEN /\ reqs' = (reqs \ {r}) \union {Req("init", "tracked", 0)}
            /\ UNCHANGED <<meta, filter>>
       ELSE /\ reqs' = (reqs \ {r}) \union {Req("init", "load", 0)}
            /\ newestID' = 0 /\ oldestID' = 0 /\ hasMore' = FALSE
            /\ filter' = IDs
    /\ UNCHANGED <<srv, loop, props, builds, active, allBuilds, retries, trimmed>>

Filtered(r) == filter' = IF r.st = "ok" THEN Ids(r.data) ELSE filter

InitTracked(r) ==
    /\ Settled(r, "init", "tracked")
    /\ Filtered(r)
    /\ reqs' = (reqs \ {r}) \union {Req("init", "load", 0)}
    /\ UNCHANGED <<srv, loop, props, builds, active, meta, allBuilds, retries, trimmed>>

\* Mutant: the id of the first build of an empty list, which is undefined.
doActivate_Undefined(requested, bs) ==
    IF bs = <<>> THEN -1 ELSE selectActiveBuild(bs, requested)

\* doActivate: an empty list activates nothing
doActivate(requested, bs) ==
    LET a == selectActiveBuild(bs, requested) IN IF a = 0 THEN active ELSE a

\* loadBuilds is over: a failure is an empty list and leaves the cursors alone
InitLoad(r) ==
    LET list == filterByTracked(sortBuilds(r.data))
    IN  /\ Settled(r, "init", "load")
        /\ IF r.st = "ok"
           THEN /\ newestID' = NewestOf(r.data) /\ oldestID' = OldestOf(r.data)
                /\ hasMore' = (r.data # <<>> /\ \E i \in Existing : i < OldestOf(r.data))
           ELSE UNCHANGED meta
        /\ builds' = list
        /\ IF bid # 0 /\ bid \notin Ids(list)
           THEN /\ reqs' = (reqs \ {r}) \union {Req("init", "one", bid)}
                /\ allBuilds' = list
                /\ UNCHANGED active
           ELSE /\ reqs' = reqs \ {r}
                /\ active' = doActivate(bid, list)
                /\ UNCHANGED allBuilds
        /\ UNCHANGED <<srv, loop, props, filter, retries, trimmed>>

\* the requested build was not in the list: it is appended to the list that was
\* loaded, whatever the tabs have become since
InitSingle(r) ==
    LET list == filterByTracked(sortBuilds(allBuilds \o r.data))
    IN  /\ Settled(r, "init", "one")
        /\ IF r.st = "ok"
           THEN builds' = list /\ active' = doActivate(bid, list)
           ELSE builds' = builds /\ active' = doActivate(bid, allBuilds)
        /\ allBuilds' = <<>>
        /\ reqs' = reqs \ {r}
        /\ UNCHANGED <<srv, loop, props, meta, filter, retries, trimmed>>

-----------------------------------------------------------------------------
(* The polling loop: pollBuilds and refreshActiveBuild. *)

PollTracked(r, p) ==
    /\ Settled(r, p, "tracked")
    /\ Filtered(r)
    /\ reqs' = (reqs \ {r}) \union {NewBuildsThen(p, newestID)}
    /\ UNCHANGED <<srv, loop, props, builds, active, meta, allBuilds, retries, trimmed>>

\* fetchNewBuilds is over: the cursor moves to the newest build of the answer
NewCursor(r) ==
    /\ newestID' = IF r.data = <<>> THEN newestID ELSE NewestOf(r.data)
    /\ UNCHANGED <<oldestID, hasMore>>

PollNew(r, p) ==
    /\ Settled(r, p, "after")
    /\ NewCursor(r)
    /\ builds' = IF r.data = <<>> THEN builds
                 ELSE filterByTracked(sortBuilds(Fresh(r.data, builds) \o builds))
    /\ reqs' = (reqs \ {r}) \union {Req(p, "status", 0)}
    /\ UNCHANGED <<srv, loop, props, active, allBuilds, filter, retries, trimmed>>

\* Mutant: a request that failed ends the loop.
PollStatus_LoopEnds(r, p) ==
    /\ Settled(r, p, "status") /\ r.st # "ok"
    /\ reqs' = reqs \ {r}
    /\ UNCHANGED <<srv, page>>

\* Mutant: the tabs that the answer does not name are not fetched.
PollStatus_NoFetch(r, p) ==
    /\ Settled(r, p, "status")
    /\ builds' = IF r.data = <<>> THEN builds ELSE Replaced(builds, r.data)
    /\ reqs' = reqs \ {r}
    /\ Loop!TickDone
    /\ UNCHANGED <<srv, props, active, meta, allBuilds, filter, retries, trimmed>>

\* refreshActiveBuild is over: a tab that was not over and is not in the answer
\* is fetched by itself.  The tick ends and the next one is scheduled.
PollStatus(r, p) ==
    LET stale == {i \in Ids(builds) \ Ids(r.data) : Tab(i).status \in NonTerminal}
        fetches == {Req("fix", "one", i) : i \in stale}
    IN  /\ Settled(r, p, "status")
        /\ builds' = IF r.data = <<>> THEN builds ELSE Replaced(builds, r.data)
        /\ reqs' = (reqs \ {r}) \union (IF r.st = "ok" THEN fetches ELSE {})
        /\ Loop!TickDone
        /\ UNCHANGED <<srv, props, active, meta, allBuilds, filter, retries, trimmed>>

PollTimer(p) ==
    /\ p \notin Busy
    /\ reqs' = reqs \union {pollBuilds(p)}
    /\ Loop!TimerFires
    /\ UNCHANGED <<srv, props, builds, active, meta, allBuilds, filter, retries, trimmed>>

Hide ==
    /\ reqs' = reqs
    /\ Loop!Hide
    /\ UNCHANGED <<srv, props, builds, active, meta, allBuilds, filter, retries, trimmed>>

Show ==
    /\ IF timeoutId = "null"
       THEN \E p \in Polls \ Busy : reqs' = reqs \union {pollBuilds(p)}
       ELSE reqs' = reqs
    /\ Loop!Show
    /\ UNCHANGED <<srv, props, builds, active, meta, allBuilds, filter, retries, trimmed>>

-----------------------------------------------------------------------------
(* The refresh after a command, and builds fetched one by one. *)

\* approve, reject, retry or mark as warning succeeded in the open BuildContent
CommandSucceeded ==
    /\ ~hidden /\ retries < MaxRetries /\ Room
    /\ Shown(active)
    /\ reqs' = reqs \union onRetry(active)
    /\ retries' = retries + 1
    /\ UNCHANGED <<srv, loop, props, builds, active, meta, allBuilds, filter, trimmed>>

\* onRetry continues: the new builds are not filtered, and the build itself is
\* fetched
RetryNew(r) ==
    /\ Settled(r, "new", "after")
    /\ NewCursor(r)
    /\ builds' = IF r.data = <<>> THEN builds
                 ELSE sortBuilds(Fresh(r.data, builds) \o builds)
    /\ reqs' = (reqs \ {r}) \union {Req("fix", "one", r.aim)}
    /\ UNCHANGED <<srv, loop, props, active, allBuilds, filter, retries, trimmed>>

\* one build was fetched: its tab is replaced
Fix(r) ==
    /\ Settled(r, "fix", "one")
    /\ builds' = Replaced(builds, r.data)
    /\ reqs' = reqs \ {r}
    /\ UNCHANGED <<srv, loop, props, active, meta, allBuilds, filter, retries, trimmed>>

-----------------------------------------------------------------------------
(* Tabs: clicking one, and scrolling to older ones. *)

onTabClick(i) ==
    /\ ~hidden /\ Shown(i) /\ i # active
    /\ active' = i
    /\ UNCHANGED <<srv, loop, props, builds, meta, allBuilds, filter, reqs, retries, trimmed>>

Scroll ==
    /\ ~hidden /\ hasMore /\ oldestID # 0 /\ Room
    /\ reqs' = reqs \union {Req("more", "before", oldestID)}
    /\ UNCHANGED <<srv, page>>

fetchMoreBuilds(r) ==
    /\ Settled(r, "more", "before")
    /\ IF r.data = <<>>
       THEN UNCHANGED <<oldestID, hasMore>>
       ELSE /\ oldestID' = OldestOf(r.data)
            /\ hasMore' = \E i \in Existing : i < OldestOf(r.data)
    /\ UNCHANGED newestID
    /\ LET merged == sortBuilds(builds \o Fresh(r.data, builds))
       IN  IF r.data = <<>> THEN UNCHANGED <<builds, trimmed>>
           ELSE builds' = Trimmed(merged) /\ trimmed' = (trimmed \/ Len(merged) > Cap)
    /\ reqs' = reqs \ {r}
    /\ UNCHANGED <<srv, loop, props, active, allBuilds, filter, retries>>

-----------------------------------------------------------------------------
Handle(r) ==
    \/ InitJob(r) \/ InitTracked(r) \/ InitLoad(r) \/ InitSingle(r)
    \/ \E p \in Polls : PollTracked(r, p) \/ PollNew(r, p) \/ PollStatus(r, p)
    \/ RetryNew(r) \/ Fix(r) \/ fetchMoreBuilds(r)

Next ==
    \/ Create \/ Hide \/ Show \/ Scroll \/ CommandSucceeded
    \/ \E i \in IDs : Advance(i) \/ onTabClick(i)
    \/ \E r \in reqs : Reply(r) \/ Handle(r)
    \/ \E p \in Polls : PollTimer(p)

\* Every request comes back and is handled, timers fire, and a read that is
\* repeated again and again is answered again and again.
Fairness ==
    /\ \A w \in {"init", "new", "more"} \union Polls :
          WF_vars(\E r \in reqs : r.who = w /\ Handle(r))
    /\ \A i \in IDs :
          WF_vars(\E r \in reqs : r.who = "fix" /\ r.arg = i /\ r.st = "ok" /\ Handle(r))
    /\ \A p \in Polls : WF_vars(PollTimer(p))
    /\ SF_vars(\E r \in reqs : r.kind = "after" /\ r.who \in Polls /\ Reply(r))
    /\ SF_vars(\E r \in reqs : r.kind = "status" /\ Reply(r))
    /\ \A i \in IDs : SF_vars(\E r \in reqs : r.who = "fix" /\ r.arg = i /\ Reply(r))

Spec == Init /\ [][Next]_vars /\ Fairness

-----------------------------------------------------------------------------
TypeOK ==
    /\ srv \in [IDs -> Statuses \union {"none"}]
    /\ bid \in 0..MaxBuild /\ tracked \in BOOLEAN
    /\ Loop!PollTypeOK
    /\ builds \in Seq(Entry) /\ allBuilds \in Seq(Entry)
    /\ active \in 0..MaxBuild
    /\ newestID \in 0..MaxBuild /\ oldestID \in 0..MaxBuild /\ hasMore \in BOOLEAN
    /\ filter \subseteq IDs
    /\ reqs \subseteq Request
    /\ retries \in 0..MaxRetries /\ trimmed \in BOOLEAN

\* However loads, polls, refreshes and scrolls overlap, no build has two tabs.
UniqueTabs == Cardinality(Ids(builds)) = Len(builds)

\* The cursors tell the truth: a build between them has a tab, so that no answer
\* that comes late or twice hides a build for good (fetchNewBuilds and
\* fetchMoreBuilds never ask for it again).  It is not so when the URL names a
\* build outside the first page, and the cap may drop tabs.
CursorsCover ==
    bid = 0 /\ ~tracked /\ ~trimmed =>
        \A i \in Existing : oldestID <= i /\ i <= newestID => Shown(i)

\* The tabs are newest first, by their ids, although sortBuilds sorts nothing: answers overlap
\* but never leave a hole.  It is not so for a tracked version: a late answer may
\* bring a build that the filter left out when the others came.
NewestFirst ==
    bid = 0 /\ ~tracked /\ ~trimmed =>
        \A j, k \in DOMAIN builds : j < k => builds[j].id > builds[k].id

\* The tabs are sound: no build twice, none hidden for good, newest first, although
\* polls, refreshes, scrolls and the initial load write them at the same time
\* (setBuilds of pollBuilds, onRetry, fetchMoreBuilds and init).
TabsSound == UniqueTabs /\ CursorsCover /\ NewestFirst

\* The open tab stays: only the cap, or the filter of a tracked version, may take
\* the tab of the open build away.
OpenTabStays ==
    [][Shown(active) /\ active' = active =>
         \/ active \in Ids(builds')
         \/ tracked \/ bid # 0
         \/ trimmed']_vars

\* The page's own requests and timer run the loop of usePolling, step by step:
\* each call of pollBuilds, with all it awaits, is one call of fn and ends in one
\* schedule, also when a request fails.  So what PollSpec promises (LoopAlive)
\* holds of the page.
PollingRefined == Loop!PollInit /\ [][Loop!PollNext]_(Loop!pollVars)

\* A tab shows the end of its build once the server knows it, in a tab that is
\* not hidden, even when single answers are lost or come late.
TabSettles ==
    \A i \in IDs : srv[i] \in Terminal /\ Shown(i) ~>
                      hidden \/ ~Shown(i) \/ Tab(i).status \in Terminal

\* A build that is created while the page has a cursor gets a tab.
NewBuildShown ==
    \A i \in IDs : bid = 0 /\ ~tracked /\ newestID # 0 /\ srv[i] # "none" /\ i > newestID
                      ~> hidden \/ Shown(i) \/ trimmed
=============================================================================
