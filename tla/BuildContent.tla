---------------------------- MODULE BuildContent ----------------------------
(***************************************************************************)
(* What the tab of one build shows (BuildContent of                        *)
(* assets/js/app/components/Jobs.js): the steps, the votes of its approval *)
(* gate and the commands, against a build that goes on at the server.      *)
(*                                                                         *)
(* The tab's entry comes from lists without steps, from the status poll    *)
(* (with steps, without votes) and from fetches of the whole build; the    *)
(* component keeps a copy of the last whole build for the votes.  Answers  *)
(* come back in any order.                                                 *)
(***************************************************************************)
EXTENDS Router, Integers, FiniteSets

CONSTANTS
    Others,         \* the other users who may vote
    ApproveCount,   \* votes the job's gate asks for, 0 for no gate
    DisableRetry,   \* disable_retry of the job
    MaxCommands,    \* bound: requests in flight when a command is sent
    MaxAsks         \* bound: requests in flight when a read is sent

Me == "me"
Voters == Others \union {Me}

ASSUME ContentAssumption ==
    /\ IsFiniteSet(Others) /\ Me \notin Others /\ ApproveCount \in Nat /\ DisableRetry \in BOOLEAN
    /\ MaxCommands \in Nat /\ MaxAsks \in Nat \ {0}

VARIABLES
    bst,        \* the build's status at the server
    bvotes,     \* who has voted there
    entry,      \* rawBuild, the entry of the tab
    fullBuild,  \* the copy of the last whole build
    shown,      \* the tab is open: BuildContent is mounted
    busy,       \* the commands whose useLoading flag is set
    asks,       \* requests in flight
    seen,       \* history: how far the build was in the newest answer applied
    spoiled,    \* history: a request failed, or an answer was applied after one
                \* that is newer
    cast        \* history: a vote of the mounted tab was accepted

contentVars == <<bst, bvotes, entry, fullBuild, shown, busy, asks, seen, spoiled, cast>>
history == <<seen, spoiled, cast>>
server == <<bst, bvotes>>
component == <<fullBuild, shown, busy>>

Ended == {"succeeded", "failed", "cancelled", "warning"}
BuildStates == Ended \union {"waiting_for_approval", "pending", "started"}
Commands == {"approve", "reject", "cancel", "retry", "warning", "export"}

\* The steps of a build in status s: what the worker has reported so far.
StepsOf(s) == CASE s = "started" -> "running"
                [] s \in Ended -> "final"
                [] OTHER -> "none"

\* how far a build has come
Progress(s, v) ==
    Cardinality(v) + (CASE s = "waiting_for_approval" -> 0 [] s = "pending" -> 1
                        [] s = "started" -> 2 [] s = "warning" -> 4 [] OTHER -> 3)

Build == [status : BuildStates, steps : {"null", "none", "running", "final"},
          votes : SUBSET Voters]

\* fetchBuild returns everything; the list filtered by status has no votes, the
\* plain list has no steps either
WholeBuild == [status |-> bst, steps |-> StepsOf(bst), votes |-> bvotes]
ListRow(s) == [status |-> s, steps |-> "null", votes |-> {}]

NoFull == [known |-> FALSE, votes |-> {}]

\* the history ends where the page can no longer be held to it
Spoil == spoiled' = TRUE /\ seen' = 0 /\ cast' = FALSE

\* a request for k, sent while those of set q are in flight; mine is set while
\* the component that sent it is mounted
Ask(k, own, q) ==
    [n |-> CHOOSE i \in 0..Cardinality(q) : \A a \in q : a.kind = k => a.n # i,
     kind |-> k, mine |-> own, st |-> "sent", data |-> ListRow("pending")]
Space == Cardinality(asks) < MaxAsks

-----------------------------------------------------------------------------
(* What is displayed. *)

\* mergedBuild: the entry, with the votes of the copy
mergedBuild == [entry EXCEPT !.votes = IF fullBuild.known THEN fullBuild.votes ELSE @]

\* the template: which command has a button that can be pressed
Offered(c) ==
    /\ shown /\ c \notin busy
    /\ LET s == mergedBuild.status
       IN  CASE c \in {"approve", "reject"} ->
                    s = "waiting_for_approval" /\ Me \notin mergedBuild.votes
             [] c = "cancel" -> s \in {"started", "pending"}
             [] c = "retry" -> s \in Ended /\ ~DisableRetry
             [] c = "warning" -> s = "failed"
             [] c = "export" -> s \notin {"started", "pending"}

-----------------------------------------------------------------------------
ContentIdle ==
    /\ bst = "pending" /\ bvotes = {}
    /\ entry = ListRow("pending")
    /\ fullBuild = NoFull /\ shown = FALSE
    /\ busy = {} /\ asks = {}
    /\ seen = 0 /\ spoiled = FALSE /\ cast = FALSE

\* The job's page loads its list; the build may be at any point.
OpenJob(s) ==
    /\ Enter("job")
    /\ s = "waiting_for_approval" => ApproveCount > 0
    /\ bst' = s /\ bvotes' = {}
    /\ entry' = ListRow(s)
    /\ seen' = Progress(s, {})
    /\ UNCHANGED <<component, asks, spoiled, cast>>

LeaveJob ==
    /\ Leave("job")
    /\ bst' = "pending" /\ bvotes' = {}
    /\ entry' = ListRow("pending")
    /\ fullBuild' = NoFull /\ shown' = FALSE /\ busy' = {} /\ asks' = {}
    /\ seen' = 0 /\ spoiled' = FALSE /\ cast' = FALSE

\* the tab is clicked: BuildContent mounts, and its effect fetches the build
ShowTab ==
    /\ On("job") /\ ~shown /\ Space
    /\ shown' = TRUE /\ fullBuild' = NoFull /\ busy' = {}
    /\ asks' = asks \union {Ask("full", TRUE, asks)}
    /\ UNCHANGED <<server, entry, history>>

\* another tab is clicked
HideTab ==
    /\ On("job") /\ shown
    /\ shown' = FALSE /\ fullBuild' = NoFull /\ busy' = {}
    /\ asks' = {[a EXCEPT !.mine = FALSE] : a \in asks}
    /\ cast' = FALSE
    /\ UNCHANGED <<server, entry, seen, spoiled>>

-----------------------------------------------------------------------------
(* The server: the build goes on, others vote, requests are answered. *)

Goes(s) == CASE s = "pending" -> {"started"}
             [] s = "started" -> {"succeeded", "failed"}
             [] s = "failed" -> {"warning"}
             [] OTHER -> {}

Voted(v) == IF bst = "waiting_for_approval" /\ Cardinality(v) >= ApproveCount
            THEN "pending" ELSE bst

BuildGoesOn ==
    /\ On("job")
    /\ \/ bst' \in Goes(bst) /\ bvotes' = bvotes
       \/ /\ bst = "waiting_for_approval"
          /\ \E u \in Others \ bvotes : bvotes' = bvotes \union {u}
          /\ bst' \in {Voted(bvotes'), "failed"}
    /\ UNCHANGED <<entry, component, asks, history>>

Answered(a, ok) ==
    asks' = (asks \ {a}) \union {[a EXCEPT !.st = IF ok THEN "ok" ELSE "failed",
                                           !.data = IF ok THEN WholeBuild' ELSE @]}

\* a read is answered with what the server has
AnswerRead(a) ==
    /\ On("job") /\ a.st = "sent" /\ a.kind \in {"full", "fix", "status"}
    /\ UNCHANGED server
    /\ Answered(a, TRUE)
    /\ UNCHANGED <<entry, component, history>>

\* a command is applied, or refused because the build is somewhere else
AnswerCommand(a) ==
    LET waits == bst = "waiting_for_approval" /\ Me \notin bvotes
    IN  /\ On("job") /\ a.st = "sent" /\ a.kind \in Commands
        /\ \/ /\ a.kind = "approve" /\ waits
              /\ bvotes' = bvotes \union {Me} /\ bst' = Voted(bvotes')
           \/ /\ a.kind = "reject" /\ waits
              /\ bvotes' = bvotes \union {Me} /\ bst' = "failed"
           \/ a.kind = "cancel" /\ bst \in {"pending", "started"}
              /\ bst' = "cancelled" /\ UNCHANGED bvotes
           \/ a.kind = "warning" /\ bst = "failed"
              /\ bst' = "warning" /\ UNCHANGED bvotes
           \/ a.kind \in {"retry", "export"} /\ UNCHANGED server
        /\ cast' = (cast \/ (a.mine /\ ~spoiled /\ bvotes' # bvotes))
        /\ Answered(a, TRUE)
        /\ UNCHANGED <<entry, component, seen, spoiled>>

\* a request fails, or a command is refused
Refuse(a) ==
    /\ On("job") /\ a.st = "sent"
    /\ UNCHANGED <<server, entry, component>>
    /\ Spoil
    /\ Answered(a, FALSE)

-----------------------------------------------------------------------------
(* The component handles an answer. *)

Applied(a) ==
    LET p == Progress(a.data.status, a.data.votes)
    IN  IF spoiled THEN UNCHANGED history
        ELSE IF p < seen THEN Spoil
        ELSE seen' = p /\ UNCHANGED <<spoiled, cast>>

\* refreshFullBuild: the copy, and onFullBuildFetched, which takes over all but
\* the status.  A component that is gone keeps no copy.
HandleFull(a) ==
    /\ On("job") /\ a.kind = "full" /\ a.st # "sent"
    /\ asks' = asks \ {a}
    /\ IF a.st = "ok"
       THEN /\ entry' = [a.data EXCEPT !.status = entry.status]
            /\ fullBuild' = IF a.mine THEN [known |-> TRUE, votes |-> a.data.votes]
                            ELSE fullBuild
            /\ Applied(a)
       ELSE UNCHANGED <<entry, fullBuild, history>>
    /\ UNCHANGED <<server, shown, busy>>

\* a whole build fetched by the page replaces the entry
HandleFix(a) ==
    /\ On("job") /\ a.kind = "fix" /\ a.st # "sent"
    /\ asks' = asks \ {a}
    /\ IF a.st = "ok" THEN entry' = a.data /\ Applied(a)
       ELSE UNCHANGED <<entry, history>>
    /\ UNCHANGED <<server, component>>

\* the status poll: a build that is not in the answer although its tab is not
\* over is fetched
SendStatus ==
    /\ On("job") /\ Space /\ \A a \in asks : a.kind # "status"
    /\ asks' = asks \union {Ask("status", FALSE, asks)}
    /\ UNCHANGED <<server, entry, component, history>>

HandleStatus(a) ==
    /\ On("job") /\ a.kind = "status" /\ a.st # "sent"
    /\ IF a.st = "ok" /\ a.data.status \notin Ended
       THEN /\ entry' = [a.data EXCEPT !.votes = {}]
            /\ Applied(a)
            /\ asks' = asks \ {a}
       ELSE /\ asks' = (asks \ {a}) \union
                         (IF a.st = "ok" /\ entry.status \notin Ended
                          THEN {Ask("fix", FALSE, asks)} ELSE {})
            /\ UNCHANGED <<entry, history>>
    /\ UNCHANGED <<server, component>>

-----------------------------------------------------------------------------
(* Commands, each wrapped in withLoading. *)

Press(c) ==
    /\ On("job") /\ Offered(c) /\ Cardinality(asks) < MaxCommands
    /\ busy' = busy \union {c}
    /\ asks' = asks \union {Ask(c, TRUE, asks)}
    /\ UNCHANGED <<server, entry, fullBuild, shown, history>>

\* Mutant: the build is not fetched again.
HandleCommand_NoRefresh(a) ==
    /\ On("job") /\ a.kind \in Commands /\ a.st # "sent"
    /\ asks' = asks \ {a}
    /\ busy' = IF a.mine THEN busy \ {a.kind} ELSE busy
    /\ UNCHANGED <<server, entry, fullBuild, shown, history>>

\* what a command does when it has succeeded: approve, reject and warning fetch
\* the build; they and retry call onRetry, which fetches it too
HandleCommand(a) ==
    LET rest == asks \ {a}
        full == Ask("full", a.mine, rest)
        fix == Ask("fix", FALSE, rest)
    IN  /\ On("job") /\ a.kind \in Commands /\ a.st # "sent"
        /\ asks' = rest \union
             (IF a.st = "ok" /\ a.kind \in {"approve", "reject", "warning"}
              THEN {full, fix}
              ELSE IF a.st = "ok" /\ a.kind = "retry" THEN {fix} ELSE {})
        /\ busy' = IF a.mine THEN busy \ {a.kind} ELSE busy
        /\ UNCHANGED <<server, entry, fullBuild, shown, history>>

-----------------------------------------------------------------------------
ContentNext ==
    \/ \E s \in BuildStates : OpenJob(s)
    \/ LeaveJob \/ ShowTab \/ HideTab \/ BuildGoesOn \/ SendStatus
    \/ \E c \in Commands : Press(c)
    \/ \E a \in asks : \/ AnswerRead(a) \/ AnswerCommand(a) \/ Refuse(a)
                       \/ HandleFull(a) \/ HandleFix(a) \/ HandleStatus(a)
                       \/ HandleCommand(a)

ContentSpec == page = Elsewhere /\ ContentIdle /\ [][ContentNext]_<<page, contentVars>>

-----------------------------------------------------------------------------
ContentTypeOK ==
    /\ bst \in BuildStates /\ bvotes \subseteq Voters
    /\ entry \in Build
    /\ fullBuild \in [known : BOOLEAN, votes : SUBSET Voters]
    /\ shown \in BOOLEAN
    /\ busy \subseteq Commands
    /\ \A a \in asks : a.data \in Build /\ a.mine \in BOOLEAN

\* Once everything is answered, an ended build shows its final steps and a user
\* who has voted sees that vote, which ends the offer of a second one: unless a
\* request failed, or an answer was handled after a newer one.
ContentSettled ==
    shown /\ asks = {} /\ ~spoiled =>
        /\ entry.status \in Ended => entry.steps = "final"
        /\ cast => Me \in mergedBuild.votes

\* The change log says that the active build's data is no longer "overwritten by
\* stale snapshot": an ended build that shows its final steps goes on to do so.
NoStaleSnapshot ==
    [][page' = page /\ entry.status \in Ended /\ entry'.status = entry.status
         /\ entry.steps = "final" => entry'.steps = "final"]_contentVars
=============================================================================
