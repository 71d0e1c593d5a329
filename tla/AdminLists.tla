----------------------------- MODULE AdminLists -----------------------------
(***************************************************************************)
(* The lists of the administration pages: the teams and the members of a   *)
(* team (Teams.js), the API tokens and linked accounts of a user           *)
(* (Users.js), the OAuth providers (OAuthAdmin.js), the workers            *)
(* (Workers.js) and the secrets of a pipeline (Secrets.js).  Each loads    *)
(* its rows once and then keeps them up to date with its own commands, in  *)
(* one of three ways: it asks for the rows again, it drops or edits a row  *)
(* of the rows it has by then, or of the rows it had when the user         *)
(* clicked.  Entries of other users are not polled for, and not modelled.  *)
(***************************************************************************)
EXTENDS Router, Integers, FiniteSets

CONSTANTS
    EntryNames,   \* names of entries
    TeamEntries,  \* names of the entries of the team, which a pipeline inherits
    StartEntries, \* the sets of names there may be when a list is opened
    MaxAdmin,     \* bound: calls in flight
    MaxChanges    \* bound: changes of the server's entries

ASSUME AdminAssumption ==
    /\ TeamEntries \subseteq EntryNames /\ StartEntries \subseteq SUBSET EntryNames
    /\ MaxAdmin \in Nat /\ MaxChanges \in Nat

VARIABLES
    aList,     \* the list that is mounted
    aOwn,      \* server: the entries, of a name and a value
    aVer,      \* server: changes so far
    aRows,     \* the rows of the table
    aReqs,     \* calls in flight
    aSeen,     \* history: the newest of the changes the rows were told of
    aSpoiled   \* history: an answer was lost, or older than what the rows were
               \* told, or used rows that had changed since the click

adminVars == <<aList, aOwn, aVer, aRows, aReqs, aSeen, aSpoiled>>

Lists == {"teams", "members", "tokens", "accounts", "providers", "workers", "secrets"}
\* the lists with a form for a new entry, and the ones whose entries are edited
Growing == {"members", "tokens", "providers", "secrets"}
Edited == {"members", "providers", "secrets"}

Entry(n, v) == [name |-> n, value |-> v]
\* the value an entry has at first, and the value the user gives one
Values == {0, 1}
NamesOf(es) == {e.name : e \in es}
Without(es, n) == {e \in es : e.name # n}
Team == IF aList = "secrets" THEN {Entry(n, 0) : n \in TeamEntries} ELSE {}

Row(e, inherited, overrides) ==
    [name |-> e.name, value |-> e.value, inherited |-> inherited, overrides |-> overrides]

\* the entries a pipeline sees: its own, and the team's that it does not shadow
mergeEntries(team, own) ==
    {Row(e, FALSE, e.name \in NamesOf(team)) : e \in own}
        \union {Row(e, TRUE, FALSE) : e \in {t \in team : t.name \notin NamesOf(own)}}

\* a call with the rows its handler closes over; own and team hold what a load
\* has read
Command(k, n, v) == [kind |-> k, name |-> n, value |-> v, st |-> "sent", ver |-> 0,
                     closure |-> aRows, own |-> {}, team |-> {}, legs |-> {}, torn |-> FALSE]
\* a load; its value tells it from the loads in flight
Loading ==
    [Command("load", "", CHOOSE v \in 0..MaxAdmin :
                            \A r \in aReqs : ~(r.kind = "load" /\ r.value = v))
        EXCEPT !.closure = {}]

-----------------------------------------------------------------------------
AdminIdle ==
    /\ aList = "teams" /\ aOwn = {} /\ aVer = 0 /\ aRows = {} /\ aReqs = {}
    /\ aSeen = 0 /\ aSpoiled = FALSE

OpenAdmin(l, es) ==
    /\ Enter("admin")
    /\ aList' = l
    /\ aOwn' = {Entry(n, 0) : n \in es}
    /\ aReqs' = {Loading}
    /\ aSpoiled' = TRUE
    /\ UNCHANGED <<aVer, aRows, aSeen>>

CloseAdmin ==
    /\ Leave("admin")
    /\ aList' = "teams" /\ aOwn' = {} /\ aVer' = 0 /\ aRows' = {} /\ aReqs' = {}
    /\ aSeen' = 0 /\ aSpoiled' = FALSE

-----------------------------------------------------------------------------
(* The user. *)

\* NewEntryRow takes no name that this scope has; a name of the team it does
OnAdd(n) ==
    /\ aList \in Growing
    /\ n \notin NamesOf({r \in aRows : ~r.inherited})
    /\ aReqs' = aReqs \union {Command("add", n, 1)}

\* a row that is inherited offers a link to the team and nothing else
OnSave(n) ==
    /\ aList \in Edited
    /\ \E r \in aRows : r.name = n /\ ~r.inherited
    /\ aReqs' = aReqs \union {Command("save", n, 1)}

OnDelete(n) ==
    /\ \E r \in aRows : r.name = n /\ ~r.inherited
    /\ aReqs' = aReqs \union {Command("delete", n, 0)}

Click ==
    /\ On("admin") /\ Cardinality(aReqs) < MaxAdmin
    /\ \E n \in EntryNames : OnDelete(n) \/ OnAdd(n) \/ OnSave(n)
    /\ UNCHANGED <<aList, aOwn, aVer, aRows, aSeen, aSpoiled>>

-----------------------------------------------------------------------------
(* The server. *)

Instead(r, f) == aReqs' = (aReqs \ {r}) \union {f}

\* a command takes effect; its answer may be lost
Performed(r) ==
    /\ On("admin") /\ r.kind # "load" /\ r.st = "sent" /\ aVer < MaxChanges
    /\ r.kind \in {"save", "delete"} => r.name \in NamesOf(aOwn)
    /\ aOwn' = Without(aOwn, r.name)
                   \union (IF r.kind = "delete" THEN {} ELSE {Entry(r.name, r.value)})
    /\ aVer' = aVer + 1
    /\ \E s \in {"ok", "lost"} : Instead(r, [r EXCEPT !.st = s, !.ver = aVer'])
    /\ UNCHANGED <<aList, aRows, aSeen, aSpoiled>>

Declined(r) ==
    /\ On("admin") /\ r.kind # "load" /\ r.st = "sent"
    /\ Instead(r, [r EXCEPT !.st = "failed"])
    /\ UNCHANGED <<aList, aOwn, aVer, aRows, aSeen, aSpoiled>>

\* the rows are read, for a pipeline in two requests: one that fails yields none
Legs == IF aList = "secrets" THEN {"own", "team"} ELSE {"own"}
Read(r, leg) ==
    /\ On("admin") /\ r.kind = "load" /\ r.st = "sent" /\ leg \in Legs \ r.legs
    /\ LET legs == r.legs \union {leg}
           done == IF legs = Legs THEN "ok" ELSE "sent"
       IN  Instead(r, IF leg = "own"
                      THEN [r EXCEPT !.legs = legs, !.st = done, !.own = aOwn, !.ver = aVer]
                      ELSE [r EXCEPT !.legs = legs, !.st = done, !.team = Team])
    /\ UNCHANGED <<aList, aOwn, aVer, aRows, aSeen, aSpoiled>>

ReadFails(r, leg) ==
    /\ On("admin") /\ r.kind = "load" /\ r.st = "sent" /\ leg \in Legs \ r.legs
    /\ LET legs == r.legs \union {leg}
       IN  IF aList = "secrets"
           THEN Instead(r, [r EXCEPT !.legs = legs, !.torn = TRUE,
                                     !.st = IF legs = Legs THEN "ok" ELSE "sent"])
           ELSE Instead(r, [r EXCEPT !.st = "failed"])
    /\ UNCHANGED <<aList, aOwn, aVer, aRows, aSeen, aSpoiled>>

-----------------------------------------------------------------------------
(* The answers. *)

Told(r) == aSeen' = IF r.ver > aSeen THEN r.ver ELSE aSeen

\* setTeams, setMembers, setTokens, ..., setEntries
Loaded(r) ==
    /\ On("admin") /\ r.kind = "load" /\ r.st = "ok"
    /\ aRows' = mergeEntries(r.team, r.own)
    /\ aReqs' = aReqs \ {r}
    /\ Told(r)
    /\ aSpoiled' = (r.torn \/ r.ver < aSeen)
    /\ UNCHANGED <<aList, aOwn, aVer>>

\* a failure or a lost answer: a toast, and the rows stay
Unheard(r) ==
    /\ On("admin") /\ r.st \in {"failed", "lost"}
    /\ aReqs' = aReqs \ {r}
    /\ Told(r)
    /\ aSpoiled' = (aSpoiled \/ r.st = "lost" \/ r.kind = "load")
    /\ UNCHANGED <<aList, aOwn, aVer, aRows>>

\* handlers that ask for the rows again
Reloaded(r) == aReqs' = (aReqs \ {r}) \union {Loading} /\ UNCHANGED <<aRows, aSpoiled>>

\* handlers that take the rows they closed over
FromClosure(r, rows) ==
    /\ aRows' = rows
    /\ aReqs' = aReqs \ {r}
    /\ aSpoiled' = (aSpoiled \/ r.closure # aRows \/ r.ver < aSeen)

\* handlers that take the rows there are by now; wrong for an entry that was
\* added again in the meantime
FromLatest(r, rows) ==
    /\ aRows' = rows
    /\ aReqs' = aReqs \ {r}
    /\ aSpoiled' = (aSpoiled \/ r.name \in NamesOf(aOwn))

Done(r, lists, kind) ==
    /\ On("admin") /\ r.kind = kind /\ r.st = "ok" /\ aList \in lists
    /\ Told(r)
    /\ UNCHANGED <<aList, aOwn, aVer>>

TeamDeleted(r) == Done(r, {"teams"}, "delete") /\ FromClosure(r, Without(r.closure, r.name))

MemberAdded(r) == Done(r, {"members"}, "add") /\ Reloaded(r)
MemberDeleted(r) == Done(r, {"members"}, "delete") /\ FromLatest(r, Without(aRows, r.name))
RoleChanged(r) ==
    /\ Done(r, {"members"}, "save")
    /\ FromClosure(r, {IF m.name = r.name THEN [m EXCEPT !.value = r.value] ELSE m
                          : m \in r.closure})

TokenCreated(r) == Done(r, {"tokens"}, "add") /\ Reloaded(r)
TokenDeleted(r) == Done(r, {"tokens"}, "delete") /\ FromClosure(r, Without(r.closure, r.name))
AccountUnlinked(r) == Done(r, {"accounts"}, "delete") /\ FromClosure(r, Without(r.closure, r.name))

ProviderSaved(r) == Done(r, {"providers"}, "add") /\ Reloaded(r)
ProviderEdited(r) == Done(r, {"providers"}, "save") /\ Reloaded(r)
ProviderDeleted(r) == Done(r, {"providers"}, "delete") /\ FromClosure(r, Without(r.closure, r.name))

WorkerDeleted(r) == Done(r, {"workers"}, "delete") /\ FromLatest(r, Without(aRows, r.name))

SecretStored(r) == Done(r, {"secrets"}, "add") /\ Reloaded(r)
SecretUpdated(r) == Done(r, {"secrets"}, "save") /\ Reloaded(r)
\* Mutant: the row is dropped and nothing is asked.
SecretDeleted_Dropped(r) ==
    Done(r, {"secrets"}, "delete") /\ FromLatest(r, Without(aRows, r.name))

\* deleting what shadowed an entry of the team reveals it
SecretDeleted(r) == Done(r, {"secrets"}, "delete") /\ Reloaded(r)

AdminNext ==
    \/ \E l \in Lists, es \in StartEntries : OpenAdmin(l, es)
    \/ CloseAdmin \/ Click
    \/ \E r \in aReqs :
          \/ Performed(r) \/ Declined(r) \/ Loaded(r) \/ Unheard(r)
          \/ \E leg \in Legs : Read(r, leg) \/ ReadFails(r, leg)
          \/ TeamDeleted(r) \/ MemberAdded(r) \/ MemberDeleted(r) \/ RoleChanged(r)
          \/ TokenCreated(r) \/ TokenDeleted(r) \/ AccountUnlinked(r)
          \/ ProviderSaved(r) \/ ProviderEdited(r) \/ ProviderDeleted(r)
          \/ WorkerDeleted(r)
          \/ SecretStored(r) \/ SecretUpdated(r) \/ SecretDeleted(r)

AdminSpec == page = Elsewhere /\ AdminIdle /\ [][AdminNext]_<<page, adminVars>>

-----------------------------------------------------------------------------
AdminTypeOK ==
    /\ aList \in Lists /\ NamesOf(aOwn) \subseteq EntryNames
    /\ aVer \in 0..MaxChanges /\ aSeen \in 0..MaxChanges
    /\ \A r \in aRows : r.name \in EntryNames /\ r.value \in Values
    /\ \A r \in aReqs : r.st \in {"sent", "ok", "lost", "failed"} /\ r.ver \in 0..MaxChanges
    /\ aSpoiled \in BOOLEAN

\* When a list waits for nothing, each name that is in force has one row, with
\* the value in force; it is marked as inherited or as overriding the team, and
\* nothing else is shown, whatever the user added, edited and deleted at once,
\* as long as no answer was lost, came after a newer one or used rows older
\* than the ones shown (the handlers of Teams.js, Users.js, OAuthAdmin.js,
\* Workers.js and Secrets.js; mergeEntries).
AdminListTrue ==
    page = "admin" /\ aReqs = {} /\ ~aSpoiled =>
        \A n \in EntryNames :
            LET rows == {r \in aRows : r.name = n}
                own == {e \in aOwn : e.name = n}
                team == {e \in Team : e.name = n}
            IN  /\ Cardinality(rows) = IF own \union team = {} THEN 0 ELSE 1
                /\ \A r \in rows :
                      /\ Entry(n, r.value) \in (IF own # {} THEN own ELSE team)
                      /\ r.inherited <=> own = {}
                      /\ r.overrides <=> own # {} /\ team # {}
=============================================================================
