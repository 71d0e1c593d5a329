----------------------------- MODULE WebSession -----------------------------
(***************************************************************************)
(* The session of the web interface: state.js keeps it in a signal of each *)
(* browser tab and in the localStorage that the tabs share; api.js sends   *)
(* its token with every call, refreshes it and ends the session when the   *)
(* server refuses it; hooks.js, Login.js, Layout.js and the password tab   *)
(* of Users.js send the user where the session allows.                     *)
(*                                                                         *)
(* A token is the token_gen it was issued with; the server accepts the     *)
(* current one only, and a change of the password makes a new one.         *)
(***************************************************************************)
EXTENDS Router, Integers, FiniteSets

CONSTANTS
    Tabs,       \* the browser tabs
    MustChange, \* the user's first password has to be changed
    MaxGen,     \* bound: changes of the password
    MaxCalls    \* bound: calls in flight

ASSUME SessionAssumption == MustChange \in BOOLEAN /\ MaxGen \in Nat /\ MaxCalls \in Nat

VARIABLES
    sGen,       \* the user's token_gen at the server
    sStore,     \* localStorage
    sTab,       \* session of each tab
    sRoute,     \* the page each tab shows
    sCalls,     \* calls in flight
    sClosed,    \* history: the last session of the browser was ended, and nothing
                \* was answered since that may begin one: a login, or a refresh or
                \* change of the password that was sent with a token
    sSpoiled    \* history: the password was changed by somebody else, beside
                \* another session, while calls were in flight, or with an answer
                \* that was lost

sessionVars == <<sGen, sStore, sTab, sRoute, sCalls, sClosed, sSpoiled>>

Out == -1
Sessions == Out..MaxGen
Routes == {"login", "home", "profile"}
mustChange(s) == MustChange /\ s = 0

\* the calls whose answer holds a new token
Grants == {"login", "refresh", "password"}
Call(t, k) == [tab |-> t, kind |-> k, gen |-> sTab[t], st |-> "sent", got |-> Out]
InSession(tabs) == \E t \in Tabs : tabs[t] # Out

-----------------------------------------------------------------------------
(* state.js *)

login(t, g) == sTab' = [sTab EXCEPT ![t] = g] /\ sStore' = g
\* Mutant: localStorage is left as it is.
logout_TabOnly(t) == sTab' = [sTab EXCEPT ![t] = Out] /\ sStore' = sStore

logout(t) == sTab' = [sTab EXCEPT ![t] = Out] /\ sStore' = Out

\* useRequireAuth, which looks once, when the page is mounted
useRequireAuth(s, r) == IF s = Out THEN "login"
                        ELSE IF mustChange(s) THEN "profile" ELSE r

\* Login sends a user home who has a session already
Landing(s, r) == IF r = "login" /\ s # Out THEN useRequireAuth(s, "home")
                 ELSE IF r = "login" THEN r ELSE useRequireAuth(s, r)

-----------------------------------------------------------------------------
SessionIdle ==
    /\ sGen = 0 /\ sStore = Out
    /\ sTab = [t \in Tabs |-> Out]
    /\ sRoute = [t \in Tabs |-> "login"]
    /\ sCalls = {} /\ sClosed = FALSE /\ sSpoiled = FALSE

OpenBrowser == Enter("session") /\ UNCHANGED sessionVars

CloseBrowser ==
    /\ Leave("session")
    /\ sGen' = 0 /\ sStore' = Out
    /\ sTab' = [t \in Tabs |-> Out]
    /\ sRoute' = [t \in Tabs |-> "login"]
    /\ sCalls' = {} /\ sClosed' = FALSE /\ sSpoiled' = FALSE

\* the tab is loaded again: the session comes from localStorage, and answers to
\* what was sent before are not heard
Reload(t) ==
    /\ On("session")
    /\ sTab' = [sTab EXCEPT ![t] = sStore]
    /\ sRoute' = [sRoute EXCEPT ![t] = Landing(sStore, sRoute[t])]
    /\ sCalls' = {c \in sCalls : c.tab # t}
    /\ sSpoiled' = (sSpoiled \/ \E c \in sCalls : c.kind = "password")
    /\ UNCHANGED <<sGen, sStore, sClosed>>

Visit(t, r) ==
    /\ On("session")
    /\ sRoute' = [sRoute EXCEPT ![t] = Landing(sTab[t], r)]
    /\ UNCHANGED <<sGen, sStore, sTab, sCalls, sClosed, sSpoiled>>

\* an api call of a page, a login, or a change of the password
Send(t, k) ==
    /\ On("session") /\ Cardinality(sCalls) < MaxCalls
    /\ k = "login" => sRoute[t] = "login"
    /\ k = "password" => sRoute[t] = "profile" /\ sTab[t] # Out
    /\ \A c \in sCalls : ~(c.tab = t /\ c.kind = k)
    /\ sCalls' = sCalls \union {Call(t, k)}
    /\ sSpoiled' = (sSpoiled \/ \E c \in sCalls : c.kind = "password")
    /\ UNCHANGED <<sGen, sStore, sTab, sRoute, sClosed>>

\* handleLogout of the header
handleLogout(t) ==
    /\ On("session") /\ sTab[t] # Out
    /\ logout(t)
    /\ sRoute' = [sRoute EXCEPT ![t] = "login"]
    /\ sClosed' = ~InSession(sTab')
    /\ UNCHANGED <<sGen, sCalls, sSpoiled>>

-----------------------------------------------------------------------------
(* The server. *)

Replied(c, s, g) == sCalls' = (sCalls \ {c}) \union {[c EXCEPT !.st = s, !.got = g]}

\* "ok", "stale" (with X-Refresh-Token) or "refused".  The generation of a token is
\* not looked at when the user cannot be read.
Served(c) ==
    /\ On("session") /\ c.st = "sent"
    /\ \/ /\ c.kind = "call" /\ c.gen # Out
          /\ \E s \in {"ok", "stale"} : Replied(c, s, Out)
          /\ UNCHANGED <<sGen, sSpoiled>>
       \/ /\ c.kind = "refresh" /\ c.gen # Out
          /\ Replied(c, "ok", sGen)
          /\ UNCHANGED <<sGen, sSpoiled>>
       \/ /\ c.kind = "login"
          /\ Replied(c, "ok", sGen)
          /\ UNCHANGED <<sGen, sSpoiled>>
       \/ /\ c.kind = "password" /\ c.gen # Out /\ sGen < MaxGen
          /\ sGen' = sGen + 1
          /\ Replied(c, "ok", sGen')
          /\ sSpoiled' = (sSpoiled \/ sCalls # {c} \/ \E t \in Tabs \ {c.tab} : sTab[t] # Out)
    /\ UNCHANGED <<sStore, sTab, sRoute, sClosed>>

\* an old token or none, or a call the user is not allowed: "Authentication
\* required"
Refused(c) ==
    /\ On("session") /\ c.st = "sent"
    /\ c.kind \notin {"login", "call"} => c.gen # sGen
    /\ Replied(c, "refused", Out)
    /\ UNCHANGED <<sGen, sStore, sTab, sRoute, sClosed, sSpoiled>>

\* an administrator resets the password
Reset ==
    /\ On("session") /\ sGen < MaxGen
    /\ sGen' = sGen + 1
    /\ sSpoiled' = TRUE
    /\ UNCHANGED <<sStore, sTab, sRoute, sCalls, sClosed>>

-----------------------------------------------------------------------------
(* api.js handles an answer. *)

\* refreshToken sends the token the tab has by now
refreshToken(t) == {Call(t, "refresh")}

CallAnswered(c) ==
    /\ On("session") /\ c.st \in {"ok", "stale"} /\ c.kind = "call"
    /\ sCalls' = (sCalls \ {c}) \union (IF c.st = "stale" THEN refreshToken(c.tab) ELSE {})
    /\ sClosed' = sClosed
    /\ sSpoiled' = (sSpoiled \/ (c.st = "stale" /\ \E d \in sCalls : d.kind = "password"))
    /\ UNCHANGED <<sGen, sStore, sTab, sRoute>>

\* a new token: the session of the tab, whatever it was; Login and the password
\* tab go on to another page
Granted(c) ==
    /\ On("session") /\ c.st = "ok" /\ c.kind \in Grants
    /\ login(c.tab, c.got)
    /\ sRoute' = [sRoute EXCEPT ![c.tab] =
                    CASE c.kind = "login" -> useRequireAuth(c.got, "home")
                      [] c.kind = "password" /\ mustChange(c.gen) -> "home"
                      [] OTHER -> @]
    /\ sCalls' = sCalls \ {c}
    /\ sClosed' = (sClosed /\ c.kind # "login" /\ c.gen = Out)
    /\ UNCHANGED <<sGen, sSpoiled>>

\* "Authentication required" ends the session the tab has by now; refreshToken
\* and a login that fails change nothing
CallRefused(c) ==
    /\ On("session") /\ c.st = "refused"
    /\ sCalls' = sCalls \ {c}
    /\ IF c.kind \in {"call", "password"} /\ sTab[c.tab] # Out
       THEN /\ logout(c.tab)
            /\ sRoute' = [sRoute EXCEPT ![c.tab] = "login"]
            /\ sClosed' = ~InSession(sTab')
       ELSE UNCHANGED <<sStore, sTab, sRoute, sClosed>>
    /\ UNCHANGED <<sGen, sSpoiled>>

\* Any other failure tells the user so and changes nothing: the call was wrong, as
\* one with the wrong old password, or it or its answer is lost, although the
\* server may have done what it asks for.
CallLost(c) ==
    /\ On("session")
    /\ sCalls' = sCalls \ {c}
    /\ sSpoiled' = (sSpoiled \/ (c.kind = "password" /\ c.st = "ok"))
    /\ UNCHANGED <<sGen, sStore, sTab, sRoute, sClosed>>

SessionNext ==
    \/ OpenBrowser \/ CloseBrowser \/ Reset
    \/ \E t \in Tabs : \/ Reload(t) \/ handleLogout(t)
                       \/ \E r \in Routes : Visit(t, r)
                       \/ \E k \in {"call", "login", "password"} : Send(t, k)
    \/ \E c \in sCalls : \/ Served(c) \/ Refused(c) \/ CallAnswered(c)
                         \/ Granted(c) \/ CallRefused(c) \/ CallLost(c)

SessionSpec == page = Elsewhere /\ SessionIdle /\ [][SessionNext]_<<page, sessionVars>>

-----------------------------------------------------------------------------
SessionTypeOK ==
    /\ sGen \in 0..MaxGen /\ sStore \in Sessions
    /\ sTab \in [Tabs -> Sessions] /\ sRoute \in [Tabs -> Routes]
    /\ \A c \in sCalls : c.tab \in Tabs /\ c.gen \in Sessions /\ c.got \in Sessions
    /\ sClosed \in BOOLEAN /\ sSpoiled \in BOOLEAN

\* After the user has logged out of the last tab, or was refused in it, no tab has
\* a session, nor does a reload find one, before the answer to a login is heard, or
\* that to a refresh or a change of the password which was sent with the old token:
\* these do bring the session back.  And a user who changes the password goes on
\* with a token the server accepts, unless another call or session was in the way
\* or the answer was lost (logout, login, refreshToken, onChangePassword).
SessionSound ==
    /\ sClosed => sStore = Out /\ ~InSession(sTab)
    /\ ~sSpoiled => \A t \in Tabs :
          sTab[t] \notin {Out, sGen} =>
             \E c \in sCalls : c.tab = t /\ c.kind = "password" /\ c.got = sGen
=============================================================================
