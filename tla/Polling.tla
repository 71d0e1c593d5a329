------------------------------- MODULE Polling -------------------------------
(***************************************************************************)
(* usePolling of assets/js/app/hooks.js: one effect of a mounted component *)
(* that calls an asynchronous function, waits for it, arms a timer and     *)
(* calls it again, and that is told when the browser tab is hidden.        *)
(*                                                                         *)
(* The closure of the effect holds timeoutId and stopped.  timeoutId keeps *)
(* the number of a timer after that timer has fired, and a later schedule  *)
(* overwrites it: the timers it no longer names are counted in orphans.    *)
(***************************************************************************)
EXTENDS Integers

CONSTANT MaxLoops   \* bound: calls of fn and timers that there may be at once

VARIABLES
    hidden,     \* document.hidden
    stopped,    \* the effect was cleaned up (unmounted or disabled)
    timeoutId,  \* "null", "armed" (a timer that will fire), "fired"
    orphans,    \* armed timers that timeoutId does not name
    ticks       \* calls of fn that have not settled

pollVars == <<hidden, stopped, timeoutId, orphans, ticks>>

-----------------------------------------------------------------------------
(* The parts of the effect. *)

\* tick: refused after the cleanup, otherwise fn is called
tick == ticks' = IF stopped THEN ticks ELSE ticks + 1

\* schedule, which ends every tick
schedule ==
    /\ timeoutId' = IF stopped THEN timeoutId ELSE "armed"
    /\ orphans' = IF ~stopped /\ timeoutId = "armed" THEN orphans + 1 ELSE orphans

\* start: only when timeoutId is null, which it also is during the first tick
start ==
    /\ ticks' = IF timeoutId = "null" THEN ticks + 1 ELSE ticks
    /\ timeoutId' = timeoutId /\ orphans' = orphans

\* stop: clearTimeout of what timeoutId names
stop == /\ timeoutId' = "null"
        /\ orphans' = orphans /\ ticks' = ticks

\* no listener
idle == timeoutId' = timeoutId /\ orphans' = orphans /\ ticks' = ticks

-----------------------------------------------------------------------------
\* The effect runs: a tab that is visible polls at once.
Mounted(h) ==
    /\ hidden = h
    /\ stopped = FALSE
    /\ timeoutId = "null"
    /\ orphans = 0
    /\ ticks = IF h THEN 0 ELSE 1

PollInit == \E h \in BOOLEAN : Mounted(h)

\* fn settled, whether it returned or threw
TickDone ==
    /\ ticks > 0
    /\ ticks' = ticks - 1
    /\ schedule
    /\ hidden' = hidden /\ stopped' = stopped

\* a timer fires: the one timeoutId names, or one it no longer names
TimerFires ==
    /\ \/ timeoutId = "armed" /\ timeoutId' = "fired" /\ orphans' = orphans
       \/ orphans > 0 /\ orphans' = orphans - 1 /\ timeoutId' = timeoutId
    /\ tick
    /\ hidden' = hidden /\ stopped' = stopped

\* onVisibility with document.hidden; the listener is gone after the cleanup
Hide ==
    /\ ~hidden
    /\ hidden' = TRUE
    /\ IF stopped THEN idle ELSE stop
    /\ stopped' = stopped

\* onVisibility with a visible document
Show ==
    /\ hidden
    /\ timeoutId = "null" => ticks + orphans < MaxLoops
    /\ hidden' = FALSE
    /\ IF stopped THEN idle ELSE start
    /\ stopped' = stopped

\* the cleanup of the effect: the component goes away or polling is disabled
Cleanup ==
    /\ ~stopped
    /\ stopped' = TRUE
    /\ stop
    /\ hidden' = hidden

\* the effect runs again (enabled is set back): a closure of its own, in which
\* what the old one left behind is not seen
Rerun ==
    /\ stopped
    /\ stopped' = FALSE
    /\ timeoutId' = "null"
    /\ orphans' = 0
    /\ ticks' = IF hidden THEN 0 ELSE 1
    /\ hidden' = hidden

PollNext == TickDone \/ TimerFires \/ Hide \/ Show \/ Cleanup \/ Rerun

\* A promise settles and a timer fires sooner or later; what the user does is
\* not fair.
PollFairness == WF_pollVars(TickDone) /\ WF_pollVars(TimerFires)

PollSpec == PollInit /\ [][PollNext]_pollVars /\ PollFairness

-----------------------------------------------------------------------------
PollTypeOK ==
    /\ hidden \in BOOLEAN
    /\ stopped \in BOOLEAN
    /\ timeoutId \in {"null", "armed", "fired"}
    /\ orphans \in Nat
    /\ ticks \in Nat

\* A component that is mounted in a visible tab never loses its loop: a call is
\* in flight or a timer is armed, however hiding and showing the tab, slow calls
\* and overwritten timer numbers interleave (start, stop, schedule).
LoopAlive ==
    ~stopped /\ ~hidden => ticks > 0 \/ timeoutId = "armed" \/ orphans > 0
=============================================================================
