---------------------------- MODULE PollingProofs ----------------------------
(***************************************************************************)
(* Proofs about Polling: the polling loop of a mounted component has its   *)
(* type, and is never lost while the component is shown.  They hold for    *)
(* every bound MaxLoops.                                                   *)
(***************************************************************************)
EXTENDS Polling, TLAPS

\* What keeps the loop alive.  A timer that has fired is named until its call of
\* fn ends in schedule; a cleanup leaves no timer named; and in a visible tab
\* timeoutId is null during the first call of fn only.
Alive ==
    /\ timeoutId = "fired" => ticks > 0
    /\ stopped => timeoutId = "null"
    /\ timeoutId = "null" /\ ~stopped /\ ~hidden => ticks > 0

PollInv == PollTypeOK /\ Alive

-----------------------------------------------------------------------------
\* The effect starts with its invariant: a visible tab calls fn at once.
LEMMA InitInv == PollInit => PollInv
<1> SUFFICES ASSUME NEW h \in BOOLEAN, Mounted(h) PROVE PollInv
  BY DEF PollInit
<1>1. hidden \in BOOLEAN /\ stopped \in BOOLEAN
  BY Zenon DEF Mounted
<1>2. timeoutId = "null" /\ orphans = 0 /\ ~stopped
  BY DEF Mounted
<1>3. ticks \in Nat /\ (~hidden => ticks > 0)
  <2>1. CASE h = TRUE
    BY <2>1 DEF Mounted
  <2>2. CASE h = FALSE
    BY <2>2 DEF Mounted
  <2> QED BY <2>1, <2>2
<1> QED BY <1>1, <1>2, <1>3 DEF PollInv, PollTypeOK, Alive

\* A call that ends: schedule arms a timer unless the effect was cleaned up.
LEMMA TickDoneInv == PollInv /\ TickDone => PollInv'
<1> SUFFICES ASSUME PollInv, TickDone PROVE PollInv'
  OBVIOUS
<1>1. ticks \in Nat /\ ticks > 0 /\ ticks' = ticks - 1
  BY DEF PollInv, PollTypeOK, TickDone
<1>2. PollTypeOK'
  BY <1>1 DEF PollInv, PollTypeOK, TickDone, schedule
<1>3. Alive'
  <2>1. CASE stopped
    BY <2>1 DEF PollInv, Alive, TickDone, schedule
  <2>2. CASE ~stopped
    BY <2>2 DEF TickDone, schedule, Alive
  <2> QED BY <2>1, <2>2
<1> QED BY <1>2, <1>3 DEF PollInv

\* A timer that fires: tick calls fn unless the effect was cleaned up.
LEMMA TimerFiresInv == PollInv /\ TimerFires => PollInv'
<1> SUFFICES ASSUME PollInv, TimerFires PROVE PollInv'
  OBVIOUS
<1> USE DEF PollInv, PollTypeOK, Alive, TimerFires, tick
<1>1. CASE timeoutId = "armed" /\ timeoutId' = "fired" /\ orphans' = orphans
  <2>1. ~stopped /\ ticks' = ticks + 1
    BY <1>1
  <2> QED BY <1>1, <2>1
<1>2. CASE orphans > 0 /\ orphans' = orphans - 1 /\ timeoutId' = timeoutId
  <2>1. orphans' \in Nat /\ ticks' \in Nat /\ (ticks > 0 => ticks' > 0)
    BY <1>2
  <2> QED BY <1>2, <2>1
<1> QED BY <1>1, <1>2

\* The tab is hidden, or shown again, which starts a call when no timer is named.
LEMMA VisibilityInv == PollInv /\ (Hide \/ Show) => PollInv'
<1> SUFFICES ASSUME PollInv, Hide \/ Show PROVE PollInv'
  OBVIOUS
<1> USE DEF PollInv, PollTypeOK, Alive
<1>1. CASE Hide
  BY <1>1 DEF Hide, stop, idle
<1>2. CASE Show
  <2>1. CASE stopped
    BY <1>2, <2>1 DEF Show, idle
  <2>2. CASE ~stopped
    <3>1. timeoutId' = timeoutId /\ orphans' = orphans
      BY <1>2, <2>2 DEF Show, start
    <3>2. ticks' = IF timeoutId = "null" THEN ticks + 1 ELSE ticks
      BY <1>2, <2>2 DEF Show, start
    <3>3. hidden' \in BOOLEAN /\ stopped' \in BOOLEAN
      BY <1>2 DEF Show
    <3>4. ticks' \in Nat /\ (timeoutId = "null" => ticks' > 0) /\ (ticks > 0 => ticks' > 0)
      BY <3>2
    <3> QED BY <2>2, <1>2, <3>1, <3>3, <3>4 DEF Show
  <2> QED BY <2>1, <2>2
<1> QED BY <1>1, <1>2

\* The effect is cleaned up, or runs again.
LEMMA EffectInv == PollInv /\ (Cleanup \/ Rerun) => PollInv'
<1> SUFFICES ASSUME PollInv, Cleanup \/ Rerun PROVE PollInv'
  OBVIOUS
<1> USE DEF PollInv, PollTypeOK, Alive
<1>1. CASE Cleanup
  BY <1>1 DEF Cleanup, stop
<1>2. CASE Rerun
  <2>1. hidden' \in BOOLEAN /\ stopped' \in BOOLEAN
    BY <1>2, Zenon DEF Rerun
  <2>2. timeoutId' = "null" /\ orphans' = 0
    BY <1>2 DEF Rerun
  <2>3. CASE hidden
    BY <1>2, <2>1, <2>2, <2>3 DEF Rerun
  <2>4. CASE ~hidden
    BY <1>2, <2>1, <2>2, <2>4 DEF Rerun
  <2> QED BY <2>3, <2>4
<1> QED BY <1>1, <1>2

\* Every step of the loop keeps the invariant.
LEMMA NextInv == PollInv /\ [PollNext]_pollVars => PollInv'
<1> SUFFICES ASSUME PollInv, [PollNext]_pollVars PROVE PollInv'
  OBVIOUS
<1>1. CASE TickDone
  BY <1>1, TickDoneInv
<1>2. CASE TimerFires
  BY <1>2, TimerFiresInv
<1>3. CASE Hide \/ Show
  BY <1>3, VisibilityInv
<1>4. CASE Cleanup \/ Rerun
  BY <1>4, EffectInv
<1>5. CASE UNCHANGED pollVars
  BY <1>5 DEF pollVars, PollInv, PollTypeOK, Alive
<1> QED BY <1>1, <1>2, <1>3, <1>4, <1>5 DEF PollNext

-----------------------------------------------------------------------------
\* The closure of the effect has its type (timeoutId, stopped and what they
\* leave behind).
THEOREM PollTypeCorrect == PollSpec => []PollTypeOK
<1>1. PollInv => PollTypeOK
  BY DEF PollInv
<1> QED BY <1>1, InitInv, NextInv, PTL DEF PollSpec

\* A component that is mounted in a visible tab is never left without a call in
\* flight or an armed timer (start, stop and schedule of usePolling).
THEOREM LoopNeverLost == PollSpec => []LoopAlive
<1>1. PollInv => LoopAlive
  BY DEF PollInv, PollTypeOK, Alive, LoopAlive
<1> QED BY <1>1, InitInv, NextInv, PTL DEF PollSpec
=============================================================================
