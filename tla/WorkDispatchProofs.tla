------------------------- MODULE WorkDispatchProofs -------------------------
(***************************************************************************)
(* Proofs about WorkDispatch: the types, that no stream is closed twice,   *)
(* that a build is at one place only on its way through the workers, and   *)
(* that a stream's slots cover what is sent on it, for any numbers of      *)
(* builds, workers, sessions and slots.                                    *)
(***************************************************************************)
EXTENDS WorkDispatch, FiniteSetTheorems, SequenceTheorems, TLAPS

Phases == {"down", "registered", "up", "draining", "stopped"}

-----------------------------------------------------------------------------
(* The inductive invariant.                                                *)

\* The stream a worker is registered with is its own, has a handler, and is
\* open: what ClosedOnce needs to survive the next registration.
StreamsOpen ==
  \A w \in Workers : streams[w] # NoSession =>
    /\ ss[streams[w]].worker = w
    /\ ss[streams[w]].handler = "live"
    /\ ~ss[streams[w]].done

JobMessage(b) == [type |-> "job", build |-> b]

\* The job of build b is in the Send channel of session s.
InSend(s, b) == \E i \in 1..Len(ss[s].send) : ss[s].send[i] = JobMessage(b)

Kinds  == {"item", "send", "exec", "result"}
Owners == Sessions \cup Pollers

\* Where build b is on its way: claimed by the loop of s, sent on s, executed
\* by a job that came by s (or by the embedded worker s), reported on s.
At(k, s, b) ==
  \/ k = "item" /\ s \in Sessions /\ b \in ss[s].item
  \/ k = "send" /\ s \in Sessions /\ InSend(s, b)
  \/ k = "exec" /\ s \in Owners /\ exec[b].by = s
  \/ k = "result" /\ s \in Sessions /\ b \in ss[s].results

\* A build is at one place at most ...
OnePlace ==
  \A b \in Builds : \A k, l \in Kinds : \A s, t \in Owners :
    At(k, s, b) /\ At(l, t, b) => k = l /\ s = t

\* ... at none before it is claimed ...
NotYet ==
  \A b \in Builds : work[b] \in {"none", "pending"} =>
    \A k \in Kinds : \A s \in Owners : ~At(k, s, b)

\* ... and its job is in a channel once.
SentOnce ==
  \A s \in Sessions : \A i, j \in 1..Len(ss[s].send) :
    ss[s].send[i].type = "job" /\ ss[s].send[j] = ss[s].send[i] => i = j

\* The slots of a stream whose handler runs: they cover what it carries, and
\* one is free when the loop is about to send.
SlotsOK(s) ==
  /\ IsFiniteSet(ss[s].running)
  /\ Cardinality(ss[s].running) <= MaxJobs
  /\ ss[s].loop = "send" => Cardinality(ss[s].running) < MaxJobs
  /\ \A b \in Builds : At("exec", s, b) \/ At("send", s, b) => b \in ss[s].running

SlotsInv ==
  \A s \in Sessions : /\ ss[s].handler = "live" => SlotsOK(s)
                      /\ ss[s].handler = "unused" => \A b \in Builds : ~At("exec", s, b)

PlaceInv == TypeOK /\ OnePlace /\ NotYet /\ SentOnce

DispatchInv == PlaceInv /\ StreamsOpen /\ SlotsInv

-----------------------------------------------------------------------------
(* Types.                                                                  *)

\* A notification changes nothing of a stream but that its loop looks again.
LEMMA NotifiedFields ==
  ASSUME NEW f \in [Sessions -> Stream]
  PROVE  /\ Notified(f) \in [Sessions -> Stream]
         /\ \A s \in Sessions :
              /\ Notified(f)[s].worker = f[s].worker /\ Notified(f)[s].handler = f[s].handler
              /\ Notified(f)[s].done = f[s].done /\ Notified(f)[s].running = f[s].running
              /\ Notified(f)[s].send = f[s].send /\ Notified(f)[s].item = f[s].item
              /\ Notified(f)[s].results = f[s].results
              /\ Notified(f)[s].loop = "send" => f[s].loop = "send"
<1> SUFFICES ASSUME NEW s \in Sessions
             PROVE  /\ Notified(f)[s] \in Stream
                    /\ Notified(f)[s].worker = f[s].worker /\ Notified(f)[s].handler = f[s].handler
                    /\ Notified(f)[s].done = f[s].done /\ Notified(f)[s].running = f[s].running
                    /\ Notified(f)[s].send = f[s].send /\ Notified(f)[s].item = f[s].item
                    /\ Notified(f)[s].results = f[s].results
                    /\ Notified(f)[s].loop = "send" => f[s].loop = "send"
  BY DEF Notified
<1>1. f[s] \in Stream
  OBVIOUS
<1>2. Notified(f)[s] = IF f[s].loop = "wait" THEN [f[s] EXCEPT !.loop = "try"] ELSE f[s]
  BY DEF Notified
<1> QED BY <1>1, <1>2 DEF Stream, Loops

\* Nor do the embedded workers get anything but a second look.
LEMMA NotifiedPolls ==
  ASSUME NEW f \in [Pollers -> Polls] PROVE NotifiedPollers(f) \in [Pollers -> Polls]
BY DEF NotifiedPollers, Polls

\* The records the actions put together.
LEMMA Records ==
  /\ Unused \in Stream /\ Nobody \in Exec
  /\ NoSession \notin Sessions /\ Sessions \subseteq Int /\ NoSession \notin Pollers
  /\ \A b \in Builds : JobMessage(b) \in Message
  /\ \A r \in Stream : /\ \A l \in Loops : [r EXCEPT !.loop = l] \in Stream
                       /\ [r EXCEPT !.done = TRUE] \in Stream
<1>1. <<>> \in Seq(Message)
  OBVIOUS
<1>2. NoSession \notin Sessions /\ Sessions \subseteq Int /\ NoSession \notin Pollers
  BY DispatchAssumptions DEF Sessions, NoSession
<1>3. Unused \in Stream
  BY <1>1 DEF Unused, Stream, Loops
<1> QED BY <1>2, <1>3 DEF Stream, Loops, Nobody, Exec, JobMessage, Message

\* What users do keeps the types.
LEMMA TypeUsers ==
  ASSUME TypeOK, NEW b \in Builds, CreateJobBuild(b) \/ FindForCancel(b) \/ CancelJobBuild(b)
  PROVE  TypeOK'
<1>1. ss \in [Sessions -> Stream] /\ work \in [Builds -> Statuses]
  BY DEF TypeOK
<1>2. CASE CreateJobBuild(b)
  <2>1. work' \in [Builds -> Statuses]
    BY <1>1, <1>2 DEF CreateJobBuild, Statuses
  <2> QED BY <1>2, <2>1, NotifiedFields, NotifiedPolls DEF TypeOK, CreateJobBuild
<1>3. CASE FindForCancel(b)
  BY <1>3 DEF TypeOK, FindForCancel, Cancellable
<1>4. CASE CancelJobBuild(b)
  <2>1. work' \in [Builds -> Statuses]
    BY <1>1, <1>4 DEF CancelJobBuild, Statuses
  <2>2. ss' \in [Sessions -> Stream]
    <3>1. CASE ss' = Notified(ss)
      BY <1>1, <3>1, NotifiedFields
    <3>2. ASSUME NEW s \in Sessions,
                 ss' = Notified([ss EXCEPT ![s].send = Append(@, [type |-> "cancel", build |-> b])])
          PROVE  ss' \in [Sessions -> Stream]
      <4>1. Append(ss[s].send, [type |-> "cancel", build |-> b]) \in Seq(Message)
        <5>1. ss[s].send \in Seq(Message) /\ [type |-> "cancel", build |-> b] \in Message
          BY <1>1 DEF Stream, Message
        <5> QED BY <5>1, AppendProperties
      <4>2. [ss[s] EXCEPT !.send = Append(@, [type |-> "cancel", build |-> b])] \in Stream
        BY <1>1, <4>1 DEF Stream
      <4> QED BY <1>1, <3>2, <4>2, NotifiedFields
    <3>3. \/ ss' = Notified(ss)
          \/ \E s \in Sessions :
               ss' = Notified([ss EXCEPT ![s].send = Append(@, [type |-> "cancel", build |-> b])])
      BY <1>4 DEF CancelJobBuild, TypeOK
    <3> QED BY <3>1, <3>2, <3>3
  <2>3. cancelling' \in [Builds -> {"none", "pending", "started"}]
    BY <1>4 DEF TypeOK, CancelJobBuild
  <2> QED BY <1>4, <2>1, <2>2, <2>3, NotifiedPolls DEF TypeOK, CancelJobBuild
<1> QED BY <1>2, <1>3, <1>4

\* So does connecting.
LEMMA TypeConnect ==
  ASSUME TypeOK, NEW w \in Workers,
         \/ Register(w) \/ ExpireRegistration(w) \/ RefuseExecute(w) \/ Break(w)
         \/ \E s \in Sessions : Execute(w, s)
  PROVE  TypeOK'
<1>1. /\ client \in [Workers -> [phase: Phases, conn: Sessions \cup {NoSession}]]
      /\ ss \in [Sessions -> Stream]
  BY DEF TypeOK, Phases
<1>2. CASE Register(w)
  BY <1>1, <1>2 DEF TypeOK, Register, Phases
<1>3. CASE ExpireRegistration(w)
  BY <1>3 DEF TypeOK, ExpireRegistration
<1>4. CASE RefuseExecute(w)
  BY <1>1, <1>4 DEF TypeOK, RefuseExecute, Phases
<1>5. CASE Break(w)
  BY <1>1, <1>5 DEF TypeOK, Break, Phases
<1>6. ASSUME NEW s \in Sessions, Execute(w, s) PROVE TypeOK'
  <2> DEFINE new == [Unused EXCEPT !.worker = w, !.handler = "live", !.loop = "try"]
             closed == [t \in Sessions |->
                          IF t = streams[w] THEN [ss[t] EXCEPT !.done = TRUE] ELSE ss[t]]
  <2>1. new \in Stream
    BY ZenonT(60), Records DEF Stream, Loops
  <2>2. closed \in [Sessions -> Stream]
    BY <1>1, Records
  <2>3. ss' \in [Sessions -> Stream]
    BY <1>6, <2>1, <2>2 DEF Execute
  <2>4. client' \in [Workers -> [phase: Phases, conn: Sessions \cup {NoSession}]]
    BY <1>1, <1>6 DEF Execute, Phases
  <2>5. streams' \in [Workers -> Sessions \cup {NoSession}] /\ registered' \subseteq Workers
    BY <1>6 DEF TypeOK, Execute, RegisterStream
  <2> QED BY <1>6, <2>3, <2>4, <2>5 DEF TypeOK, Execute, Phases
<1> QED BY <1>2, <1>3, <1>4, <1>5, <1>6

\* So do the loop and the handler of a stream ...
LEMMA TypeStream ==
  ASSUME TypeOK, NEW s \in Sessions,
         EndExecute(s) \/ Loop(s) \/ Deliver(s) \/ \E b \in Builds : handleJobResult(s, b)
  PROVE  TypeOK'
<1>1. ss \in [Sessions -> Stream] /\ ss[s] \in Stream
  BY DEF TypeOK
<1>2. CASE EndExecute(s)
  <2>1. [Unused EXCEPT !.worker = ss[s].worker, !.handler = "ended",
                       !.loop = ss[s].loop, !.item = ss[s].item] \in Stream
    BY <1>1, Records DEF Stream
  <2>2. streams' \in [Workers -> Sessions \cup {NoSession}]
    BY <1>2 DEF TypeOK, EndExecute
  <2> QED BY <1>1, <1>2, <2>1, <2>2 DEF TypeOK, EndExecute
<1>3. CASE Claim(s)
  <2>1. PICK b \in Builds : /\ work' = [work EXCEPT ![b] = "started"]
                            /\ ss' = [ss EXCEPT ![s].loop = "send", ![s].item = {b}]
    BY <1>3 DEF Claim, Claimable
  <2>2. [ss[s] EXCEPT !.loop = "send", !.item = {b}] \in Stream
    BY <1>1 DEF Stream, Loops
  <2>3. ss' = [ss EXCEPT ![s] = [ss[s] EXCEPT !.loop = "send", !.item = {b}]]
    BY <1>1, <2>1
  <2>4. work' \in [Builds -> Statuses]
    BY <2>1 DEF TypeOK, Statuses
  <2>5. ss' \in [Sessions -> Stream]
    BY <1>1, <2>2, <2>3
  <2> QED BY <1>3, <2>4, <2>5 DEF TypeOK, Claim
<1>4. CASE sendWorkItem(s)
  <2>1. PICK b \in ss[s].item :
          ss' = [ss EXCEPT ![s] = [Queued(s, b) EXCEPT !.loop = "try", !.item = {}]]
    BY <1>4 DEF sendWorkItem
  <2>2. b \in Builds
    BY <1>1 DEF Stream
  <2>3. Append(ss[s].send, [type |-> "job", build |-> b]) \in Seq(Message)
    BY <1>1, <2>2 DEF Stream, Message
  <2>4. Queued(s, b) \in Stream
    BY <1>1, <2>2, <2>3 DEF Queued, Stream
  <2>5. [Queued(s, b) EXCEPT !.loop = "try", !.item = {}] \in Stream
    BY <2>4 DEF Stream, Loops
  <2> QED BY <1>1, <1>4, <2>1, <2>5 DEF TypeOK, sendWorkItem
<1>5. ASSUME NEW l \in Loops, ss' = [ss EXCEPT ![s].loop = l] PROVE ss' \in [Sessions -> Stream]
  BY <1>1, <1>5, Records
<1>6. CASE FindNothing(s) \/ Wait(s) \/ WakeUp(s) \/ StopLoop(s)
  <2>1. ss' \in [Sessions -> Stream]
    BY <1>5, <1>6 DEF FindNothing, Wait, WakeUp, StopLoop, Loops
  <2> QED BY <1>6, <2>1 DEF TypeOK, FindNothing, Wait, WakeUp, StopLoop
<1>7. CASE Deliver(s)
  <2> DEFINE m == Head(ss[s].send)
             res == IF Link(s) /\ m.type = "job" /\ client[ss[s].worker].phase = "draining"
                      THEN ss[s].results \cup {m.build} ELSE ss[s].results
  <2>1. ss[s].send \in Seq(Message) /\ ss[s].send # <<>>
    BY <1>1, <1>7 DEF Deliver, Stream
  <2>2. m \in Message /\ Tail(ss[s].send) \in Seq(Message)
    BY <2>1, HeadTailProperties
  <2>3. m.build \in Builds
    BY <2>2 DEF Message
  <2>4. [ss[s] EXCEPT !.send = Tail(@), !.results = res] \in Stream
    BY <1>1, <2>2, <2>3 DEF Stream
  <2>5. ss' = [ss EXCEPT ![s] = [ss[s] EXCEPT !.send = Tail(@), !.results = res]]
    BY <1>1, <1>7 DEF Deliver
  <2>6. \/ exec' = exec
        \/ exec' = [exec EXCEPT ![m.build] = [Nobody EXCEPT !.by = s]]
        \/ exec' = [exec EXCEPT ![m.build].stop = @ \/ exec[m.build].tracked]
    BY <1>7 DEF Deliver
  <2>7. [Nobody EXCEPT !.by = s] \in Exec
    BY DEF Nobody, Exec
  <2>8. exec[m.build] \in Exec /\ exec \in [Builds -> Exec]
    BY <2>3 DEF TypeOK
  <2>9. [exec[m.build] EXCEPT !.stop = @ \/ exec[m.build].tracked] \in Exec
    BY <2>8 DEF Exec
  <2>10. exec' \in [Builds -> Exec]
    BY <2>3, <2>6, <2>7, <2>8, <2>9
  <2>11. ss' \in [Sessions -> Stream]
    BY <1>1, <2>4, <2>5
  <2> QED BY <1>7, <2>10, <2>11 DEF TypeOK, Deliver
<1>8. ASSUME NEW b \in Builds, handleJobResult(s, b) PROVE TypeOK'
  <2> DEFINE r == [ss[s] EXCEPT !.results = @ \ {b}, !.running = @ \ {b}]
  <2>1. r \in Stream
    BY <1>1 DEF Stream
  <2>2. ss' = Notified([ss EXCEPT ![s] = r])
    BY <1>1, <1>8 DEF handleJobResult
  <2>3. ss' \in [Sessions -> Stream]
    BY <1>1, <2>1, <2>2, NotifiedFields
  <2> QED BY <1>8, <2>3, NotifiedPolls DEF TypeOK, handleJobResult
<1> QED BY <1>2, <1>3, <1>4, <1>6, <1>7, <1>8 DEF Loop

\* ... and the jobs.
LEMMA TypeJob ==
  ASSUME TypeOK, NEW b \in Builds,
         trackJob(b) \/ handleGRPCJob(b) \/ pollForCancellation(b) \/ EndPolledJob(b)
  PROVE  TypeOK'
<1>1. /\ exec[b] \in Exec /\ exec \in [Builds -> Exec] /\ ss \in [Sessions -> Stream]
      /\ work \in [Builds -> Statuses] /\ poll \in [Pollers -> Polls]
  BY DEF TypeOK
<1>2. CASE trackJob(b)
  <2>1. [exec[b] EXCEPT !.tracked = TRUE] \in Exec
    BY <1>1 DEF Exec
  <2> QED BY <1>1, <1>2, <2>1 DEF TypeOK, trackJob
<1>3. CASE pollForCancellation(b)
  <2>1. [exec[b] EXCEPT !.stop = TRUE] \in Exec
    BY <1>1 DEF Exec
  <2> QED BY <1>1, <1>3, <2>1 DEF TypeOK, pollForCancellation
<1>4. CASE handleGRPCJob(b) \/ EndPolledJob(b)
  <2>1. exec' \in [Builds -> Exec]
    BY <1>1, <1>4, Records DEF handleGRPCJob, EndPolledJob
  <2>2. work' \in [Builds -> Statuses]
    <3>1. "ended" \in Statuses
      BY DEF Statuses
    <3> QED BY <1>1, <1>4, <3>1 DEF handleGRPCJob, EndPolledJob
  <2>3. CASE handleGRPCJob(b)
    <3> DEFINE s == exec[b].by
               r == [ss[s] EXCEPT !.results = IF Link(s) THEN @ \cup {b} ELSE @]
    <3>1. s \in Sessions /\ ss' = Notified([ss EXCEPT ![s] = r])
      BY <1>1, <2>3 DEF handleGRPCJob
    <3>2. ss[s] \in Stream
      BY <1>1, <3>1
    <3>3. r \in Stream
      BY <3>2 DEF Stream
    <3>4. ss' \in [Sessions -> Stream]
      BY <1>1, <3>1, <3>3, NotifiedFields
    <3> QED BY <2>1, <2>2, <2>3, <3>4, NotifiedPolls DEF TypeOK, handleGRPCJob
  <2>4. CASE EndPolledJob(b)
    <3>1. [poll EXCEPT ![exec[b].by] = "try"] \in [Pollers -> Polls]
      BY <1>1 DEF Polls
    <3> QED BY <2>1, <2>2, <2>4, <3>1, NotifiedFields, NotifiedPolls DEF TypeOK, EndPolledJob
  <2> QED BY <1>4, <2>3, <2>4
<1> QED BY <1>2, <1>3, <1>4

\* So do the embedded workers, and the processes when they stop or start.
LEMMA TypeProcess ==
  ASSUME TypeOK,
         \/ \E p \in Pollers : PollLoop(p)
         \/ \E w \in Workers : StopGRPCLoop(w)
         \/ Drain \/ Exit \/ Crash \/ Restart
  PROVE  TypeOK'
<1>1. /\ client \in [Workers -> [phase: Phases, conn: Sessions \cup {NoSession}]]
      /\ exec \in [Builds -> Exec] /\ ss \in [Sessions -> Stream] /\ poll \in [Pollers -> Polls]
  BY DEF TypeOK, Phases
<1>2. ASSUME NEW p \in Pollers, PollClaim(p) PROVE TypeOK'
  <2>1. PICK b \in Builds :
          /\ work' = [work EXCEPT ![b] = "started"]
          /\ exec' = [exec EXCEPT ![b] = [by |-> p, tracked |-> TRUE, stop |-> FALSE]]
    BY <1>2 DEF PollClaim, Claimable
  <2>2. [by |-> p, tracked |-> TRUE, stop |-> FALSE] \in Exec
    BY DEF Exec
  <2>3. exec' \in [Builds -> Exec]
    BY <1>1, <2>1, <2>2
  <2>4. work' \in [Builds -> Statuses]
    BY <2>1 DEF TypeOK, Statuses
  <2> QED BY <1>1, <1>2, <2>3, <2>4 DEF TypeOK, PollClaim, Polls
<1>3. ASSUME NEW p \in Pollers, PollNothing(p) \/ PollWait(p) \/ PollWakeUp(p) PROVE TypeOK'
  BY <1>1, <1>3 DEF TypeOK, PollNothing, PollWait, PollWakeUp, Polls
<1>4. ASSUME NEW w \in Workers, StopGRPCLoop(w) PROVE TypeOK'
  BY <1>1, <1>4 DEF TypeOK, StopGRPCLoop
<1>5. CASE Drain
  BY <1>1, <1>5 DEF TypeOK, Drain, Phases
<1>6. CASE Exit \/ Crash
  BY <1>1, <1>6, Records DEF TypeOK, Exit, Crash
<1>7. CASE Restart
  <2>1. \A s \in Sessions :
          [Unused EXCEPT !.worker = ss[s].worker, !.handler = "ended"] \in Stream
    BY ZenonT(60), <1>1, Records DEF Stream
  <2>2. ss' \in [Sessions -> Stream]
    BY <1>1, <1>7, <2>1 DEF Restart
  <2>3. exec' \in [Builds -> Exec] /\ poll' \in [Pollers -> Polls]
    BY <1>1, <1>7, Records DEF Restart, Polls
  <2>4. /\ work' \in [Builds -> Statuses] /\ registered' \subseteq Workers
        /\ cancelling' \in [Builds -> {"none", "pending", "started"}]
        /\ streams' \in [Workers -> Sessions \cup {NoSession}]
    BY <1>7 DEF TypeOK, Restart, Statuses
  <2>5. client' \in [Workers -> [phase: Phases, conn: Sessions \cup {NoSession}]]
    <3>1. ASSUME NEW w \in Workers
          PROVE  [client[w] EXCEPT !.conn = NoSession] \in [phase: Phases, conn: Sessions \cup {NoSession}]
      BY <1>1
    <3>2. [phase |-> "down", conn |-> NoSession] \in [phase: Phases, conn: Sessions \cup {NoSession}]
      BY DEF Phases
    <3> QED BY <1>7, <3>1, <3>2 DEF Restart
  <2> QED BY <2>2, <2>3, <2>4, <2>5 DEF TypeOK, Phases
<1> QED BY <1>2, <1>3, <1>4, <1>5, <1>6, <1>7 DEF PollLoop

\* Every step keeps the types.
LEMMA TypeNext == ASSUME TypeOK, [Next]_vars PROVE TypeOK'
<1>1. CASE Next
  BY <1>1, TypeUsers, TypeConnect, TypeStream, TypeJob, TypeProcess DEF Next
<1>2. CASE UNCHANGED vars
  BY <1>2 DEF vars, TypeOK
<1> QED BY <1>1, <1>2

-----------------------------------------------------------------------------
(* Steps that move nothing.                                                *)

\* Streams q and r carry the same, and q is about to send only if r is.
SameStream(q, r) ==
  /\ q.worker = r.worker /\ q.handler = r.handler /\ q.done = r.done
  /\ q.running = r.running /\ q.send = r.send /\ q.item = r.item /\ q.results = r.results
  /\ q.loop = "send" => r.loop = "send"

Unclaimed == {"none", "pending"}

\* A build that was claimed remains so.
Claimed == \A b \in Builds : work'[b] \in Unclaimed => work[b] \in Unclaimed

\* Nobody begins to execute a build.
NoneStarts == \A b \in Builds : exec'[b].by \in {exec[b].by, NoSession}

\* The streams carry what they did.
Still ==
  /\ streams' = streams /\ Claimed /\ NoneStarts
  /\ \A s \in Sessions : SameStream(ss'[s], ss[s])

\* The slots of a stream that carries the same cover no less.
LEMMA SlotsKept ==
  ASSUME NEW s \in Sessions, SlotsOK(s), SameStream(ss'[s], ss[s]),
         \A b \in Builds : At("exec", s, b)' => At("exec", s, b)
  PROVE  SlotsOK(s)'
<1>1. \A b \in Builds : At("send", s, b)' => At("send", s, b)
  BY DEF At, InSend, SameStream
<1>2. \A b \in Builds : At("exec", s, b)' \/ At("send", s, b)' => b \in ss'[s].running
  BY <1>1 DEF SlotsOK, SameStream
<1> QED BY <1>2 DEF SlotsOK, SameStream

\* Such a step leaves everything that the invariant speaks of at its place.
LEMMA StillKeeps ==
  ASSUME DispatchInv, Still
  PROVE  OnePlace' /\ NotYet' /\ SentOnce' /\ StreamsOpen' /\ SlotsInv'
<1>1. /\ \A s \in Sessions : SameStream(ss'[s], ss[s])
      /\ streams' = streams /\ Claimed /\ NoneStarts
      /\ OnePlace /\ NotYet /\ SentOnce /\ StreamsOpen /\ SlotsInv /\ TypeOK
  BY DEF DispatchInv, PlaceInv, Still
<1>2. ASSUME NEW k \in Kinds, NEW s \in Owners, NEW b \in Builds, At(k, s, b)' PROVE At(k, s, b)
  <2>1. s # NoSession
    BY Records DEF Owners
  <2> QED BY <1>1, <1>2, <2>1 DEF At, InSend, SameStream, NoneStarts
<1>3. OnePlace'
  BY <1>1, <1>2 DEF OnePlace
<1>4. NotYet'
  BY <1>1, <1>2 DEF NotYet, Claimed, Unclaimed
<1>5. SentOnce'
  BY <1>1 DEF SentOnce, SameStream
<1>6. StreamsOpen'
  <2>1. \A w \in Workers : streams[w] # NoSession => streams[w] \in Sessions
    BY <1>1 DEF TypeOK
  <2> QED BY <1>1, <2>1 DEF StreamsOpen, SameStream
<1>7. SlotsInv'
  <2>1. ASSUME NEW s \in Sessions, ss'[s].handler = "live" PROVE SlotsOK(s)'
    <3>1. SlotsOK(s) /\ s \in Owners /\ SameStream(ss'[s], ss[s])
      BY <1>1, <2>1 DEF SlotsInv, SameStream, Owners
    <3>2. \A b \in Builds : At("exec", s, b)' => At("exec", s, b)
      BY <1>2, <3>1 DEF Kinds
    <3> QED BY <3>1, <3>2, SlotsKept
  <2>2. ASSUME NEW s \in Sessions, ss'[s].handler = "unused", NEW b \in Builds
        PROVE  ~At("exec", s, b)'
    BY <1>1, <1>2, <2>2 DEF SlotsInv, SameStream, Owners, Kinds
  <2> QED BY <2>1, <2>2 DEF SlotsInv
<1> QED BY <1>3, <1>4, <1>5, <1>6, <1>7

\* Most actions are such steps: they change who waits, who is connected, what
\* the database says, or end a job of an embedded worker.
LEMMA Stills ==
  ASSUME TypeOK,
         \/ \E b \in Builds : \/ CreateJobBuild(b) \/ FindForCancel(b) \/ trackJob(b)
                              \/ pollForCancellation(b) \/ EndPolledJob(b)
         \/ \E w \in Workers : \/ Register(w) \/ ExpireRegistration(w) \/ RefuseExecute(w)
                               \/ Break(w) \/ StopGRPCLoop(w)
         \/ \E s \in Sessions : FindNothing(s) \/ Wait(s) \/ WakeUp(s) \/ StopLoop(s)
         \/ \E p \in Pollers : PollNothing(p) \/ PollWait(p) \/ PollWakeUp(p)
         \/ Drain \/ Exit \/ Crash
  PROVE  Still
<1>1. ss \in [Sessions -> Stream] /\ exec \in [Builds -> Exec] /\ work \in [Builds -> Statuses]
  BY DEF TypeOK
<1>2. \A s \in Sessions : SameStream(ss[s], ss[s])
  BY DEF SameStream
<1>3. ASSUME ss' = Notified(ss), NEW s \in Sessions PROVE SameStream(ss'[s], ss[s])
  BY <1>1, <1>3, NotifiedFields DEF SameStream
<1>4. ASSUME NEW b \in Builds, CreateJobBuild(b) \/ FindForCancel(b) PROVE Still
  BY <1>1, <1>2, <1>3, <1>4 DEF Still, Claimed, NoneStarts, Unclaimed, CreateJobBuild, FindForCancel
<1>5. ASSUME NEW b \in Builds, trackJob(b) \/ pollForCancellation(b) PROVE Still
  <2>1. NoneStarts
    <3>1. exec' = [exec EXCEPT ![b].tracked = TRUE] \/ exec' = [exec EXCEPT ![b].stop = TRUE]
      BY <1>5 DEF trackJob, pollForCancellation
    <3> QED BY <1>1, <3>1 DEF NoneStarts, Exec
  <2> QED BY <1>2, <1>5, <2>1 DEF Still, Claimed, trackJob, pollForCancellation
<1>6. ASSUME NEW b \in Builds, EndPolledJob(b) PROVE Still
  <2>1. NoneStarts
    BY <1>1, <1>6 DEF NoneStarts, EndPolledJob, Nobody
  <2>2. Claimed
    BY <1>1, <1>6 DEF Claimed, Unclaimed, EndPolledJob
  <2> QED BY <1>3, <1>6, <2>1, <2>2 DEF Still, EndPolledJob
<1>7. ASSUME NEW s \in Sessions, NEW l \in Loops \ {"send"}, ss' = [ss EXCEPT ![s].loop = l],
             NEW t \in Sessions
      PROVE  SameStream(ss'[t], ss[t])
  BY <1>1, <1>7 DEF SameStream, Stream
<1>8. ASSUME NEW s \in Sessions, FindNothing(s) \/ Wait(s) \/ WakeUp(s) \/ StopLoop(s) PROVE Still
  <2>1. \E l \in Loops \ {"send"} : ss' = [ss EXCEPT ![s].loop = l]
    BY <1>8 DEF FindNothing, Wait, WakeUp, StopLoop, Loops
  <2> QED BY <1>7, <1>8, <2>1
          DEF Still, Claimed, NoneStarts, FindNothing, Wait, WakeUp, StopLoop
<1>9. CASE Exit \/ Crash
  <2>1. NoneStarts
    BY <1>1, <1>9 DEF NoneStarts, Exit, Crash, Nobody
  <2> QED BY <1>2, <1>9, <2>1 DEF Still, Claimed, Exit, Crash
<1>10. CASE UNCHANGED <<work, streams, ss, exec>>
  BY <1>2, <1>10 DEF Still, Claimed, NoneStarts
<1> QED BY <1>4, <1>5, <1>6, <1>8, <1>9, <1>10
        DEF Register, ExpireRegistration, RefuseExecute, Break, StopGRPCLoop, PollNothing,
            PollWait, PollWakeUp, Drain

-----------------------------------------------------------------------------
(* Steps that move a build.                                                *)

\* No new place for build b.
Shrinks(b) == \A k \in Kinds : \A s \in Owners : At(k, s, b)' => At(k, s, b)

\* Place <<k, s>> is the only one for build b.
OnlyAt(k, s, b) == \A l \in Kinds : \A t \in Owners : At(l, t, b)' => l = k /\ t = s

\* A build is at one place after a step that adds none, or has it nowhere else.
LEMMA PlaceStep ==
  ASSUME OnePlace, NotYet, Claimed,
         \A b \in Builds : \/ Shrinks(b)
                           \/ /\ work'[b] \notin Unclaimed
                              /\ \E k \in Kinds : \E s \in Owners : OnlyAt(k, s, b)
  PROVE  OnePlace' /\ NotYet'
<1>1. OnePlace'
  BY DEF OnePlace, Shrinks, OnlyAt
<1>2. NotYet'
  BY DEF NotYet, Shrinks, Claimed, Unclaimed
<1> QED BY <1>1, <1>2

\* What is left at a session that carries no more than before.
LEMMA LeftAt ==
  ASSUME NEW s \in Sessions, NEW b \in Builds,
         b \in ss'[s].item => b \in ss[s].item,
         b \in ss'[s].results => b \in ss[s].results,
         ss'[s].send \in {ss[s].send, <<>>}
  PROVE  \A k \in Kinds \ {"exec"} : At(k, s, b)' => At(k, s, b)
<1>1. ss'[s].send = <<>> => ~InSend(s, b)'
  BY DEF InSend
<1>2. ss'[s].send = ss[s].send /\ InSend(s, b)' => InSend(s, b)
  BY DEF InSend
<1> QED BY <1>1, <1>2 DEF At, Kinds

\* A new place is a session's, or an execution.
LEMMA ShrinksBy ==
  ASSUME NEW b \in Builds, exec'[b].by \in {exec[b].by, NoSession},
         \A s \in Sessions : \A k \in Kinds \ {"exec"} : At(k, s, b)' => At(k, s, b)
  PROVE  Shrinks(b)
<1>1. ASSUME NEW s \in Owners, At("exec", s, b)' PROVE At("exec", s, b)
  BY <1>1, Records DEF At, Owners
<1>2. ASSUME NEW k \in Kinds \ {"exec"}, NEW s \in Owners, At(k, s, b)' PROVE s \in Sessions
  BY <1>2 DEF At, Kinds
<1> QED BY <1>1, <1>2 DEF Shrinks

\* A cancellation adds a message that is no job.
LEMMA CancelKeeps ==
  ASSUME DispatchInv, NEW c \in Builds, CancelJobBuild(c)
  PROVE  OnePlace' /\ NotYet' /\ SentOnce' /\ StreamsOpen' /\ SlotsInv'
<1> DEFINE msg == [type |-> "cancel", build |-> c]
<1>1. /\ TypeOK /\ ss \in [Sessions -> Stream] /\ OnePlace /\ NotYet /\ SentOnce /\ StreamsOpen
      /\ SlotsInv /\ streams' = streams /\ exec' = exec
  BY DEF DispatchInv, PlaceInv, TypeOK, CancelJobBuild
<1>2. Claimed
  BY <1>1 DEF Claimed, Unclaimed, CancelJobBuild, TypeOK
<1>3. CASE ss' = Notified(ss)
  <2>1. Still
    BY <1>1, <1>2, <1>3, NotifiedFields DEF Still, SameStream, NoneStarts
  <2> QED BY <2>1, StillKeeps
<1>4. ASSUME NEW s \in Sessions, ss' = Notified([ss EXCEPT ![s].send = Append(@, msg)])
      PROVE  OnePlace' /\ NotYet' /\ SentOnce' /\ StreamsOpen' /\ SlotsInv'
  <2> DEFINE f == [ss EXCEPT ![s].send = Append(@, msg)]
  <2>1. ss[s].send \in Seq(Message) /\ msg \in Message /\ ss[s] \in Stream
    BY <1>1 DEF Stream, Message
  <2>2. /\ Append(ss[s].send, msg) \in Seq(Message)
        /\ Len(Append(ss[s].send, msg)) = Len(ss[s].send) + 1
        /\ \A i \in 1..Len(ss[s].send) : Append(ss[s].send, msg)[i] = ss[s].send[i]
        /\ Append(ss[s].send, msg)[Len(ss[s].send) + 1] = msg
        /\ Len(ss[s].send) \in Nat
    BY <2>1, AppendProperties
  <2>3. [ss[s] EXCEPT !.send = Append(ss[s].send, msg)] \in Stream
    BY <2>1, <2>2 DEF Stream
  <2>4. f \in [Sessions -> Stream]
    BY <1>1, <2>3
  <2>5. \A t \in Sessions \ {s} : f[t] = ss[t]
    BY <1>1
  <2>6. f[s] = [ss[s] EXCEPT !.send = Append(ss[s].send, msg)]
    BY <1>1
  <2>7. /\ f[s].worker = ss[s].worker /\ f[s].handler = ss[s].handler /\ f[s].done = ss[s].done
        /\ f[s].running = ss[s].running /\ f[s].item = ss[s].item /\ f[s].results = ss[s].results
        /\ f[s].loop = ss[s].loop /\ f[s].send = Append(ss[s].send, msg)
    BY <2>1, <2>6 DEF Stream
  <2>8. \A t \in Sessions \ {s} : SameStream(ss'[t], ss[t])
    BY <1>4, <2>4, <2>5, NotifiedFields DEF SameStream
  <2>9. /\ ss'[s].worker = ss[s].worker /\ ss'[s].handler = ss[s].handler
        /\ ss'[s].done = ss[s].done /\ ss'[s].running = ss[s].running
        /\ ss'[s].item = ss[s].item /\ ss'[s].results = ss[s].results
        /\ ss'[s].loop = "send" => ss[s].loop = "send"
        /\ ss'[s].send = Append(ss[s].send, msg)
    BY <1>4, <2>4, <2>7, NotifiedFields
  <2>10. ASSUME NEW b \in Builds, InSend(s, b)' PROVE InSend(s, b)
    <3>1. PICK i \in 1..(Len(ss[s].send) + 1) : Append(ss[s].send, msg)[i] = JobMessage(b)
      BY <2>2, <2>9, <2>10 DEF InSend
    <3>2. i \in 1..Len(ss[s].send)
      BY <2>2, <3>1 DEF JobMessage
    <3> QED BY <2>2, <3>1, <3>2 DEF InSend
  <2>11. ASSUME NEW b \in Builds, NEW t \in Sessions, NEW k \in Kinds \ {"exec"}, At(k, t, b)'
         PROVE  At(k, t, b)
    BY SMTT(30), <2>8, <2>9, <2>10, <2>11 DEF At, InSend, SameStream
  <2>12. \A b \in Builds : Shrinks(b)
    BY <1>1, <2>11, ShrinksBy
  <2>13. OnePlace' /\ NotYet'
    BY <1>1, <1>2, <2>12, PlaceStep
  <2>14. SentOnce'
    <3> SUFFICES ASSUME NEW t \in Sessions, NEW i \in 1..Len(ss'[t].send),
                        NEW j \in 1..Len(ss'[t].send),
                        ss'[t].send[i].type = "job", ss'[t].send[j] = ss'[t].send[i]
                 PROVE  i = j
      BY DEF SentOnce
    <3>1. CASE t # s
      BY <1>1, <2>8, <3>1 DEF SentOnce, SameStream
    <3>2. CASE t = s
      <4>1. ASSUME NEW x \in 1..(Len(ss[s].send) + 1), Append(ss[s].send, msg)[x].type = "job"
            PROVE  x \in 1..Len(ss[s].send)
        <5>1. Append(ss[s].send, msg)[Len(ss[s].send) + 1] = msg /\ Len(ss[s].send) \in Nat
          BY <2>2, AppendProperties
        <5>2. msg.type # "job"
          OBVIOUS
        <5>3. x # Len(ss[s].send) + 1
          BY <4>1, <5>1, <5>2
        <5> QED BY <5>1, <5>3
      <4>2. i \in 1..Len(ss[s].send) /\ j \in 1..Len(ss[s].send)
        BY <2>2, <2>9, <3>2, <4>1
      <4> QED BY SMTT(30), <1>1, <2>2, <2>9, <3>2, <4>2 DEF SentOnce
    <3> QED BY <3>1, <3>2
  <2>15. StreamsOpen'
    <3>1. \A w \in Workers : streams[w] # NoSession => streams[w] \in Sessions
      BY <1>1 DEF TypeOK
    <3> QED BY <1>1, <2>8, <2>9, <3>1 DEF StreamsOpen, SameStream
  <2>16. SlotsInv'
    <3>1. \A t \in Sessions : \A b \in Builds : At("exec", t, b)' => At("exec", t, b)
      BY <2>12 DEF Shrinks, Kinds, Owners
    <3>2. ASSUME NEW t \in Sessions, t # s
          PROVE  /\ ss'[t].handler = "live" => SlotsOK(t)'
                 /\ ss'[t].handler = "unused" => \A b \in Builds : ~At("exec", t, b)'
      BY <1>1, <2>8, <3>1, <3>2, SlotsKept DEF SlotsInv, SameStream
    <3>3. ss'[s].handler = "live" => SlotsOK(s)'
      <4>1. \A b \in Builds : At("send", s, b)' => At("send", s, b)
        BY <2>10 DEF At
      <4> QED BY <1>1, <2>9, <3>1, <4>1 DEF SlotsInv, SlotsOK
    <3>4. ss'[s].handler = "unused" => \A b \in Builds : ~At("exec", s, b)'
      BY <1>1, <2>9, <3>1 DEF SlotsInv
    <3> QED BY <3>2, <3>3, <3>4 DEF SlotsInv
  <2> QED BY <2>13, <2>14, <2>15, <2>16
<1>5. \/ ss' = Notified(ss)
      \/ \E s \in Sessions : ss' = Notified([ss EXCEPT ![s].send = Append(@, msg)])
  BY <1>1 DEF CancelJobBuild, TypeOK
<1> QED BY <1>3, <1>4, <1>5

\* What the steps below have in common: sessions other than s carry the same,
\* and nobody begins to execute there.
Elsewhere(s) ==
  \A t \in Sessions \ {s} :
    /\ SameStream(ss'[t], ss[t])
    /\ \A b \in Builds : At("exec", t, b)' => At("exec", t, b)

\* The other sessions keep their part of the invariant.
LEMMA ElsewhereKept ==
  ASSUME NEW s \in Sessions, Elsewhere(s), SentOnce, SlotsInv
  PROVE  \A t \in Sessions \ {s} :
           /\ \A i, j \in 1..Len(ss'[t].send) :
                ss'[t].send[i].type = "job" /\ ss'[t].send[j] = ss'[t].send[i] => i = j
           /\ ss'[t].handler = "live" => SlotsOK(t)'
           /\ ss'[t].handler = "unused" => \A b \in Builds : ~At("exec", t, b)'
           /\ \A b \in Builds : \A k \in Kinds \ {"exec"} : At(k, t, b)' => At(k, t, b)
<1> SUFFICES ASSUME NEW t \in Sessions \ {s}
             PROVE  /\ \A i, j \in 1..Len(ss'[t].send) :
                         ss'[t].send[i].type = "job" /\ ss'[t].send[j] = ss'[t].send[i] => i = j
                    /\ ss'[t].handler = "live" => SlotsOK(t)'
                    /\ ss'[t].handler = "unused" => \A b \in Builds : ~At("exec", t, b)'
                    /\ \A b \in Builds : \A k \in Kinds \ {"exec"} : At(k, t, b)' => At(k, t, b)
  OBVIOUS
<1>1. SameStream(ss'[t], ss[t]) /\ \A b \in Builds : At("exec", t, b)' => At("exec", t, b)
  BY DEF Elsewhere
<1>2. \A i, j \in 1..Len(ss'[t].send) :
        ss'[t].send[i].type = "job" /\ ss'[t].send[j] = ss'[t].send[i] => i = j
  BY <1>1 DEF SentOnce, SameStream
<1>3. ss'[t].handler = "live" => SlotsOK(t)'
  BY <1>1, SlotsKept DEF SlotsInv, SameStream
<1>4. ss'[t].handler = "unused" => \A b \in Builds : ~At("exec", t, b)'
  BY <1>1 DEF SlotsInv, SameStream
<1>5. \A b \in Builds : \A k \in Kinds \ {"exec"} : At(k, t, b)' => At(k, t, b)
  BY <1>1, LeftAt DEF SameStream
<1> QED BY <1>2, <1>3, <1>4, <1>5

\* A stream that is registered stays open when nothing closes it.
LEMMA OpenKept ==
  ASSUME TypeOK, StreamsOpen, streams' = streams,
         \A s \in Sessions : /\ ss'[s].worker = ss[s].worker
                             /\ ss'[s].handler = ss[s].handler
                             /\ ss'[s].done = ss[s].done
  PROVE  StreamsOpen'
<1>1. \A w \in Workers : streams[w] # NoSession => streams[w] \in Sessions
  BY DEF TypeOK
<1> QED BY <1>1 DEF StreamsOpen

\* A new stream is empty, and what it replaces was open until now.
LEMMA ExecuteKeeps ==
  ASSUME DispatchInv, NEW w \in Workers, NEW s \in Sessions, Execute(w, s)
  PROVE  OnePlace' /\ NotYet' /\ SentOnce' /\ StreamsOpen' /\ SlotsInv'
<1> DEFINE new == [Unused EXCEPT !.worker = w, !.handler = "live", !.loop = "try"]
           closed == [t \in Sessions |->
                        IF t = streams[w] THEN [ss[t] EXCEPT !.done = TRUE] ELSE ss[t]]
<1>1. /\ TypeOK /\ ss \in [Sessions -> Stream] /\ OnePlace /\ NotYet /\ SentOnce /\ StreamsOpen
      /\ SlotsInv /\ exec' = exec /\ work' = work
      /\ streams \in [Workers -> Sessions \cup {NoSession}]
      /\ streams' = [streams EXCEPT ![w] = s] /\ ss[s].handler = "unused"
      /\ ss' = [closed EXCEPT ![s] = new]
  BY DEF DispatchInv, PlaceInv, TypeOK, Execute, RegisterStream, IsNextSession
<1>2. ss'[s] = new
  BY <1>1
<1>3. /\ ss'[s].worker = w /\ ss'[s].handler = "live" /\ ~ss'[s].done /\ ss'[s].running = {}
      /\ ss'[s].send = <<>> /\ ss'[s].item = {} /\ ss'[s].results = {} /\ ss'[s].loop = "try"
  BY <1>2 DEF Unused
<1>4. \A t \in Sessions \ {s} :
        ss'[t] = IF t = streams[w] THEN [ss[t] EXCEPT !.done = TRUE] ELSE ss[t]
  BY <1>1
<1>5. ASSUME NEW t \in Sessions \ {s}
      PROVE  /\ ss'[t].worker = ss[t].worker /\ ss'[t].handler = ss[t].handler
             /\ ss'[t].running = ss[t].running /\ ss'[t].send = ss[t].send
             /\ ss'[t].item = ss[t].item /\ ss'[t].results = ss[t].results
             /\ ss'[t].loop = ss[t].loop
             /\ t # streams[w] => ss'[t].done = ss[t].done
  BY <1>1, <1>4 DEF Stream
<1>6. ASSUME NEW b \in Builds, NEW t \in Sessions, NEW k \in Kinds \ {"exec"}, At(k, t, b)'
      PROVE  At(k, t, b)
  <2>1. /\ b \in ss'[t].item => b \in ss[t].item
        /\ b \in ss'[t].results => b \in ss[t].results
        /\ ss'[t].send \in {ss[t].send, <<>>}
    BY <1>3, <1>5
  <2> QED BY <1>6, <2>1, LeftAt
<1>7. \A b \in Builds : Shrinks(b)
  BY <1>1, <1>6, ShrinksBy
<1>8. OnePlace' /\ NotYet'
  BY <1>1, <1>7, PlaceStep DEF Claimed
<1>9. SentOnce'
  <2> SUFFICES ASSUME NEW t \in Sessions, NEW i \in 1..Len(ss'[t].send),
                      NEW j \in 1..Len(ss'[t].send),
                      ss'[t].send[i].type = "job", ss'[t].send[j] = ss'[t].send[i]
               PROVE  i = j
    BY DEF SentOnce
  <2>1. t # s
    BY <1>3
  <2> QED BY <1>1, <1>5, <2>1 DEF SentOnce
<1>10. StreamsOpen'
  <2> SUFFICES ASSUME NEW v \in Workers, streams'[v] # NoSession
               PROVE  /\ ss'[streams'[v]].worker = v
                      /\ ss'[streams'[v]].handler = "live"
                      /\ ~ss'[streams'[v]].done
    BY DEF StreamsOpen
  <2>1. CASE v = w
    BY <1>1, <1>3, <2>1
  <2>2. CASE v # w
    <3>1. streams'[v] = streams[v] /\ streams[v] \in Sessions
      BY <1>1, <2>2
    <3>2. /\ ss[streams[v]].worker = v /\ ss[streams[v]].handler = "live"
          /\ ~ss[streams[v]].done
      BY <1>1, <3>1 DEF StreamsOpen
    <3>3. streams[v] # s
      BY <1>1, <3>2
    <3>4. streams[v] # streams[w]
      BY <1>1, <2>2, <3>1, <3>2 DEF StreamsOpen
    <3> QED BY <1>5, <3>1, <3>2, <3>3, <3>4
  <2> QED BY <2>1, <2>2
<1>11. SlotsInv'
  <2>1. \A t \in Sessions : \A b \in Builds : At("exec", t, b)' => At("exec", t, b)
    BY <1>7 DEF Shrinks, Kinds, Owners
  <2>2. SlotsOK(s)'
    <3>1. MaxJobs \in Nat \ {0}
      BY DispatchAssumptions DEF MaxJobs
    <3>2. IsFiniteSet({}) /\ Cardinality({}) = 0
      BY FS_EmptySet
    <3>3. \A b \in Builds : ~At("exec", s, b)' /\ ~At("send", s, b)'
      <4>1. \A b \in Builds : ~At("exec", s, b)'
        BY <1>1, <2>1 DEF SlotsInv
      <4> QED BY <1>3, <4>1 DEF At, InSend
    <3> QED BY <1>3, <3>1, <3>2, <3>3 DEF SlotsOK
  <2>3. ASSUME NEW t \in Sessions \ {s}, ss'[t].handler = "live" PROVE SlotsOK(t)'
    <3>1. \A b \in Builds : At("send", t, b)' => At("send", t, b)
      BY <1>6 DEF Kinds
    <3>2. SlotsOK(t)
      BY <1>1, <1>5, <2>3 DEF SlotsInv
    <3>3. \A b \in Builds : At("exec", t, b)' \/ At("send", t, b)' => b \in ss'[t].running
      BY <1>5, <2>1, <3>1, <3>2 DEF SlotsOK
    <3> QED BY <1>5, <3>2, <3>3 DEF SlotsOK
  <2>4. ASSUME NEW t \in Sessions \ {s}, ss'[t].handler = "unused", NEW b \in Builds
        PROVE  ~At("exec", t, b)'
    BY <1>1, <1>5, <2>1, <2>4 DEF SlotsInv
  <2>5. ss'[s].handler = "live"
    BY <1>3
  <2> QED BY <2>2, <2>3, <2>4, <2>5 DEF SlotsInv
<1> QED BY <1>8, <1>9, <1>10, <1>11

\* A handler that ends unregisters its worker, and leaves at most an item.
LEMMA EndExecuteKeeps ==
  ASSUME DispatchInv, NEW s \in Sessions, EndExecute(s)
  PROVE  OnePlace' /\ NotYet' /\ SentOnce' /\ StreamsOpen' /\ SlotsInv'
<1>1. /\ TypeOK /\ ss \in [Sessions -> Stream] /\ OnePlace /\ NotYet /\ SentOnce /\ StreamsOpen
      /\ SlotsInv /\ exec' = exec /\ work' = work
      /\ streams \in [Workers -> Sessions \cup {NoSession}]
      /\ streams' = [streams EXCEPT ![ss[s].worker] = NoSession]
  BY DEF DispatchInv, PlaceInv, TypeOK, EndExecute
<1>2. ss'[s] = [Unused EXCEPT !.worker = ss[s].worker, !.handler = "ended",
                              !.loop = ss[s].loop, !.item = ss[s].item]
  BY <1>1 DEF EndExecute
<1>3. /\ ss'[s].handler = "ended" /\ ss'[s].send = <<>> /\ ss'[s].item = ss[s].item
      /\ ss'[s].results = {}
  BY <1>2 DEF Unused
<1>4. \A t \in Sessions \ {s} : ss'[t] = ss[t]
  BY <1>1 DEF EndExecute
<1>5. Elsewhere(s)
  BY <1>1, <1>4 DEF Elsewhere, SameStream, At
<1>6. ASSUME NEW b \in Builds, NEW t \in Sessions, NEW k \in Kinds \ {"exec"}, At(k, t, b)'
      PROVE  At(k, t, b)
  <2>1. CASE t = s
    BY <1>3, <1>6, <2>1, LeftAt
  <2>2. CASE t # s
    BY <1>1, <1>5, <1>6, <2>2, ElsewhereKept
  <2> QED BY <2>1, <2>2
<1>7. \A b \in Builds : Shrinks(b)
  BY <1>1, <1>6, ShrinksBy
<1>8. OnePlace' /\ NotYet'
  BY <1>1, <1>7, PlaceStep DEF Claimed
<1>9. SentOnce'
  <2>1. \A i \in 1..Len(ss'[s].send) : FALSE
    BY <1>3
  <2> QED BY <1>1, <1>5, <2>1, ElsewhereKept DEF SentOnce
<1>10. StreamsOpen'
  <2> SUFFICES ASSUME NEW v \in Workers, streams'[v] # NoSession
               PROVE  /\ ss'[streams'[v]].worker = v
                      /\ ss'[streams'[v]].handler = "live"
                      /\ ~ss'[streams'[v]].done
    BY DEF StreamsOpen
  <2>1. v # ss[s].worker /\ streams'[v] = streams[v] /\ streams[v] \in Sessions
    BY <1>1
  <2>2. ss[streams[v]].worker = v /\ ss[streams[v]].handler = "live" /\ ~ss[streams[v]].done
    BY <1>1, <2>1 DEF StreamsOpen
  <2> QED BY <1>4, <2>1, <2>2
<1>11. SlotsInv'
  BY <1>1, <1>3, <1>5, ElsewhereKept DEF SlotsInv
<1> QED BY <1>8, <1>9, <1>10, <1>11

\* A loop claims a build that was nowhere yet, with a slot free for it.
LEMMA ClaimKeeps ==
  ASSUME DispatchInv, NEW s \in Sessions, Claim(s)
  PROVE  OnePlace' /\ NotYet' /\ SentOnce' /\ StreamsOpen' /\ SlotsInv'
<1>1. /\ TypeOK /\ ss \in [Sessions -> Stream] /\ OnePlace /\ NotYet /\ SentOnce /\ StreamsOpen
      /\ SlotsInv /\ exec' = exec /\ streams' = streams /\ work \in [Builds -> Statuses]
      /\ ss[s].handler = "live" /\ Cardinality(ss[s].running) < MaxJobs
  BY DEF DispatchInv, PlaceInv, TypeOK, Claim, HasCapacity
<1>2. PICK c \in Builds : /\ work[c] = "pending"
                          /\ work' = [work EXCEPT ![c] = "started"]
                          /\ ss' = [ss EXCEPT ![s].loop = "send", ![s].item = {c}]
  BY DEF Claim, Claimable
<1>3. ss'[s] = [ss[s] EXCEPT !.loop = "send", !.item = {c}]
  BY <1>1, <1>2
<1>4. /\ ss'[s].worker = ss[s].worker /\ ss'[s].handler = ss[s].handler
      /\ ss'[s].done = ss[s].done /\ ss'[s].running = ss[s].running
      /\ ss'[s].send = ss[s].send /\ ss'[s].results = ss[s].results /\ ss'[s].item = {c}
  BY <1>1, <1>3 DEF Stream
<1>5. \A t \in Sessions \ {s} : ss'[t] = ss[t]
  BY <1>1, <1>2
<1>6. Elsewhere(s)
  BY <1>1, <1>5 DEF Elsewhere, SameStream, At
<1>7. Claimed
  BY <1>1, <1>2 DEF Claimed, Unclaimed
<1>8. ASSUME NEW b \in Builds \ {c} PROVE Shrinks(b)
  <2>1. ASSUME NEW t \in Sessions, NEW k \in Kinds \ {"exec"}, At(k, t, b)' PROVE At(k, t, b)
    <3>1. CASE t = s
      BY <1>4, <2>1, <3>1, LeftAt
    <3>2. CASE t # s
      BY <1>1, <1>6, <2>1, <3>2, ElsewhereKept
    <3> QED BY <3>1, <3>2
  <2> QED BY <1>1, <2>1, ShrinksBy
<1>9. OnlyAt("item", s, c) /\ work'[c] \notin Unclaimed
  <2>1. \A k \in Kinds : \A t \in Owners : ~At(k, t, c)
    BY <1>1, <1>2 DEF NotYet
  <2>2. ASSUME NEW k \in Kinds, NEW t \in Owners, At(k, t, c)', k # "item" \/ t # s PROVE At(k, t, c)
    BY <1>1, <1>4, <1>5, <2>2 DEF At, InSend
  <2> QED BY <1>1, <1>2, <2>1, <2>2 DEF OnlyAt, Unclaimed
<1>10. OnePlace' /\ NotYet'
  <2>1. "item" \in Kinds /\ s \in Owners
    BY DEF Kinds, Owners
  <2> QED BY <1>1, <1>7, <1>8, <1>9, <2>1, PlaceStep
<1>11. SentOnce'
  BY <1>1, <1>4, <1>6, ElsewhereKept DEF SentOnce
<1>12. StreamsOpen'
  BY <1>1, <1>4, <1>5, OpenKept
<1>13. SlotsInv'
  <2>1. SlotsOK(s)
    BY <1>1 DEF SlotsInv
  <2>2. \A b \in Builds : At("exec", s, b)' \/ At("send", s, b)' => b \in ss'[s].running
    BY <1>1, <1>4, <2>1 DEF SlotsOK, At, InSend
  <2>3. SlotsOK(s)'
    BY <1>1, <1>4, <2>1, <2>2 DEF SlotsOK
  <2> QED BY <1>1, <1>4, <1>6, <2>3, ElsewhereKept DEF SlotsInv
<1> QED BY <1>10, <1>11, <1>12, <1>13

\* sendWorkItem takes the slot that is free and queues the job, which is
\* nowhere else then, or gives up the build and its slot.
LEMMA SendKeeps ==
  ASSUME DispatchInv, NEW s \in Sessions, sendWorkItem(s)
  PROVE  OnePlace' /\ NotYet' /\ SentOnce' /\ StreamsOpen' /\ SlotsInv'
<1>1. /\ TypeOK /\ ss \in [Sessions -> Stream] /\ OnePlace /\ NotYet /\ SentOnce /\ StreamsOpen
      /\ SlotsInv /\ exec' = exec /\ streams' = streams /\ work' = work
      /\ ss[s].loop = "send" /\ ss[s] \in Stream
  BY DEF DispatchInv, PlaceInv, TypeOK, sendWorkItem
<1>2. PICK c \in ss[s].item :
        ss' = [ss EXCEPT ![s] = [Queued(s, c) EXCEPT !.loop = "try", !.item = {}]]
  BY DEF sendWorkItem
<1>3. c \in Builds /\ ss[s].send \in Seq(Message) /\ JobMessage(c) \in Message
  BY <1>1, Records DEF Stream
<1>4. /\ Len(Append(ss[s].send, JobMessage(c))) = Len(ss[s].send) + 1
      /\ \A i \in 1..Len(ss[s].send) : Append(ss[s].send, JobMessage(c))[i] = ss[s].send[i]
      /\ Append(ss[s].send, JobMessage(c))[Len(ss[s].send) + 1] = JobMessage(c)
      /\ Len(ss[s].send) \in Nat
  BY <1>3, AppendProperties
<1>5. ss'[s] = [Queued(s, c) EXCEPT !.loop = "try", !.item = {}]
  BY <1>1, <1>2
<1>6. /\ ss'[s].worker = ss[s].worker /\ ss'[s].handler = ss[s].handler
      /\ ss'[s].done = ss[s].done /\ ss'[s].results = ss[s].results /\ ss'[s].item = {}
      /\ ss'[s].loop = "try"
      /\ Fits(s) => /\ ss'[s].running = ss[s].running \cup {c}
                    /\ ss'[s].send = Append(ss[s].send, JobMessage(c))
      /\ ~Fits(s) => ss'[s].running = ss[s].running \ {c} /\ ss'[s].send = ss[s].send
  BY <1>1, <1>5 DEF Queued, Stream, JobMessage
<1>7. \A t \in Sessions \ {s} : ss'[t] = ss[t]
  BY <1>1, <1>2
<1>8. Elsewhere(s)
  BY <1>1, <1>7 DEF Elsewhere, SameStream, At
<1>9. /\ ~InSend(s, c) /\ work[c] \notin Unclaimed
      /\ \A k \in Kinds : \A t \in Owners : At(k, t, c) => k = "item" /\ t = s
  <2>1. At("item", s, c) /\ "item" \in Kinds /\ "send" \in Kinds /\ s \in Owners
    BY DEF At, Kinds, Owners
  <2>2. \A k \in Kinds : \A t \in Owners : At(k, t, c) => k = "item" /\ t = s
    BY <1>1, <1>3, <2>1 DEF OnePlace
  <2>3. ~At("send", s, c)
    BY <2>1, <2>2
  <2> QED BY <1>1, <1>3, <2>1, <2>2, <2>3 DEF At, NotYet, Unclaimed
<1>10. ASSUME NEW b \in Builds, InSend(s, b)', b # c \/ ~Fits(s) PROVE InSend(s, b)
  <2>1. CASE ~Fits(s)
    BY <1>6, <1>10, <2>1 DEF InSend
  <2>2. CASE Fits(s)
    <3>1. PICK i \in 1..(Len(ss[s].send) + 1) : Append(ss[s].send, JobMessage(c))[i] = JobMessage(b)
      BY <1>4, <1>6, <1>10, <2>2 DEF InSend
    <3>2. JobMessage(b) # JobMessage(c)
      BY <1>10, <2>2 DEF JobMessage
    <3>3. i \in 1..Len(ss[s].send)
      BY <1>4, <3>1, <3>2
    <3> QED BY <1>4, <3>1, <3>3 DEF InSend
  <2> QED BY <2>1, <2>2
<1>11. ASSUME NEW b \in Builds, b # c \/ ~Fits(s) PROVE Shrinks(b)
  <2>1. ASSUME NEW t \in Sessions, NEW k \in Kinds \ {"exec"}, At(k, t, b)' PROVE At(k, t, b)
    <3>1. CASE t = s
      BY <1>6, <1>10, <1>11, <2>1, <3>1 DEF At
    <3>2. CASE t # s
      BY <1>1, <1>8, <2>1, <3>2, ElsewhereKept
    <3> QED BY <3>1, <3>2
  <2> QED BY <1>1, <2>1, ShrinksBy
<1>12. OnlyAt("send", s, c)
  <2> SUFFICES ASSUME NEW k \in Kinds, NEW t \in Owners, At(k, t, c)', k # "send" \/ t # s
               PROVE  FALSE
    BY DEF OnlyAt
  <2>1. ~At("item", s, c)'
    BY <1>6 DEF At
  <2>2. At(k, t, c)
    BY <1>1, <1>6, <1>7 DEF At, InSend
  <2> QED BY <1>9, <2>1, <2>2
<1>13. OnePlace' /\ NotYet'
  <2>1. "send" \in Kinds /\ s \in Owners
    BY DEF Kinds, Owners
  <2> QED BY <1>1, <1>9, <1>11, <1>12, <2>1, PlaceStep DEF Claimed
<1>14. SentOnce'
  <2> SUFFICES ASSUME NEW i \in 1..Len(ss'[s].send), NEW j \in 1..Len(ss'[s].send),
                      ss'[s].send[i].type = "job", ss'[s].send[j] = ss'[s].send[i]
               PROVE  i = j
    BY <1>1, <1>8, ElsewhereKept DEF SentOnce
  <2>1. CASE ~Fits(s)
    BY <1>1, <1>6, <2>1 DEF SentOnce
  <2>2. CASE Fits(s)
    <3>1. \A x \in 1..Len(ss[s].send) : ss[s].send[x] # JobMessage(c)
      BY <1>9 DEF InSend
    <3>2. i \in 1..(Len(ss[s].send) + 1) /\ j \in 1..(Len(ss[s].send) + 1)
      BY <1>4, <1>6, <2>2
    <3>3. /\ \A x \in 1..Len(ss[s].send) : ss'[s].send[x] = ss[s].send[x]
          /\ ss'[s].send[Len(ss[s].send) + 1] = JobMessage(c)
      BY <1>4, <1>6, <2>2
    <3>4. CASE i \in 1..Len(ss[s].send) /\ j \in 1..Len(ss[s].send)
      BY <1>1, <3>3, <3>4 DEF SentOnce
    <3>5. CASE i \in 1..Len(ss[s].send) /\ j = Len(ss[s].send) + 1
      BY <3>1, <3>3, <3>5
    <3>6. CASE i = Len(ss[s].send) + 1 /\ j \in 1..Len(ss[s].send)
      BY <3>1, <3>3, <3>6
    <3>7. \A x \in 1..(Len(ss[s].send) + 1) : x \in 1..Len(ss[s].send) \/ x = Len(ss[s].send) + 1
      BY SMTT(30), <1>4
    <3> QED BY <3>2, <3>4, <3>5, <3>6, <3>7
  <2> QED BY <2>1, <2>2
<1>15. StreamsOpen'
  BY <1>1, <1>6, <1>7, OpenKept
<1>16. ASSUME ss[s].handler = "live" PROVE SlotsOK(s)'
  <2>1. SlotsOK(s) /\ MaxJobs \in Nat
    BY <1>1, <1>16, DispatchAssumptions DEF SlotsInv, MaxJobs
  <2>2. /\ IsFiniteSet(ss[s].running) /\ Cardinality(ss[s].running) < MaxJobs
        /\ Cardinality(ss[s].running) \in Nat
    BY <1>1, <2>1, FS_CardinalityType DEF SlotsOK
  <2>3. IsFiniteSet(ss'[s].running) /\ Cardinality(ss'[s].running) <= MaxJobs
    <3>1. CASE Fits(s)
      <4>1. /\ IsFiniteSet(ss[s].running \cup {c})
            /\ \/ Cardinality(ss[s].running \cup {c}) = Cardinality(ss[s].running)
               \/ Cardinality(ss[s].running \cup {c}) = Cardinality(ss[s].running) + 1
        BY <2>2, FS_AddElement
      <4>2. ss'[s].running = ss[s].running \cup {c}
        BY <1>6, <3>1
      <4> QED BY <2>1, <2>2, <4>1, <4>2
    <3>2. CASE ~Fits(s)
      <4>1. /\ IsFiniteSet(ss[s].running \ {c})
            /\ Cardinality(ss[s].running \ {c}) \in Nat
            /\ Cardinality(ss[s].running \ {c}) <= Cardinality(ss[s].running)
        <5>1. IsFiniteSet(ss[s].running \ {c})
          BY <2>2, FS_RemoveElement
        <5>2. Cardinality(ss[s].running \ {c}) \in Nat
          BY <5>1, FS_CardinalityType
        <5> QED BY <2>2, <5>1, <5>2, FS_RemoveElement
      <4>2. ss'[s].running = ss[s].running \ {c}
        BY <1>6, <3>2
      <4> QED BY <2>1, <2>2, <4>1, <4>2
    <3> QED BY <3>1, <3>2
  <2>4. ASSUME NEW b \in Builds, At("exec", s, b)' \/ At("send", s, b)' PROVE b \in ss'[s].running
    <3>1. CASE b = c /\ Fits(s)
      BY <1>6, <3>1
    <3>2. CASE b # c \/ ~Fits(s)
      <4>1. At("exec", s, b) \/ At("send", s, b)
        BY <1>11, <2>4, <3>2 DEF Shrinks, Kinds, Owners
      <4>2. b # c
        BY <1>9, <4>1 DEF Kinds, Owners
      <4> QED BY <1>6, <2>1, <4>1, <4>2 DEF SlotsOK
    <3> QED BY <3>1, <3>2
  <2> QED BY <1>6, <2>3, <2>4 DEF SlotsOK
<1>17. SlotsInv'
  <2>1. ss'[s].handler = "unused" => \A b \in Builds : ~At("exec", s, b)'
    BY <1>1, <1>6 DEF SlotsInv, At
  <2> QED BY <1>1, <1>6, <1>8, <1>16, <2>1, ElsewhereKept DEF SlotsInv
<1> QED BY <1>13, <1>14, <1>15, <1>17

\* A message that is delivered leaves the channel; a job is then executed, or
\* reported by a worker that drains, or lost with the stream.
LEMMA DeliverKeeps ==
  ASSUME DispatchInv, NEW s \in Sessions, Deliver(s)
  PROVE  OnePlace' /\ NotYet' /\ SentOnce' /\ StreamsOpen' /\ SlotsInv'
<1>1. /\ TypeOK /\ ss \in [Sessions -> Stream] /\ OnePlace /\ NotYet /\ SentOnce /\ StreamsOpen
      /\ SlotsInv /\ streams' = streams /\ work' = work /\ exec \in [Builds -> Exec]
      /\ ss[s].handler = "live" /\ ss[s] \in Stream
  BY DEF DispatchInv, PlaceInv, TypeOK, Deliver
<1>2. ss[s].send \in Seq(Message) /\ ss[s].send # <<>>
  BY <1>1 DEF Stream, Deliver
<1>3. /\ Head(ss[s].send) \in Message /\ Head(ss[s].send) = ss[s].send[1]
      /\ Len(ss[s].send) \in Nat \ {0}
      /\ Len(Tail(ss[s].send)) = Len(ss[s].send) - 1
      /\ \A i \in 1..Len(Tail(ss[s].send)) : Tail(ss[s].send)[i] = ss[s].send[i + 1]
  BY <1>2, HeadTailProperties
<1>4. PICK m \in Message : m = Head(ss[s].send)
  BY <1>3
<1> DEFINE refused == Link(s) /\ m.type = "job" /\ client[ss[s].worker].phase = "draining"
<1>0. m.build \in Builds /\ m = [type |-> m.type, build |-> m.build]
  BY DEF Message
<1>5. /\ ss'[s].worker = ss[s].worker /\ ss'[s].handler = ss[s].handler
      /\ ss'[s].done = ss[s].done /\ ss'[s].item = ss[s].item /\ ss'[s].loop = ss[s].loop
      /\ ss'[s].running = ss[s].running /\ ss'[s].send = Tail(ss[s].send)
      /\ ss'[s].results = IF refused THEN ss[s].results \cup {m.build} ELSE ss[s].results
  BY <1>1, <1>4 DEF Deliver, Stream
<1>6. \A t \in Sessions \ {s} : ss'[t] = ss[t]
  BY <1>1 DEF Deliver
<1>7. /\ \A b \in Builds \ {m.build} : exec'[b].by = exec[b].by
      /\ m.type = "job" /\ ~refused => exec'[m.build].by \in {exec[m.build].by, s}
      /\ m.type # "job" \/ refused => exec'[m.build].by = exec[m.build].by
  <2>1. CASE exec' = exec
    BY <2>1
  <2>2. CASE /\ m.type = "job" /\ ~refused
             /\ exec' = [exec EXCEPT ![m.build] = [Nobody EXCEPT !.by = s]]
    BY <1>0, <1>1, <2>2 DEF Nobody
  <2>3. CASE /\ m.type # "job"
             /\ exec' = [exec EXCEPT ![m.build].stop = @ \/ exec[m.build].tracked]
    BY <1>0, <1>1, <2>3 DEF Exec
  <2> QED BY <1>4, <2>1, <2>2, <2>3 DEF Deliver
<1>8. ASSUME NEW b \in Builds, InSend(s, b)' PROVE InSend(s, b) /\ (m.type = "job" => b # m.build)
  <2>1. PICK i \in 1..Len(Tail(ss[s].send)) : Tail(ss[s].send)[i] = JobMessage(b)
    BY <1>5, <1>8 DEF InSend
  <2>2. /\ i + 1 \in 1..Len(ss[s].send) /\ 1 \in 1..Len(ss[s].send) /\ i + 1 # 1
        /\ ss[s].send[i + 1] = JobMessage(b)
    BY <1>3, <2>1
  <2>3. CASE m.type = "job" /\ b = m.build
    <3>1. ss[s].send[1] = ss[s].send[i + 1] /\ ss[s].send[1].type = "job"
      BY <1>0, <1>3, <1>4, <2>2, <2>3 DEF JobMessage
    <3> QED BY <1>1, <2>2, <3>1 DEF SentOnce
  <2> QED BY <2>2, <2>3 DEF InSend
<1>9. ASSUME m.type = "job"
      PROVE  /\ At("send", s, m.build) /\ work[m.build] \notin Unclaimed
             /\ \A k \in Kinds : \A t \in Owners : At(k, t, m.build) => k = "send" /\ t = s
  <2>1. InSend(s, m.build)
    <3>1. 1 \in 1..Len(ss[s].send)
      BY <1>3
    <3> QED BY <1>0, <1>3, <1>4, <1>9, <3>1 DEF InSend, JobMessage
  <2>2. At("send", s, m.build) /\ "send" \in Kinds /\ s \in Owners
    BY <2>1 DEF At, Kinds, Owners
  <2> QED BY <1>0, <1>1, <2>2 DEF OnePlace, NotYet, Unclaimed
<1>10. ASSUME NEW b \in Builds, b # m.build \/ m.type # "job" PROVE Shrinks(b)
  <2>1. ASSUME NEW t \in Sessions, NEW k \in Kinds \ {"exec"}, At(k, t, b)' PROVE At(k, t, b)
    <3>1. CASE t = s
      BY <1>5, <1>8, <1>10, <2>1, <3>1 DEF At
    <3>2. CASE t # s
      BY <1>6, <2>1, <3>2 DEF At, InSend
    <3> QED BY <3>1, <3>2
  <2>2. exec'[b].by = exec[b].by
    BY <1>7, <1>10
  <2> QED BY <2>1, <2>2, ShrinksBy
<1>11. ASSUME m.type = "job" PROVE OnlyAt(IF refused THEN "result" ELSE "exec", s, m.build)
  <2> SUFFICES ASSUME NEW k \in Kinds, NEW t \in Owners, At(k, t, m.build)',
                      k # (IF refused THEN "result" ELSE "exec") \/ t # s
               PROVE  FALSE
    BY DEF OnlyAt
  <2>1. ~InSend(s, m.build)'
    BY <1>0, <1>8, <1>11
  <2>2. k = "item" => At("item", t, m.build)
    BY <1>5, <1>6 DEF At
  <2>3. k = "send" => At("send", t, m.build) /\ t # s
    BY <1>6, <2>1 DEF At, InSend
  <2>4. k = "result" => At("result", t, m.build)
    BY <1>5, <1>6 DEF At
  <2>5. k = "exec" => At("exec", t, m.build)
    BY <1>7, <1>11 DEF At
  <2> QED BY <1>9, <1>11, <2>2, <2>3, <2>4, <2>5 DEF Kinds
<1>12. OnePlace' /\ NotYet'
  <2>1. "exec" \in Kinds /\ "result" \in Kinds /\ s \in Owners
    BY DEF Kinds, Owners
  <2>2. ASSUME m.type = "job" PROVE \E k \in Kinds : \E t \in Owners : OnlyAt(k, t, m.build)
    BY <1>11, <2>1, <2>2
  <2> QED BY <1>1, <1>9, <1>10, <2>2, PlaceStep DEF Claimed
<1>13. Elsewhere(s)
  BY <1>1, <1>6, <1>7 DEF Elsewhere, SameStream, At
<1>14. SentOnce'
  <2> SUFFICES ASSUME NEW i \in 1..Len(ss'[s].send), NEW j \in 1..Len(ss'[s].send),
                      ss'[s].send[i].type = "job", ss'[s].send[j] = ss'[s].send[i]
               PROVE  i = j
    BY <1>1, <1>13, ElsewhereKept DEF SentOnce
  <2>1. i + 1 \in 1..Len(ss[s].send) /\ j + 1 \in 1..Len(ss[s].send)
    BY <1>3, <1>5
  <2>2. ss[s].send[i + 1].type = "job" /\ ss[s].send[j + 1] = ss[s].send[i + 1]
    BY <1>3, <1>5
  <2>3. i + 1 = j + 1
    BY <1>1, <2>1, <2>2 DEF SentOnce
  <2> QED BY <2>3
<1>15. StreamsOpen'
  BY <1>1, <1>5, <1>6, OpenKept
<1>16. SlotsOK(s)'
  <2>1. SlotsOK(s)
    BY <1>1 DEF SlotsInv
  <2>2. ASSUME NEW b \in Builds, At("exec", s, b)' \/ At("send", s, b)'
        PROVE  At("exec", s, b) \/ At("send", s, b)
    <3>1. CASE b = m.build /\ m.type = "job"
      BY <1>9, <3>1
    <3>2. CASE b # m.build \/ m.type # "job"
      BY <1>10, <2>2, <3>2 DEF Shrinks, Kinds, Owners
    <3> QED BY <3>1, <3>2
  <2> QED BY <1>5, <2>1, <2>2 DEF SlotsOK
<1>17. SlotsInv'
  BY <1>1, <1>5, <1>13, <1>16, ElsewhereKept DEF SlotsInv
<1> QED BY <1>12, <1>14, <1>15, <1>17

\* A job that ends is reported on its stream, if that is still there.
LEMMA JobEndKeeps ==
  ASSUME DispatchInv, NEW c \in Builds, handleGRPCJob(c)
  PROVE  OnePlace' /\ NotYet' /\ SentOnce' /\ StreamsOpen' /\ SlotsInv'
<1>1. /\ TypeOK /\ ss \in [Sessions -> Stream] /\ OnePlace /\ NotYet /\ SentOnce /\ StreamsOpen
      /\ SlotsInv /\ streams' = streams /\ exec \in [Builds -> Exec]
      /\ work \in [Builds -> Statuses] /\ exec' = [exec EXCEPT ![c] = Nobody]
  BY DEF DispatchInv, PlaceInv, TypeOK, handleGRPCJob
<1>2. PICK s \in Sessions : s = exec[c].by
  BY DEF handleGRPCJob
<1> DEFINE r == [ss[s] EXCEPT !.results = IF Link(s) THEN @ \cup {c} ELSE @]
           f == [ss EXCEPT ![s] = r]
<1>3. ss' = Notified(f)
  <2>1. f = [ss EXCEPT ![s].results = IF Link(s) THEN @ \cup {c} ELSE @]
    BY <1>1
  <2> QED BY <1>2, <2>1 DEF handleGRPCJob
<1>4. r \in Stream /\ ss[s] \in Stream
  BY <1>1 DEF Stream
<1>5. f \in [Sessions -> Stream] /\ f[s] = r /\ \A t \in Sessions \ {s} : f[t] = ss[t]
  BY <1>1, <1>4
<1>6. /\ r.worker = ss[s].worker /\ r.handler = ss[s].handler /\ r.done = ss[s].done
      /\ r.running = ss[s].running /\ r.send = ss[s].send /\ r.item = ss[s].item
      /\ r.loop = ss[s].loop
      /\ \A b \in Builds \ {c} : b \in r.results => b \in ss[s].results
  BY <1>4 DEF Stream
<1>7. /\ ss'[s].worker = ss[s].worker /\ ss'[s].handler = ss[s].handler
      /\ ss'[s].done = ss[s].done /\ ss'[s].running = ss[s].running
      /\ ss'[s].send = ss[s].send /\ ss'[s].item = ss[s].item
      /\ ss'[s].loop = "send" => ss[s].loop = "send"
      /\ \A b \in Builds \ {c} : b \in ss'[s].results => b \in ss[s].results
  <2> HIDE DEF r, f
  <2> QED BY <1>3, <1>5, <1>6, NotifiedFields
<1>8. \A t \in Sessions \ {s} : SameStream(ss'[t], ss[t])
  BY ZenonT(60), <1>3, <1>5, NotifiedFields DEF SameStream
<1>9. (\A b \in Builds \ {c} : exec'[b].by = exec[b].by) /\ exec'[c].by = NoSession
  BY <1>1 DEF Nobody
<1>10. Elsewhere(s)
  BY <1>8, <1>9, Records DEF Elsewhere, At
<1>11. /\ work[c] \notin Unclaimed
       /\ \A k \in Kinds : \A t \in Owners : At(k, t, c) => k = "exec" /\ t = s
  <2>1. At("exec", s, c) /\ "exec" \in Kinds /\ s \in Owners
    BY <1>2 DEF At, Kinds, Owners
  <2> QED BY <1>1, <2>1 DEF OnePlace, NotYet, Unclaimed
<1>12. Claimed /\ work'[c] \notin Unclaimed
  BY <1>1, <1>11 DEF Claimed, Unclaimed, handleGRPCJob
<1>13. ASSUME NEW b \in Builds \ {c} PROVE Shrinks(b)
  <2>1. ASSUME NEW t \in Sessions, NEW k \in Kinds \ {"exec"}, At(k, t, b)' PROVE At(k, t, b)
    <3>1. CASE t = s
      BY <1>7, <2>1, <3>1, LeftAt
    <3>2. CASE t # s
      BY <1>1, <1>10, <2>1, <3>2, ElsewhereKept
    <3> QED BY <3>1, <3>2
  <2> QED BY <1>9, <2>1, ShrinksBy
<1>14. OnlyAt("result", s, c)
  <2> SUFFICES ASSUME NEW k \in Kinds, NEW t \in Owners, At(k, t, c)', k # "result" \/ t # s
               PROVE  FALSE
    BY DEF OnlyAt
  <2>1. k # "exec"
    BY <1>9, Records DEF At, Owners
  <2>2. At(k, t, c)
    BY <1>7, <1>8, <2>1 DEF At, InSend, SameStream
  <2> QED BY <1>11, <2>1, <2>2
<1>15. OnePlace' /\ NotYet'
  <2>1. "result" \in Kinds /\ s \in Owners
    BY DEF Kinds, Owners
  <2> QED BY <1>1, <1>12, <1>13, <1>14, <2>1, PlaceStep
<1>16. SentOnce'
  BY SMTT(30), <1>1, <1>7, <1>10, ElsewhereKept DEF SentOnce
<1>17. StreamsOpen'
  BY <1>1, <1>7, <1>8, OpenKept DEF SameStream
<1>18. SlotsInv'
  <2>1. \A b \in Builds : At("exec", s, b)' => At("exec", s, b)
    BY <1>9, Records DEF At
  <2>2. \A b \in Builds : At("send", s, b)' => At("send", s, b)
    BY <1>7 DEF At, InSend
  <2>3. ss[s].handler = "live" => SlotsOK(s)'
    BY <1>1, <1>7, <2>1, <2>2 DEF SlotsInv, SlotsOK
  <2> QED BY <1>1, <1>7, <1>10, <2>1, <2>3, ElsewhereKept DEF SlotsInv
<1> QED BY <1>15, <1>16, <1>17, <1>18

\* A result gives back the slot of a build that is nowhere else.
LEMMA ResultKeeps ==
  ASSUME DispatchInv, NEW s \in Sessions, NEW c \in Builds, handleJobResult(s, c)
  PROVE  OnePlace' /\ NotYet' /\ SentOnce' /\ StreamsOpen' /\ SlotsInv'
<1> DEFINE r == [ss[s] EXCEPT !.results = @ \ {c}, !.running = @ \ {c}]
           f == [ss EXCEPT ![s] = r]
<1>1. /\ TypeOK /\ ss \in [Sessions -> Stream] /\ OnePlace /\ NotYet /\ SentOnce /\ StreamsOpen
      /\ SlotsInv /\ streams' = streams /\ exec' = exec /\ work' = work
      /\ c \in ss[s].results /\ ss[s].handler = "live" /\ ss[s] \in Stream
  BY DEF DispatchInv, PlaceInv, TypeOK, handleJobResult
<1>2. ss' = Notified(f)
  <2>1. f = [ss EXCEPT ![s].results = @ \ {c}, ![s].running = @ \ {c}]
    BY <1>1
  <2> QED BY <2>1 DEF handleJobResult
<1>3. r \in Stream
  BY <1>1 DEF Stream
<1>4. f \in [Sessions -> Stream] /\ f[s] = r /\ \A t \in Sessions \ {s} : f[t] = ss[t]
  BY <1>1, <1>3
<1>5. /\ r.worker = ss[s].worker /\ r.handler = ss[s].handler /\ r.done = ss[s].done
      /\ r.running = ss[s].running \ {c} /\ r.send = ss[s].send /\ r.item = ss[s].item
      /\ r.loop = ss[s].loop /\ r.results = ss[s].results \ {c}
  BY <1>1 DEF Stream
<1>6. /\ ss'[s].worker = ss[s].worker /\ ss'[s].handler = ss[s].handler
      /\ ss'[s].done = ss[s].done /\ ss'[s].running = ss[s].running \ {c}
      /\ ss'[s].send = ss[s].send /\ ss'[s].item = ss[s].item
      /\ ss'[s].loop = "send" => ss[s].loop = "send"
      /\ ss'[s].results = ss[s].results \ {c}
  BY <1>2, <1>4, <1>5, NotifiedFields
<1>7. Elsewhere(s)
  BY <1>1, <1>2, <1>4, NotifiedFields DEF Elsewhere, SameStream, At
<1>8. \A k \in Kinds : \A t \in Owners : At(k, t, c) => k = "result" /\ t = s
  <2>1. At("result", s, c) /\ "result" \in Kinds /\ s \in Owners
    BY <1>1 DEF At, Kinds, Owners
  <2> QED BY <1>1, <2>1 DEF OnePlace
<1>9. ASSUME NEW b \in Builds PROVE Shrinks(b)
  <2>1. ASSUME NEW t \in Sessions, NEW k \in Kinds \ {"exec"}, At(k, t, b)' PROVE At(k, t, b)
    <3>1. CASE t = s
      BY <1>6, <2>1, <3>1, LeftAt
    <3>2. CASE t # s
      BY <1>1, <1>7, <2>1, <3>2, ElsewhereKept
    <3> QED BY <3>1, <3>2
  <2> QED BY <1>1, <2>1, ShrinksBy
<1>10. OnePlace' /\ NotYet'
  BY <1>1, <1>9, PlaceStep DEF Claimed
<1>11. SentOnce'
  BY SMTT(30), <1>1, <1>6, <1>7, ElsewhereKept DEF SentOnce
<1>12. StreamsOpen'
  BY <1>1, <1>6, <1>7, OpenKept DEF Elsewhere, SameStream
<1>13. SlotsOK(s)'
  <2>1. SlotsOK(s) /\ MaxJobs \in Nat
    BY <1>1, DispatchAssumptions DEF SlotsInv, MaxJobs
  <2>2. IsFiniteSet(ss[s].running) /\ Cardinality(ss[s].running) \in Nat
    BY <2>1, FS_CardinalityType DEF SlotsOK
  <2>3. IsFiniteSet(ss[s].running \ {c})
    BY <2>2, FS_RemoveElement
  <2>4. Cardinality(ss[s].running \ {c}) \in Nat
    BY <2>3, FS_CardinalityType
  <2>5. Cardinality(ss[s].running \ {c}) <= Cardinality(ss[s].running)
    BY SMTT(30), <2>2, <2>4, FS_RemoveElement
  <2>6. /\ Cardinality(ss'[s].running) <= MaxJobs
        /\ ss'[s].loop = "send" => Cardinality(ss'[s].running) < MaxJobs
    <3>1. /\ Cardinality(ss[s].running) <= MaxJobs
          /\ ss[s].loop = "send" => Cardinality(ss[s].running) < MaxJobs
      BY <2>1 DEF SlotsOK
    <3> QED BY <1>6, <2>1, <2>2, <2>4, <2>5, <3>1
  <2>7. ASSUME NEW b \in Builds, At("exec", s, b)' \/ At("send", s, b)' PROVE b \in ss'[s].running
    <3>1. At("exec", s, b) \/ At("send", s, b)
      BY <1>9, <2>7 DEF Shrinks, Kinds, Owners
    <3>2. b # c
      BY <1>8, <3>1 DEF Kinds, Owners
    <3> QED BY <1>6, <2>1, <3>1, <3>2 DEF SlotsOK
  <2> QED BY <1>6, <2>3, <2>6, <2>7 DEF SlotsOK
<1>14. SlotsInv'
  BY <1>1, <1>6, <1>7, <1>13, ElsewhereKept DEF SlotsInv
<1> QED BY <1>10, <1>11, <1>12, <1>14

\* An embedded worker executes a build that was nowhere yet.
LEMMA PollClaimKeeps ==
  ASSUME DispatchInv, NEW p \in Pollers, PollClaim(p)
  PROVE  OnePlace' /\ NotYet' /\ SentOnce' /\ StreamsOpen' /\ SlotsInv'
<1>1. /\ TypeOK /\ OnePlace /\ NotYet /\ SentOnce /\ StreamsOpen /\ SlotsInv /\ streams' = streams
      /\ ss' = ss /\ exec \in [Builds -> Exec] /\ work \in [Builds -> Statuses]
  BY DEF DispatchInv, PlaceInv, TypeOK, PollClaim
<1>2. PICK c \in Builds :
        /\ work[c] = "pending"
        /\ work' = [work EXCEPT ![c] = "started"]
        /\ exec' = [exec EXCEPT ![c] = [by |-> p, tracked |-> TRUE, stop |-> FALSE]]
  BY DEF PollClaim, Claimable
<1>3. exec'[c].by = p /\ \A b \in Builds \ {c} : exec'[b].by = exec[b].by
  BY <1>1, <1>2
<1>4. p \notin Sessions /\ p \in Owners
  BY DispatchAssumptions DEF Sessions, Owners
<1>5. ASSUME NEW b \in Builds, NEW k \in Kinds, NEW t \in Owners, At(k, t, b)',
             b # c \/ k # "exec" \/ t # p
      PROVE  At(k, t, b)
  BY <1>1, <1>3, <1>5 DEF At, InSend
<1>6. OnlyAt("exec", p, c) /\ work'[c] \notin Unclaimed
  BY <1>1, <1>2, <1>5 DEF OnlyAt, NotYet, Unclaimed
<1>7. \A b \in Builds \ {c} : Shrinks(b)
  BY <1>5 DEF Shrinks
<1>8. OnePlace' /\ NotYet'
  <2>1. Claimed /\ "exec" \in Kinds
    BY <1>1, <1>2 DEF Claimed, Unclaimed, Kinds
  <2> QED BY <1>1, <1>4, <1>6, <1>7, <2>1, PlaceStep
<1>9. SentOnce' /\ StreamsOpen'
  BY <1>1 DEF SentOnce, StreamsOpen
<1>10. SlotsInv'
  <2>1. ASSUME NEW s \in Sessions
        PROVE  /\ SameStream(ss'[s], ss[s])
               /\ \A b \in Builds : At("exec", s, b)' => At("exec", s, b)
    BY <1>1, <1>4, <1>5 DEF SameStream, Kinds, Owners
  <2> QED BY <1>1, <2>1, SlotsKept DEF SlotsInv
<1> QED BY <1>8, <1>9, <1>10

\* A restart of the server leaves jobs that go on, on streams that are gone.
LEMMA RestartKeeps ==
  ASSUME DispatchInv, Restart
  PROVE  OnePlace' /\ NotYet' /\ SentOnce' /\ StreamsOpen' /\ SlotsInv'
<1>1. /\ TypeOK /\ OnePlace /\ NotYet /\ SentOnce /\ StreamsOpen /\ SlotsInv
      /\ ss \in [Sessions -> Stream] /\ exec \in [Builds -> Exec] /\ work \in [Builds -> Statuses]
      /\ streams' = [w \in Workers |-> NoSession]
  BY DEF DispatchInv, PlaceInv, TypeOK, Restart
<1>2. ASSUME NEW s \in Sessions
      PROVE  \/ ss[s].handler = "unused" /\ ss'[s] = ss[s]
             \/ /\ ss'[s].handler = "ended" /\ ss'[s].send = <<>> /\ ss'[s].item = {}
                /\ ss'[s].results = {}
  BY DEF Restart, Unused
<1>3. \A b \in Builds : exec'[b].by \in {exec[b].by, NoSession}
  BY DEF Restart, Nobody
<1>4. ASSUME NEW b \in Builds, NEW t \in Sessions, NEW k \in Kinds \ {"exec"}, At(k, t, b)'
      PROVE  At(k, t, b)
  <2>1. /\ b \in ss'[t].item => b \in ss[t].item
        /\ b \in ss'[t].results => b \in ss[t].results
        /\ ss'[t].send \in {ss[t].send, <<>>}
    BY <1>2
  <2> QED BY <1>4, <2>1, LeftAt
<1>5. \A b \in Builds : Shrinks(b)
  BY <1>3, <1>4, ShrinksBy
<1>6. OnePlace' /\ NotYet'
  <2>1. Claimed
    BY <1>1 DEF Claimed, Unclaimed, Restart
  <2> QED BY <1>1, <1>5, <2>1, PlaceStep
<1>7. SentOnce'
  <2> SUFFICES ASSUME NEW t \in Sessions, NEW i \in 1..Len(ss'[t].send),
                      NEW j \in 1..Len(ss'[t].send),
                      ss'[t].send[i].type = "job", ss'[t].send[j] = ss'[t].send[i]
               PROVE  i = j
    BY DEF SentOnce
  <2>1. ss'[t].send # <<>>
    OBVIOUS
  <2>2. ss'[t] = ss[t]
    BY <1>2, <2>1
  <2> QED BY <1>1, <2>2 DEF SentOnce
<1>8. StreamsOpen'
  BY <1>1 DEF StreamsOpen
<1>9. SlotsInv'
  <2>1. \A s \in Sessions : \A b \in Builds : At("exec", s, b)' => At("exec", s, b)
    BY <1>5 DEF Shrinks, Kinds, Owners
  <2>2. \A s \in Sessions : ss'[s].handler # "live" /\ (ss'[s].handler = "unused" => ss[s].handler = "unused")
    BY <1>2
  <2> QED BY <1>1, <2>1, <2>2 DEF SlotsInv
<1> QED BY <1>6, <1>7, <1>8, <1>9

-----------------------------------------------------------------------------
(* The theorems.                                                           *)

\* DispatchInv is inductive.
LEMMA DispatchInductive ==
  (Init => DispatchInv) /\ (DispatchInv /\ [Next]_vars => DispatchInv')
<1>1. ASSUME Init PROVE DispatchInv
  <2>1. TypeOK
    BY <1>1, Records DEF Init, TypeOK, Statuses, Polls
  <2>2. ss = [s \in Sessions |-> Unused] /\ exec = [b \in Builds |-> Nobody]
    BY <1>1 DEF Init
  <2>3. \A k \in Kinds : \A s \in Owners : \A b \in Builds : ~At(k, s, b)
    BY <2>2, Records DEF At, InSend, Unused, Nobody, Owners
  <2>4. OnePlace /\ NotYet /\ SlotsInv
    BY <2>2, <2>3 DEF OnePlace, NotYet, SlotsInv, Unused, Kinds, Owners
  <2>5. SentOnce
    BY <2>2 DEF SentOnce, Unused
  <2>6. StreamsOpen
    BY <1>1 DEF Init, StreamsOpen
  <2> QED BY <2>1, <2>4, <2>5, <2>6 DEF DispatchInv, PlaceInv
<1>2. ASSUME DispatchInv, Next
      PROVE  OnePlace' /\ NotYet' /\ SentOnce' /\ StreamsOpen' /\ SlotsInv'
  <2>1. TypeOK
    BY <1>2 DEF DispatchInv, PlaceInv
  <2> QED BY <1>2, <2>1, Stills, StillKeeps, CancelKeeps, ExecuteKeeps, EndExecuteKeeps,
             ClaimKeeps, SendKeeps, DeliverKeeps, JobEndKeeps, ResultKeeps, PollClaimKeeps,
             RestartKeeps
          DEF Next, Loop, PollLoop
<1>3. ASSUME DispatchInv, UNCHANGED vars
      PROVE  OnePlace' /\ NotYet' /\ SentOnce' /\ StreamsOpen' /\ SlotsInv'
  <2>1. Still
    BY <1>3 DEF vars, Still, Claimed, NoneStarts, SameStream
  <2> QED BY <1>3, <2>1, StillKeeps
<1>4. ASSUME DispatchInv, [Next]_vars PROVE TypeOK'
  BY <1>4, TypeNext DEF DispatchInv, PlaceInv
<1> QED BY <1>1, <1>2, <1>3, <1>4 DEF DispatchInv, PlaceInv

\* The variables of the dispatch hold what the code can store in them.
THEOREM DispatchTypes == Spec => []TypeOK
<1>1. DispatchInv => TypeOK
  BY DEF DispatchInv, PlaceInv
<1> QED BY <1>1, DispatchInductive, PTL DEF Spec

\* A build is with one worker: whatever reconnects, restarts, drains and
\* cancellations happen, it is never claimed, sent, executed or reported twice
\* at a time, so that Deliver never starts what somebody executes.
THEOREM OnePlaceCorrect == Spec => []OnePlace
<1>1. DispatchInv => OnePlace
  BY DEF DispatchInv, PlaceInv
<1> QED BY <1>1, DispatchInductive, PTL DEF Spec

\* WorkerStreamManager.Register closes an open stream only: the server is not
\* brought down by the reconnections of its workers, however many there are.
THEOREM ClosedOnceCorrect == Spec => []ClosedOnce
<1>1. DispatchInv => ClosedOnce
  BY DEF DispatchInv, StreamsOpen, ClosedOnce
<1> QED BY <1>1, DispatchInductive, PTL DEF Spec

\* The slots of a stream cover what it carries and are no more than the worker
\* asked for, for any --concurrency and any size of the Send channel.
THEOREM SlotsCoverCorrect == Spec => []SlotsCover
<1>1. ASSUME DispatchInv, NEW s \in Sessions, ss[s].handler = "live"
      PROVE  /\ {b \in Builds : exec[b].by = s} \subseteq ss[s].running
             /\ \A i \in 1..Len(ss[s].send) :
                  ss[s].send[i].type = "job" => ss[s].send[i].build \in ss[s].running
             /\ Cardinality(ss[s].running) <= MaxJobs
  <2>1. SlotsOK(s) /\ ss[s] \in Stream
    BY <1>1 DEF DispatchInv, PlaceInv, SlotsInv, TypeOK
  <2>2. ASSUME NEW i \in 1..Len(ss[s].send), ss[s].send[i].type = "job"
        PROVE  ss[s].send[i].build \in ss[s].running
    <3>1. ss[s].send[i] \in Message
      BY <2>1 DEF Stream
    <3>2. ss[s].send[i] = JobMessage(ss[s].send[i].build) /\ ss[s].send[i].build \in Builds
      BY <2>2, <3>1 DEF Message, JobMessage
    <3> QED BY <2>1, <3>2 DEF SlotsOK, At, InSend
  <2>3. {b \in Builds : exec[b].by = s} \subseteq ss[s].running
    BY <2>1 DEF SlotsOK, At, Owners
  <2> QED BY <2>1, <2>2, <2>3 DEF SlotsOK
<1>2. DispatchInv => SlotsCover
  BY <1>1 DEF SlotsCover
<1> QED BY <1>2, DispatchInductive, PTL DEF Spec
=============================================================================
