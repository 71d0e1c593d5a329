---------------------------- MODULE WorkDispatch ----------------------------
(***************************************************************************)
(* How claimed work reaches a worker: the notifier that wakes the waiting  *)
(* loops (pikoci/notifier), the long poll of the server's embedded workers *)
(* (PollNextWork, pollLoop), the gRPC streams of the workers of one        *)
(* separate process (pikoci/grpc, worker/grpc_client.go), and the way of a *)
(* cancellation to the worker that executes the build.                     *)
(*                                                                         *)
(* All work here belongs to one team, which may have workers of its own.   *)
(* What a claim checks in the database is the subject of BuildLifecycle.   *)
(***************************************************************************)
EXTENDS Integers, Sequences, FiniteSets

CONSTANTS
  Builds,       \* the builds of the team's pipelines
  Workers,      \* gRPC workers, all started by one worker process
  Team,         \* those with a token of the team; the others are global
  Pollers,      \* the server's embedded workers, which are global
  Concurrency,  \* the --concurrency of the worker process
  Buffer,       \* capacity of a stream's Send channel
  Events,       \* bound on what users, operators and the network do
  MaxSessions   \* bound on how often a worker connects

Sessions  == 1..MaxSessions
NoSession == 0

EventKinds == {"cancel", "break", "crash", "drain", "restart", "expire", "noreport"}

ASSUME DispatchAssumptions ==
  /\ Team \subseteq Workers
  /\ Pollers \cap Workers = {}
  /\ Pollers \cap (0..MaxSessions) = {}
  /\ Concurrency \in Nat
  /\ Buffer \in Nat
  /\ MaxSessions \in Nat
  /\ Events \subseteq EventKinds

VARIABLES
  work,        \* build -> its status, as far as dispatching sees it
  cancelling,  \* build -> the status a cancel request has read, or "none"
  registered,  \* the workers whose Register call awaits its Execute
  streams,     \* worker -> its stream in the WorkerStreamManager
  ss,          \* session -> stream, handler and dispatch loop of an Execute call
  client,      \* worker -> where its grpcLoop is
  poll,        \* embedded worker -> where its pollLoop is
  exec         \* build -> who executes it

vars == <<work, cancelling, registered, streams, ss, client, poll, exec>>

Statuses == {"none", "pending", "started", "cancelled", "ended"}
Message  == [type: {"job", "cancel"}, build: Builds]

\* A loop: NextWork ("try"), nothing found and not waiting yet ("idle"),
\* waiting on the notifier, an item claimed and to be sent.
Loops == {"off", "try", "send", "idle", "wait"}

Stream == [worker: Workers \cup {"nobody"}, handler: {"unused", "live", "ended"},
           done: BOOLEAN, running: SUBSET Builds, send: Seq(Message),
           loop: Loops, item: SUBSET Builds, results: SUBSET Builds]

Unused == [worker |-> "nobody", handler |-> "unused", done |-> FALSE, running |-> {},
           send |-> <<>>, loop |-> "off", item |-> {}, results |-> {}]

\* The second NextWork of PollNextWork is "retry".
Polls == {"try", "idle", "wait", "retry", "exec"}

Exec == [by: Sessions \cup {NoSession} \cup Pollers, tracked: BOOLEAN, stop: BOOLEAN]
Nobody == [by |-> NoSession, tracked |-> FALSE, stop |-> FALSE]

Init ==
  /\ work = [b \in Builds |-> "none"]
  /\ cancelling = [b \in Builds |-> "none"]
  /\ registered = {}
  /\ streams = [w \in Workers |-> NoSession]
  /\ ss = [s \in Sessions |-> Unused]
  /\ client = [w \in Workers |-> [phase |-> "down", conn |-> NoSession]]
  /\ poll = [p \in Pollers |-> "try"]
  /\ exec = [b \in Builds |-> Nobody]

-----------------------------------------------------------------------------
(* The streams and the notifier.                                           *)

\* The worker's end of the stream is there.
Link(s) == ss[s].handler # "unused" /\ client[ss[s].worker].conn = s

\* maxJobs of a stream is the --concurrency of the process, 1 if not positive.
MaxJobs == IF Concurrency > 0 THEN Concurrency ELSE 1

\* (X_Y is a mutant of definition X: what Y names is wrong in it.)
HasCapacity_OneTooMany(s) == Cardinality(ss[s].running) <= MaxJobs

HasCapacity(s) == Cardinality(ss[s].running) < MaxJobs

HasTeamWorkers == \E w \in Team : streams[w] # NoSession

\* Notify leaves a token in the channel of every waiter, which makes it go on:
\* who waits then is as good as woken.
Notified(f) ==
  [s \in Sessions |-> IF f[s].loop = "wait" THEN [f[s] EXCEPT !.loop = "try"] ELSE f[s]]

NotifiedPollers(f) == [p \in Pollers |-> IF f[p] = "wait" THEN "retry" ELSE f[p]]

\* The non-blocking send into a stream's channel.
Fits(s) == Len(ss[s].send) < Buffer

\* What NextWork may claim for a team worker, and for a global one.
Claimable(own) == {b \in Builds : work[b] = "pending" /\ (own \/ ~HasTeamWorkers)}

Own(s) == ss[s].worker \in Team

-----------------------------------------------------------------------------
(* Users.                                                                  *)

CreateJobBuild(b) ==
  /\ work[b] = "none"
  /\ work' = [work EXCEPT ![b] = "pending"]
  /\ ss' = Notified(ss)
  /\ poll' = NotifiedPollers(poll)
  /\ UNCHANGED <<cancelling, registered, streams, client, exec>>

\* CancelJobBuild reads the build ...
Cancellable_AnyStatus(b) == work[b] # "none"

Cancellable(b) == work[b] \in {"pending", "started"}

FindForCancel(b) ==
  /\ "cancel" \in Events
  /\ cancelling[b] = "none"
  /\ Cancellable(b)
  /\ cancelling' = [cancelling EXCEPT ![b] = work[b]]
  /\ UNCHANGED <<work, registered, streams, ss, client, poll, exec>>

\* ... writes it and, if it was running, has CancelBuild push a message to the
\* worker whose stream the build is known on.
CancelJobBuild(b) ==
  /\ cancelling[b] # "none"
  /\ work' = [work EXCEPT ![b] = "cancelled"]
  /\ cancelling' = [cancelling EXCEPT ![b] = "none"]
  /\ LET on == {w \in Workers : streams[w] # NoSession /\ b \in ss[streams[w]].running}
         msg == [type |-> "cancel", build |-> b]
     IN  IF cancelling[b] = "started" /\ on # {}
           THEN \E w \in on :
                  ss' = Notified(IF Fits(streams[w])
                                   THEN [ss EXCEPT ![streams[w]].send = Append(@, msg)]
                                   ELSE ss)
           ELSE ss' = Notified(ss)
  /\ poll' = NotifiedPollers(poll)
  /\ UNCHANGED <<registered, streams, client, exec>>

-----------------------------------------------------------------------------
(* Connecting.                                                             *)

Register(w) ==
  /\ client[w].phase = "down"
  /\ client' = [client EXCEPT ![w].phase = "registered"]
  /\ registered' = registered \cup {w}
  /\ UNCHANGED <<work, cancelling, streams, ss, poll, exec>>

\* A registration is good for 30 seconds.
ExpireRegistration(w) ==
  /\ "expire" \in Events
  /\ w \in registered
  /\ registered' = registered \ {w}
  /\ UNCHANGED <<work, cancelling, streams, ss, client, poll, exec>>

IsNextSession(s) ==
  /\ ss[s].handler = "unused"
  /\ \A t \in 1..(s - 1) : ss[t].handler # "unused"

\* MaxSessions bounds the model: a stream is lost only while another is left.
SessionLeft == \E s \in Sessions : ss[s].handler = "unused"

\* WorkerStreamManager.Register, after it has closed the stream's predecessor.
RegisterStream_KeepsOld(w, s) ==
  IF streams[w] = NoSession THEN [streams EXCEPT ![w] = s] ELSE streams

RegisterStream(w, s) == [streams EXCEPT ![w] = s]

\* Execute, up to its loops: the stream replaces the one the worker may have
\* had, whose Done channel is closed.
Execute(w, s) ==
  /\ client[w].phase = "registered"
  /\ w \in registered
  /\ IsNextSession(s)
  /\ registered' = registered \ {w}
  /\ ss' = [[t \in Sessions |-> IF t = streams[w] THEN [ss[t] EXCEPT !.done = TRUE] ELSE ss[t]]
              EXCEPT ![s] = [Unused EXCEPT !.worker = w, !.handler = "live", !.loop = "try"]]
  /\ streams' = RegisterStream(w, s)
  /\ client' = [client EXCEPT ![w] = [phase |-> "up", conn |-> s]]
  /\ UNCHANGED <<work, cancelling, poll, exec>>

\* "worker has not called Register": the worker starts again.
RefuseExecute(w) ==
  /\ client[w].phase = "registered"
  /\ w \notin registered
  /\ client' = [client EXCEPT ![w].phase = "down"]
  /\ UNCHANGED <<work, cancelling, registered, streams, ss, poll, exec>>

\* The worker sees its stream fail and will register again; its jobs go on.
Break(w) ==
  /\ "break" \in Events
  /\ SessionLeft
  /\ client[w].phase = "up"
  /\ client' = [client EXCEPT ![w] = [phase |-> "down", conn |-> NoSession]]
  /\ UNCHANGED <<work, cancelling, registered, streams, ss, poll, exec>>

\* The handler of a stream sees that its worker is gone, and returns.  Its
\* deferred Unregister names the worker, not the stream.  Nobody reads what is
\* left in the stream's channels.
EndExecute(s) ==
  /\ ss[s].handler = "live"
  /\ ~Link(s)
  /\ ss' = [ss EXCEPT ![s] = [Unused EXCEPT !.worker = ss[s].worker, !.handler = "ended",
                                            !.loop = ss[s].loop, !.item = ss[s].item]]
  /\ streams' = [streams EXCEPT ![ss[s].worker] = NoSession]
  /\ UNCHANGED <<work, cancelling, registered, client, poll, exec>>

-----------------------------------------------------------------------------
(* The dispatch loop of a stream.                                          *)

\* NextWork has claimed a build.  The context of an ended handler lets no
\* query through.
Claim(s) ==
  /\ ss[s].loop = "try"
  /\ ss[s].handler = "live"
  /\ HasCapacity(s)
  /\ \E b \in Claimable(Own(s)) :
       /\ work' = [work EXCEPT ![b] = "started"]
       /\ ss' = [ss EXCEPT ![s].loop = "send", ![s].item = {b}]
  /\ UNCHANGED <<cancelling, registered, streams, client, poll, exec>>

\* sendWorkItem takes a slot and queues the job, or frees the slot again.
Queued_LeaksSlot(s, b) ==
  [ss[s] EXCEPT !.running = @ \cup {b},
                !.send = IF Fits(s) THEN Append(@, [type |-> "job", build |-> b]) ELSE @]

Queued(s, b) ==
  IF Fits(s) THEN [ss[s] EXCEPT !.running = @ \cup {b},
                                !.send = Append(@, [type |-> "job", build |-> b])]
             ELSE [ss[s] EXCEPT !.running = @ \ {b}]

sendWorkItem(s) ==
  /\ ss[s].loop = "send"
  /\ \E b \in ss[s].item :
       ss' = [ss EXCEPT ![s] = [Queued(s, b) EXCEPT !.loop = "try", !.item = {}]]
  /\ UNCHANGED <<work, cancelling, registered, streams, client, poll, exec>>

FindNothing(s) ==
  /\ ss[s].loop = "try"
  /\ ss[s].handler = "live" /\ HasCapacity(s) => Claimable(Own(s)) = {}
  /\ ss' = [ss EXCEPT ![s].loop = "idle"]
  /\ UNCHANGED <<work, cancelling, registered, streams, client, poll, exec>>

Wait(s) ==
  /\ ss[s].loop = "idle"
  /\ ss' = [ss EXCEPT ![s].loop = "wait"]
  /\ UNCHANGED <<work, cancelling, registered, streams, client, poll, exec>>

\* A waiting loop that is not notified goes on when 30 seconds are over.
Due_NoTimeout(s) == FALSE

Due(s) == ss[s].loop = "wait"

WakeUp(s) ==
  /\ Due(s)
  /\ ss' = [ss EXCEPT ![s].loop = "try"]
  /\ UNCHANGED <<work, cancelling, registered, streams, client, poll, exec>>

StopLoop(s) ==
  /\ ss[s].loop = "wait"
  /\ ss[s].handler = "ended" \/ ss[s].done
  /\ ss' = [ss EXCEPT ![s].loop = "off"]
  /\ UNCHANGED <<work, cancelling, registered, streams, client, poll, exec>>

-----------------------------------------------------------------------------
(* The worker's end of a stream.                                           *)

\* The sending goroutine of the stream, and what the worker does with the
\* message: a job gets a goroutine, which a draining worker refuses; a cancel
\* finds the job only when that goroutine has tracked it.  What is sent on a
\* broken stream is lost.
Deliver(s) ==
  /\ ss[s].handler = "live"
  /\ ~ss[s].done
  /\ ss[s].send # <<>>
  /\ LET m == Head(ss[s].send)
         refused == Link(s) /\ m.type = "job" /\ client[ss[s].worker].phase = "draining"
     IN  /\ ss' = [ss EXCEPT ![s].send = Tail(@),
                             ![s].results = IF refused THEN @ \cup {m.build} ELSE @]
         /\ exec' =
              IF ~Link(s) \/ refused THEN exec
              ELSE IF m.type = "job"
                THEN [exec EXCEPT ![m.build] = [Nobody EXCEPT !.by = s]]
                ELSE [exec EXCEPT ![m.build].stop = @ \/ exec[m.build].tracked]
  /\ UNCHANGED <<work, cancelling, registered, streams, client, poll>>

trackJob(b) ==
  /\ exec[b].by \in Sessions
  /\ ~exec[b].tracked
  /\ exec' = [exec EXCEPT ![b].tracked = TRUE]
  /\ UNCHANGED <<work, cancelling, registered, streams, ss, client, poll>>

\* processMessage returns: the result was reported, unless the build is read as
\* cancelled or the report failed, and the JobResult is sent on the stream the
\* job came from.
handleGRPCJob(b) ==
  /\ exec[b].by \in Sessions
  /\ exec[b].tracked
  /\ \/ work' = [work EXCEPT ![b] = IF @ = "cancelled" THEN @ ELSE "ended"]
     \/ "noreport" \in Events /\ UNCHANGED work
  /\ LET s == exec[b].by
     IN  ss' = Notified([ss EXCEPT ![s].results = IF Link(s) THEN @ \cup {b} ELSE @])
  /\ poll' = NotifiedPollers(poll)
  /\ exec' = [exec EXCEPT ![b] = Nobody]
  /\ UNCHANGED <<cancelling, registered, streams, client>>

handleJobResult(s, b) ==
  /\ ss[s].handler = "live"
  /\ b \in ss[s].results
  /\ ss' = Notified([ss EXCEPT ![s].results = @ \ {b}, ![s].running = @ \ {b}])
  /\ poll' = NotifiedPollers(poll)
  /\ UNCHANGED <<work, cancelling, registered, streams, client, exec>>

-----------------------------------------------------------------------------
(* Embedded workers.                                                       *)

\* PollNextWork claims a build and pollLoop executes it in place.
PollClaim(p) ==
  /\ poll[p] \in {"try", "retry"}
  /\ \E b \in Claimable(FALSE) :
       /\ work' = [work EXCEPT ![b] = "started"]
       /\ exec' = [exec EXCEPT ![b] = [by |-> p, tracked |-> TRUE, stop |-> FALSE]]
  /\ poll' = [poll EXCEPT ![p] = "exec"]
  /\ UNCHANGED <<cancelling, registered, streams, ss, client>>

\* After its second look PollNextWork returns, and is called again.
PollNothing(p) ==
  /\ poll[p] \in {"try", "retry"}
  /\ Claimable(FALSE) = {}
  /\ poll' = [poll EXCEPT ![p] = IF @ = "try" THEN "idle" ELSE "try"]
  /\ UNCHANGED <<work, cancelling, registered, streams, ss, client, exec>>

PollWait(p) ==
  /\ poll[p] = "idle"
  /\ poll' = [poll EXCEPT ![p] = "wait"]
  /\ UNCHANGED <<work, cancelling, registered, streams, ss, client, exec>>

PollWakeUp(p) ==
  /\ poll[p] = "wait"
  /\ poll' = [poll EXCEPT ![p] = "retry"]
  /\ UNCHANGED <<work, cancelling, registered, streams, ss, client, exec>>


ReadCancelled(b) == work[b] = "cancelled"

pollForCancellation(b) ==
  /\ exec[b].by \in Pollers
  /\ ~exec[b].stop
  /\ ReadCancelled(b)
  /\ exec' = [exec EXCEPT ![b].stop = TRUE]
  /\ UNCHANGED <<work, cancelling, registered, streams, ss, client, poll>>

EndPolledJob(b) ==
  /\ exec[b].by \in Pollers
  /\ \/ work' = [work EXCEPT ![b] = IF @ = "cancelled" THEN @ ELSE "ended"]
     \/ "noreport" \in Events /\ UNCHANGED work
  /\ poll' = NotifiedPollers([poll EXCEPT ![exec[b].by] = "try"])
  /\ ss' = Notified(ss)
  /\ exec' = [exec EXCEPT ![b] = Nobody]
  /\ UNCHANGED <<cancelling, registered, streams, client>>

-----------------------------------------------------------------------------
(* Shutdown and failure of a process.                                      *)

\* SIGQUIT at the worker process: every worker drains ...
Drain ==
  /\ "drain" \in Events
  /\ SessionLeft
  /\ \A w \in Workers : client[w].phase \in {"down", "registered", "up"}
  /\ client' = [w \in Workers |-> [client[w] EXCEPT !.phase = "draining"]]
  /\ UNCHANGED <<work, cancelling, registered, streams, ss, poll, exec>>

\* ... which cancels the context of its session, so that grpcLoop returns ...
StopGRPCLoop(w) ==
  /\ client[w].phase = "draining"
  /\ client' = [client EXCEPT ![w] = [phase |-> "stopped", conn |-> NoSession]]
  /\ UNCHANGED <<work, cancelling, registered, streams, ss, poll, exec>>

\* ... and when all have returned the process exits.  Another is started.
Exit ==
  /\ \A w \in Workers : client[w].phase = "stopped"
  /\ exec' = [b \in Builds |-> IF exec[b].by \in Sessions THEN Nobody ELSE exec[b]]
  /\ client' = [w \in Workers |-> [phase |-> "down", conn |-> NoSession]]
  /\ UNCHANGED <<work, cancelling, registered, streams, ss, poll>>

\* The worker process dies and is started again.
Crash ==
  /\ "crash" \in Events
  /\ SessionLeft
  /\ \E w \in Workers : client[w].phase = "up"
  /\ exec' = [b \in Builds |-> IF exec[b].by \in Sessions THEN Nobody ELSE exec[b]]
  /\ client' = [w \in Workers |-> [phase |-> "down", conn |-> NoSession]]
  /\ UNCHANGED <<work, cancelling, registered, streams, ss, poll>>

\* The server restarts: its streams, registrations, requests and embedded jobs
\* are gone, and RecoverOrphanedBuilds fails what is started.  The workers see
\* their streams fail; their jobs go on.
Restart ==
  /\ "restart" \in Events
  /\ SessionLeft
  /\ \E s \in Sessions : ss[s].handler = "live"
  /\ work' = [b \in Builds |-> IF work[b] = "started" THEN "ended" ELSE work[b]]
  /\ cancelling' = [b \in Builds |-> "none"]
  /\ registered' = {}
  /\ streams' = [w \in Workers |-> NoSession]
  /\ ss' = [s \in Sessions |-> IF ss[s].handler = "unused" THEN ss[s]
                               ELSE [Unused EXCEPT !.worker = ss[s].worker, !.handler = "ended"]]
  /\ client' = [w \in Workers |-> IF client[w].phase \in {"up", "registered"}
                                   THEN [phase |-> "down", conn |-> NoSession]
                                   ELSE [client[w] EXCEPT !.conn = NoSession]]
  /\ poll' = [p \in Pollers |-> "try"]
  /\ exec' = [b \in Builds |-> IF exec[b].by \in Pollers THEN Nobody ELSE exec[b]]

-----------------------------------------------------------------------------
Loop(s) ==
  \/ Claim(s)
  \/ sendWorkItem(s)
  \/ FindNothing(s)
  \/ Wait(s)
  \/ WakeUp(s)
  \/ StopLoop(s)

PollLoop(p) == PollClaim(p) \/ PollNothing(p) \/ PollWait(p) \/ PollWakeUp(p)

Next ==
  \/ \E b \in Builds : \/ CreateJobBuild(b)
                         \/ FindForCancel(b)
                         \/ CancelJobBuild(b)
                         \/ trackJob(b)
                         \/ handleGRPCJob(b)
                         \/ pollForCancellation(b)
                         \/ EndPolledJob(b)
  \/ \E w \in Workers : \/ Register(w)
                          \/ ExpireRegistration(w)
                          \/ \E s \in Sessions : Execute(w, s)
                          \/ RefuseExecute(w)
                          \/ Break(w)
                          \/ StopGRPCLoop(w)
  \/ \E s \in Sessions : \/ EndExecute(s)
                           \/ Loop(s)
                           \/ Deliver(s)
                           \/ \E b \in Builds : handleJobResult(s, b)
  \/ \E p \in Pollers : PollLoop(p)
  \/ Drain
  \/ Exit
  \/ Crash
  \/ Restart

Spec == Init /\ [][Next]_vars

\* The loops and goroutines run, and connected messages arrive.  A job may run
\* forever, also one that is told to stop: its hooks have no time limit and its
\* command may leave a process behind that keeps the pipes open.  A worker need
\* not reconnect.
Fairness ==
  /\ \A s \in Sessions : /\ WF_vars(Loop(s))
                           /\ WF_vars(Deliver(s))
                           /\ WF_vars(EndExecute(s))
                           /\ \A b \in Builds : WF_vars(handleJobResult(s, b))
  /\ \A p \in Pollers : WF_vars(PollLoop(p))
  /\ \A b \in Builds : /\ WF_vars(trackJob(b))
                         /\ WF_vars(pollForCancellation(b))

FairSpec == Spec /\ Fairness

-----------------------------------------------------------------------------
(* Properties.                                                             *)

\* Every variable holds what the code can store in it.
TypeOK ==
  /\ work \in [Builds -> Statuses]
  /\ cancelling \in [Builds -> {"none", "pending", "started"}]
  /\ registered \subseteq Workers
  /\ streams \in [Workers -> Sessions \cup {NoSession}]
  /\ ss \in [Sessions -> Stream]
  /\ client \in [Workers -> [phase: {"down", "registered", "up", "draining", "stopped"},
                             conn: Sessions \cup {NoSession}]]
  /\ poll \in [Pollers -> Polls]
  /\ exec \in [Builds -> Exec]

\* The stream a worker is registered with is open: Register closes the Done
\* channel of what it replaces, and closing a channel twice would bring the
\* server down.
ClosedOnce == \A w \in Workers : streams[w] # NoSession => ~ss[streams[w]].done

\* What is on its way to a worker, or executed by it, holds a slot of the
\* stream it came by, and there are no more slots than MaxJobs: whatever
\* results, drops, drains and reconnections come in between, the server never
\* sends more on a stream than the worker asked for.
SlotsCover ==
  \A s \in {s \in Sessions : ss[s].handler = "live"} :
    /\ {b \in Builds : exec[b].by = s} \subseteq ss[s].running
    /\ \A i \in 1..Len(ss[s].send) :
         ss[s].send[i].type = "job" => ss[s].send[i].build \in ss[s].running
    /\ Cardinality(ss[s].running) <= MaxJobs

\* Somebody is there to take a pending build: a connected worker of the team
\* with a free slot or, when the team has none, a global one or an embedded
\* worker that executes nothing.
Available ==
  \/ \E s \in Sessions : /\ ss[s].handler = "live"
                         /\ ~ss[s].done
                         /\ HasCapacity(s)
                         /\ Own(s) \/ ~HasTeamWorkers
  \/ ~HasTeamWorkers /\ \E p \in Pollers : poll[p] # "exec"

\* A build does not stay pending while somebody could take it.  A loop that
\* has found nothing is not waiting yet, and misses the notification for a
\* build that is created then; the 30 seconds make up for it.
PendingIsTaken ==
  \A b \in Builds : []<>(work[b] # "pending" \/ ~Available)

Up(s) == ss[s].handler = "live" /\ ~ss[s].done /\ Link(s)

\* A slot of a connected stream that no job occupies is given back, or its job
\* starts: results and dropped jobs do not wear the worker's capacity down.
SlotReturns ==
  \A s \in Sessions, b \in Builds :
    b \in ss[s].running /\ exec[b].by # s ~> b \notin ss[s].running \/ exec[b].by = s \/ ~Up(s)

=============================================================================
