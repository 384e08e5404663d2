-------------------------- MODULE ModuleLifecycle --------------------------
(***************************************************************************)
(* The module as Asterisk sees it (lib.rs): loading and unloading against  *)
(* the requests for channels and the calls that are under way.  It owns    *)
(* the references to channels (Ao2) and the requests that go to the        *)
(* Discord thread (DiscordThread, thread.rs) and to the call workers.      *)
(*                                                                         *)
(* A call is reduced to what the module has to do with: its worker exists, *)
(* serves callbacks, queues frames and may stop the Discord thread for a   *)
(* channel's lock.  DiscordCall has the rest.                              *)
(***************************************************************************)
EXTENDS Naturals, Sequences, FiniteSets

CONSTANTS Channels,    \* channels; one that was destroyed may come back as a new one
          Thread,      \* the Discord thread, as a receiver of requests
          NoChannel,
          FrameBound   \* bound on the queue of the queue thread

ASSUME LifecycleAssumption == /\ Thread \notin Channels
                              /\ NoChannel \notin Channels
                              /\ FrameBound \in Nat

VARIABLES refs, lock, rxOpen, rqueue, reply

\* The requests: PrepareCall and Stop to the thread, a callback's to its worker.
\* A callback has one at a time, whose kind (JoinChannel, WriteFrame, HangUp or
\* FixUp) is that of the callback.
Prepare(c) == <<"PrepareCall", c>>
Callback(c) == <<"CallRequest", c>>
Stop == <<"Stop", NoChannel>>
AllRequests == {Prepare(c) : c \in Channels} \cup {Callback(c) : c \in Channels} \cup {Stop}
ReceiverOf == [r \in AllRequests |-> IF r[1] = "CallRequest" THEN r[2] ELSE Thread]

INSTANCE AsteriskObject WITH Objects <- Channels, Free <- "free"
INSTANCE RequestChannel WITH Receivers <- Channels \cup {Thread},
                             Requests <- AllRequests, To <- ReceiverOf

VARIABLES mod,         \* what Asterisk is doing with the module
          logger,      \* log::set_logger has succeeded
          techCaps,    \* DISCORD_TECH.capabilities is set
          registered,  \* the channel technology is registered
          worker,      \* WORKER: "unset", "some" or "none"
          readers,     \* requesters that hold WORKER's read lock
          thread,      \* the Discord thread
          threadAt,    \* the channel whose lock it is stopped for, or NoChannel
          queueThread, \* QUEUE_THREAD is set
          frames,      \* channels of the frames handed to the queue thread
          chan,        \* chan[c]: what Asterisk does with the channel
          callback,    \* callback[c]: the callback that holds c's lock, or "none"
          task         \* task[c]: the call's worker

objectVars == <<refs, lock>>
requestVars == <<rxOpen, rqueue, reply>>
moduleVars == <<mod, logger, techCaps, registered, worker>>
threadVars == <<thread, threadAt>>
queueVars == <<queueThread, frames>>
callVars == <<chan, callback, task>>
vars == <<objectVars, requestVars, moduleVars, readers, threadVars, queueVars, callVars>>

Init == /\ ObjectInit /\ RequestInit
        /\ mod = "out"
        /\ logger = FALSE /\ techCaps = FALSE /\ registered = FALSE
        /\ worker = "unset"
        /\ readers = {}
        /\ thread = "off" /\ threadAt = NoChannel
        /\ queueThread = FALSE /\ frames = <<>>
        /\ chan = [c \in Channels |-> "none"]
        /\ callback = [c \in Channels |-> "none"]
        /\ task = [c \in Channels |-> "none"]

-----------------------------------------------------------------------------
(***************************************************************************)
(* load_module.  With a logger that was set before, it declines and        *)
(* changes nothing.                                                        *)
(***************************************************************************)

\* Capabilities, configuration or token are missing; the capabilities may be
\* in DISCORD_TECH by then, where they stay.
LoadDeclines == /\ mod = "out" /\ ~logger
                /\ logger' = TRUE
                /\ techCaps' \in BOOLEAN
                /\ UNCHANGED <<objectVars, requestVars, mod, registered, worker, readers,
                               threadVars, queueVars, callVars>>

\* DiscordThread::start: the thread runs and has taken the Setup request.
LoadStarts == /\ mod = "out" /\ ~logger
              /\ mod' = "starting"
              /\ logger' = TRUE /\ techCaps' = TRUE
              /\ thread' = "starting"
              /\ OpenChannel(Thread)
              /\ UNCHANGED <<objectVars, reply, registered, worker, readers, threadAt,
                             queueVars, callVars>>

\* Discord::start succeeds, and load_module with it.  With a WORKER that is set the
\* new DiscordThread would be dropped, which stops and joins the thread: Phases in
\* ModuleLifecycleProofs shows that this is never so.
SetupDone == /\ mod = "starting"
             /\ IF worker = "unset"
                THEN thread' = "running" /\ worker' = "some" /\ UNCHANGED requestVars
                ELSE thread' = "off" /\ CloseChannels({Thread}, <<>>) /\ UNCHANGED worker
             /\ registered' = TRUE
             /\ mod' = "running"
             /\ UNCHANGED <<objectVars, logger, techCaps, readers, threadAt, queueVars, callVars>>

\* Discord::start fails: the receiver and the thread end, and the
\* DiscordThread is dropped, whose Stop fails.
SetupFails == /\ mod = "starting"
              /\ thread' = "off"
              /\ CloseChannels({Thread}, <<>>)
              /\ mod' = "out"
              /\ UNCHANGED <<objectVars, logger, techCaps, registered, worker, readers,
                             threadAt, queueVars, callVars>>

-----------------------------------------------------------------------------
(***************************************************************************)
(* unload_module.                                                          *)
(***************************************************************************)

UnloadStarts == /\ mod = "running"
                /\ mod' = "locking"
                /\ UNCHANGED <<objectVars, requestVars, logger, techCaps, registered, worker,
                               readers, threadVars, queueVars, callVars>>

\* If unloading did not wait for the requesters in with_worker.
BugUnloadIgnoresReaders ==
    /\ mod = "locking"
    /\ mod' = "stopping"
    /\ worker' = IF worker = "some" THEN "none" ELSE worker
    /\ Send(Stop)
    /\ UNCHANGED <<objectVars, logger, techCaps, registered, readers, threadVars, queueVars,
                   callVars>>

\* If drop joined the thread without stopping it.
BugDropJoinsOnly == /\ mod = "locking" /\ readers = {}
                    /\ mod' = "stopping"
                    /\ worker' = "none"
                    /\ UNCHANGED <<objectVars, requestVars, logger, techCaps, registered, readers,
                                   threadVars, queueVars, callVars>>

\* The write lock is got and WORKER's thread is dropped: it sends Stop and
\* waits, with the write lock held.
UnloadLocks == /\ mod = "locking" /\ readers = {}
               /\ mod' = "stopping"
               /\ worker' = "none"
               /\ Send(Stop)
               /\ UNCHANGED <<objectVars, logger, techCaps, registered, readers, threadVars,
                              queueVars, callVars>>

\* Stop is answered, the thread joined and the write lock released.
UnloadJoins == /\ mod = "stopping" /\ thread = "off"
               /\ TakeReply(Stop)
               /\ mod' = "unlocked"
               /\ UNCHANGED <<objectVars, logger, techCaps, registered, worker, readers,
                              threadVars, queueVars, callVars>>

\* The rest: there is no second thread to take from WORKER.
UnloadDone == /\ mod = "unlocked"
              /\ registered' = FALSE
              /\ techCaps' = FALSE
              /\ mod' = "out"
              /\ UNCHANGED <<objectVars, requestVars, logger, worker, readers, threadVars,
                             queueVars, callVars>>

\* The library is unmapped and mapped again: its statics start anew.  The queue
\* thread, which never ends, keeps it mapped.
Remap == /\ mod = "out" /\ logger
         /\ ~queueThread /\ \A c \in Channels : chan[c] = "none"
         /\ logger' = FALSE /\ techCaps' = FALSE
         /\ worker' = "unset"
         /\ UNCHANGED <<objectVars, requestVars, mod, registered, readers, threadVars,
                        queueVars, callVars>>

-----------------------------------------------------------------------------
(***************************************************************************)
(* requester.                                                              *)
(***************************************************************************)

\* Asterisk has looked up the technology, and calls requester: the channel is
\* allocated, and locked.
RequesterCalled(c) == /\ registered
                      /\ chan[c] = "none" /\ refs[c] = 0
                      /\ chan' = [chan EXCEPT ![c] = "requested"]
                      /\ NewLocked(c, "requester")
                      /\ UNCHANGED <<requestVars, moduleVars, readers, threadVars, queueVars,
                                     callback, task>>

\* with_worker gets WORKER's read lock: Rust's RwLock lets no new reader pass a
\* writer that waits.
CanRead == mod \notin {"locking", "stopping"}

\* If requester dropped its reference twice, as by a missing into_raw.
BugDropsTwice(c) == /\ chan' = [chan EXCEPT ![c] = "none"]
                    /\ Unlock(c)
                    /\ refs' = [refs EXCEPT ![c] = @ - 2]

\* requester returns null: its lock and its reference are dropped.
RequesterGivesUp(c) == /\ chan' = [chan EXCEPT ![c] = "none"]
                       /\ Unlock(c)
                       /\ Release({c})

\* with_worker finds no worker.
NoWorker(c) == /\ chan[c] = "requested" /\ CanRead
               /\ worker # "some"
               /\ RequesterGivesUp(c)
               /\ UNCHANGED <<requestVars, moduleVars, readers, threadVars, queueVars,
                              callback, task>>

\* with_worker finds the worker, and keeps the read lock while it uses it.
FindWorker(c) == /\ chan[c] = "requested" /\ CanRead
                 /\ worker = "some"
                 /\ chan' = [chan EXCEPT ![c] = "reading"]
                 /\ readers' = readers \cup {c}
                 /\ UNCHANGED <<objectVars, requestVars, moduleVars, threadVars, queueVars,
                                callback, task>>

\* prepare_call sends its request, with a reference of its own.
PrepareCall(c) == /\ chan[c] = "reading"
                  /\ chan' = [chan EXCEPT ![c] = "asking"]
                  /\ Clone({c})
                  /\ Send(Prepare(c))
                  /\ UNCHANGED <<lock, moduleVars, readers, threadVars, queueVars, callback,
                                 task>>

\* prepare_call returns.  The channel, unlocked, goes to Asterisk with its
\* reference, or is dropped.
RequesterReturns(c) == /\ chan[c] = "asking"
                       /\ TakeReply(Prepare(c))
                       /\ readers' = readers \ {c}
                       /\ \/ /\ task[c] # "none"
                             /\ chan' = [chan EXCEPT ![c] = "up"]
                             /\ Unlock(c)
                             /\ UNCHANGED refs
                          \/ /\ task[c] = "none"
                             /\ RequesterGivesUp(c)
                       /\ UNCHANGED <<moduleVars, threadVars, queueVars, callback, task>>

-----------------------------------------------------------------------------
(***************************************************************************)
(* DiscordThreadWorker::run.                                               *)
(***************************************************************************)

\* The thread is in no call of its own into Asterisk.
Polling == thread = "running" /\ threadAt = NoChannel

\* It awaits the registry for a PrepareCall.
Preparing == \E c \in Channels : reply[Prepare(c)] = "taken"

\* A PrepareCall is taken, and the registry asked.
TakePrepare(c) == /\ Polling /\ ~Preparing
                  /\ Take(Prepare(c))
                  /\ UNCHANGED <<objectVars, moduleVars, readers, threadVars, queueVars,
                                 callVars>>

\* The server is taken, or there is no encoder: the request's reference is dropped.
PrepareRefused(c) == /\ Polling
                     /\ Respond(Prepare(c))
                     /\ Release({c})
                     /\ UNCHANGED <<lock, rxOpen, rqueue, moduleVars, readers, threadVars,
                                    queueVars, callVars>>

\* The request's reference goes to a CallWorker, which is spawned; the first
\* one starts the queue thread.
PrepareGranted(c) == /\ Polling
                     /\ Respond(Prepare(c))
                     /\ OpenChannel(c)
                     /\ task' = [task EXCEPT ![c] = "prepared"]
                     /\ queueThread' = TRUE
                     /\ UNCHANGED <<objectVars, moduleVars, readers, threadVars, frames, chan,
                                    callback>>

Tasks == {c \in Channels : task[c] # "none"}

\* A FixUp under way, which has a reference to the channel.
FixUpPending(c) == callback[c] = "fixup" /\ Pending(Callback(c))

\* If the runtime were left without dropping its tasks.
BugTasksSurvive == /\ Polling /\ ~Preparing
                   /\ rqueue[Thread] # <<>> /\ Head(rqueue[Thread]) = Stop
                   /\ CloseChannels({Thread}, Stop)
                   /\ thread' = "off"
                   /\ UNCHANGED <<objectVars, moduleVars, readers, threadAt, queueVars, callVars>>

\* Stop is answered and the loop left: the runtime is dropped with every task,
\* and with the requests they have not answered.
ThreadStops == /\ Polling /\ ~Preparing
               /\ rqueue[Thread] # <<>> /\ Head(rqueue[Thread]) = Stop
               /\ CloseChannels({Thread} \cup Tasks, Stop)
               /\ refs' = [c \in Channels |-> CASE c \notin Tasks -> refs[c]
                                                [] c \in Tasks /\ ~FixUpPending(c) -> refs[c] - 1
                                                [] c \in Tasks /\ FixUpPending(c) -> refs[c] - 2]
               /\ task' = [c \in Channels |-> "none"]
               /\ thread' = "off"
               /\ UNCHANGED <<lock, moduleVars, readers, threadAt, queueVars, chan, callback>>

-----------------------------------------------------------------------------
(***************************************************************************)
(* A call's callbacks and its worker.                                      *)
(***************************************************************************)

\* call, write or hangup is called with the lock held and sends its request.
CallbackStarts(c, cb) == /\ chan[c] = "up"
                         /\ Lock(c, "callback")
                         /\ callback' = [callback EXCEPT ![c] = cb]
                         /\ Send(Callback(c))
                         /\ UNCHANGED <<refs, moduleVars, readers, threadVars, queueVars, chan,
                                        task>>

\* fixup is called when the call moves to another channel, and passes that on to
\* the worker.  The model goes on with the channel that has the call and so has
\* one for both; a request that fails at once drops its reference.
FixupStarts(c) == /\ chan[c] = "up"
                  /\ Lock(c, "callback")
                  /\ callback' = [callback EXCEPT ![c] = "fixup"]
                  /\ Send(Callback(c))
                  /\ IF c \in rxOpen THEN Clone({c}) ELSE UNCHANGED refs
                  /\ UNCHANGED <<moduleVars, readers, threadVars, queueVars, chan, task>>

\* The callback has its response or error.  After hangup, whatever it returns,
\* Asterisk drops its reference.  fixup has dropped the CallHandle, and the
\* channel is followed no further: any callback would use what was freed.
CallbackReturns(c) == /\ TakeReply(Callback(c))
                      /\ Unlock(c)
                      /\ callback' = [callback EXCEPT ![c] = "none"]
                      /\ \/ /\ callback[c] = "hangup"
                            /\ chan' = [chan EXCEPT ![c] = "none"]
                            /\ Release({c})
                         \/ /\ callback[c] = "fixup"
                            /\ chan' = [chan EXCEPT ![c] = "fixedUp"]
                            /\ UNCHANGED refs
                         \/ /\ callback[c] \in {"call", "write"}
                            /\ UNCHANGED <<refs, chan>>
                      /\ UNCHANGED <<moduleVars, readers, threadVars, queueVars, task>>

\* The worker is in its select!.
Selecting(c) == Polling /\ task[c] # "none" /\ reply[Callback(c)] # "taken"

TakeRequest(c) == /\ Selecting(c) /\ callback[c] # "fixup"
                  /\ Take(Callback(c))
                  /\ UNCHANGED <<objectVars, moduleVars, readers, threadVars, queueVars,
                                 callVars>>

\* The worker takes a FixUp and the reference in it for its own, which is
\* dropped.  The sender of the response is dropped, too.
TakeFixUp(c) == /\ Selecting(c) /\ callback[c] = "fixup"
                /\ TakeUnanswered(Callback(c))
                /\ Release({c})
                /\ UNCHANGED <<lock, moduleVars, readers, threadVars, queueVars, callVars>>

\* A call, which starts the voice task, or a write is answered.
AnswerRequest(c) == /\ Polling
                    /\ callback[c] \in {"call", "write"}
                    /\ Respond(Callback(c))
                    /\ task' = [task EXCEPT ![c] = IF callback[c] = "call" THEN "started" ELSE @]
                    /\ UNCHANGED <<objectVars, rxOpen, rqueue, moduleVars, readers, threadVars,
                                   queueVars, chan, callback>>

\* run returns, and the worker is dropped.
WorkerEnds(c, answered) == /\ CloseChannels({c}, answered)
                           /\ task' = [task EXCEPT ![c] = "none"]
                           /\ Release({c})

\* If the worker went on after the hangup.
BugWorkerStays(c) == /\ Polling
                     /\ callback[c] = "hangup"
                     /\ Respond(Callback(c))
                     /\ UNCHANGED <<objectVars, rxOpen, rqueue, moduleVars, readers, threadVars,
                                    queueVars, callVars>>

\* A hangup is answered, and the worker ends.
AnswerHangup(c) == /\ Polling
                   /\ callback[c] = "hangup" /\ reply[Callback(c)] = "taken"
                   /\ WorkerEnds(c, Callback(c))
                   /\ UNCHANGED <<lock, moduleVars, readers, threadVars, queueVars, chan,
                                  callback>>

\* Without the CallHandle there are no more requests, and run returns.
NoMoreRequests(c) == /\ Selecting(c)
                     /\ chan[c] = "fixedUp" /\ rqueue[c] = <<>>
                     /\ WorkerEnds(c, <<>>)
                     /\ UNCHANGED <<lock, moduleVars, readers, threadVars, queueVars, chan,
                                    callback>>

\* A mixed frame goes to the queue thread with a reference.
QueueFrame(c) == /\ Selecting(c) /\ task[c] = "started"
                 /\ Len(frames) < FrameBound
                 /\ frames' = Append(frames, c)
                 /\ Clone({c})
                 /\ UNCHANGED <<lock, requestVars, moduleVars, readers, threadVars, queueThread,
                                callVars>>

\* queue_control or queue_hangup: the whole thread stops for the lock.
WantsLock(c) == /\ Selecting(c) /\ task[c] = "started"
                /\ threadAt' = c
                /\ UNCHANGED <<objectVars, requestVars, moduleVars, readers, thread, queueVars,
                               callVars>>

\* queue_control has got it, and returned to the loop.
QueuesControl(c) == /\ threadAt = c /\ lock[c] = "free"
                    /\ threadAt' = NoChannel
                    /\ UNCHANGED <<objectVars, requestVars, moduleVars, readers, thread,
                                   queueVars, callVars>>

\* queue_hangup has got it, and run returns.
QueuesHangup(c) == /\ threadAt = c /\ lock[c] = "free"
                   /\ threadAt' = NoChannel
                   /\ WorkerEnds(c, <<>>)
                   /\ UNCHANGED <<lock, moduleVars, readers, thread, queueVars, chan, callback>>

\* If the queue thread forgot the reference of the request.
BugFrameLeaks == /\ frames # <<>> /\ lock[Head(frames)] = "free"
                 /\ frames' = Tail(frames)
                 /\ UNCHANGED <<objectVars, requestVars, moduleVars, readers, threadVars,
                                queueThread, callVars>>

\* The queue thread writes its oldest frame, whose channel's lock it needs for
\* that, and drops the reference.
WriteFrame == /\ frames # <<>> /\ lock[Head(frames)] = "free"
              /\ frames' = Tail(frames)
              /\ Release({Head(frames)})
              /\ UNCHANGED <<lock, requestVars, moduleVars, readers, threadVars, queueThread,
                             callVars>>

-----------------------------------------------------------------------------
LoadStep == LoadDeclines \/ LoadStarts \/ SetupDone \/ SetupFails
UnloadStep == UnloadStarts \/ UnloadLocks \/ UnloadJoins \/ UnloadDone
GetsLock(c) == QueuesControl(c) \/ QueuesHangup(c)

Next == \/ LoadStep \/ UnloadStep \/ Remap
        \/ ThreadStops \/ WriteFrame
        \/ \E c \in Channels :
             \/ RequesterCalled(c) \/ NoWorker(c) \/ FindWorker(c)
             \/ PrepareCall(c) \/ RequesterReturns(c)
             \/ TakePrepare(c) \/ PrepareRefused(c) \/ PrepareGranted(c)
             \/ \E cb \in {"call", "write", "hangup"} : CallbackStarts(c, cb)
             \/ FixupStarts(c) \/ CallbackReturns(c)
             \/ TakeRequest(c) \/ AnswerRequest(c) \/ AnswerHangup(c)
             \/ TakeFixUp(c) \/ NoMoreRequests(c)
             \/ QueueFrame(c) \/ WantsLock(c) \/ GetsLock(c)

Spec == Init /\ [][Next]_vars

\* Threads that can go on do; a lock that is released again and again is got;
\* the runtime polls the main loop again and again.  What the registry and a
\* worker await may never come.
Fairness == /\ WF_vars(UnloadLocks \/ UnloadJoins \/ UnloadDone)
            /\ SF_vars(ThreadStops)
            /\ SF_vars(WriteFrame)
            /\ \A c \in Channels : /\ SF_vars(NoWorker(c) \/ FindWorker(c))
                                   /\ WF_vars(PrepareCall(c) \/ RequesterReturns(c))
                                   /\ SF_vars(TakePrepare(c))
                                   /\ WF_vars(CallbackReturns(c))
                                   /\ SF_vars(GetsLock(c))

FairSpec == Spec /\ Fairness
-----------------------------------------------------------------------------
(***************************************************************************)
(* Properties.                                                             *)
(***************************************************************************)

\* The variables have their types.
TypeOK == /\ ObjectTypeOK({"requester", "callback"}) /\ RequestTypeOK
          /\ mod \in {"out", "starting", "running", "locking", "stopping", "unlocked"}
          /\ logger \in BOOLEAN /\ techCaps \in BOOLEAN /\ registered \in BOOLEAN
          /\ worker \in {"unset", "some", "none"}
          /\ readers \subseteq Channels
          /\ thread \in {"off", "starting", "running"}
          /\ threadAt \in Channels \cup {NoChannel}
          /\ queueThread \in BOOLEAN
          /\ frames \in Seq(Channels) /\ Len(frames) <= FrameBound
          /\ chan \in [Channels -> {"none", "requested", "reading", "asking", "up", "fixedUp"}]
          /\ callback \in [Channels -> {"none", "call", "write", "hangup", "fixup"}]
          /\ task \in [Channels -> {"none", "prepared", "started"}]

\* A channel has as many references as owners (requester or Asterisk, a request
\* for it, its worker, frames to be written) and is locked only as long as a
\* thread is in requester or in one of its callbacks: nothing is leaked or
\* dropped twice, whichever thread is the last, however the call or the module
\* ends.
OwnersMatch ==
    \A c \in Channels :
        /\ refs[c] = Cardinality({i \in DOMAIN frames : frames[i] = c})
                     + Cardinality({o \in {"asterisk", "request", "fixup", "worker"} :
                                      \/ o = "asterisk" /\ chan[c] # "none"
                                      \/ o = "request" /\ Pending(Prepare(c))
                                      \/ o = "fixup" /\ FixUpPending(c)
                                      \/ o = "worker" /\ task[c] # "none"})
        /\ lock[c] # "free" <=> \/ chan[c] \in {"requested", "reading", "asking"}
                               \/ callback[c] # "none"

\* While the module is loaded there is a thread to serve it, however often it was
\* loaded before (set_logger declines before WORKER.set could fail); once it is
\* unloaded or declined nothing of it runs but the queue thread.
ServedWhileLoaded ==
    /\ mod = "running" => worker = "some" /\ thread = "running" /\ registered
    /\ mod = "out" => /\ worker # "some" /\ thread = "off" /\ ~registered
                      /\ rxOpen = {} /\ Tasks = {}

\* Unloading never takes the thread away from a requester that found it: the
\* write lock waits for it, so PrepareCall is always answered.
NoRequesterDropped == \A c \in Channels : reply[Prepare(c)] # "failed"

\* What the caller of r knows of its call; FixUp is a notice.
FixUps == {Callback(c) : c \in {d \in Channels : callback[d] = "fixup"}}
Outcome(r) == CASE reply[r] = "none" -> "idle"
                [] Pending(r) /\ r \notin FixUps -> "pending"
                [] Pending(r) /\ r \in FixUps -> "notified"
                [] OTHER -> reply[r]

\* The requests, to the thread and to the workers, are remote calls: all but
\* FixUp, which no worker answers, fail only for want of a server, and none stays
\* pending when its server is dropped.
Call == INSTANCE RemoteCall WITH
          Servers <- Channels \cup {Thread}, Callers <- AllRequests, To <- ReceiverOf,
          up <- rxOpen,
          outcome <- [r \in AllRequests |-> Outcome(r)]
RequestsAreCalls == Call!Spec

\* The thread waits for a lock whose holder waits for the thread (DiscordCall
\* shows how).
LockCycle == threadAt # NoChannel /\ lock[threadAt] = "callback"
             /\ ~Returned(Callback(threadAt))

\* Unloading ends, unless the registry never answers a PrepareCall, which the
\* write lock then waits for, or the thread is in a lock cycle.
UnloadReturns == \/ mod = "locking" ~> mod = "out"
                 \/ <>[](Preparing \/ LockCycle)

\* A channel that Asterisk is done with is destroyed, unless the queue thread is
\* stuck with another call's frame, whose callback does not return.
ChannelsAreFreed == \/ \A c \in Channels : chan[c] = "none" ~> refs[c] = 0
                    \/ <>[](frames # <<>> /\ lock[Head(frames)] # "free")
=============================================================================
