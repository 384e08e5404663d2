---------------------------- MODULE DiscordCall ----------------------------
(***************************************************************************)
(* A whole call: the Asterisk threads in the callbacks of the channel      *)
(* technology (channel_tech.rs, CallHandle in call.rs), the Discord worker *)
(* thread with the call's worker, voice task and socket task, and the      *)
(* queue thread.  It starts with the channel as requester returns it:      *)
(* ServerRegistry models how it got there.                                 *)
(*                                                                         *)
(* Each callback runs with the channel's lock held and blocks its thread   *)
(* on a request to the call worker.  Each is one action that takes the     *)
(* lock and sends the request, and one that takes the response and lets go *)
(* of the lock; everything else may happen in between.                     *)
(***************************************************************************)
EXTENDS CallWorker

VARIABLE callback  \* the callback an Asterisk thread is in, or "none"

callVars == <<channelVars, workerVars, handle, requestVars, callback>>
allVars == <<vars, callVars>>

CallInit == Init /\ ChannelInit /\ WorkerInit /\ callback = "none"

-----------------------------------------------------------------------------
(***************************************************************************)
(* The channel technology's callbacks.  A callback on a freed CallHandle   *)
(* is undefined behaviour: the model does not follow a channel there.      *)
(***************************************************************************)

\* request_blocking: the request is sent, or dropped by a worker that ended.
Enter(r) == /\ handle = "owned" /\ callback = "none"
            /\ SetLock(TRUE)
            /\ callback' = r
            /\ areq' = IF wpc = "done" THEN "none" ELSE r
            /\ UNCHANGED <<vars, workerVars, handle, arep>>

\* The response is there, or will never be.
Responded == arep # "none" \/ wpc = "done"

Return(r) == /\ callback = r /\ Responded
             /\ SetLock(FALSE)
             /\ callback' = "none"
             /\ areq' = "none"
             /\ arep' = "none"
             /\ UNCHANGED <<vars, workerVars>>

\* call and write give the result back.
ReturnCall == Return("JoinChannel") /\ UNCHANGED handle
ReturnWrite == Return("WriteFrame") /\ UNCHANGED handle

\* hangup frees the CallHandle and clears tech_pvt.
ReturnHangup == Return("HangUp") /\ handle' = "released"

\* fixup frees the CallHandle too, and leaves tech_pvt as it is.
ReturnFixup == Return("FixUp") /\ handle' = "freed"

AsteriskStep == \/ \E r \in Requests : Enter(r)
                \/ ReturnCall \/ ReturnWrite \/ ReturnHangup \/ ReturnFixup

QueueThreadStep == WriteFrame /\ UNCHANGED <<vars, workerVars, handle, requestVars, callback>>

-----------------------------------------------------------------------------
\* Nothing else runs on the Discord thread while it is blocked on the lock.
DiscordFree == wpc \notin {"answering", "hangingUp"}

CallNext ==
    \/ /\ DiscordFree
       /\ \/ SocketStep /\ UNCHANGED <<taskVars, callVars>>
          \/ RunnerStep /\ UNCHANGED callVars
          \/ (\E e \in GlobalKinds : GlobalArrives(e)) /\ UNCHANGED callVars
          \/ WorkerStep /\ UNCHANGED callback
    \/ (Answers \/ HangsUp) /\ UNCHANGED callback
    \/ AsteriskStep
    \/ QueueThreadStep

CallSpec == CallInit /\ [][CallNext]_allVars

\* A task of the Discord thread that can go on is polled; a branch of a select!
\* that is ready again and again is taken, since select! polls in random order;
\* a thread waiting for a lock that is released again and again gets it; and a
\* callback whose response is there returns.  Steps that never compete with one
\* another share a condition.  Nothing is assumed of the network, of Asterisk's
\* next callback, or of the branches no property below depends on.
OnDiscord(A) == DiscordFree /\ A /\ UNCHANGED callVars
Worker(A) == DiscordFree /\ A /\ UNCHANGED callback
CallFairness ==
    /\ SF_allVars(OnDiscord(JoinIntent \/ JoinIntentFails \/ EmitResumes \/ CloseRunner))
    /\ SF_allVars(OnDiscord(RequestBranch))
    /\ SF_allVars(OnDiscord(/\ SockSends \/ SockSetsHeartbeat \/ SockCloses \/ SockForwards
                            /\ UNCHANGED taskVars))
    /\ SF_allVars(Worker(\/ HandleJoin \/ HandleWriteFrame \/ HandleHangUp \/ HandleFixUp
                         \/ HandleGone \/ WriteReturns \/ CloseReturns \/ TaskReturns))
    /\ SF_allVars(\/ Worker(HandleConnected \/ HandleMedia \/ HandleClosed \/ EventsEnded)
                  \/ (Answers \/ HangsUp) /\ UNCHANGED callback)
    /\ WF_allVars(ReturnCall \/ ReturnWrite \/ ReturnHangup \/ ReturnFixup)

FairCallSpec == CallSpec /\ CallFairness

-----------------------------------------------------------------------------
(***************************************************************************)
(* Safety.                                                                 *)
(***************************************************************************)

\* The variables have their types.
CallTypeOK == /\ TypeOK /\ ChannelTypeOK /\ WorkerTypeOK
              /\ callback \in Requests \cup {"none"}

\* hangup returns only after the bot has left the voice channel and nothing
\* will make it join again (leave_and_close awaits the runner).
HangupMeansLeft == handle = "released" => tpc = "done" /\ intent # "joined"

\* Audio is mixed, queued and written only for a channel that was answered,
\* although answer and audio take different threads to the channel.
AudioOnlyAfterAnswer == mixing \/ queue > 0 \/ heard => answered

\* A call that ends for any other reason than its hangup tells Asterisk so: no
\* channel is left behind that nobody serves (run, after its loop).
RemoteEndQueuesHangup ==
    wpc = "done" /\ handle = "owned" /\ callback # "HangUp" => hungUp

\* A voice task outlives its worker only to leave: when the worker has ended,
\* the task has too, or has lost its handle and with it every reason to wait.
NoTaskWithoutWorker == wpc = "done" /\ tpc # "done" => ~vhandle /\ handle = "freed"

\* The call keeps its promise to Asterisk and Discord.
CP == INSTANCE CallPromise WITH
        seat <- intent, audio <- heard, over <- hungUp,
        released <- (handle = "released")
KeepsPromise == CP!Spec

-----------------------------------------------------------------------------
(***************************************************************************)
(* Waiting.                                                                *)
(***************************************************************************)

\* The Discord thread waits for a lock whose holder waits for the Discord thread.
LockCycle == ~DiscordFree /\ lock /\ ~Responded

\* The worker waits for an answer of a runner that waits for it to take events.
Backpressure == wpc \in {"awaitWrite", "awaitClose"} /\ tpc = "emit"

\* The runner awaits the answer to its UDP discovery, which may be lost.
Discovering == tpc = "connecting"

\* Every callback returns, unless the call runs into one of three waits that
\* nothing ends (request_blocking has no timeout).
CallbackReturns == \/ callback # "none" ~> callback = "none"
                   \/ <>[](LockCycle \/ Backpressure \/ Discovering)

\* Once the channel's handle is gone, by hangup or fixup, the worker, the voice
\* task and its socket all end, unless UDP discovery was lost.
ReleasedCallEnds ==
    \/ handle # "owned" ~> (wpc = "done" /\ tpc = "done" /\ sock # "open")
    \/ <>[]Discovering

\* A voice task that ended on its own (Discord closed the connection, removed
\* the bot, or refused it) is reported to Asterisk, unless it hangs up first or
\* the report runs into a callback's lock.
EndIsReported == \/ tpc = "done" ~> (hungUp \/ handle # "owned")
                 \/ <>[]LockCycle

\* queue_thread.rs: "This means that the Discord thread is never waiting for a
\* Asterisk lock" that is held for a request to it.
NoLockCycle == ~LockCycle

\* channel_tech.rs: fixup needs to "drop references to the old channel in our
\* CallHandle structure", so the channel keeps a CallHandle.
FixupKeepsHandle == handle # "freed"
=============================================================================
