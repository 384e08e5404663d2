----------------------------- MODULE CallWorker -----------------------------
(***************************************************************************)
(* CallWorker (call.rs): the task that serves the requests of one Asterisk *)
(* channel, owns its voice task, and mixes what the voice task receives.   *)
(*                                                                         *)
(* It is polled on the Discord worker thread like the voice task.  It      *)
(* queues audio through the queue thread but control frames itself, in     *)
(* queue_control and queue_hangup, where it stops the whole thread until   *)
(* it has the channel's lock ("answering", "hangingUp").                   *)
(*                                                                         *)
(* The mixer is reduced to whether it holds audio.                         *)
(***************************************************************************)
EXTENDS VoiceTask, AsteriskChannel

VARIABLES wpc,     \* where the worker is
          voice,   \* VoiceTaskState
          mixing,  \* the mixer has audio to fetch
          handle,  \* the CallHandle behind the channel's tech_pvt
          areq,    \* request of an Asterisk thread the worker has not taken, or "none"
          arep     \* response the Asterisk thread has not taken, or "none"

workerVars == <<wpc, voice, mixing>>
requestVars == <<areq, arep>>

Requests == {"JoinChannel", "WriteFrame", "HangUp", "FixUp"}

WorkerInit == /\ wpc = "select"
              /\ voice = "Prepare"
              /\ mixing = FALSE
              /\ handle = "owned"
              /\ areq = "none"
              /\ arep = "none"

\* The worker's next select! takes request r; it answers it with arep.
Takes(r) == /\ wpc = "select" /\ areq = r
            /\ areq' = "none"
            /\ UNCHANGED <<handle, channelVars>>

\* run returns: whatever the worker still owns is dropped.
WorkerEnds == /\ wpc' = "done"
              /\ mixing' = FALSE
DropVoice == \/ voice = "Prepare" /\ Abandon
             \/ voice = "Started" /\ DropHandle
             \/ voice \in {"ShutLocal", "ShutRemote"} /\ UNCHANGED vars

-----------------------------------------------------------------------------
(***************************************************************************)
(* handle_request.                                                         *)
(***************************************************************************)

\* JoinChannel: only a call that is not started yet starts its voice task.
HandleJoin == /\ Takes("JoinChannel")
              /\ \/ /\ voice = "Prepare"
                    /\ StartTask
                    /\ voice' = "Started"
                    /\ arep' = "ok"
                 \/ /\ voice # "Prepare"
                    /\ arep' = "err"
                    /\ UNCHANGED <<vars, voice>>
              /\ UNCHANGED <<wpc, mixing>>

\* WriteFrame: the frame is handed to the voice task, if there is one.
HandleWriteFrame == /\ Takes("WriteFrame")
                    /\ \/ /\ voice = "Started"
                          /\ SendRequest("Write")
                          /\ wpc' = "awaitWrite"
                          /\ UNCHANGED arep
                       \/ /\ voice # "Started"
                          /\ arep' = "err"
                          /\ UNCHANGED <<vars, wpc>>
                    /\ UNCHANGED <<voice, mixing>>

\* handle.write returns.
WriteReturns == /\ wpc = "awaitWrite" /\ TakeResponse
                /\ arep' = IF vrep = "ok" THEN "ok" ELSE "err"
                /\ wpc' = "select"
                /\ UNCHANGED <<voice, mixing, handle, areq, channelVars>>

\* If a hangup only dropped the handle of the voice task.
BugHangUpDrops == /\ Takes("HangUp")
                  /\ voice' = "ShutLocal"
                  /\ DropVoice
                  /\ WorkerEnds
                  /\ arep' = "ok"

\* HangUp: a voice task is told to close first; without one the worker ends.
HandleHangUp == /\ Takes("HangUp")
                /\ voice' = "ShutLocal"
                /\ \/ /\ voice = "Started"
                      /\ SendRequest("Close")
                      /\ wpc' = "awaitClose"
                      /\ UNCHANGED <<mixing, arep>>
                   \/ /\ voice # "Started"
                      /\ DropVoice
                      /\ WorkerEnds
                      /\ arep' = "ok"

\* leave_and_close has the response to Close, or knows that it was dropped.
CloseReturns == /\ wpc = "awaitClose" /\ TakeResponse
                /\ wpc' = "awaitTask"
                /\ UNCHANGED <<voice, mixing, handle, requestVars, channelVars>>

\* If leave_and_close did not await the runner's end.
BugTaskNotAwaited == /\ wpc = "awaitTask"
                     /\ DropHandle
                     /\ arep' = "ok"
                     /\ WorkerEnds
                     /\ UNCHANGED <<voice, handle, areq, channelVars>>

\* leave_and_close has awaited the runner's end: the hangup is answered, and
\* the worker ends.
TaskReturns == /\ wpc = "awaitTask" /\ tpc = "done"
               /\ DropHandle
               /\ arep' = "ok"
               /\ WorkerEnds
               /\ UNCHANGED <<voice, handle, areq, channelVars>>

\* If the response to FixUp were kept, unsent.
BugFixUpKept == /\ Takes("FixUp")
                /\ UNCHANGED <<vars, workerVars, arep>>

\* FixUp: the new channel is stored, and the request dropped without response.
HandleFixUp == /\ Takes("FixUp")
               /\ arep' = "dropped"
               /\ UNCHANGED <<vars, workerVars>>

\* If the worker went on without its CallHandle.
BugGoneIgnored == /\ wpc = "select" /\ handle # "owned" /\ areq = "none"
                  /\ UNCHANGED <<vars, workerVars, handle, requestVars, channelVars>>

\* The CallHandle is gone: the worker ends as if it had been hung up.
HandleGone == /\ wpc = "select" /\ handle # "owned" /\ areq = "none"
              /\ DropVoice
              /\ WorkerEnds
              /\ UNCHANGED <<voice, handle, requestVars, channelVars>>

-----------------------------------------------------------------------------
(***************************************************************************)
(* handle_call_event and the mixer.                                        *)
(***************************************************************************)
Event(e) == wpc = "select" /\ voice = "Started" /\ events # <<>> /\ Head(events) = e

\* FullyConnected: the worker goes into queue_control.
HandleConnected == /\ Event("FullyConnected") /\ TakeEvent
                   /\ wpc' = "answering"
                   /\ UNCHANGED <<voice, mixing, handle, requestVars, channelVars>>

\* Packet: the mixer gets audio.  UserJoined and the like only change its mapping.
HandleMedia == /\ Event("Packet") \/ Event("Notice")
               /\ TakeEvent
               /\ mixing' = (mixing \/ Head(events) = "Packet")
               /\ UNCHANGED <<wpc, voice, handle, requestVars, channelVars>>

\* Closed: the handle is dropped with whatever else it would deliver.
HandleClosed == /\ Event("Closed") /\ DropHandle
                /\ voice' = "ShutRemote"
                /\ wpc' = "hangingUp"
                /\ UNCHANGED <<mixing, handle, requestVars, channelVars>>

\* If the end of the events went unnoticed, was taken for a local hangup, or was
\* taken to be there as soon as there are no events.
BugEndUnnoticed == /\ wpc = "select" /\ voice = "Started" /\ events = <<>> /\ tpc = "done"
                   /\ UNCHANGED <<vars, workerVars, handle, requestVars, channelVars>>
BugEndUnreported == /\ wpc = "select" /\ voice = "Started" /\ events = <<>> /\ tpc = "done"
                    /\ DropVoice
                    /\ WorkerEnds
                    /\ UNCHANGED <<voice, handle, requestVars, channelVars>>
BugEndTooEarly == /\ wpc = "select" /\ voice = "Started" /\ events = <<>>
                  /\ wpc' = "hangingUp"
                  /\ UNCHANGED <<vars, voice, mixing, handle, requestVars, channelVars>>

\* The voice task has returned and its events are drained.
EventsEnded == /\ wpc = "select" /\ voice = "Started"
               /\ events = <<>> /\ tpc = "done"
               /\ wpc' = "hangingUp"
               /\ UNCHANGED <<vars, voice, mixing, handle, requestVars, channelVars>>

\* MixedPacket: a mixed frame is handed to the queue thread.
HandleMixed == /\ wpc = "select" /\ mixing
               /\ QueueFrame
               /\ mixing' \in BOOLEAN
               /\ UNCHANGED <<vars, wpc, voice, handle, requestVars>>

-----------------------------------------------------------------------------
(***************************************************************************)
(* The Discord thread gets the channel's lock.                             *)
(***************************************************************************)

\* queue_control returns to the loop.
Answers == /\ wpc = "answering" /\ QueueAnswer
           /\ wpc' = "select"
           /\ UNCHANGED <<vars, voice, mixing, handle, requestVars>>

\* queue_hangup returns, and so does run.
HangsUp == /\ wpc = "hangingUp" /\ QueueHangup
           /\ DropVoice
           /\ WorkerEnds
           /\ UNCHANGED <<voice, handle, requestVars>>

WorkerStep == \/ HandleJoin \/ HandleWriteFrame \/ HandleHangUp \/ HandleFixUp \/ HandleGone
              \/ WriteReturns \/ CloseReturns \/ TaskReturns
              \/ HandleConnected \/ HandleMedia \/ HandleClosed \/ EventsEnded
              \/ HandleMixed

WorkerTypeOK ==
    /\ wpc \in {"select", "awaitWrite", "awaitClose", "awaitTask", "answering", "hangingUp", "done"}
    /\ voice \in {"Prepare", "Started", "ShutLocal", "ShutRemote"}
    /\ mixing \in BOOLEAN
    /\ handle \in {"owned", "released", "freed"}
    /\ areq \in Requests \cup {"none"}
    /\ arep \in {"none", "ok", "err", "dropped"}
=============================================================================
