-------------------------- MODULE AsteriskChannel --------------------------
(***************************************************************************)
(* The Asterisk channel of a call, as this code uses it (channel.rs), and  *)
(* the thread that queues audio on it (queue_thread.rs).  Queueing any     *)
(* frame on a channel takes the channel's lock, which an Asterisk thread   *)
(* holds around each callback of the channel technology.  Asterisk itself  *)
(* is not part of the repository.                                          *)
(***************************************************************************)
EXTENDS Naturals

CONSTANT QueueBound  \* bound of the model on the queue thread's unbounded channel

ASSUME QueueAssumption == QueueBound \in Nat

VARIABLES lock,      \* an Asterisk thread in a callback holds the channel's lock
          answered,  \* AST_CONTROL_ANSWER frames have been queued on the channel
          hungUp,    \* a hangup has been queued on the channel
          heard,     \* audio frames have been queued on the channel
          queue      \* audio frames waiting in the queue thread's channel

channelVars == <<lock, answered, hungUp, heard, queue>>

ChannelInit == /\ lock = FALSE
               /\ answered = FALSE
               /\ hungUp = FALSE
               /\ heard = FALSE
               /\ queue = 0

\* QueueThread::request, of any thread.
QueueFrame == /\ queue < QueueBound
              /\ queue' = queue + 1
              /\ UNCHANGED <<lock, answered, hungUp, heard>>

\* The queue thread has the lock for as long as it takes to queue a frame.
WriteFrame == /\ queue > 0 /\ ~lock
              /\ queue' = queue - 1
              /\ heard' = TRUE
              /\ UNCHANGED <<lock, answered, hungUp>>

\* queue_control(AST_CONTROL_ANSWER) returns.
QueueAnswer == /\ ~lock
               /\ answered' = TRUE
               /\ UNCHANGED <<lock, hungUp, heard, queue>>

\* queue_hangup returns.
QueueHangup == /\ ~lock
               /\ hungUp' = TRUE
               /\ UNCHANGED <<lock, answered, heard, queue>>

\* An Asterisk thread takes or releases the lock.
SetLock(held) == /\ lock = ~held
                 /\ lock' = held
                 /\ UNCHANGED <<answered, hungUp, heard, queue>>

ChannelTypeOK == /\ <<lock, answered, hungUp, heard>> \in BOOLEAN \X BOOLEAN \X BOOLEAN \X BOOLEAN
                 /\ queue \in 0 .. QueueBound
=============================================================================
