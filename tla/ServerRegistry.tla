--------------------------- MODULE ServerRegistry ---------------------------
(***************************************************************************)
(* The Discord worker thread as seen by many calls: the map from servers   *)
(* to event channels (discord/mod.rs), the task dispatching events of the  *)
(* global gateway into it, and the main loop preparing calls (thread.rs).  *)
(*                                                                         *)
(* Every call is one Asterisk channel.  The main loop registers the sender *)
(* of a fresh channel in the map; the receiver travels with the call: into *)
(* its CallWorker, from there into its voice task, and is dropped with     *)
(* either.  The tasks share one thread, so code without an await is one    *)
(* step; the map's async mutex is only kept across an await by the         *)
(* dispatcher, which sends into a bounded channel while it holds it.       *)
(*                                                                         *)
(* The voice task is cut down to its use of the map and of Discord's voice *)
(* state; VoiceTask has the rest of it.                                    *)
(***************************************************************************)
EXTENDS Naturals

CONSTANTS Servers,   \* the Discord servers (guilds) whose events are dispatched
          Calls,     \* the Asterisk channels asking for a call
          NoCall,    \* not a call
          ServerOf,  \* ServerOf[c]: the server in the address of call c
          EventCap   \* capacity of a call's event channel (32 in the code)

ASSUME RegistryAssumption ==
    /\ NoCall \notin Calls
    /\ ServerOf \in [Calls -> Servers]
    /\ EventCap \in Nat \ {0}

VARIABLES running,   \* the worker thread has not been told to stop
          channels,  \* channels[s]: the call whose sender is in the map's entry for s
          rx,        \* rx[c]: who holds the receiving end of call c's channel
          queued,    \* queued[c]: events in call c's channel
          answer,    \* answer[c]: the main loop's response to c's PrepareCall
          sending,   \* the call the dispatcher is blocked on with the mutex held
          voiceState \* voiceState[s]: the call that last told Discord to join s

vars == <<running, channels, rx, queued, answer, sending, voiceState>>

Holders == {"none",       \* no channel has been created for the call
            "worker",     \* CallWorker, in VoiceTaskState::Prepare
            "spawned",    \* a voice task that has not run yet
            "task",       \* a voice task that polls it
            "stalled",    \* a voice task that awaits something else in a handler
            "closed"}     \* nobody, it was dropped

\* The receiver of call c is alive: Sender::is_closed is false.
Open(c) == rx[c] \notin {"none", "closed"}

\* The server has an entry in the map whose receiver is alive.
Listening(s) == channels[s] # NoCall /\ Open(channels[s])

\* Dropping the receiver throws away what is queued in the channel.
Close(c) == /\ rx' = [rx EXCEPT ![c] = "closed"]
            /\ queued' = [queued EXCEPT ![c] = 0]

Init == /\ running = TRUE
        /\ channels = [s \in Servers |-> NoCall]
        /\ rx = [c \in Calls |-> "none"]
        /\ queued = [c \in Calls |-> 0]
        /\ answer = [c \in Calls |-> "none"]
        /\ sending = NoCall
        /\ voiceState = [s \in Servers |-> NoCall]

-----------------------------------------------------------------------------
(***************************************************************************)
(* The main loop.  The order of its queue is left out: no property depends *)
(* on which of several waiting requests is served first.                   *)
(***************************************************************************)

\* An Asterisk thread in requester blocks on PrepareCall.
Request(c) == /\ running
              /\ answer[c] = "none"
              /\ answer' = [answer EXCEPT ![c] = "pending"]
              /\ UNCHANGED <<running, channels, rx, queued, sending, voiceState>>

\* If exclusive_server_events replaced any entry, or none.
BugNeverTaken(c) == FALSE
BugTakenByEntry(c) == channels[ServerOf[c]] # NoCall

\* The condition under which exclusive_server_events returns None.
Taken(c) == Listening(ServerOf[c])

\* The dispatcher is not in the middle of sending an event.
DispatcherIdle == sending = NoCall

\* If the dispatcher released the map before it sends.
BugMutexReleased == TRUE

\* exclusive_server_events gets the mutex.
MutexFree == DispatcherIdle

\* exclusive_server_events returns None: AlreadyInChannelOnServer.
PrepareRefused(c) ==
    /\ running /\ answer[c] = "pending" /\ MutexFree
    /\ Taken(c)
    /\ answer' = [answer EXCEPT ![c] = "refused"]
    /\ UNCHANGED <<running, channels, rx, queued, sending, voiceState>>

\* A fresh channel is registered, replacing a closed one, and the call's
\* worker is spawned with its receiver.
PrepareGranted(c) ==
    /\ running /\ answer[c] = "pending" /\ MutexFree
    /\ ~Taken(c)
    /\ channels' = [channels EXCEPT ![ServerOf[c]] = c]
    /\ rx' = [rx EXCEPT ![c] = "worker"]
    /\ answer' = [answer EXCEPT ![c] = "granted"]
    /\ UNCHANGED <<running, queued, sending, voiceState>>

\* CallWorker::new fails to create its encoder: the receiver is dropped, but
\* the entry stays in the map.
PrepareFailed(c) ==
    /\ running /\ answer[c] = "pending" /\ MutexFree
    /\ ~Taken(c)
    /\ channels' = [channels EXCEPT ![ServerOf[c]] = c]
    /\ Close(c)
    /\ answer' = [answer EXCEPT ![c] = "failed"]
    /\ UNCHANGED <<running, sending, voiceState>>

\* Unloading the module: WORKER's write lock has waited for the requesters in
\* prepare_call, the main loop returns, and dropping the runtime drops every
\* task where it stands: no task tells Discord that the bot leaves.
Stop == /\ running
        /\ \A c \in Calls : answer[c] # "pending"
        /\ running' = FALSE
        /\ channels' = [s \in Servers |-> NoCall]
        /\ rx' = [c \in Calls |-> IF rx[c] = "none" THEN "none" ELSE "closed"]
        /\ queued' = [c \in Calls |-> 0]
        /\ sending' = NoCall
        /\ UNCHANGED <<answer, voiceState>>

-----------------------------------------------------------------------------
(***************************************************************************)
(* The dispatcher.                                                         *)
(***************************************************************************)

\* If an event channel took one event more than it holds.
BugDispatchUnbounded(s) ==
    /\ running /\ DispatcherIdle
    /\ Listening(s)
    /\ queued[channels[s]] <= EventCap
    /\ queued' = [queued EXCEPT ![channels[s]] = @ + 1]
    /\ UNCHANGED <<running, channels, rx, answer, sending, voiceState>>

\* An event on a server whose channel has room.
DispatchQueued(s) ==
    /\ running /\ DispatcherIdle
    /\ Listening(s)
    /\ queued[channels[s]] < EventCap
    /\ queued' = [queued EXCEPT ![channels[s]] = @ + 1]
    /\ UNCHANGED <<running, channels, rx, answer, sending, voiceState>>

\* An event on a server whose channel is full: the dispatcher waits, with the
\* mutex held, and with it the events of every other server.
DispatchBlocks(s) ==
    /\ running /\ DispatcherIdle
    /\ Listening(s)
    /\ queued[channels[s]] = EventCap
    /\ sending' = channels[s]
    /\ UNCHANGED <<running, channels, rx, queued, answer, voiceState>>

\* An event on a server whose channel is closed: the entry is removed.
DispatchRemoves(s) ==
    /\ running /\ DispatcherIdle
    /\ channels[s] # NoCall /\ ~Open(channels[s])
    /\ channels' = [channels EXCEPT ![s] = NoCall]
    /\ UNCHANGED <<running, rx, queued, answer, sending, voiceState>>

\* The blocked dispatcher gets room for its event.
SendResumes == /\ sending # NoCall
               /\ Open(sending)
               /\ queued[sending] < EventCap
               /\ queued' = [queued EXCEPT ![sending] = @ + 1]
               /\ sending' = NoCall
               /\ UNCHANGED <<running, channels, rx, answer, voiceState>>

\* If the dispatcher kept the mutex after a failed send.
BugMutexLeaked == /\ sending # NoCall
                  /\ ~Open(sending)
                  /\ channels' = [channels EXCEPT ![ServerOf[sending]] = NoCall]
                  /\ UNCHANGED <<running, rx, queued, answer, sending, voiceState>>

\* The blocked dispatcher finds the receiver dropped: it removes the entry of
\* the server it looked up before it waited.
SendFails == /\ sending # NoCall
             /\ ~Open(sending)
             /\ channels' = [channels EXCEPT ![ServerOf[sending]] = NoCall]
             /\ sending' = NoCall
             /\ UNCHANGED <<running, rx, queued, answer, voiceState>>

-----------------------------------------------------------------------------
(***************************************************************************)
(* A call's worker and voice task, as far as they touch the state above.   *)
(***************************************************************************)

\* JoinChannel: the receiver moves into a freshly spawned voice task.
StartTask(c) == /\ rx[c] = "worker"
                /\ rx' = [rx EXCEPT ![c] = "spawned"]
                /\ UNCHANGED <<running, channels, queued, answer, sending, voiceState>>

\* The call is hung up before it was placed: the worker ends.
DropPrepared(c) == /\ rx[c] = "worker"
                   /\ Close(c)
                   /\ UNCHANGED <<running, channels, answer, sending, voiceState>>

\* The voice task's first poll: register_join_intent.
Join(c) == /\ rx[c] = "spawned"
           /\ rx' = [rx EXCEPT ![c] = "task"]
           /\ voiceState' = [voiceState EXCEPT ![ServerOf[c]] = c]
           /\ UNCHANGED <<running, channels, queued, answer, sending>>

\* register_join_intent fails: the task returns without leaving.
JoinFails(c) == /\ rx[c] = "spawned"
                /\ Close(c)
                /\ UNCHANGED <<running, channels, answer, sending, voiceState>>

\* The voice task receives an event of its server.
Take(c) == /\ rx[c] = "task"
           /\ queued[c] > 0
           /\ queued' = [queued EXCEPT ![c] = @ - 1]
           /\ UNCHANGED <<running, channels, rx, answer, sending, voiceState>>

\* A handler of the voice task awaits something else than the map's events: the
\* answer to its UDP discovery, or room in its channel to the CallWorker.
Stall(c) == /\ rx[c] = "task"
            /\ rx' = [rx EXCEPT ![c] = "stalled"]
            /\ UNCHANGED <<running, channels, queued, answer, sending, voiceState>>

\* What it awaits arrives; there is no timeout.
Resume(c) == /\ rx[c] = "stalled"
             /\ rx' = [rx EXCEPT ![c] = "task"]
             /\ UNCHANGED <<running, channels, queued, answer, sending, voiceState>>

\* If the voice task ended without register_leave_intent.
BugLeavesSilently(c) == /\ rx[c] \in {"task", "stalled"}
                        /\ Close(c)
                        /\ UNCHANGED <<running, channels, answer, sending, voiceState>>

\* The voice task ends: register_leave_intent, and the runner is dropped with
\* its receiver in the same poll.
Leave(c) == /\ rx[c] \in {"task", "stalled"}
            /\ Close(c)
            /\ voiceState' = [voiceState EXCEPT ![ServerOf[c]] = NoCall]
            /\ UNCHANGED <<running, channels, answer, sending>>

-----------------------------------------------------------------------------
Prepare(c) == PrepareRefused(c) \/ PrepareGranted(c) \/ PrepareFailed(c)
Dispatch(s) == DispatchQueued(s) \/ DispatchBlocks(s) \/ DispatchRemoves(s)
Place(c) == StartTask(c) \/ DropPrepared(c)
TaskStep(c) == Join(c) \/ JoinFails(c) \/ Take(c) \/ Stall(c) \/ Resume(c) \/ Leave(c)

Next == \/ \E c \in Calls : Request(c) \/ Prepare(c) \/ Place(c) \/ TaskStep(c)
        \/ \E s \in Servers : Dispatch(s)
        \/ SendResumes \/ SendFails
        \/ Stop

\* The runtime polls a task that was woken; the main loop's queue is FIFO, so
\* each request's turn comes.  Nothing is assumed of Asterisk, which may leave a
\* call it requested for ever, or of what a stalled voice task awaits.
Fairness == /\ \A c \in Calls : /\ SF_vars(Prepare(c))
                                /\ WF_vars(Join(c) \/ JoinFails(c))
                                /\ SF_vars(Take(c))
            /\ WF_vars(SendResumes \/ SendFails)

Spec == Init /\ [][Next]_vars
FairSpec == Spec /\ Fairness
-----------------------------------------------------------------------------
(***************************************************************************)
(* Properties.                                                             *)
(***************************************************************************)

\* The variables have their types, and a map entry is a call on that server.
TypeOK == /\ running \in BOOLEAN
          /\ channels \in [Servers -> Calls \cup {NoCall}]
          /\ rx \in [Calls -> Holders]
          /\ queued \in [Calls -> 0 .. EventCap]
          /\ answer \in [Calls -> {"none", "pending", "granted", "refused", "failed"}]
          /\ sending \in Calls \cup {NoCall}
          /\ voiceState \in [Servers -> Calls \cup {NoCall}]
          /\ \A s \in Servers : channels[s] # NoCall => ServerOf[channels[s]] = s

\* Two calls never listen on one server, whatever order tear-downs, removals
\* by the dispatcher and new calls come in (exclusive_server_events).
OneCallPerServer ==
    \A c, d \in Calls : Open(c) /\ Open(d) /\ ServerOf[c] = ServerOf[d] => c = d

\* A call that still listens is the one the map routes events to: removing the
\* entry of an ended call never unroutes its successor (handle_event).
RoutedWhileOpen == \A c \in Calls : Open(c) => channels[ServerOf[c]] = c

\* While the thread runs, the bot is in a server's voice channel only for a
\* call that still listens there (register_leave_intent before the drop).
JoinedWhileOpen == running => \A s \in Servers :
    voiceState[s] # NoCall => /\ ServerOf[voiceState[s]] = s
                              /\ rx[voiceState[s]] \in {"task", "stalled"}

\* Nobody but the call itself changes the voice state it announced: a leave of
\* an old call never kicks out its successor, a join never steals the seat.
OnlyOwnLeave ==
    [][\A s \in Servers : voiceState[s] # NoCall /\ voiceState'[s] # voiceState[s]
          => Open(voiceState[s]) /\ rx'[voiceState[s]] = "closed"]_vars

\* The dispatcher waits, with the mutex, for room in the channel of a call whose
\* receiver nobody polls: its voice task stalls in a handler, or the call was
\* prepared and never placed, and its slots filled up.
DispatcherStuck == sending # NoCall /\ rx[sending] \in {"worker", "stalled"}

\* requester does not wait forever for the main loop, unless the dispatcher is
\* stuck for good with the mutex that exclusive_server_events needs: a receiver
\* that is polled again, placed or dropped lets every waiting requester go on.
PrepareAnswered == \/ \A c \in Calls : answer[c] = "pending" ~> answer[c] # "pending"
                   \/ <>[]DispatcherStuck

\* The registry gives each server to one call at a time and refuses a call
\* only while another one really listens.
ES == INSTANCE ExclusiveServer WITH
        owner <- [s \in Servers |-> IF Listening(s) THEN channels[s] ELSE NoCall],
        answer <- [c \in Calls |-> IF answer[c] = "pending" THEN "none" ELSE answer[c]]
Exclusive == ES!Spec
=============================================================================
