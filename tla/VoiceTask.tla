----------------------------- MODULE VoiceTask -----------------------------
(***************************************************************************)
(* VoiceTaskRunner and VoiceTaskHandle (discord/voice_task.rs): the task   *)
(* that joins a voice channel, connects to the voice server Discord names, *)
(* and passes packets and notifications to the call.                       *)
(*                                                                         *)
(* Each branch of the runner's select! is an action, and stands for the    *)
(* branch and its whole handler up to the next await that can wait.  Three *)
(* awaits in handlers can: the UDP discovery ("connecting"), the bounded   *)
(* events channel to the call ("emit"), and the events channel again after *)
(* a failed join.  While the runner is in one of them it serves nothing.   *)
(*                                                                         *)
(* Write errors, decryption errors and unknown modes are choices of the    *)
(* environment; sequence numbers and payloads are left out.                *)
(***************************************************************************)
EXTENDS VoiceGateway

CONSTANTS EventCap,    \* capacity of the events channel to the call (32 in the code)
          GlobalCap,   \* capacity of the global events channel (32 in the code)
          GlobalKinds  \* the kinds of events of the bot's server that occur

GlobalEvents == {"joined",    \* VoiceStateUpdate of a user in a channel
                 "left",      \* VoiceStateUpdate of a user in no channel
                 "server",    \* VoiceServerUpdate with an endpoint
                 "noServer",  \* VoiceServerUpdate without an endpoint
                 "other"}     \* any other event

ASSUME TaskAssumption ==
    /\ EventCap \in Nat \ {0}
    /\ GlobalCap \in Nat \ {0}
    /\ GlobalKinds \subseteq GlobalEvents

VARIABLES tpc,      \* where the runner is
          tstate,   \* VoiceTaskState; "Session" is Connected with has_session
          info,     \* the fields of WaitForConnectInfo that are set, while it exists
          pending,  \* the event the runner is waiting to send in "emit"
          intent,   \* the voice state it last announced on the global gateway
          events,   \* events channel to the call
          vhandle,  \* the call holds the VoiceTaskHandle
          vreq,     \* request of the call the runner has not taken, or "none"
          vrep,     \* response the call has not taken, or "none"
          gevents   \* channel of global events of this server

runnerVars == <<tpc, tstate, info, pending, intent>>
handleVars == <<vhandle, vreq, vrep>>
taskVars == <<runnerVars, events, handleVars, gevents>>
vars == <<gatewayVars, taskVars>>

Fields == {"channel", "session", "endpoint", "token"}
VoiceEvents == {"Packet",         \* audio
                "Notice",         \* Speaking, UserJoined or UserLeft
                "FullyConnected",
                "Closed"}

\* Where the runner goes when the event it sends has found room.
NoEvent == [event |-> "none", next |-> "none"]

TaskInit == /\ tpc = "off"
            /\ tstate = "WaitingForEvents"
            /\ info = {}
            /\ pending = NoEvent
            /\ intent = "none"
            /\ events = <<>>
            /\ vhandle = FALSE
            /\ vreq = "none"
            /\ vrep = "none"
            /\ gevents = <<>>

Running == tpc \notin {"off", "done"}

-----------------------------------------------------------------------------
(***************************************************************************)
(* Sending on the events channel.                                          *)
(***************************************************************************)

\* self.events.send(e) at the end of a handler, after which the runner is at
\* next.  Without a receiver the error is ignored.
Emit(e, next) ==
    \/ /\ ~vhandle
       /\ tpc' = next
       /\ UNCHANGED <<events, pending>>
    \/ /\ vhandle /\ Len(events) < EventCap
       /\ events' = Append(events, e)
       /\ tpc' = next
       /\ pending' = NoEvent
    \/ /\ vhandle /\ Len(events) = EventCap
       /\ tpc' = "emit"
       /\ pending' = [event |-> e, next |-> next]
       /\ UNCHANGED events

\* The runner is dropped, with its receivers, sender and state.
RunnerEnds == /\ tpc' = "done"
              /\ gevents' = <<>>
              /\ tstate' = "WaitingForEvents"
              /\ info' = {}

-----------------------------------------------------------------------------
(***************************************************************************)
(* run, before and after its loop.                                         *)
(***************************************************************************)

\* register_join_intent succeeds.
JoinIntent == /\ tpc = "spawned"
              /\ intent' = "joined"
              /\ tpc' = "select"
              /\ UNCHANGED <<gatewayVars, tstate, info, pending, events, handleVars, gevents>>

\* It fails: the call is sent Closed, for which the channel always has room.
JoinIntentFails == /\ tpc = "spawned"
                   /\ events' = IF vhandle THEN Append(events, "Closed") ELSE events
                   /\ RunnerEnds
                   /\ UNCHANGED <<gatewayVars, pending, intent, handleVars>>

\* The send the runner waits in completes.
EmitResumes == /\ tpc = "emit"
               /\ ~vhandle \/ Len(events) < EventCap
               /\ events' = IF vhandle THEN Append(events, pending.event) ELSE events
               /\ tpc' = pending.next
               /\ pending' = NoEvent
               /\ UNCHANGED <<gatewayVars, tstate, info, intent, handleVars, gevents>>

\* If close only told Discord that the bot leaves after it had connected.
BugLeavesIfConnected == /\ tpc = "closing"
                        /\ DropGateway("Close")
                        /\ intent' = IF gwOwned THEN "left" ELSE intent
                        /\ RunnerEnds
                        /\ UNCHANGED <<socketVars, peerVars, pending, events, handleVars>>

\* close: the socket is told to close, Discord that the bot leaves, and the
\* runner returns.  A leave that cannot be sent counts as announced: without a
\* session on the global gateway the bot has no voice state to give back.
CloseRunner == /\ tpc = "closing"
               /\ DropGateway("Close")
               /\ intent' = "left"
               /\ RunnerEnds
               /\ UNCHANGED <<socketVars, peerVars, pending, events, handleVars>>

-----------------------------------------------------------------------------
(***************************************************************************)
(* The branches of wait_for_event and their handlers.                      *)
(***************************************************************************)
CanWrite == tstate = "Session"

\* If requests to write were left in the channel until there is a session.
BugWritesWait == /\ tpc = "select" /\ vreq = "Write"
                 /\ CanWrite
                 /\ vrep' \in {"ok", "err"}
                 /\ vreq' = "none"
                 /\ UNCHANGED <<gatewayVars, runnerVars, events, vhandle, gevents>>

\* IncomingRequest with Write: an error before the session, and possibly after.
HandleWrite == /\ tpc = "select" /\ vreq = "Write"
               /\ vrep' \in IF CanWrite THEN {"ok", "err"} ELSE {"err"}
               /\ vreq' = "none"
               /\ UNCHANGED <<gatewayVars, runnerVars, events, vhandle, gevents>>

\* IncomingRequest with Close.
HandleClose == /\ tpc = "select" /\ vreq = "Close"
               /\ vrep' = "ok"
               /\ vreq' = "none"
               /\ tpc' = "closing"
               /\ UNCHANGED <<gatewayVars, tstate, info, pending, intent, events, vhandle, gevents>>

\* The VoiceTaskHandle was dropped.
RequestsClosed == /\ tpc = "select" /\ ~vhandle /\ vreq = "none"
                  /\ tpc' = "closing"
                  /\ UNCHANGED <<gatewayVars, tstate, info, pending, intent, events, handleVars, gevents>>

\* WaitForConnectInfo::apply: the fields set after event e.  The update of any
\* user counts, and one of a user who left takes the channel back.
Applied(e) ==
    CASE e = "joined"   -> info \cup {"session", "channel"}
      [] e = "left"     -> (info \cup {"session"}) \ {"channel"}
      [] e = "server"   -> info \cup {"token", "endpoint"}
      [] e = "noServer" -> (info \cup {"token"}) \ {"endpoint"}
      [] OTHER          -> info

\* GlobalEvent: while waiting for the voice server, it may be the last piece.  That
\* recv() returns None, for which the runner would end, needs a dispatcher that
\* dropped the sender of a channel that is open: RoutedWhileOpen of ServerRegistry.
HandleGlobal ==
    /\ tpc = "select" /\ gevents # <<>>
    /\ gevents' = Tail(gevents)
    /\ IF tstate # "WaitingForEvents"
       THEN UNCHANGED <<tstate, info, sock, gwOwned, gwCmds>>
       ELSE IF Applied(Head(gevents)) = Fields
            THEN StartGateway /\ tstate' = "WaitingForReady" /\ info' = {}
            ELSE info' = Applied(Head(gevents)) /\ UNCHANGED <<tstate, sock, gwOwned, gwCmds>>
    /\ UNCHANGED <<gwOut, heartbeat, gwEvents, peerVars, tpc, pending, intent, events, handleVars>>

\* next_event on Hello: the socket is told its heartbeat interval.
HandleHello == /\ tpc = "select" /\ TakeGateway("Hello")
               /\ Command("SetHeartbeat")
               /\ tpc' = IF CanCommand THEN "select" ELSE "closing"
               /\ UNCHANGED <<socketVars, gwOwned, peerVars, tstate, info, pending, intent,
                              events, handleVars, gevents>>

\* Ready: the runner turns to UDP discovery, or knows none of the modes.
HandleReady == /\ tpc = "select" /\ TakeGateway("Ready")
               /\ tpc' \in IF tstate = "WaitingForReady" THEN {"connecting", "closing"} ELSE {tpc}
               /\ UNCHANGED <<socketVars, gwCmds, gwOwned, peerVars, tstate, info, pending, intent,
                              events, handleVars, gevents>>

\* If the listen packet were sent ahead of the protocol selection.
BugListensFirst == /\ tpc = "connecting"
                   /\ gwCmds' = IF CanCommand THEN gwCmds \o <<"Listen", "Select">> ELSE gwCmds
                   /\ tstate' = "Connected"
                   /\ tpc' = "select"
                   /\ UNCHANGED <<socketVars, gwEvents, gwOwned, peerVars, info, pending, intent,
                                  events, handleVars, gevents>>

\* VoiceDataChannel::connect succeeds: the protocol is selected.
Discovered == /\ tpc = "connecting"
              /\ Command("Select")
              /\ tstate' = "Connected"
              /\ tpc' = "select"
              /\ UNCHANGED <<socketVars, gwEvents, gwOwned, peerVars, info, pending, intent,
                             events, handleVars, gevents>>

\* It fails: an illegal answer, or a socket error.  A lost answer is neither.
DiscoveryFails == /\ tpc = "connecting"
                  /\ tpc' = "closing"
                  /\ UNCHANGED <<gatewayVars, tstate, info, pending, intent,
                                 events, handleVars, gevents>>

\* If every SessionDescription were answered with a listen packet, or the test of
\* has_session were inverted.
BugListensAgain == TRUE
BugListensLate == tstate = "Session"

\* !has_session: this is the first SessionDescription of the connection.
NeedsListen == tstate = "Connected"

\* SessionDescription: the key is set, the first one asks for audio with the
\* listen packet, and every one reports FullyConnected.
HandleSession ==
    /\ tpc = "select" /\ TakeGateway("Session")
    /\ IF tstate \notin {"Connected", "Session"}
       THEN UNCHANGED <<gwCmds, tpc, tstate, pending, events>>
       ELSE \/ \* an unknown mode, or the listen packet cannot be sent
               /\ tpc' = "closing"
               /\ UNCHANGED <<gwCmds, tstate, pending, events>>
            \/ /\ NeedsListen => CanCommand
               /\ IF NeedsListen THEN Command("Listen") ELSE UNCHANGED gwCmds
               /\ tstate' = "Session"
               /\ Emit("FullyConnected", "select")
    /\ UNCHANGED <<socketVars, gwOwned, peerVars, info, intent, handleVars, gevents>>

\* Speaking, ClientConnect, ClientDisconnect: the call is notified; the bot's
\* own disconnect also ends the loop.
HandleNotice(m) ==
    /\ m \in {"Notice", "SelfLeft"}
    /\ tpc = "select" /\ TakeGateway(m)
    /\ Emit("Notice", IF m = "SelfLeft" THEN "closing" ELSE "select")
    /\ UNCHANGED <<socketVars, gwCmds, gwOwned, peerVars, tstate, info, intent, handleVars, gevents>>

\* An event nobody is told about.
HandleAck == /\ tpc = "select" /\ TakeGateway("Ack")
             /\ UNCHANGED <<socketVars, gwCmds, gwOwned, peerVars, taskVars>>

\* The voice server closed the connection, sent an unexpected event, or the
\* socket task has returned.
HandleGatewayEnd ==
    /\ tpc = "select"
    /\ \/ TakeGateway("Closed") \/ TakeGateway("Unexpected")
       \/ GatewayGone /\ UNCHANGED gwEvents
    /\ tpc' = "closing"
    /\ UNCHANGED <<socketVars, gwCmds, gwOwned, peerVars, tstate, info, pending, intent,
                   events, handleVars, gevents>>

\* If packets were taken before the key is set, or without a permit.
BugReceivesEarly == tstate \in {"Connected", "Session"}
BugNoPermit == /\ tpc = "select"
               /\ tstate = "Session"
               /\ vhandle
               /\ events' = Append(events, "Packet")
               /\ UNCHANGED <<gatewayVars, runnerVars, handleVars, gevents>>

\* VoicePacket: only received once there is room for it in the events channel.
\* Packets before the key is set, or that do not decrypt, are logged.
CanReceive == tstate = "Session"
HandlePacket == /\ tpc = "select"
                /\ CanReceive
                /\ vhandle /\ Len(events) < EventCap
                /\ events' = Append(events, "Packet")
                /\ UNCHANGED <<gatewayVars, runnerVars, handleVars, gevents>>

RunnerStep ==
    \/ JoinIntent \/ JoinIntentFails \/ EmitResumes \/ CloseRunner
    \/ HandleWrite \/ HandleClose \/ RequestsClosed
    \/ HandleGlobal
    \/ HandleHello \/ HandleReady \/ HandleSession
    \/ HandleNotice("Notice") \/ HandleNotice("SelfLeft")
    \/ HandleAck \/ HandleGatewayEnd
    \/ HandlePacket
    \/ Discovered \/ DiscoveryFails

-----------------------------------------------------------------------------
(***************************************************************************)
(* VoiceTaskHandle, as the call uses it, and the global gateway.           *)
(***************************************************************************)

\* start_task.
StartTask == /\ tpc = "off"
             /\ tpc' = "spawned"
             /\ vhandle' = TRUE
             /\ UNCHANGED <<gatewayVars, tstate, info, pending, intent, events, vreq, vrep, gevents>>

\* The call ends before it was placed: the receiver of global events it would
\* have handed to the task is dropped.
Abandon == /\ tpc = "off"
           /\ RunnerEnds
           /\ UNCHANGED <<gatewayVars, pending, intent, events, handleVars>>

\* write and leave_and_close: a request, unless the previous one is unanswered.
SendRequest(r) == /\ vhandle /\ vreq = "none" /\ vrep = "none"
                  /\ vreq' = r
                  /\ UNCHANGED <<gatewayVars, runnerVars, events, vhandle, vrep, gevents>>

\* The response arrives; a request the runner's end has dropped is an error.
Answered == vrep # "none" \/ (vreq # "none" /\ tpc = "done")
TakeResponse == /\ Answered
                /\ vreq' = "none"
                /\ vrep' = "none"
                /\ UNCHANGED <<gatewayVars, runnerVars, events, vhandle, gevents>>

TakeEvent == /\ events # <<>>
             /\ events' = Tail(events)
             /\ UNCHANGED <<gatewayVars, runnerVars, handleVars, gevents>>

\* The handle is dropped, and with it the receiver of the events.
DropHandle == /\ vhandle /\ vreq = "none" /\ vrep = "none"
              /\ vhandle' = FALSE
              /\ events' = <<>>
              /\ UNCHANGED <<gatewayVars, runnerVars, vreq, vrep, gevents>>

HandleStep == \/ StartTask \/ Abandon \/ TakeEvent \/ TakeResponse \/ DropHandle
              \/ \E r \in {"Write", "Close"} : SendRequest(r)

\* The dispatcher puts an event of the server into the channel.  That it does
\* so as long as the channel is open is RoutedWhileOpen of ServerRegistry.
GlobalArrives(e) == /\ tpc # "done"
                    /\ Len(gevents) < GlobalCap
                    /\ gevents' = Append(gevents, e)
                    /\ UNCHANGED <<gatewayVars, runnerVars, events, handleVars>>

Init == GatewayInit /\ TaskInit

Next == \/ SocketStep /\ UNCHANGED taskVars
        \/ RunnerStep
        \/ HandleStep
        \/ \E e \in GlobalKinds : GlobalArrives(e)

Spec == Init /\ [][Next]_vars

\* tokio polls a task that was woken, and select! polls its branches in random
\* order, so a branch that is ready again and again is taken.  Nothing makes
\* the network answer, and no property here needs the socket task to go on.
RequestBranch == HandleWrite \/ HandleClose \/ RequestsClosed
GatewayBranch == \/ HandleHello \/ HandleReady \/ HandleSession
                 \/ HandleNotice("Notice") \/ HandleNotice("SelfLeft")
                 \/ HandleAck \/ HandleGatewayEnd
TaskFairness == /\ WF_vars(JoinIntent \/ JoinIntentFails)
                /\ WF_vars(EmitResumes)
                /\ WF_vars(CloseRunner)
                /\ SF_vars(RequestBranch)
                /\ SF_vars(GatewayBranch)

FairSpec == Spec /\ TaskFairness

-----------------------------------------------------------------------------
(***************************************************************************)
(* Properties.                                                             *)
(***************************************************************************)
Elements(seq) == {seq[i] : i \in 1 .. Len(seq)}
Waiting == {"connecting", "emit"}

\* The variables have their types, and no bounded channel exceeds its capacity.
TypeOK == /\ GatewayTypeOK
          /\ tpc \in {"off", "spawned", "select", "emit", "connecting", "closing", "done"}
          /\ tstate \in {"WaitingForEvents", "WaitingForReady", "Connected", "Session"}
          /\ info \subseteq Fields
          /\ pending \in [event : VoiceEvents \cup {"none"}, next : {"select", "closing", "none"}]
          /\ intent \in {"none", "joined", "left"}
          /\ events \in Seq(VoiceEvents) /\ Len(events) <= EventCap
          /\ vhandle \in BOOLEAN
          /\ vreq \in {"none", "Write", "Close"}
          /\ vrep \in {"none", "ok", "err"}
          /\ gevents \in Seq(GlobalEvents) /\ Len(gevents) <= GlobalCap

\* However the runner ends, it has taken back the join it announced (close).
LeaveFollowsJoin == tpc = "done" => intent # "joined"

\* The runner never waits to send a command, with the socket task perhaps
\* waiting to send it an event: the commands channel has room for every command.
CommandsNeverBlock == Len(gwCmds) <= GwCmdCap

\* When the call learns that it is fully connected, the voice server has seen
\* the listen packet, or will before anything else, or is gone (the comment in
\* the SessionDescription handler: no audio arrives without it).
FullyConnectedMeansListening ==
    "FullyConnected" \in Elements(events) \cup {pending.event}
       => listening \/ "Listen" \in Elements(gwCmds) \/ sock = "ended" \/ ~gwOwned

\* The voice server is identified to before the protocol is selected, and
\* selected before the listen packet: the commands of a call stay in order.
CommandsInOrder ==
    [][/\ listening' /\ ~listening => peer \in {"selected", "session"}
       /\ peer' = "selected" /\ peer # "selected" => peer = "ready"]_vars

\* Every request of the call is answered, or dropped by a runner that ended,
\* unless the runner waits forever: for a lost answer to its UDP discovery, or
\* for room in the events channel.
RequestsServed == \/ vreq # "none" ~> (vreq = "none" \/ tpc = "done")
                  \/ <>[](tpc \in Waiting)

\* When the socket task has returned, for whatever reason and perhaps before the
\* web socket ever opened, the runner learns it from the events channel, leaves the
\* voice channel and ends (next_event fails once the channel is closed and
\* drained), unless it waits forever as above.
SocketEndNoticed == \/ sock = "ended" ~> tpc = "done"
                    \/ <>[](tpc \in Waiting)
=============================================================================
