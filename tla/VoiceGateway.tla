---------------------------- MODULE VoiceGateway ----------------------------
(***************************************************************************)
(* GatewayConnection (discord/voice_gateway.rs): a task that owns the web  *)
(* socket to a Discord voice server, connected to the voice task by two    *)
(* bounded channels, and the voice server at the other end of the socket.  *)
(*                                                                         *)
(* The voice task's side of the channels is in VoiceTask, which extends    *)
(* this module.  The voice server is not part of the repository: it is     *)
(* what the code expects of it, a server that greets once, accepts one     *)
(* identification and one protocol, and may hang up at any time.           *)
(***************************************************************************)
EXTENDS Naturals, Sequences

CONSTANTS GwEventCap,  \* capacity of the channel to the voice task (8 in the code)
          GwCmdCap,    \* capacity of the channel to the socket (8 in the code)
          Chatter      \* the unsolicited kinds of messages the server sends

ChatterKinds == {"Notice",     \* another user speaks, connects or disconnects
                 "SelfLeft",   \* ClientDisconnect for the bot's own user
                 "Ack",        \* HeartbeatAck, or Speaking without a user
                 "Unexpected"} \* any other event

ASSUME GatewayAssumption ==
    /\ GwEventCap \in Nat \ {0}
    /\ GwCmdCap \in Nat /\ GwCmdCap >= 3
    /\ Chatter \subseteq ChatterKinds

VARIABLES sock,      \* the socket task
          gwEvents,  \* events channel, from the socket to the voice task
          gwOut,     \* event the socket task is waiting to put there, or "none"
          gwCmds,    \* commands channel, from the voice task to the socket
          gwOwned,   \* the voice task holds the GatewayConnection
          heartbeat, \* the heartbeat timer runs at the server's interval
          peer,      \* how far the voice server is in its protocol
          greeted,   \* the voice server has sent its Hello
          listening  \* the voice server has seen the empty listen packet

socketVars == <<sock, gwOut, heartbeat>>
peerVars == <<peer, greeted, listening>>
gatewayVars == <<socketVars, gwEvents, gwCmds, gwOwned, peerVars>>

Commands == {"Identify", "SetHeartbeat", "Select", "Listen", "Close"}
Messages == {"Hello", "Ready", "Session", "Closed"} \cup ChatterKinds

GatewayInit == /\ sock = "off"
               /\ gwEvents = <<>>
               /\ gwOut = "none"
               /\ gwCmds = <<>>
               /\ gwOwned = FALSE
               /\ heartbeat = FALSE
               /\ peer = "silent"
               /\ greeted = FALSE
               /\ listening = FALSE

-----------------------------------------------------------------------------
(***************************************************************************)
(* The socket task.  It handles one branch of its select! at a time; while *)
(* it waits for room in the events channel it handles none.                *)
(***************************************************************************)
Selecting == sock = "open" /\ gwOut = "none"

\* The task returns: its connection and its ends of both channels are gone.
SockEnds == /\ sock' = "ended"
            /\ gwOut' = "none"
            /\ gwCmds' = <<>>
            /\ heartbeat' = FALSE
            /\ peer' = "silent" /\ greeted' = FALSE /\ listening' = FALSE

\* connect_async: the web socket opens, or the task fails.
SockConnect == /\ sock = "connecting"
               /\ \/ /\ sock' = "open"
                     /\ UNCHANGED <<gwOut, gwCmds, heartbeat, peerVars>>
                  \/ SockEnds
               /\ UNCHANGED <<gwEvents, gwOwned>>

\* What the voice server makes of a command that reaches it.
PeerReceives(c) == /\ peer' = CASE c = "Identify" -> "identified"
                                [] c = "Select"   -> "selected"
                                [] OTHER          -> peer
                   /\ listening' = (listening \/ c = "Listen")
                   /\ UNCHANGED greeted

\* A command to send: it is sent, or sending fails and the task ends.
SockSends == /\ Selecting /\ gwCmds # <<>>
             /\ Head(gwCmds) \in {"Identify", "Select", "Listen"}
             /\ \/ /\ PeerReceives(Head(gwCmds))
                   /\ gwCmds' = Tail(gwCmds)
                   /\ UNCHANGED socketVars
                \/ SockEnds
             /\ UNCHANGED <<gwEvents, gwOwned>>

\* SetHeartbeatInterval: the timer is armed.
SockSetsHeartbeat == /\ Selecting /\ gwCmds # <<>>
                     /\ Head(gwCmds) = "SetHeartbeat"
                     /\ heartbeat' = TRUE
                     /\ gwCmds' = Tail(gwCmds)
                     /\ UNCHANGED <<sock, gwOut, gwEvents, gwOwned, peerVars>>

\* Close, or the commands channel is closed and drained: the task returns.
SockCloses == /\ Selecting
              /\ \/ gwCmds # <<>> /\ Head(gwCmds) = "Close"
                 \/ gwCmds = <<>> /\ ~gwOwned
              /\ SockEnds
              /\ UNCHANGED <<gwEvents, gwOwned>>

\* The server may send m next.
PeerMaySend(m) ==
    \/ m = "Hello" /\ ~greeted
    \/ m = "Ready" /\ peer = "identified"
    \/ m = "Session" /\ peer \in {"selected", "session"}
    \/ m \in Chatter /\ peer \in {"ready", "selected", "session"}
    \/ m = "Closed"

PeerSends(m) == /\ peer' = CASE m = "Ready"   -> "ready"
                             [] m = "Session" -> "session"
                             [] OTHER         -> peer
                /\ greeted' = (greeted \/ m = "Hello")
                /\ UNCHANGED listening

\* events_tx.send(m) fails, and ends the task, if the voice task is gone.
ForwardFails == ~gwOwned /\ SockEnds /\ UNCHANGED gwEvents

\* It succeeds if there is room; a Close frame ends the task after that.
HasRoom == gwOwned /\ Len(gwEvents) < GwEventCap
Deliver(m) == HasRoom /\ gwEvents' = Append(gwEvents, m)

\* A message of the voice server arrives.  Without room, sending it waits.
SockReceives(m) ==
    /\ Selecting /\ PeerMaySend(m)
    /\ \/ ForwardFails
       \/ m = "Closed" /\ Deliver(m) /\ SockEnds
       \/ /\ m # "Closed" /\ Deliver(m) /\ PeerSends(m)
          /\ UNCHANGED <<socketVars, gwCmds>>
       \/ /\ gwOwned /\ ~HasRoom /\ PeerSends(m)
          /\ gwOut' = m
          /\ UNCHANGED <<sock, heartbeat, gwCmds, gwEvents>>
    /\ UNCHANGED gwOwned

\* The send that waited for room completes or fails.
SockForwards ==
    /\ sock = "open" /\ gwOut # "none"
    /\ \/ ForwardFails
       \/ gwOut = "Closed" /\ Deliver(gwOut) /\ SockEnds
       \/ /\ gwOut # "Closed" /\ Deliver(gwOut)
          /\ gwOut' = "none"
          /\ UNCHANGED <<sock, heartbeat, gwCmds, peerVars>>
    /\ UNCHANGED gwOwned

\* The stream ends or fails, or a heartbeat cannot be sent.
SockFails == /\ Selecting
             /\ SockEnds
             /\ UNCHANGED <<gwEvents, gwOwned>>

SocketStep == \/ SockConnect \/ SockSends \/ SockSetsHeartbeat \/ SockCloses
              \/ \E m \in Messages : SockReceives(m)
              \/ SockForwards \/ SockFails

-----------------------------------------------------------------------------
(***************************************************************************)
(* What the voice task does to its GatewayConnection.                      *)
(***************************************************************************)

\* GatewayConnection::start and send_identify: a socket task is spawned, with
\* the identification waiting in its channel.
StartGateway == /\ sock' = "connecting"
                /\ gwOwned' = TRUE
                /\ gwCmds' = <<"Identify">>

\* commands.send(c), which fails once the socket task has returned.
CanCommand == sock # "ended"
Command(c) == gwCmds' = IF CanCommand THEN Append(gwCmds, c) ELSE gwCmds

\* next_event takes the first event.
TakeGateway(m) == /\ gwOwned /\ gwEvents # <<>>
                  /\ Head(gwEvents) = m
                  /\ gwEvents' = Tail(gwEvents)

\* If the GatewayConnection kept a sender of the events channel.
BugSenderKept == FALSE

\* next_event fails: the channel is drained and the socket task has returned.
GatewayGone == gwOwned /\ gwEvents = <<>> /\ sock = "ended"

\* The GatewayConnection is dropped; c is its last command.
DropGateway(c) == /\ gwOwned' = FALSE
                  /\ gwEvents' = <<>>
                  /\ IF gwOwned THEN Command(c) ELSE UNCHANGED gwCmds

-----------------------------------------------------------------------------
GatewayTypeOK ==
    /\ sock \in {"off", "connecting", "open", "ended"}
    /\ gwEvents \in Seq(Messages) /\ Len(gwEvents) <= GwEventCap
    /\ gwOut \in Messages \cup {"none"}
    /\ gwCmds \in Seq(Commands)
    /\ gwOwned \in BOOLEAN
    /\ heartbeat \in BOOLEAN
    /\ peer \in {"silent", "identified", "ready", "selected", "session"}
    /\ greeted \in BOOLEAN
    /\ listening \in BOOLEAN
=============================================================================
