-------------------------- MODULE VoiceTaskProofs --------------------------
(***************************************************************************)
(* Proofs about VoiceTask: the voice task and its web socket, for channels *)
(* of any capacity.                                                        *)
(*                                                                         *)
(* The argument follows the connection's protocol.  Hello and Ready are    *)
(* sent once each, and each answer to them is a command that is given      *)
(* once, so that at most three commands wait at a time: one that takes the *)
(* protocol on, the heartbeat interval, and Close.                         *)
(***************************************************************************)
EXTENDS VoiceTask, TLAPS

\* At most one element of seq is in S.
Once(seq, S) == \A i, j \in 1 .. Len(seq) : seq[i] \in S /\ seq[j] \in S => i = j

\* The commands that take the voice server on in its protocol.
Steps == {"Identify", "Select", "Listen"}

InFlight(m) == gwOut = m \/ m \in Elements(gwEvents)
Queued(c) == c \in Elements(gwCmds)

-----------------------------------------------------------------------------
(***************************************************************************)
(* The inductive invariant.                                                *)
(***************************************************************************)

\* Before it has announced that the bot joins, and once it has ended, the runner
\* has no connection.
Beginning == /\ tpc \in {"off", "spawned"}
                   => intent = "none" /\ events = <<>> /\ tstate = "WaitingForEvents"
             /\ tpc \notin {"off", "spawned", "done"} => intent = "joined"
Ending == tpc = "done" => intent # "joined" /\ tstate = "WaitingForEvents"

\* The connection is held from the start of the socket to the end of the runner.
Owning == /\ gwOwned <=> tstate # "WaitingForEvents"
          /\ tstate = "WaitingForEvents" /\ tpc # "done" => sock = "off"
          /\ tpc = "connecting" => tstate = "WaitingForReady"

SockOff == sock = "off" => /\ gwCmds = <<>> /\ gwEvents = <<>> /\ gwOut = "none"
                           /\ peer = "silent" /\ ~greeted /\ ~listening /\ ~gwOwned
SockEnded == sock = "ended" => gwCmds = <<>>

\* The event of a send that waits is one that is sent without a permit, and the
\* runner knows how to go on.
Emittable == {"Notice", "FullyConnected"}
Emitting == IF tpc = "emit" THEN pending.event \in Emittable /\ pending.next \in {"select", "closing"}
                            ELSE pending.event = "none"

\* Each command waits at most once, and Close is the last one.
CommandsOnce == /\ Once(gwCmds, Steps) /\ Once(gwCmds, {"SetHeartbeat"}) /\ Once(gwCmds, {"Close"})
                /\ Queued("Close") => ~gwOwned

\* Hello comes once, and the heartbeat is set for it.
HelloOnce ==
    sock # "ended" =>
        /\ Once(gwEvents, {"Hello"})
        /\ InFlight("Hello") \/ Queued("SetHeartbeat") => greeted
        /\ InFlight("Hello") => ~Queued("SetHeartbeat")
        /\ gwOut = "Hello" => "Hello" \notin Elements(gwEvents)

\* Ready comes once, before the runner turns to the discovery.
ReadyOnce ==
    sock # "ended" =>
        /\ Once(gwEvents, {"Ready"})
        /\ InFlight("Ready") => peer = "ready" /\ tpc # "connecting" /\ ~Queued("Select")
        /\ InFlight("Ready") /\ gwOwned => tstate = "WaitingForReady"
        /\ gwOut = "Ready" => "Ready" \notin Elements(gwEvents)

\* A command that waits takes the voice server on from where it is, and it is
\* where the runner believes it to be.
InStep ==
    sock # "ended" =>
        /\ Queued("Identify") => peer = "silent"
        /\ Queued("Select") => peer = "ready"
        /\ Queued("Listen") => peer \in {"selected", "session"}
        /\ InFlight("Session") => peer = "session"
        /\ tpc = "connecting" => peer = "ready"
        /\ tstate \in {"Connected", "Session"} => peer \in {"ready", "selected", "session"}
        /\ tstate = "WaitingForReady" => ~Queued("Select") /\ ~Queued("Listen")
        /\ tstate = "Connected" => ~Queued("Listen")
        /\ tstate = "Session" => listening \/ Queued("Listen")

\* The call is told of a session only, and of the end by a runner that has ended.
Announced == /\ "FullyConnected" \in Elements(events) \cup {pending.event}
                   => intent # "none" /\ (tstate = "Session" \/ tpc = "done")
             /\ "Closed" \in Elements(events) \cup {pending.event} => tpc = "done"

TaskInv == /\ TypeOK /\ Beginning /\ Ending /\ Owning /\ SockOff /\ SockEnded /\ Emitting
           /\ CommandsOnce /\ HelloOnce /\ ReadyOnce /\ InStep /\ Announced

-----------------------------------------------------------------------------
(***************************************************************************)
(* What the channels hold.                                                 *)
(***************************************************************************)
LEMMA EmptyChannel == Elements(<<>>) = {} /\ \A S : Once(<<>>, S)
  BY DEF Elements, Once

LEMMA OneCommand ==
    /\ <<"Identify">> \in Seq(Commands)
    /\ Elements(<<"Identify">>) = {"Identify"}
    /\ \A S : Once(<<"Identify">>, S)
  BY DEF Elements, Once, Commands

\* A message is put behind the others.
LEMMA Appended ==
    ASSUME NEW M, NEW seq \in Seq(M), NEW m \in M
    PROVE  /\ Append(seq, m) \in Seq(M) /\ Len(Append(seq, m)) = Len(seq) + 1
           /\ Elements(Append(seq, m)) = Elements(seq) \cup {m}
           /\ \A S : Once(seq, S) /\ (m \notin S \/ Elements(seq) \cap S = {})
                        => Once(Append(seq, m), S)
<1>1. Append(seq, m) \in Seq(M) /\ Len(Append(seq, m)) = Len(seq) + 1
  OBVIOUS
<1>2. /\ \A i \in 1 .. Len(seq) : Append(seq, m)[i] = seq[i]
      /\ Append(seq, m)[Len(seq) + 1] = m
      /\ Len(seq) \in Nat
  OBVIOUS
<1>3. Elements(Append(seq, m)) = Elements(seq) \cup {m}
  BY <1>1, <1>2 DEF Elements
<1>4. ASSUME NEW S, Once(seq, S), m \notin S \/ Elements(seq) \cap S = {}
      PROVE  Once(Append(seq, m), S)
  BY <1>1, <1>2, <1>4 DEF Elements, Once
<1>5. QED
  BY <1>1, <1>3, <1>4

\* The first message is taken.
LEMMA Taken ==
    ASSUME NEW M, NEW seq \in Seq(M), seq # <<>>
    PROVE  /\ Tail(seq) \in Seq(M) /\ Len(Tail(seq)) = Len(seq) - 1 /\ Head(seq) \in M
           /\ Elements(seq) = Elements(Tail(seq)) \cup {Head(seq)}
           /\ \A S : Once(seq, S) => /\ Once(Tail(seq), S)
                                     /\ Head(seq) \in S => Elements(Tail(seq)) \cap S = {}
<1>1. /\ Tail(seq) \in Seq(M) /\ Len(Tail(seq)) = Len(seq) - 1 /\ Head(seq) \in M
      /\ Len(seq) \in Nat /\ Len(seq) >= 1 /\ Head(seq) = seq[1]
  OBVIOUS
<1>2. \A i \in 1 .. Len(seq) - 1 : Tail(seq)[i] = seq[i + 1]
  OBVIOUS
<1>3. Elements(seq) = Elements(Tail(seq)) \cup {Head(seq)}
  <2>1. \A i \in 2 .. Len(seq) : seq[i] = Tail(seq)[i - 1] /\ i - 1 \in 1 .. Len(seq) - 1
    BY <1>1, <1>2
  <2>2. Elements(seq) \subseteq Elements(Tail(seq)) \cup {Head(seq)}
    BY <1>1, <2>1 DEF Elements
  <2>3. Elements(Tail(seq)) \cup {Head(seq)} \subseteq Elements(seq)
    BY <1>1, <1>2 DEF Elements
  <2>4. QED
    BY <2>2, <2>3
<1>4. ASSUME NEW S, Once(seq, S)
      PROVE  Once(Tail(seq), S) /\ (Head(seq) \in S => Elements(Tail(seq)) \cap S = {})
  BY <1>1, <1>2, <1>4 DEF Elements, Once
<1>5. QED
  BY <1>1, <1>3, <1>4

\* Commands that each wait at most once are three.
LEMMA ThreeCommands ==
    ASSUME gwCmds \in Seq(Commands), CommandsOnce
    PROVE  Len(gwCmds) <= 3
<1> SUFFICES ASSUME Len(gwCmds) > 3 PROVE FALSE
  BY DEF CommandsOnce
<1>1. \A i \in {1, 2, 3, 4} : i \in 1 .. Len(gwCmds) /\ gwCmds[i] \in Commands
  OBVIOUS
<1>2. \A i, j \in {1, 2, 3, 4} :
         /\ gwCmds[i] \in Steps /\ gwCmds[j] \in Steps => i = j
         /\ gwCmds[i] = "SetHeartbeat" /\ gwCmds[j] = "SetHeartbeat" => i = j
         /\ gwCmds[i] = "Close" /\ gwCmds[j] = "Close" => i = j
  BY <1>1 DEF CommandsOnce, Once
<1>3. \A i \in {1, 2, 3, 4} : gwCmds[i] \in Steps \/ gwCmds[i] \in {"SetHeartbeat", "Close"}
  BY <1>1 DEF Commands, Steps
<1>4. QED
  BY <1>2, <1>3

-----------------------------------------------------------------------------
(***************************************************************************)
(* The socket task.                                                        *)
(***************************************************************************)
LEMMA InitHolds == Init => TaskInv
<1> SUFFICES ASSUME Init PROVE TaskInv
  OBVIOUS
<1> USE DEF Init, GatewayInit, TaskInit
<1>0. /\ GwEventCap \in Nat /\ EventCap \in Nat /\ GlobalCap \in Nat
  BY GatewayAssumption, TaskAssumption
<1>s. /\ gwEvents \in Seq(Messages) /\ Len(gwEvents) <= GwEventCap
      /\ gwCmds \in Seq(Commands)
      /\ events \in Seq(VoiceEvents) /\ Len(events) <= EventCap
      /\ gevents \in Seq(GlobalEvents) /\ Len(gevents) <= GlobalCap
  BY <1>0
<1>1. TypeOK
  <2>1. GatewayTypeOK
    BY <1>s DEF GatewayTypeOK
  <2>2. pending \in [event : VoiceEvents \cup {"none"}, next : {"select", "closing", "none"}]
    BY DEF NoEvent
  <2>3. QED
    BY <1>s, <2>1, <2>2 DEF TypeOK
<1>2. Elements(events) = {} /\ Elements(gwCmds) = {} /\ Elements(gwEvents) = {}
  BY EmptyChannel
<1>3. Beginning /\ Ending /\ Owning /\ SockOff /\ SockEnded /\ Emitting
  BY DEF Beginning, Ending, Owning, SockOff, SockEnded, Emitting, NoEvent
<1>4. CommandsOnce /\ HelloOnce /\ ReadyOnce
  BY <1>2, EmptyChannel DEF CommandsOnce, HelloOnce, ReadyOnce, InFlight, Queued
<1>5. InStep /\ Announced
  BY <1>2 DEF InStep, Announced, InFlight, Queued, NoEvent
<1>6. QED
  BY <1>1, <1>3, <1>4, <1>5 DEF TaskInv

\* When the socket task returns, nothing is left to keep in order.
LEMMA SockEndsKeeps ==
    ASSUME TaskInv, SockEnds, sock # "off", UNCHANGED <<taskVars, gwOwned>>,
           gwEvents' \in Seq(Messages), Len(gwEvents') <= GwEventCap
    PROVE  TaskInv'
<1> USE DEF taskVars, runnerVars, handleVars
<1>0. gwCmds' \in Seq(Commands)
  BY DEF SockEnds
<1>1. GatewayTypeOK'
  <2>1. gwOwned' \in BOOLEAN
    BY DEF TaskInv, TypeOK, GatewayTypeOK
  <2>2. QED
    BY <1>0, <2>1 DEF GatewayTypeOK, SockEnds
<1>t. TypeOK'
  BY <1>1 DEF TaskInv, TypeOK
<1>2. Elements(gwCmds') = {} /\ \A S : Once(gwCmds', S)
  BY EmptyChannel DEF SockEnds
<1>3. Beginning' /\ Ending' /\ Owning' /\ SockOff' /\ SockEnded' /\ Emitting'
  BY DEF TaskInv, Beginning, Ending, Owning, SockOff, SockEnded, Emitting, SockEnds
<1>4. CommandsOnce'
  BY <1>2 DEF CommandsOnce, Queued
<1>5. HelloOnce' /\ ReadyOnce' /\ InStep'
  BY DEF HelloOnce, ReadyOnce, InStep, SockEnds
<1>6. Announced'
  BY DEF TaskInv, Announced
<1>7. QED
  BY <1>t, <1>3, <1>4, <1>5, <1>6 DEF TaskInv

\* A step of the open socket task that keeps the order of the protocol.
LEMMA SockKeeps ==
    ASSUME TaskInv, sock' \in {"connecting", "open"}, sock # "off", UNCHANGED <<taskVars, gwOwned>>,
           GatewayTypeOK', CommandsOnce', HelloOnce', ReadyOnce', InStep'
    PROVE  TaskInv'
<1> USE DEF taskVars, runnerVars, handleVars
<1>1. TypeOK'
  BY DEF TaskInv, TypeOK
<1>2. Beginning' /\ Ending' /\ Owning' /\ SockOff' /\ SockEnded' /\ Emitting'
  BY DEF TaskInv, Beginning, Ending, Owning, SockOff, SockEnded, Emitting
<1>3. Announced'
  BY DEF TaskInv, Announced
<1>4. QED
  BY <1>1, <1>2, <1>3 DEF TaskInv

\* A message the voice server may send is new to the events channel.
LEMMA MessageIsNew ==
    ASSUME TaskInv, Selecting, NEW m \in Messages, PeerMaySend(m), PeerSends(m),
           sock' = "open", UNCHANGED <<taskVars, gwOwned, gwCmds, heartbeat>>,
           gwEvents' \in Seq(Messages), Len(gwEvents') <= GwEventCap, gwOut' \in Messages \cup {"none"},
           \/ gwOut' = m /\ gwEvents' = gwEvents
           \/ /\ gwOut' = "none" /\ Elements(gwEvents') = Elements(gwEvents) \cup {m}
              /\ \A S : Once(gwEvents, S) /\ (m \notin S \/ Elements(gwEvents) \cap S = {})
                           => Once(gwEvents', S)
    PROVE  TaskInv'
<1> USE DEF taskVars, runnerVars, handleVars
<1>0. sock = "open" /\ gwOut = "none"
  BY DEF Selecting
<1>1. GatewayTypeOK'
  BY DEF TaskInv, TypeOK, GatewayTypeOK, PeerSends
<1>2. CommandsOnce'
  BY DEF TaskInv, CommandsOnce, Queued
<1>3. \A k \in Messages : InFlight(k)' => InFlight(k) \/ k = m
  BY DEF InFlight, Messages, ChatterKinds
<1>4. m \in Chatter => m \notin {"Hello", "Ready", "Session"}
  BY GatewayAssumption DEF ChatterKinds
<1>5. HelloOnce'
  BY <1>0, <1>3, <1>4
     DEF TaskInv, HelloOnce, InFlight, Queued, PeerMaySend, PeerSends, Messages
<1>6. ReadyOnce'
  <2>1. CASE m = "Ready"
    <3>1. peer = "identified" /\ peer' = "ready"
      BY <1>4, <2>1 DEF PeerMaySend, PeerSends
    <3>2. ~InFlight("Ready") /\ ~Queued("Select")
      BY <1>0, <3>1 DEF TaskInv, ReadyOnce, InStep
    <3>3. QED
      BY <1>0, <2>1, <3>1, <3>2
         DEF TaskInv, ReadyOnce, InFlight, Queued, InStep, Owning, TypeOK
  <2>2. CASE m # "Ready"
    BY <1>0, <1>3, <1>4, <2>2 DEF TaskInv, ReadyOnce, InFlight, Queued, PeerMaySend, PeerSends, Messages
  <2>3. QED
    BY <2>1, <2>2
<1>7. InStep'
  BY <1>0, <1>3, <1>4
     DEF TaskInv, InStep, InFlight, Queued, PeerMaySend, PeerSends, Messages
<1>8. QED
  BY <1>0, <1>1, <1>2, <1>5, <1>6, <1>7, SockKeeps

\* The socket task's steps keep the invariant.
LEMMA SocketInductive == TaskInv /\ SocketStep /\ UNCHANGED taskVars => TaskInv'
<1> SUFFICES ASSUME TaskInv, SocketStep, UNCHANGED taskVars PROVE TaskInv'
  OBVIOUS
<1>t. /\ GatewayTypeOK
      /\ gwEvents \in Seq(Messages) /\ Len(gwEvents) <= GwEventCap
      /\ gwCmds \in Seq(Commands)
  BY DEF TaskInv, TypeOK, GatewayTypeOK
<1>d. ASSUME NEW m \in Messages, Deliver(m)
      PROVE  /\ gwEvents' \in Seq(Messages) /\ Len(gwEvents') <= GwEventCap
             /\ Elements(gwEvents') = Elements(gwEvents) \cup {m}
             /\ \A S : Once(gwEvents, S) /\ (m \notin S \/ Elements(gwEvents) \cap S = {})
                          => Once(gwEvents', S)
  <2>1. gwEvents' = Append(gwEvents, m) /\ Len(gwEvents) < GwEventCap
    BY <1>d DEF Deliver, HasRoom
  <2>2. /\ Append(gwEvents, m) \in Seq(Messages) /\ Len(Append(gwEvents, m)) = Len(gwEvents) + 1
        /\ Elements(Append(gwEvents, m)) = Elements(gwEvents) \cup {m}
        /\ \A S : Once(gwEvents, S) /\ (m \notin S \/ Elements(gwEvents) \cap S = {})
                     => Once(Append(gwEvents, m), S)
    BY <1>t, Appended
  <2>3. Len(gwEvents) + 1 <= GwEventCap
    BY <1>t, <2>1, GatewayAssumption
  <2>4. QED
    BY <2>1, <2>2, <2>3
<1>c. ASSUME gwCmds # <<>>, gwCmds' = Tail(gwCmds)
      PROVE  /\ gwCmds' \in Seq(Commands)
             /\ Elements(gwCmds) = Elements(gwCmds') \cup {Head(gwCmds)}
             /\ \A S : Once(gwCmds, S) => /\ Once(gwCmds', S)
                                          /\ Head(gwCmds) \in S => Elements(gwCmds') \cap S = {}
  BY <1>t, <1>c, Taken
<1>1. CASE SockConnect
  <2>1. CASE SockEnds
    BY <1>1, <1>t, <2>1, SockEndsKeeps DEF SockConnect
  <2>2. CASE sock' = "open" /\ UNCHANGED <<gwOut, gwCmds, heartbeat, peerVars>>
    <3>1. sock = "connecting" /\ sock' = "open" /\ UNCHANGED <<gwEvents, gwOwned, gwOut, gwCmds, peer, greeted, listening>>
      BY <1>1, <2>2 DEF SockConnect, peerVars
    <3>2. GatewayTypeOK' /\ CommandsOnce' /\ HelloOnce'
      BY <1>t, <2>2, <3>1 DEF TaskInv, GatewayTypeOK, CommandsOnce, HelloOnce, InFlight, Queued
    <3>3. ReadyOnce' /\ InStep'
      BY <3>1 DEF TaskInv, ReadyOnce, InStep, InFlight, Queued, taskVars, runnerVars
    <3>4. QED
      BY <3>1, <3>2, <3>3, SockKeeps
  <2>3. QED
    BY <1>1, <2>1, <2>2 DEF SockConnect
<1>2. CASE SockSends
  <2>0. sock = "open" /\ gwOut = "none" /\ UNCHANGED <<gwEvents, gwOwned>>
    BY <1>2 DEF SockSends, Selecting
  <2>1. CASE SockEnds
    BY <1>t, <2>0, <2>1, SockEndsKeeps
  <2>2. CASE PeerReceives(Head(gwCmds)) /\ gwCmds' = Tail(gwCmds) /\ UNCHANGED socketVars
    <3> DEFINE c == Head(gwCmds)
    <3>1. /\ gwCmds # <<>> /\ c \in Steps /\ gwCmds' = Tail(gwCmds)
          /\ UNCHANGED <<sock, gwOut, heartbeat, greeted>>
      BY <1>2, <2>2 DEF SockSends, PeerReceives, Steps, socketVars
    <3>2. /\ gwCmds' \in Seq(Commands) /\ Elements(gwCmds) = Elements(gwCmds') \cup {c}
          /\ \A S : Once(gwCmds, S) => Once(gwCmds', S)
          /\ Elements(gwCmds') \cap Steps = {}
      BY <1>c, <3>1 DEF TaskInv, CommandsOnce
    <3>3. Queued(c) /\ \A k \in Steps : ~Queued(k)'
      BY <3>2 DEF Queued
    <3>4. \A k : Queued(k)' => Queued(k)
      BY <3>2 DEF Queued
    <3>5. /\ c = "Identify" => peer = "silent" /\ peer' = "identified" /\ listening' = listening
          /\ c = "Select" => peer = "ready" /\ peer' = "selected" /\ listening' = listening
          /\ c = "Listen" => peer \in {"selected", "session"} /\ peer' = peer /\ listening' = TRUE
      BY <2>0, <2>2, <3>3 DEF TaskInv, InStep, PeerReceives, TypeOK, GatewayTypeOK
    <3>6. GatewayTypeOK'
      <4>1. peer' \in {"silent", "identified", "ready", "selected", "session"} /\ listening' \in BOOLEAN
        BY <1>t, <3>1, <3>5 DEF GatewayTypeOK, Steps
      <4>2. QED
        BY <1>t, <2>0, <3>1, <3>2, <4>1 DEF GatewayTypeOK
    <3>7. CommandsOnce'
      BY <2>0, <3>2, <3>4 DEF TaskInv, CommandsOnce
    <3>8. \A m \in Messages : InFlight(m)' = InFlight(m)
      BY <2>0, <3>1 DEF InFlight
    <3>9. HelloOnce'
      BY <2>0, <3>1, <3>4 DEF TaskInv, HelloOnce, InFlight
    <3>10. ReadyOnce'
      BY <2>0, <3>1, <3>3, <3>4, <3>5 DEF TaskInv, ReadyOnce, InFlight, taskVars, runnerVars, Steps
    <3>11. InStep'
      BY <2>0, <3>1, <3>3, <3>4, <3>5 DEF TaskInv, InStep, Owning, InFlight, taskVars, runnerVars, Steps
    <3>12. QED
      BY <2>0, <3>1, <3>6, <3>7, <3>9, <3>10, <3>11, SockKeeps
  <2>3. QED
    BY <1>2, <2>1, <2>2 DEF SockSends

<1>3. CASE SockSetsHeartbeat
  <2>1. /\ sock = "open" /\ gwOut = "none" /\ gwCmds # <<>> /\ Head(gwCmds) = "SetHeartbeat"
        /\ gwCmds' = Tail(gwCmds) /\ heartbeat' = TRUE
        /\ UNCHANGED <<sock, gwOut, gwEvents, gwOwned, peer, greeted, listening>>
    BY <1>3 DEF SockSetsHeartbeat, Selecting, peerVars
  <2>2. /\ gwCmds' \in Seq(Commands) /\ Elements(gwCmds) = Elements(gwCmds') \cup {"SetHeartbeat"}
        /\ \A S : Once(gwCmds, S) => Once(gwCmds', S)
    BY <1>c, <2>1
  <2>3. /\ \A k : Queued(k)' => Queued(k)
        /\ Queued("Listen") => Queued("Listen")'
    BY <2>2 DEF Queued
  <2>4. GatewayTypeOK' /\ CommandsOnce' /\ HelloOnce'
    BY <1>t, <2>1, <2>2, <2>3 DEF TaskInv, GatewayTypeOK, CommandsOnce, HelloOnce, InFlight
  <2>5. ReadyOnce' /\ InStep'
    BY <2>1, <2>3 DEF TaskInv, ReadyOnce, InStep, InFlight, taskVars, runnerVars
  <2>6. QED
    BY <2>1, <2>4, <2>5, SockKeeps
<1>4. CASE SockCloses \/ SockFails
  <2>1. sock # "off" /\ SockEnds /\ UNCHANGED <<gwEvents, gwOwned>>
    BY <1>4 DEF SockCloses, SockFails, Selecting
  <2>2. QED
    BY <1>t, <2>1, SockEndsKeeps
<1>5. ASSUME NEW m \in Messages, SockReceives(m) PROVE TaskInv'
  <2>0. sock = "open" /\ Selecting /\ PeerMaySend(m) /\ UNCHANGED gwOwned
    BY <1>5 DEF SockReceives, Selecting
  <2>1. CASE ForwardFails
    BY <1>t, <2>0, <2>1, SockEndsKeeps DEF ForwardFails
  <2>2. CASE Deliver(m) /\ SockEnds
    BY <1>d, <2>0, <2>2, SockEndsKeeps
  <2>3. CASE Deliver(m) /\ PeerSends(m) /\ UNCHANGED <<socketVars, gwCmds>>
    <3>1. gwOut' = "none" /\ sock' = "open" /\ UNCHANGED <<heartbeat, gwCmds>>
      BY <2>0, <2>3 DEF Selecting, socketVars
    <3>2. QED
      BY <1>d, <2>0, <2>3, <3>1, MessageIsNew
  <2>4. CASE PeerSends(m) /\ gwOut' = m /\ UNCHANGED <<sock, heartbeat, gwCmds, gwEvents>>
    BY <1>t, <2>0, <2>4, MessageIsNew
  <2>5. QED
    BY <1>5, <2>1, <2>2, <2>3, <2>4 DEF SockReceives
<1>6. CASE SockForwards
  <2>0. sock = "open" /\ gwOut \in Messages /\ UNCHANGED gwOwned
    BY <1>6, <1>t DEF SockForwards, GatewayTypeOK
  <2>1. CASE ForwardFails
    BY <1>t, <2>0, <2>1, SockEndsKeeps DEF ForwardFails
  <2>2. CASE Deliver(gwOut) /\ SockEnds
    BY <1>d, <2>0, <2>2, SockEndsKeeps
  <2>3. CASE Deliver(gwOut) /\ gwOut' = "none" /\ UNCHANGED <<sock, heartbeat, gwCmds, peerVars>>
    <3>1. /\ gwEvents' \in Seq(Messages) /\ Len(gwEvents') <= GwEventCap
          /\ Elements(gwEvents') = Elements(gwEvents) \cup {gwOut}
          /\ \A S : Once(gwEvents, S) /\ (gwOut \notin S \/ Elements(gwEvents) \cap S = {})
                       => Once(gwEvents', S)
      BY <1>d, <2>0, <2>3
    <3>2. \A m \in Messages : InFlight(m)' <=> InFlight(m)
      BY <2>3, <3>1 DEF InFlight, Messages, ChatterKinds
    <3>3. {"Hello", "Ready", "Session"} \subseteq Messages
      BY DEF Messages
    <3>4. UNCHANGED <<sock, heartbeat, gwCmds, peer, greeted, listening, tpc, tstate>>
      BY <2>3 DEF peerVars, taskVars, runnerVars
    <3>5. GatewayTypeOK' /\ CommandsOnce'
      BY <1>t, <2>0, <2>3, <3>1, <3>4 DEF TaskInv, GatewayTypeOK, CommandsOnce, Queued
    <3>6. HelloOnce'
      BY <2>0, <2>3, <3>1, <3>2, <3>3, <3>4 DEF TaskInv, HelloOnce, Queued
    <3>7. ReadyOnce'
      BY <2>0, <2>3, <3>1, <3>2, <3>3, <3>4 DEF TaskInv, ReadyOnce, Queued
    <3>8. InStep'
      BY <2>0, <3>2, <3>3, <3>4 DEF TaskInv, InStep, Queued
    <3>9. QED
      BY <2>0, <3>4, <3>5, <3>6, <3>7, <3>8, SockKeeps
  <2>4. QED
    BY <1>6, <2>1, <2>2, <2>3 DEF SockForwards
<1>7. QED
  BY <1>1, <1>2, <1>3, <1>4, <1>5, <1>6 DEF SocketStep

-----------------------------------------------------------------------------
(***************************************************************************)
(* The runner and its handle.                                              *)
(***************************************************************************)

\* What the invariant says of the connection, and what of the runner alone.
GatewayPart == /\ GatewayTypeOK /\ Owning /\ SockOff /\ SockEnded
               /\ CommandsOnce /\ HelloOnce /\ ReadyOnce /\ InStep
TaskTyped == /\ tpc \in {"off", "spawned", "select", "emit", "connecting", "closing", "done"}
             /\ tstate \in {"WaitingForEvents", "WaitingForReady", "Connected", "Session"}
             /\ info \subseteq Fields
             /\ intent \in {"none", "joined", "left"}
             /\ vhandle \in BOOLEAN
             /\ vreq \in {"none", "Write", "Close"}
             /\ vrep \in {"none", "ok", "err"}
PendingTyped == pending \in [event : VoiceEvents \cup {"none"}, next : {"select", "closing", "none"}]
EventsTyped == events \in Seq(VoiceEvents) /\ Len(events) <= EventCap
GlobalTyped == gevents \in Seq(GlobalEvents) /\ Len(gevents) <= GlobalCap
RunnerPart == TaskTyped /\ PendingTyped /\ EventsTyped /\ GlobalTyped
                 /\ Beginning /\ Ending /\ Emitting /\ Announced

LEMMA TaskParts == /\ TaskInv => GatewayPart /\ RunnerPart
                   /\ GatewayPart' /\ RunnerPart' => TaskInv'
  BY DEF TaskInv, GatewayPart, RunnerPart, TypeOK, TaskTyped, PendingTyped, EventsTyped, GlobalTyped

\* The runner leaves the connection alone, and does not turn to the discovery.
LEMMA GatewayKept ==
    ASSUME GatewayPart, UNCHANGED gatewayVars, tstate' = tstate,
           tpc' = "connecting" => tpc = "connecting", tpc = "done" => tpc' = "done"
    PROVE  GatewayPart'
<1> USE DEF gatewayVars, socketVars, peerVars
<1>1. GatewayTypeOK' /\ SockOff' /\ SockEnded' /\ CommandsOnce'
  BY DEF GatewayPart, GatewayTypeOK, SockOff, SockEnded, CommandsOnce, Queued
<1>2. Owning' /\ HelloOnce'
  BY DEF GatewayPart, Owning, HelloOnce, InFlight, Queued
<1>3. ReadyOnce' /\ InStep'
  BY DEF GatewayPart, ReadyOnce, InStep, InFlight, Queued
<1>4. QED
  BY <1>1, <1>2, <1>3 DEF GatewayPart

\* The runner takes the first event of the connection and gives no command.
LEMMA MessageTaken ==
    ASSUME GatewayPart, NEW m \in Messages, TakeGateway(m)
    PROVE  /\ gwEvents' \in Seq(Messages) /\ Len(gwEvents') <= GwEventCap
           /\ gwOwned /\ InFlight(m) /\ sock # "off"
           /\ Elements(gwEvents') \subseteq Elements(gwEvents)
           /\ Once(gwEvents, {m}) => m \notin Elements(gwEvents')
           /\ \A S : Once(gwEvents, S) => Once(gwEvents', S)
<1>1. /\ gwOwned /\ gwEvents # <<>> /\ Head(gwEvents) = m /\ gwEvents' = Tail(gwEvents)
      /\ gwEvents \in Seq(Messages) /\ Len(gwEvents) <= GwEventCap
  BY DEF GatewayPart, GatewayTypeOK, TakeGateway
<1>2. /\ Tail(gwEvents) \in Seq(Messages) /\ Len(Tail(gwEvents)) = Len(gwEvents) - 1
      /\ Elements(gwEvents) = Elements(Tail(gwEvents)) \cup {Head(gwEvents)}
      /\ \A S : Once(gwEvents, S) => /\ Once(Tail(gwEvents), S)
                                     /\ Head(gwEvents) \in S => Elements(Tail(gwEvents)) \cap S = {}
  BY <1>1, Taken
<1>3. Len(Tail(gwEvents)) <= GwEventCap
  BY <1>1, <1>2, GatewayAssumption
<1>4. sock # "off"
  BY <1>1 DEF GatewayPart, SockOff
<1>5. QED
  BY <1>1, <1>2, <1>3, <1>4 DEF InFlight

LEMMA GatewayTakes ==
    ASSUME GatewayPart, NEW m \in Messages, TakeGateway(m), UNCHANGED <<socketVars, gwOwned, peerVars>>,
           gwCmds' = gwCmds, tstate' = tstate,
           tpc' = "connecting" => tpc = "connecting", tpc = "done" => tpc' = "done"
    PROVE  GatewayPart'
<1> USE DEF socketVars, peerVars
<1>1. /\ gwEvents' \in Seq(Messages) /\ Len(gwEvents') <= GwEventCap
      /\ gwOwned /\ InFlight(m) /\ sock # "off"
      /\ Elements(gwEvents') \subseteq Elements(gwEvents)
      /\ \A S : Once(gwEvents, S) => Once(gwEvents', S)
  BY MessageTaken
<1>2. \A k : InFlight(k)' => InFlight(k)
  BY <1>1 DEF InFlight
<1>3. GatewayTypeOK' /\ SockOff' /\ SockEnded' /\ CommandsOnce'
  BY <1>1 DEF GatewayPart, GatewayTypeOK, SockOff, SockEnded, CommandsOnce, Queued
<1>4. Owning' /\ HelloOnce'
  BY <1>1, <1>2 DEF GatewayPart, Owning, HelloOnce, Queued
<1>5. ReadyOnce' /\ InStep'
  BY <1>1, <1>2 DEF GatewayPart, ReadyOnce, InStep, Queued
<1>6. QED
  BY <1>3, <1>4, <1>5 DEF GatewayPart

\* An event is sent to the call, or the runner waits until it can be.
LEMMA Emitted ==
    ASSUME PendingTyped, EventsTyped, Emitting, tpc = "select", NEW e \in Emittable,
           NEW next \in {"select", "closing"}, Emit(e, next)
    PROVE  /\ PendingTyped' /\ EventsTyped' /\ tpc' \in {next, "emit"}
           /\ Emitting'
           /\ Elements(events') \cup {pending'.event} \subseteq Elements(events) \cup {e, "none"}
<1>0. e \in VoiceEvents
  BY DEF Emittable, VoiceEvents
<1>1. CASE ~vhandle /\ tpc' = next /\ UNCHANGED <<events, pending>>
  BY <1>1 DEF PendingTyped, EventsTyped, Emitting
<1>2. CASE /\ vhandle /\ Len(events) < EventCap
           /\ events' = Append(events, e) /\ tpc' = next /\ pending' = NoEvent
  <2>1. /\ Append(events, e) \in Seq(VoiceEvents) /\ Len(Append(events, e)) = Len(events) + 1
        /\ Elements(Append(events, e)) = Elements(events) \cup {e}
    BY <1>0, Appended DEF EventsTyped
  <2>2. EventsTyped'
    BY <1>2, <2>1, TaskAssumption DEF EventsTyped
  <2>3. PendingTyped' /\ pending'.event = "none"
    BY <1>2 DEF PendingTyped, NoEvent
  <2>4. QED
    BY <1>2, <2>1, <2>2, <2>3 DEF Emitting
<1>3. CASE /\ vhandle /\ Len(events) = EventCap /\ tpc' = "emit"
           /\ pending' = [event |-> e, next |-> next] /\ UNCHANGED events
  <2>1. PendingTyped' /\ pending'.event = e /\ pending'.next = next
    BY <1>0, <1>3 DEF PendingTyped
  <2>2. EventsTyped'
    BY <1>3 DEF EventsTyped
  <2>3. QED
    BY <1>3, <2>1, <2>2 DEF Emitting
<1>4. QED
  BY <1>1, <1>2, <1>3 DEF Emit

\* A command is given to a socket task that has not returned.
LEMMA Commanded ==
    ASSUME GatewayPart, NEW c \in Commands, Command(c)
    PROVE  /\ gwCmds' \in Seq(Commands)
           /\ sock = "ended" => gwCmds' = gwCmds
           /\ sock # "ended" =>
                /\ \A k : Queued(k)' <=> Queued(k) \/ k = c
                /\ \A S : Once(gwCmds, S) /\ (c \notin S \/ Elements(gwCmds) \cap S = {})
                             => Once(gwCmds', S)
<1>1. gwCmds \in Seq(Commands)
  BY DEF GatewayPart, GatewayTypeOK
<1>2. /\ Append(gwCmds, c) \in Seq(Commands)
      /\ Elements(Append(gwCmds, c)) = Elements(gwCmds) \cup {c}
      /\ \A S : Once(gwCmds, S) /\ (c \notin S \/ Elements(gwCmds) \cap S = {})
                   => Once(Append(gwCmds, c), S)
  BY <1>1, Appended
<1>3. CASE sock = "ended"
  BY <1>1, <1>3 DEF Command, CanCommand
<1>4. CASE sock # "ended"
  <2>1. gwCmds' = Append(gwCmds, c)
    BY <1>4 DEF Command, CanCommand
  <2>2. QED
    BY <1>2, <1>4, <2>1 DEF Queued
<1>5. QED
  BY <1>3, <1>4

\* The heartbeat interval is set once, since Hello comes once.
LEMMA HelloKeeps ==
    ASSUME GatewayPart, tpc = "select", TakeGateway("Hello"), Command("SetHeartbeat"),
           UNCHANGED <<socketVars, gwOwned, peerVars>>, tstate' = tstate, tpc' \in {"select", "closing"}
    PROVE  GatewayPart'
<1> USE DEF socketVars, peerVars
<1>0. "Hello" \in Messages /\ "SetHeartbeat" \in Commands
  BY DEF Messages, Commands
<1>1. /\ gwEvents' \in Seq(Messages) /\ Len(gwEvents') <= GwEventCap
      /\ gwOwned /\ InFlight("Hello") /\ sock # "off"
      /\ Elements(gwEvents') \subseteq Elements(gwEvents)
      /\ Once(gwEvents, {"Hello"}) => "Hello" \notin Elements(gwEvents')
      /\ \A S : Once(gwEvents, S) => Once(gwEvents', S)
  BY <1>0, MessageTaken
<1>2. /\ gwCmds' \in Seq(Commands)
      /\ sock = "ended" => gwCmds' = gwCmds
      /\ sock # "ended" =>
           /\ \A k : Queued(k)' <=> Queued(k) \/ k = "SetHeartbeat"
           /\ \A S : Once(gwCmds, S) /\ ("SetHeartbeat" \notin S \/ Elements(gwCmds) \cap S = {})
                        => Once(gwCmds', S)
  BY <1>0, Commanded
<1>3. \A k : InFlight(k)' => InFlight(k)
  BY <1>1 DEF InFlight
<1>4. sock # "ended" => ~InFlight("Hello")' /\ ~Queued("SetHeartbeat")
  <2>1. sock # "ended" => "Hello" \in Elements(gwEvents)
    BY DEF GatewayPart, GatewayTypeOK, TakeGateway, Elements
  <2>2. QED
    BY <1>1, <2>1 DEF GatewayPart, HelloOnce, InFlight
<1>5. GatewayTypeOK' /\ SockOff' /\ SockEnded'
  BY <1>1, <1>2 DEF GatewayPart, GatewayTypeOK, SockOff, SockEnded
<1>6. CommandsOnce'
  <2>1. CASE sock = "ended"
    BY <1>2, <2>1 DEF GatewayPart, CommandsOnce, Queued
  <2>2. CASE sock # "ended"
    BY <1>1, <1>2, <1>4, <2>2 DEF GatewayPart, CommandsOnce, Queued, Steps
  <2>3. QED
    BY <2>1, <2>2
<1>7. Owning' /\ HelloOnce'
  BY <1>1, <1>2, <1>3, <1>4 DEF GatewayPart, Owning, HelloOnce, InFlight
<1>8. ReadyOnce' /\ InStep'
  BY <1>1, <1>2, <1>3 DEF GatewayPart, ReadyOnce, InStep
<1>9. QED
  BY <1>5, <1>6, <1>7, <1>8 DEF GatewayPart

\* Ready comes once, and with it the voice server is ready for a protocol.
LEMMA ReadyKeeps ==
    ASSUME GatewayPart, tpc = "select", TakeGateway("Ready"), gwCmds' = gwCmds,
           UNCHANGED <<socketVars, gwOwned, peerVars>>, tstate' = tstate,
           tpc' = "connecting", tstate = "WaitingForReady"
    PROVE  GatewayPart'
<1> USE DEF socketVars, peerVars
<1>0. "Ready" \in Messages
  BY DEF Messages
<1>1. /\ gwEvents' \in Seq(Messages) /\ Len(gwEvents') <= GwEventCap
      /\ gwOwned /\ InFlight("Ready") /\ sock # "off"
      /\ Elements(gwEvents') \subseteq Elements(gwEvents)
      /\ Once(gwEvents, {"Ready"}) => "Ready" \notin Elements(gwEvents')
      /\ \A S : Once(gwEvents, S) => Once(gwEvents', S)
  BY <1>0, MessageTaken
<1>2. \A k : InFlight(k)' => InFlight(k)
  BY <1>1 DEF InFlight
<1>3. sock # "ended" => ~InFlight("Ready")'
  <2>1. "Ready" \in Elements(gwEvents)
    BY DEF GatewayPart, GatewayTypeOK, TakeGateway, Elements
  <2>2. QED
    BY <1>1, <2>1 DEF GatewayPart, ReadyOnce, InFlight
<1>4. GatewayTypeOK' /\ SockOff' /\ SockEnded' /\ CommandsOnce'
  BY <1>1 DEF GatewayPart, GatewayTypeOK, SockOff, SockEnded, CommandsOnce, Queued
<1>5. Owning' /\ HelloOnce'
  BY <1>1, <1>2 DEF GatewayPart, Owning, HelloOnce, Queued
<1>6. ReadyOnce' /\ InStep'
  BY <1>1, <1>2, <1>3 DEF GatewayPart, ReadyOnce, InStep, InFlight, Queued
<1>7. QED
  BY <1>4, <1>5, <1>6 DEF GatewayPart

\* The protocol is selected when the voice server is ready for it.
LEMMA SelectKeeps ==
    ASSUME GatewayPart, tpc = "connecting", Command("Select"),
           UNCHANGED <<socketVars, gwEvents, gwOwned, peerVars>>, tstate' = "Connected", tpc' = "select"
    PROVE  GatewayPart'
<1> USE DEF socketVars, peerVars
<1>0. "Select" \in Commands
  BY DEF Commands
<1>1. gwOwned /\ sock # "off" /\ tstate = "WaitingForReady"
  BY DEF GatewayPart, Owning, SockOff, InStep
<1>2. /\ gwCmds' \in Seq(Commands)
      /\ sock = "ended" => gwCmds' = gwCmds
      /\ sock # "ended" =>
           /\ \A k : Queued(k)' <=> Queued(k) \/ k = "Select"
           /\ \A S : Once(gwCmds, S) /\ ("Select" \notin S \/ Elements(gwCmds) \cap S = {})
                        => Once(gwCmds', S)
  BY <1>0, Commanded
<1>3. sock # "ended" => /\ peer = "ready" /\ \A k \in Steps : ~Queued(k)
                        /\ ~InFlight("Ready")
  BY <1>1 DEF GatewayPart, InStep, ReadyOnce, Steps
<1>4. GatewayTypeOK' /\ SockOff' /\ SockEnded'
  BY <1>1, <1>2 DEF GatewayPart, GatewayTypeOK, SockOff, SockEnded
<1>5. CommandsOnce'
  <2>1. CASE sock = "ended"
    BY <1>2, <2>1 DEF GatewayPart, CommandsOnce, Queued
  <2>2. CASE sock # "ended"
    <3>1. Elements(gwCmds) \cap Steps = {}
      BY <1>3, <2>2 DEF Queued
    <3>2. QED
      BY <1>1, <1>2, <2>2, <3>1 DEF GatewayPart, CommandsOnce
  <2>3. QED
    BY <2>1, <2>2
<1>6. Owning' /\ HelloOnce'
  BY <1>1, <1>2 DEF GatewayPart, Owning, HelloOnce, InFlight
<1>7. ReadyOnce' /\ InStep'
  BY <1>1, <1>2, <1>3 DEF GatewayPart, ReadyOnce, InStep, InFlight, Steps
<1>8. QED
  BY <1>4, <1>5, <1>6, <1>7 DEF GatewayPart

\* The first session of a connection asks for audio, once.
LEMMA ListenKeeps ==
    ASSUME GatewayPart, tpc = "select", TakeGateway("Session"),
           UNCHANGED <<socketVars, gwOwned, peerVars>>, tstate' = "Session",
           tpc' \notin {"connecting", "off", "spawned", "done"},
           \/ tstate = "Connected" /\ Command("Listen")
           \/ tstate = "Session" /\ gwCmds' = gwCmds
    PROVE  GatewayPart'
<1> USE DEF socketVars, peerVars
<1>0. "Session" \in Messages /\ "Listen" \in Commands
  BY DEF Messages, Commands
<1>1. /\ gwEvents' \in Seq(Messages) /\ Len(gwEvents') <= GwEventCap
      /\ gwOwned /\ InFlight("Session") /\ sock # "off"
      /\ Elements(gwEvents') \subseteq Elements(gwEvents)
      /\ \A S : Once(gwEvents, S) => Once(gwEvents', S)
  BY <1>0, MessageTaken
<1>2. \A k : InFlight(k)' => InFlight(k)
  BY <1>1 DEF InFlight
<1>3. sock # "ended" => peer = "session" /\ ~InFlight("Ready") /\ ~Queued("Identify") /\ ~Queued("Select")
  BY <1>1 DEF GatewayPart, InStep, ReadyOnce
<1>4. CASE tstate = "Session" /\ gwCmds' = gwCmds
  BY <1>0, <1>4, GatewayTakes
<1>5. CASE tstate = "Connected" /\ Command("Listen")
  <2>1. /\ gwCmds' \in Seq(Commands)
        /\ sock = "ended" => gwCmds' = gwCmds
        /\ sock # "ended" =>
             /\ \A k : Queued(k)' <=> Queued(k) \/ k = "Listen"
             /\ \A S : Once(gwCmds, S) /\ ("Listen" \notin S \/ Elements(gwCmds) \cap S = {})
                          => Once(gwCmds', S)
    BY <1>0, <1>5, Commanded
  <2>2. GatewayTypeOK' /\ SockOff' /\ SockEnded'
    BY <1>1, <2>1 DEF GatewayPart, GatewayTypeOK, SockOff, SockEnded
  <2>3. CommandsOnce'
    <3>1. CASE sock = "ended"
      BY <2>1, <3>1 DEF GatewayPart, CommandsOnce, Queued
    <3>2. CASE sock # "ended"
      <4>1. Elements(gwCmds) \cap Steps = {}
        BY <1>3, <1>5, <3>2 DEF GatewayPart, InStep, Queued, Steps
      <4>2. QED
        BY <1>1, <2>1, <3>2, <4>1 DEF GatewayPart, CommandsOnce
    <3>3. QED
      BY <3>1, <3>2
  <2>4. Owning' /\ HelloOnce'
    BY <1>1, <1>2, <2>1 DEF GatewayPart, Owning, HelloOnce, InFlight
  <2>5. ReadyOnce' /\ InStep'
    BY <1>1, <1>2, <1>3, <1>5, <2>1 DEF GatewayPart, ReadyOnce, InStep, InFlight
  <2>6. QED
    BY <2>2, <2>3, <2>4, <2>5 DEF GatewayPart
<1>6. QED
  BY <1>4, <1>5

\* A new connection has its identification waiting, and nothing else.
LEMMA StartKeeps ==
    ASSUME GatewayPart, tpc = "select", tpc' = "select", tstate = "WaitingForEvents",
           StartGateway, tstate' = "WaitingForReady",
           UNCHANGED <<gwOut, heartbeat, gwEvents, peerVars>>
    PROVE  GatewayPart'
<1> USE DEF peerVars, StartGateway
<1>1. /\ gwEvents = <<>> /\ gwOut = "none" /\ peer = "silent" /\ ~greeted /\ ~listening
  BY DEF GatewayPart, Owning, SockOff
<1>2. Elements(gwEvents') = {} /\ (\A S : Once(gwEvents', S))
  BY <1>1, EmptyChannel
<1>3. gwCmds' \in Seq(Commands) /\ Elements(gwCmds') = {"Identify"} /\ (\A S : Once(gwCmds', S))
  BY OneCommand
<1>4. GatewayTypeOK' /\ SockOff' /\ SockEnded'
  BY <1>3 DEF GatewayPart, GatewayTypeOK, SockOff, SockEnded
<1>5. CommandsOnce' /\ Owning' /\ HelloOnce'
  BY <1>1, <1>2, <1>3 DEF CommandsOnce, Owning, HelloOnce, InFlight, Queued
<1>6. ReadyOnce' /\ InStep'
  BY <1>1, <1>2, <1>3 DEF ReadyOnce, InStep, InFlight, Queued
<1>7. QED
  BY <1>4, <1>5, <1>6 DEF GatewayPart

\* The runner ends, and the connection it may have is told to close.
LEMMA DropKeeps ==
    ASSUME GatewayPart, DropGateway("Close"), UNCHANGED <<socketVars, peerVars>>,
           tpc' = "done", tstate' = "WaitingForEvents"
    PROVE  GatewayPart'
<1> USE DEF socketVars, peerVars
<1>0. "Close" \in Commands /\ gwOwned' = FALSE /\ gwEvents' = <<>>
  BY DEF Commands, DropGateway
<1>1. Elements(gwEvents') = {} /\ (\A S : Once(gwEvents', S)) /\ gwEvents' \in Seq(Messages)
      /\ Len(gwEvents') <= GwEventCap
  BY <1>0, EmptyChannel, GatewayAssumption
<1>2. \A k : InFlight(k)' => InFlight(k)
  BY <1>1 DEF InFlight
<1>3. /\ gwCmds' \in Seq(Commands)
      /\ CommandsOnce'
      /\ sock = "off" \/ sock = "ended" => gwCmds' = gwCmds
      /\ \A k : k # "Close" => (Queued(k)' <=> Queued(k))
  <2>1. CASE ~gwOwned
    BY <1>0, <2>1 DEF DropGateway, GatewayPart, GatewayTypeOK, CommandsOnce, Queued
  <2>2. CASE gwOwned
    <3>1. Command("Close") /\ ~Queued("Close")
      BY <2>2 DEF DropGateway, GatewayPart, CommandsOnce
    <3>2. /\ gwCmds' \in Seq(Commands)
          /\ sock = "ended" => gwCmds' = gwCmds
          /\ sock # "ended" =>
               /\ \A k : Queued(k)' <=> Queued(k) \/ k = "Close"
               /\ \A S : Once(gwCmds, S) /\ ("Close" \notin S \/ Elements(gwCmds) \cap S = {})
                            => Once(gwCmds', S)
      BY <1>0, <3>1, Commanded
    <3>3. CommandsOnce'
      <4>1. CASE sock = "ended"
        BY <1>0, <3>2, <4>1 DEF GatewayPart, CommandsOnce, Queued
      <4>2. CASE sock # "ended"
        BY <1>0, <3>1, <3>2, <4>2 DEF GatewayPart, CommandsOnce, Queued, Steps
      <4>3. QED
        BY <4>1, <4>2
    <3>4. sock # "off"
      BY <2>2 DEF GatewayPart, Owning, SockOff
    <3>5. QED
      BY <3>2, <3>3, <3>4 DEF Queued
  <2>3. QED
    BY <2>1, <2>2
<1>4. GatewayTypeOK'
  BY <1>0, <1>1, <1>3 DEF GatewayPart, GatewayTypeOK
<1>5. SockOff' /\ SockEnded' /\ Owning' /\ HelloOnce'
  BY <1>0, <1>1, <1>2, <1>3 DEF GatewayPart, SockOff, SockEnded, Owning, HelloOnce
<1>6. ReadyOnce' /\ InStep'
  BY <1>0, <1>1, <1>2, <1>3 DEF GatewayPart, ReadyOnce, InStep
<1>7. QED
  BY <1>3, <1>4, <1>5, <1>6 DEF GatewayPart

\* The steps of the runner that concern nobody but the runner and the call.
LEMMA RunnerAlone ==
    ASSUME TaskInv, JoinIntent \/ JoinIntentFails \/ EmitResumes \/ HandleWrite \/ HandleClose
                    \/ RequestsClosed \/ DiscoveryFails \/ HandlePacket
    PROVE  TaskInv'
<1> USE DEF runnerVars, handleVars
<1>0. GatewayPart /\ RunnerPart
  BY TaskParts
<1>1. /\ UNCHANGED gatewayVars /\ tstate' = tstate /\ gevents \in Seq(GlobalEvents)
      /\ tpc' = "connecting" => tpc = "connecting"
      /\ tpc # "done"
      /\ vhandle' = vhandle
  BY <1>0 DEF JoinIntent, JoinIntentFails, EmitResumes, HandleWrite, HandleClose, RequestsClosed,
              DiscoveryFails, HandlePacket, RunnerEnds, RunnerPart, GlobalTyped, Beginning, Emitting
<1>2. GatewayPart'
  BY <1>0, <1>1, GatewayKept
<1>a. ASSUME NEW e \in VoiceEvents, Len(events) < EventCap, events' = Append(events, e)
      PROVE  EventsTyped' /\ Elements(events') = Elements(events) \cup {e}
  <2>1. events \in Seq(VoiceEvents)
    BY <1>0 DEF RunnerPart, EventsTyped
  <2>2. /\ events' \in Seq(VoiceEvents) /\ Len(events') = Len(events) + 1
        /\ Elements(events') = Elements(events) \cup {e}
    BY <1>a, <2>1, Appended
  <2>3. QED
    BY <1>a, <2>1, <2>2, TaskAssumption DEF EventsTyped
<1>3. RunnerPart'
  <2>1. CASE JoinIntent
    <3>1. TaskTyped' /\ PendingTyped' /\ EventsTyped' /\ GlobalTyped'
      BY <1>0, <2>1 DEF RunnerPart, TaskTyped, PendingTyped, EventsTyped, GlobalTyped, JoinIntent
    <3>2. Beginning' /\ Ending' /\ Emitting' /\ Announced'
      BY <1>0, <2>1 DEF RunnerPart, Beginning, Ending, Emitting, Announced, JoinIntent
    <3>3. QED
      BY <3>1, <3>2 DEF RunnerPart
  <2>2. CASE JoinIntentFails
    <3>0. /\ events = <<>> /\ intent = "none" /\ gevents' = <<>> /\ info' = {} /\ tpc' = "done"
          /\ tstate' = "WaitingForEvents" /\ tpc = "spawned" /\ UNCHANGED <<pending, intent, vhandle, vreq, vrep>>
      BY <1>0, <2>2 DEF RunnerPart, Beginning, JoinIntentFails, RunnerEnds
    <3>1. EventsTyped'
      <4>1. CASE vhandle
        <5>1. events' = Append(events, "Closed") /\ "Closed" \in VoiceEvents /\ Len(events) < EventCap
          BY <2>2, <3>0, <4>1, TaskAssumption DEF JoinIntentFails, VoiceEvents
        <5>2. QED
          BY <1>a, <5>1
      <4>2. CASE ~vhandle
        BY <1>0, <2>2, <4>2 DEF JoinIntentFails, RunnerPart, EventsTyped
      <4>3. QED
        BY <4>1, <4>2
    <3>2. GlobalTyped'
      BY <3>0, TaskAssumption DEF GlobalTyped
    <3>3. TaskTyped' /\ PendingTyped'
      BY <1>0, <3>0 DEF RunnerPart, TaskTyped, PendingTyped
    <3>4. "FullyConnected" \notin Elements(events')
      <4>1. \A i \in 1 .. Len(events') : events'[i] = "Closed"
        BY <2>2, <3>0 DEF JoinIntentFails
      <4>2. QED
        BY <4>1 DEF Elements
    <3>5. Beginning' /\ Ending' /\ Emitting' /\ Announced'
      BY <1>0, <3>0, <3>4 DEF RunnerPart, Beginning, Ending, Emitting, Announced
    <3>6. QED
      BY <3>1, <3>2, <3>3, <3>5 DEF RunnerPart
  <2>3. CASE EmitResumes
    <3>0. /\ tpc = "emit" /\ pending.event \in VoiceEvents /\ tpc' \in {"select", "closing"}
          /\ pending' = NoEvent /\ UNCHANGED <<tstate, info, intent, vhandle, vreq, vrep, gevents>>
      BY <1>0, <2>3 DEF RunnerPart, Emitting, Emittable, EmitResumes, VoiceEvents
    <3>1. EventsTyped' /\ Elements(events') \subseteq Elements(events) \cup {pending.event}
      <4>1. CASE vhandle
        <5>1. events' = Append(events, pending.event) /\ Len(events) < EventCap
          BY <2>3, <4>1 DEF EmitResumes
        <5>2. QED
          BY <1>a, <3>0, <5>1
      <4>2. CASE ~vhandle
        BY <1>0, <2>3, <4>2 DEF EmitResumes, RunnerPart, EventsTyped
      <4>3. QED
        BY <4>1, <4>2
    <3>2. PendingTyped' /\ pending'.event = "none"
      BY <3>0 DEF PendingTyped, NoEvent
    <3>3. TaskTyped' /\ GlobalTyped'
      BY <1>0, <3>0 DEF RunnerPart, TaskTyped, GlobalTyped
    <3>4. Beginning' /\ Ending' /\ Emitting'
      BY <1>0, <3>0, <3>2 DEF RunnerPart, Beginning, Ending, Emitting
    <3>5. Announced'
      BY <1>0, <3>0, <3>1, <3>2 DEF RunnerPart, Announced
    <3>6. QED
      BY <3>1, <3>2, <3>3, <3>4, <3>5 DEF RunnerPart
  <2>4. CASE HandleWrite \/ HandleClose \/ RequestsClosed \/ DiscoveryFails
    <3>0. /\ UNCHANGED <<tstate, info, pending, intent, events, vhandle, gevents>>
          /\ vreq' \in {vreq, "none"} /\ vrep' \in {"ok", "err", vrep}
          /\ tpc \in {"select", "connecting"} /\ tpc' \in {"select", "closing"}
      BY <2>4 DEF HandleWrite, HandleClose, RequestsClosed, DiscoveryFails
    <3>1. TaskTyped' /\ PendingTyped' /\ EventsTyped' /\ GlobalTyped'
      BY <1>0, <3>0 DEF RunnerPart, TaskTyped, PendingTyped, EventsTyped, GlobalTyped
    <3>2. Beginning' /\ Ending' /\ Emitting' /\ Announced'
      BY <1>0, <3>0 DEF RunnerPart, Beginning, Ending, Emitting, Announced
    <3>3. QED
      BY <3>1, <3>2 DEF RunnerPart
  <2>5. CASE HandlePacket
    <3>0. /\ UNCHANGED <<tpc, tstate, info, pending, intent, vhandle, vreq, vrep, gevents>>
          /\ events' = Append(events, "Packet") /\ Len(events) < EventCap /\ "Packet" \in VoiceEvents
          /\ tpc = "select" /\ tstate = "Session"
      BY <2>5 DEF HandlePacket, CanReceive, VoiceEvents
    <3>1. EventsTyped' /\ Elements(events') = Elements(events) \cup {"Packet"}
      BY <1>a, <3>0
    <3>2. TaskTyped' /\ PendingTyped' /\ GlobalTyped'
      BY <1>0, <3>0 DEF RunnerPart, TaskTyped, PendingTyped, GlobalTyped
    <3>3. Beginning' /\ Ending' /\ Emitting' /\ Announced'
      BY <1>0, <3>0, <3>1 DEF RunnerPart, Beginning, Ending, Emitting, Announced
    <3>4. QED
      BY <3>1, <3>2, <3>3 DEF RunnerPart
  <2>6. QED
    BY <2>1, <2>2, <2>3, <2>4, <2>5
<1>4. QED
  BY <1>2, <1>3, TaskParts

\* The steps of the runner that take something from the connection, or give it a
\* command.
LEMMA RunnerConnected ==
    ASSUME TaskInv, HandleGlobal \/ HandleHello \/ HandleReady \/ HandleSession
                    \/ HandleNotice("Notice") \/ HandleNotice("SelfLeft") \/ HandleAck
                    \/ HandleGatewayEnd \/ Discovered \/ CloseRunner
    PROVE  TaskInv'
<1> USE DEF runnerVars, handleVars
<1>0. GatewayPart /\ RunnerPart
  BY TaskParts
<1>m. {"Hello", "Ready", "Session", "Notice", "SelfLeft", "Ack", "Closed", "Unexpected"} \subseteq Messages
  BY DEF Messages, ChatterKinds
<1>k. ASSUME UNCHANGED <<info, pending, intent, events, vhandle, vreq, vrep, gevents>>, tstate' = tstate,
             tpc \in {"select", "connecting"}, tpc' \in {"select", "connecting", "closing"}
      PROVE  RunnerPart'
  <2>1. TaskTyped' /\ PendingTyped' /\ EventsTyped' /\ GlobalTyped'
    BY <1>0, <1>k DEF RunnerPart, TaskTyped, PendingTyped, EventsTyped, GlobalTyped
  <2>2. Beginning' /\ Ending' /\ Emitting' /\ Announced'
    BY <1>0, <1>k DEF RunnerPart, Beginning, Ending, Emitting, Announced
  <2>3. QED
    BY <2>1, <2>2 DEF RunnerPart
<1>g. ASSUME gevents # <<>>, gevents' = Tail(gevents)
      PROVE  GlobalTyped'
  <2>1. gevents \in Seq(GlobalEvents) /\ Len(gevents) <= GlobalCap
    BY <1>0 DEF RunnerPart, GlobalTyped
  <2>2. Tail(gevents) \in Seq(GlobalEvents) /\ Len(Tail(gevents)) = Len(gevents) - 1
    BY <1>g, <2>1, Taken
  <2>3. QED
    BY <1>g, <2>1, <2>2, TaskAssumption DEF GlobalTyped
<1>1. CASE HandleGlobal
  <2>0. /\ tpc = "select" /\ tpc' = "select" /\ GlobalTyped'
        /\ UNCHANGED <<gwOut, heartbeat, gwEvents, peerVars, pending, intent, events, vhandle, vreq, vrep>>
    BY <1>1, <1>g DEF HandleGlobal
  <2>1. GatewayPart' /\ TaskTyped' /\ (tstate' = tstate \/ (tstate = "WaitingForEvents" /\ tstate' = "WaitingForReady"))
    <3>1. CASE UNCHANGED <<tstate, info, sock, gwOwned, gwCmds>>
      <4>1. UNCHANGED gatewayVars
        BY <2>0, <3>1 DEF gatewayVars, socketVars
      <4>2. GatewayPart'
        BY <1>0, <2>0, <3>1, <4>1, GatewayKept
      <4>3. TaskTyped'
        BY <1>0, <2>0, <3>1 DEF RunnerPart, TaskTyped
      <4>4. tstate' = tstate
        BY <3>1
      <4>5. QED
        BY <4>2, <4>3, <4>4
    <3>2. CASE tstate = "WaitingForEvents" /\ StartGateway /\ tstate' = "WaitingForReady" /\ info' = {}
      <4>1. GatewayPart'
        BY <1>0, <2>0, <3>2, StartKeeps
      <4>2. TaskTyped'
        BY <1>0, <2>0, <3>2 DEF RunnerPart, TaskTyped
      <4>3. QED
        BY <3>2, <4>1, <4>2
    <3>3. CASE info' = Applied(Head(gevents)) /\ UNCHANGED <<tstate, sock, gwOwned, gwCmds>>
      <4>1. UNCHANGED gatewayVars
        BY <2>0, <3>3 DEF gatewayVars, socketVars
      <4>2. info' \subseteq Fields
        <5>1. info \subseteq Fields
          BY <1>0 DEF RunnerPart, TaskTyped
        <5>2. QED
          BY <3>3, <5>1 DEF Applied, Fields
      <4>3. GatewayPart'
        BY <1>0, <2>0, <3>3, <4>1, GatewayKept
      <4>4. TaskTyped'
        BY <1>0, <2>0, <3>3, <4>2 DEF RunnerPart, TaskTyped
      <4>5. tstate' = tstate
        BY <3>3
      <4>6. QED
        BY <4>3, <4>4, <4>5
    <3>4. QED
      BY <1>1, <3>1, <3>2, <3>3 DEF HandleGlobal
  <2>2. PendingTyped' /\ EventsTyped'
    BY <1>0, <2>0 DEF RunnerPart, PendingTyped, EventsTyped
  <2>3. Beginning' /\ Ending' /\ Emitting' /\ Announced'
    BY <1>0, <2>0, <2>1 DEF RunnerPart, Beginning, Ending, Emitting, Announced
  <2>4. QED
    BY <2>0, <2>1, <2>2, <2>3, TaskParts DEF RunnerPart
<1>2. CASE HandleHello
  <2>1. tpc' \in {"select", "closing"}
    BY <1>2 DEF HandleHello
  <2>2. GatewayPart'
    BY <1>0, <1>2, <2>1, HelloKeeps DEF HandleHello
  <2>3. RunnerPart'
    BY <1>2, <1>k, <2>1 DEF HandleHello
  <2>4. QED
    BY <2>2, <2>3, TaskParts
<1>3. CASE HandleReady
  <2>0. /\ tpc = "select" /\ TakeGateway("Ready") /\ tstate' = tstate /\ gwCmds' = gwCmds
        /\ tpc' \in {"connecting", "closing", "select"} /\ (tpc' = "connecting" => tstate = "WaitingForReady")
        /\ UNCHANGED <<socketVars, gwOwned, peerVars>>
    BY <1>3 DEF HandleReady
  <2>1. GatewayPart'
    <3>1. CASE tpc' = "connecting"
      BY <1>0, <2>0, <3>1, ReadyKeeps
    <3>2. CASE tpc' # "connecting"
      BY <1>0, <1>m, <2>0, <3>2, GatewayTakes
    <3>3. QED
      BY <3>1, <3>2
  <2>2. RunnerPart'
    BY <1>3, <1>k, <2>0 DEF HandleReady
  <2>3. QED
    BY <2>1, <2>2, TaskParts
<1>4. CASE HandleSession
  <2>0. /\ tpc = "select" /\ TakeGateway("Session")
        /\ UNCHANGED <<socketVars, gwOwned, peerVars, info, intent, vhandle, vreq, vrep, gevents>>
    BY <1>4 DEF HandleSession
  <2>1. CASE UNCHANGED <<gwCmds, tstate, pending, events>> /\ tpc' \in {"select", "closing"}
    <3>1. GatewayPart'
      BY <1>0, <1>m, <2>0, <2>1, GatewayTakes
    <3>2. RunnerPart'
      BY <1>k, <2>0, <2>1
    <3>3. QED
      BY <3>1, <3>2, TaskParts
  <2>2. CASE /\ tstate \in {"Connected", "Session"} /\ tstate' = "Session"
             /\ IF NeedsListen THEN Command("Listen") ELSE UNCHANGED gwCmds
             /\ Emit("FullyConnected", "select")
    <3>1. /\ PendingTyped' /\ EventsTyped' /\ Emitting' /\ tpc' \in {"select", "emit"}
          /\ Elements(events') \cup {pending'.event} \subseteq Elements(events) \cup {"FullyConnected", "none"}
      <4>1. "FullyConnected" \in Emittable /\ "select" \in {"select", "closing"}
        BY DEF Emittable
      <4>2. QED
        BY <1>0, <2>0, <2>2, <4>1, Emitted DEF RunnerPart
    <3>2. GatewayPart'
      BY <1>0, <2>0, <2>2, <3>1, ListenKeeps DEF NeedsListen
    <3>3. TaskTyped' /\ GlobalTyped'
      BY <1>0, <2>0, <2>2, <3>1 DEF RunnerPart, TaskTyped, GlobalTyped
    <3>4. Beginning' /\ Ending' /\ Emitting' /\ Announced'
      BY <1>0, <2>0, <2>2, <3>1 DEF RunnerPart, Beginning, Ending, Announced
    <3>5. QED
      BY <3>1, <3>2, <3>3, <3>4, TaskParts DEF RunnerPart
  <2>3. QED
    BY <1>4, <2>0, <2>1, <2>2 DEF HandleSession
<1>5. ASSUME NEW m \in {"Notice", "SelfLeft"}, HandleNotice(m) PROVE TaskInv'
  <2>0. /\ tpc = "select" /\ TakeGateway(m) /\ gwCmds' = gwCmds /\ tstate' = tstate
        /\ UNCHANGED <<socketVars, gwOwned, peerVars, info, intent, vhandle, vreq, vrep, gevents>>
    BY <1>5 DEF HandleNotice
  <2>1. PICK next \in {"select", "closing"} : Emit("Notice", next)
    BY <1>5 DEF HandleNotice
  <2>2. /\ PendingTyped' /\ EventsTyped' /\ Emitting' /\ tpc' \in {"select", "closing", "emit"}
        /\ Elements(events') \cup {pending'.event} \subseteq Elements(events) \cup {"Notice", "none"}
    <3>1. "Notice" \in Emittable
      BY DEF Emittable
    <3>2. QED
      BY <1>0, <2>0, <2>1, <3>1, Emitted DEF RunnerPart
  <2>3. GatewayPart'
    BY <1>0, <1>m, <2>0, <2>2, GatewayTakes
  <2>4. TaskTyped' /\ GlobalTyped'
    BY <1>0, <2>0, <2>2 DEF RunnerPart, TaskTyped, GlobalTyped
  <2>5. Beginning' /\ Ending' /\ Emitting' /\ Announced'
    BY <1>0, <2>0, <2>2 DEF RunnerPart, Beginning, Ending, Announced
  <2>6. QED
    BY <2>2, <2>3, <2>4, <2>5, TaskParts DEF RunnerPart
<1>6. CASE HandleAck
  <2>1. /\ tpc = "select" /\ UNCHANGED taskVars
        /\ TakeGateway("Ack") /\ gwCmds' = gwCmds /\ UNCHANGED <<socketVars, gwOwned, peerVars>>
    BY <1>6 DEF HandleAck
  <2>2. GatewayPart'
    BY <1>0, <1>m, <2>1, GatewayTakes DEF taskVars
  <2>3. RunnerPart'
    BY <1>k, <2>1 DEF taskVars
  <2>4. QED
    BY <2>2, <2>3, TaskParts
<1>7. CASE HandleGatewayEnd
  <2>0. /\ tpc = "select" /\ tpc' = "closing" /\ tstate' = tstate /\ gwCmds' = gwCmds
        /\ UNCHANGED <<socketVars, gwOwned, peerVars, info, pending, intent, events, vhandle, vreq, vrep, gevents>>
    BY <1>7 DEF HandleGatewayEnd
  <2>1. GatewayPart'
    <3>1. ASSUME NEW m \in {"Closed", "Unexpected"}, TakeGateway(m) PROVE GatewayPart'
      BY <1>0, <1>m, <2>0, <3>1, GatewayTakes
    <3>2. CASE UNCHANGED gwEvents
      BY <1>0, <2>0, <3>2, GatewayKept DEF gatewayVars
    <3>3. QED
      BY <1>7, <3>1, <3>2 DEF HandleGatewayEnd
  <2>2. RunnerPart'
    BY <1>k, <2>0
  <2>3. QED
    BY <2>1, <2>2, TaskParts
<1>8. CASE Discovered
  <2>1. GatewayPart'
    BY <1>0, <1>8, SelectKeeps DEF Discovered
  <2>2. /\ tpc = "connecting" /\ tpc' = "select" /\ tstate' = "Connected" /\ tstate = "WaitingForReady"
        /\ UNCHANGED <<info, pending, intent, events, vhandle, vreq, vrep, gevents>>
    BY <1>0, <1>8 DEF Discovered, GatewayPart, Owning
  <2>3. TaskTyped' /\ PendingTyped' /\ EventsTyped' /\ GlobalTyped'
    BY <1>0, <2>2 DEF RunnerPart, TaskTyped, PendingTyped, EventsTyped, GlobalTyped
  <2>4. Beginning' /\ Ending' /\ Emitting' /\ Announced'
    BY <1>0, <2>2 DEF RunnerPart, Beginning, Ending, Emitting, Announced
  <2>5. QED
    BY <2>1, <2>3, <2>4, TaskParts DEF RunnerPart
<1>9. CASE CloseRunner
  <2>1. /\ tpc' = "done" /\ tstate' = "WaitingForEvents" /\ intent' = "left" /\ info' = {} /\ gevents' = <<>>
        /\ DropGateway("Close") /\ UNCHANGED <<socketVars, peerVars, pending, events, vhandle, vreq, vrep>>
    BY <1>9 DEF CloseRunner, RunnerEnds
  <2>2. GatewayPart'
    BY <1>0, <2>1, DropKeeps
  <2>3. GlobalTyped'
    BY <2>1, TaskAssumption DEF GlobalTyped
  <2>4. TaskTyped' /\ PendingTyped' /\ EventsTyped'
    BY <1>0, <2>1 DEF RunnerPart, TaskTyped, PendingTyped, EventsTyped
  <2>5. Beginning' /\ Ending' /\ Emitting' /\ Announced'
    BY <1>0, <1>9, <2>1 DEF CloseRunner, RunnerPart, Beginning, Ending, Emitting, Announced
  <2>6. QED
    BY <2>2, <2>3, <2>4, <2>5, TaskParts DEF RunnerPart
<1>10. QED
  BY <1>1, <1>2, <1>3, <1>4, <1>5, <1>6, <1>7, <1>8, <1>9

\* The steps of whoever holds the handle, and of the dispatcher.
LEMMA HandleInductive ==
    ASSUME TaskInv, HandleStep \/ \E e \in GlobalKinds : GlobalArrives(e)
    PROVE  TaskInv'
<1> USE DEF runnerVars, handleVars
<1>0. GatewayPart /\ RunnerPart
  BY TaskParts
<1>1. /\ UNCHANGED gatewayVars /\ tstate' = tstate
      /\ tpc' = tpc \/ (tpc = "off" /\ tpc' \in {"spawned", "done"})
      /\ intent' = intent /\ pending' = pending /\ info' \in {info, {}}
      /\ vhandle' \in BOOLEAN /\ vreq' \in {vreq, "none", "Write", "Close"} /\ vrep' \in {vrep, "none"}
  <2>1. vhandle \in BOOLEAN /\ (tpc = "off" => tstate = "WaitingForEvents")
    BY <1>0 DEF RunnerPart, TaskTyped, Beginning
  <2>2. CASE StartTask
    BY <2>1, <2>2 DEF StartTask
  <2>3. CASE Abandon
    BY <2>1, <2>3 DEF Abandon, RunnerEnds
  <2>4. CASE TakeEvent \/ TakeResponse \/ DropHandle
    BY <2>1, <2>4 DEF TakeEvent, TakeResponse, DropHandle
  <2>5. CASE \E r \in {"Write", "Close"} : SendRequest(r)
    BY <2>1, <2>5 DEF SendRequest
  <2>6. CASE \E e \in GlobalKinds : GlobalArrives(e)
    BY <2>1, <2>6 DEF GlobalArrives
  <2>7. QED
    BY <2>2, <2>3, <2>4, <2>5, <2>6 DEF HandleStep
<1>2. GatewayPart'
  BY <1>0, <1>1, GatewayKept
<1>3. TaskTyped' /\ PendingTyped'
  BY <1>0, <1>1 DEF RunnerPart, TaskTyped, PendingTyped
<1>4. EventsTyped' /\ Elements(events') \subseteq Elements(events) /\ (events = <<>> => events' = <<>>)
  <2>0. events \in Seq(VoiceEvents) /\ Len(events) <= EventCap
    BY <1>0 DEF RunnerPart, EventsTyped
  <2>1. CASE TakeEvent
    <3>1. events # <<>> /\ events' = Tail(events)
      BY <2>1 DEF TakeEvent
    <3>2. /\ Tail(events) \in Seq(VoiceEvents) /\ Len(Tail(events)) = Len(events) - 1
          /\ Elements(events) = Elements(Tail(events)) \cup {Head(events)}
      BY <2>0, <3>1, Taken
    <3>3. QED
      BY <2>0, <3>1, <3>2, TaskAssumption DEF EventsTyped
  <2>2. CASE DropHandle
    <3>1. events' = <<>>
      BY <2>2 DEF DropHandle
    <3>2. QED
      BY <3>1, EmptyChannel, TaskAssumption DEF EventsTyped
  <2>3. CASE UNCHANGED events
    BY <2>0, <2>3 DEF EventsTyped
  <2>4. QED
    BY <2>1, <2>2, <2>3
       DEF HandleStep, StartTask, Abandon, TakeResponse, SendRequest, GlobalArrives, RunnerEnds
<1>5. GlobalTyped'
  <2>0. gevents \in Seq(GlobalEvents) /\ Len(gevents) <= GlobalCap
    BY <1>0 DEF RunnerPart, GlobalTyped
  <2>1. ASSUME NEW e \in GlobalKinds, GlobalArrives(e) PROVE GlobalTyped'
    <3>1. gevents' = Append(gevents, e) /\ Len(gevents) < GlobalCap /\ e \in GlobalEvents
      BY <2>1, TaskAssumption DEF GlobalArrives
    <3>2. Append(gevents, e) \in Seq(GlobalEvents) /\ Len(Append(gevents, e)) = Len(gevents) + 1
      BY <2>0, <3>1, Appended
    <3>3. QED
      BY <2>0, <3>1, <3>2, TaskAssumption DEF GlobalTyped
  <2>2. CASE Abandon
    BY <2>2, TaskAssumption DEF Abandon, RunnerEnds, GlobalTyped
  <2>3. CASE UNCHANGED gevents
    BY <2>0, <2>3 DEF GlobalTyped
  <2>4. QED
    BY <2>1, <2>2, <2>3
       DEF HandleStep, StartTask, TakeEvent, TakeResponse, DropHandle, SendRequest
<1>6. Beginning' /\ Ending' /\ Emitting' /\ Announced'
  BY <1>0, <1>1, <1>4 DEF RunnerPart, Beginning, Ending, Emitting, Announced
<1>7. QED
  BY <1>2, <1>3, <1>4, <1>5, <1>6, TaskParts DEF RunnerPart

LEMMA TaskInductive == TaskInv /\ [Next]_vars => TaskInv'
<1> SUFFICES ASSUME TaskInv, [Next]_vars PROVE TaskInv'
  OBVIOUS
<1>1. CASE SocketStep /\ UNCHANGED taskVars
  BY <1>1, SocketInductive
<1>2. CASE RunnerStep
  BY <1>2, RunnerAlone, RunnerConnected DEF RunnerStep
<1>3. CASE HandleStep \/ \E e \in GlobalKinds : GlobalArrives(e)
  BY <1>3, HandleInductive
<1>4. CASE UNCHANGED vars
  <2>1. UNCHANGED <<gatewayVars, tpc, tstate, info, pending, intent, events, vhandle, vreq, vrep, gevents>>
    BY <1>4 DEF vars, taskVars, runnerVars, handleVars
  <2>2. GatewayPart'
    BY <2>1, TaskParts, GatewayKept
  <2>3. TaskTyped' /\ PendingTyped' /\ EventsTyped' /\ GlobalTyped'
    BY <2>1, TaskParts DEF RunnerPart, TaskTyped, PendingTyped, EventsTyped, GlobalTyped
  <2>4. Beginning' /\ Ending' /\ Emitting' /\ Announced'
    BY <2>1, TaskParts DEF RunnerPart, Beginning, Ending, Emitting, Announced
  <2>5. QED
    BY <2>2, <2>3, <2>4, TaskParts DEF RunnerPart
<1>5. QED
  BY <1>1, <1>2, <1>3, <1>4 DEF Next

-----------------------------------------------------------------------------
\* The inductive invariant holds of every voice task.
THEOREM Invariance == Spec => []TaskInv
  BY InitHolds, TaskInductive, PTL DEF Spec

\* The voice task's variables have their types, and no bounded channel of its own
\* or of the socket task is overrun.
THEOREM TypeCorrect == Spec => []TypeOK
  BY Invariance, PTL DEF TaskInv

\* However the runner ends, it has taken back the join it announced (close).
THEOREM JoinTakenBack == Spec => []LeaveFollowsJoin
<1>1. TaskInv => LeaveFollowsJoin
  BY DEF TaskInv, Ending, LeaveFollowsJoin
<1>2. QED
  BY <1>1, Invariance, PTL

\* Sending a command to the socket task never waits, with channels that have room
\* for three commands: the code's have room for eight.
THEOREM CommandsFindRoom == Spec => []CommandsNeverBlock
<1>1. TaskInv => CommandsNeverBlock
  <2> SUFFICES ASSUME TaskInv PROVE CommandsNeverBlock
    OBVIOUS
  <2>1. gwCmds \in Seq(Commands) /\ CommandsOnce
    BY DEF TaskInv, TypeOK, GatewayTypeOK
  <2>2. Len(gwCmds) <= 3 /\ Len(gwCmds) \in Nat
    BY <2>1, ThreeCommands
  <2>3. QED
    BY <2>2, GatewayAssumption DEF CommandsNeverBlock
<1>2. QED
  BY <1>1, Invariance, PTL

\* A call that learns it is fully connected gets audio: the SessionDescription
\* handler has asked for it with the listen packet.
THEOREM ConnectedMeansListening == Spec => []FullyConnectedMeansListening
<1>1. TaskInv => FullyConnectedMeansListening
  BY DEF TaskInv, Announced, Ending, Owning, InStep, Queued, FullyConnectedMeansListening
<1>2. QED
  BY <1>1, Invariance, PTL

\* The commands of a connection reach the voice server in the protocol's order,
\* whatever waits in the channels between the runner and the socket.
THEOREM ProtocolInOrder == Spec => CommandsInOrder
<1> DEFINE Ordered == /\ listening' /\ ~listening => peer \in {"selected", "session"}
                      /\ peer' = "selected" /\ peer # "selected" => peer = "ready"
<1>1. TaskInv /\ [Next]_vars => [Ordered]_vars
  <2> SUFFICES ASSUME TaskInv, Next PROVE Ordered
    BY DEF vars
  <2>1. CASE SockSends
    <3>1. sock = "open" /\ Queued(Head(gwCmds))
      <4>1. gwCmds \in Seq(Commands) /\ gwCmds # <<>>
        BY <2>1 DEF SockSends, TaskInv, TypeOK, GatewayTypeOK
      <4>2. QED
        BY <2>1, <4>1, Taken DEF SockSends, Selecting, Queued
    <3>2. CASE SockEnds
      BY <3>2 DEF SockEnds
    <3>3. CASE PeerReceives(Head(gwCmds))
      BY <2>1, <3>1, <3>3 DEF TaskInv, InStep, PeerReceives, SockSends
    <3>4. QED
      BY <2>1, <3>2, <3>3 DEF SockSends
  <2>2. CASE SockConnect \/ SockSetsHeartbeat \/ SockCloses \/ SockForwards \/ SockFails
    BY <2>2 DEF SockConnect, SockSetsHeartbeat, SockCloses, SockForwards, SockFails, ForwardFails,
                SockEnds, peerVars
  <2>3. ASSUME NEW m \in Messages, SockReceives(m) PROVE Ordered
    BY <2>3 DEF SockReceives, ForwardFails, SockEnds, PeerSends
  <2>4. CASE RunnerStep \/ HandleStep \/ \E e \in GlobalKinds : GlobalArrives(e)
    <3>1. UNCHANGED <<peer, listening>>
      <4>1. CASE \/ JoinIntent \/ JoinIntentFails \/ EmitResumes \/ CloseRunner
                 \/ HandleWrite \/ HandleClose \/ RequestsClosed \/ HandlePacket \/ DiscoveryFails
        BY <4>1 DEF JoinIntent, JoinIntentFails, EmitResumes, CloseRunner, HandleWrite, HandleClose,
                    RequestsClosed, HandlePacket, DiscoveryFails, gatewayVars, peerVars
      <4>2. CASE \/ HandleGlobal \/ HandleHello \/ HandleReady \/ HandleSession \/ Discovered
                 \/ HandleNotice("Notice") \/ HandleNotice("SelfLeft") \/ HandleAck \/ HandleGatewayEnd
        BY <4>2 DEF HandleGlobal, HandleHello, HandleReady, HandleSession, Discovered,
                    HandleNotice, HandleAck, HandleGatewayEnd, peerVars
      <4>3. CASE HandleStep
        BY <4>3 DEF HandleStep, StartTask, Abandon, TakeEvent, TakeResponse, DropHandle, SendRequest,
                    gatewayVars, peerVars
      <4>4. CASE \E e \in GlobalKinds : GlobalArrives(e)
        BY <4>4 DEF GlobalArrives, gatewayVars, peerVars
      <4>5. QED
        BY <2>4, <4>1, <4>2, <4>3, <4>4 DEF RunnerStep
    <3>2. QED
      BY <3>1
  <2>5. QED
    BY <2>1, <2>2, <2>3, <2>4 DEF Next, SocketStep
<1>2. QED
  BY <1>1, Invariance, PTL DEF Spec, CommandsInOrder
=============================================================================
