------------------------- MODULE DiscordCallProofs -------------------------
(***************************************************************************)
(* Proofs about DiscordCall: a whole call, with its Asterisk threads, its  *)
(* worker, its voice task and its socket.                                  *)
(*                                                                         *)
(* A call is first shown to use its voice task as VoiceTask allows, so     *)
(* that what VoiceTaskProofs says of the task holds in a call too.         *)
(***************************************************************************)
EXTENDS DiscordCall, VoiceTaskProofs

\* A callback holds the lock and has one request under way.
Callbacks == /\ lock <=> callback # "none"
             /\ callback # "none" => handle = "owned"
             /\ areq # "none" => areq = callback /\ arep = "none"
             /\ arep # "none" => callback # "none"

\* The worker waits for the voice task on behalf of a callback that waits for it.
Serving == /\ wpc = "awaitWrite" => callback = "WriteFrame" /\ areq = "none" /\ arep = "none"
           /\ wpc \in {"awaitClose", "awaitTask"}
                 => callback = "HangUp" /\ areq = "none" /\ arep = "none"
           /\ wpc \in {"select", "awaitWrite", "answering"} => voice \in {"Prepare", "Started"}
           /\ wpc = "answering" => intent # "none"
           /\ wpc = "hangingUp" => tpc = "done"
           /\ callback = "HangUp" /\ arep # "none" => wpc = "done"

\* A worker that has ended has seen to its voice task and to Asterisk.
WorkerEnded == /\ NoTaskWithoutWorker /\ RemoteEndQueuesHangup
               /\ handle = "released" => wpc = "done"
               /\ hungUp => wpc = "done" /\ tpc = "done"

\* The call is told that it is fully connected before it is given audio.
SaidConnected == answered \/ wpc = "answering"
AudioInOrder ==
    /\ AudioOnlyAfterAnswer
    /\ \A i \in 1 .. Len(events) :
          events[i] = "Packet" => SaidConnected \/ \E j \in 1 .. i - 1 : events[j] = "FullyConnected"
    /\ tstate = "Session" /\ vhandle
          => SaidConnected \/ "FullyConnected" \in Elements(events) \cup {pending.event}

ChannelTypes == /\ lock \in BOOLEAN /\ answered \in BOOLEAN /\ hungUp \in BOOLEAN /\ heard \in BOOLEAN
                /\ queue \in 0 .. QueueBound
CallInv == /\ ChannelTypes /\ WorkerTypeOK /\ callback \in Requests \cup {"none"}
           /\ Callbacks /\ Serving /\ WorkerEnded /\ AudioInOrder

-----------------------------------------------------------------------------
(***************************************************************************)
(* The call as the owner of a voice task.                                  *)
(***************************************************************************)

\* What is dropped at the end of the worker leaves the handle's way.
LEMMA DropVoiceSteps == DropVoice => HandleStep \/ UNCHANGED vars
  BY DEF DropVoice, HandleStep

\* What the worker does to the voice task, the holder of its handle may do.
LEMMA WorkerSteps == WorkerStep \/ Answers \/ HangsUp => HandleStep \/ UNCHANGED vars
<1> SUFFICES ASSUME WorkerStep \/ Answers \/ HangsUp PROVE HandleStep \/ UNCHANGED vars
  OBVIOUS
<1>1. CASE HandleJoin \/ HandleWriteFrame \/ WriteReturns \/ CloseReturns \/ TaskReturns
  BY <1>1 DEF HandleJoin, HandleWriteFrame, WriteReturns, CloseReturns, TaskReturns, HandleStep
<1>2. CASE HandleHangUp \/ HandleGone \/ HangsUp
  BY <1>2, DropVoiceSteps DEF HandleHangUp, HandleGone, HangsUp, HandleStep
<1>3. CASE HandleFixUp \/ EventsEnded \/ HandleMixed \/ Answers
  BY <1>3 DEF HandleFixUp, EventsEnded, HandleMixed, Answers
<1>4. CASE HandleConnected \/ HandleMedia \/ HandleClosed
  BY <1>4 DEF HandleConnected, HandleMedia, HandleClosed, HandleStep
<1>5. QED
  BY <1>1, <1>2, <1>3, <1>4 DEF WorkerStep

\* Asterisk's threads do not touch the voice task.
LEMMA AsteriskSteps == AsteriskStep \/ QueueThreadStep => UNCHANGED vars
  BY DEF AsteriskStep, QueueThreadStep, Enter, ReturnCall, ReturnWrite, ReturnHangup, ReturnFixup, Return

LEMMA StepsOfTask == [CallNext]_allVars => [Next]_vars
<1> SUFFICES ASSUME [CallNext]_allVars PROVE [Next]_vars
  OBVIOUS
<1>1. CASE UNCHANGED allVars
  BY <1>1 DEF allVars
<1>2. CASE \/ SocketStep /\ UNCHANGED <<taskVars, callVars>>
           \/ RunnerStep \/ \E e \in GlobalKinds : GlobalArrives(e)
  BY <1>2 DEF Next
<1>3. CASE WorkerStep \/ Answers \/ HangsUp
  BY <1>3, WorkerSteps DEF Next
<1>4. CASE AsteriskStep \/ QueueThreadStep
  BY <1>4, AsteriskSteps
<1>5. QED
  BY <1>1, <1>2, <1>3, <1>4 DEF CallNext

\* Calls are made of the steps of voice tasks, so what is proved of those holds of
\* the voice task of a call.
LEMMA CallIsOfTask == CallSpec => Spec
<1>1. CallInit => Init
  BY DEF CallInit
<1>2. QED
  BY <1>1, StepsOfTask, PTL DEF CallSpec, Spec

LEMMA TaskInvOfCall == CallSpec => []TaskInv
  BY CallIsOfTask, Invariance, PTL

-----------------------------------------------------------------------------
(***************************************************************************)
(* The call's inductive invariant.                                         *)
(***************************************************************************)
LEMMA CallInitHolds == CallInit => CallInv
<1> SUFFICES ASSUME CallInit PROVE CallInv
  OBVIOUS
<1> USE DEF CallInit, ChannelInit, WorkerInit
<1>1. ChannelTypes /\ WorkerTypeOK /\ callback \in Requests \cup {"none"}
  <2>0. queue \in 0 .. QueueBound
    BY QueueAssumption
  <2>1. ChannelTypes
    BY <2>0, Zenon DEF ChannelTypes
  <2>2. WorkerTypeOK /\ callback \in Requests \cup {"none"}
    BY DEF WorkerTypeOK
  <2>3. QED
    BY <2>1, <2>2
<1>2. Callbacks /\ Serving /\ WorkerEnded
  BY DEF Callbacks, Serving, WorkerEnded, NoTaskWithoutWorker, RemoteEndQueuesHangup
<1>3. AudioInOrder
  <2>1. events = <<>> /\ tstate = "WaitingForEvents"
    BY DEF Init, TaskInit
  <2>2. QED
    BY <2>1 DEF AudioInOrder, AudioOnlyAfterAnswer
<1>4. QED
  BY <1>1, <1>2, <1>3 DEF CallInv

\* The call has been told that it is fully connected, or will be.
Told == "FullyConnected" \in Elements(events) \cup {pending.event}

\* What a step of the runner is to the call.
LEMMA RunnerEffect ==
    ASSUME TaskInv, RunnerStep
    PROVE  /\ vhandle' = vhandle /\ tpc # "done" /\ (intent # "none" => intent' # "none")
           /\ \/ events' = events
              \/ \E e \in VoiceEvents : /\ events' = Append(events, e)
                                        /\ e = "Packet" => tstate = "Session" /\ vhandle /\ tpc = "select"
           /\ tstate' = "Session" /\ vhandle => Told' \/ (tstate = "Session" /\ ~Told)
<1> USE DEF runnerVars, handleVars
<1>0. /\ events \in Seq(VoiceEvents) /\ Emitting
      /\ tpc \in {"off", "spawned", "select", "emit", "connecting", "closing", "done"}
  BY DEF TaskInv, TypeOK
<1>a. \A e \in VoiceEvents : Elements(Append(events, e)) = Elements(events) \cup {e}
  BY <1>0, Appended
<1>1. CASE JoinIntent \/ HandleWrite \/ HandleClose \/ RequestsClosed \/ DiscoveryFails
           \/ HandleHello \/ HandleReady \/ HandleAck \/ HandleGatewayEnd
  <2>1. UNCHANGED <<vhandle, events, pending, tstate>> /\ tpc # "done" /\ intent' \in {intent, "joined"}
    BY <1>1 DEF JoinIntent, HandleWrite, HandleClose, RequestsClosed, DiscoveryFails, HandleHello,
                HandleReady, HandleAck, HandleGatewayEnd, taskVars
  <2>2. QED
    BY <2>1 DEF Told
<1>2. CASE HandleGlobal \/ Discovered \/ CloseRunner
  <2>1. /\ UNCHANGED <<vhandle, events, pending>> /\ tpc # "done" /\ intent' \in {intent, "left"}
        /\ tstate' = "Session" => tstate = "Session"
    BY <1>2 DEF HandleGlobal, Discovered, CloseRunner, RunnerEnds
  <2>2. QED
    BY <2>1 DEF Told
<1>3. CASE JoinIntentFails
  <2>1. "Closed" \in VoiceEvents
    BY DEF VoiceEvents
  <2>2. QED
    BY <1>3, <2>1 DEF JoinIntentFails, RunnerEnds
<1>4. CASE EmitResumes
  <2>1. /\ tpc = "emit" /\ pending.event \in VoiceEvents /\ pending.event # "Packet"
        /\ UNCHANGED <<vhandle, tstate, intent>>
    BY <1>0, <1>4 DEF EmitResumes, Emitting, Emittable, VoiceEvents
  <2>2. CASE vhandle
    <3>1. events' = Append(events, pending.event)
      BY <1>4, <2>2 DEF EmitResumes
    <3>2. QED
      BY <1>a, <2>1, <3>1 DEF Told
  <2>3. CASE ~vhandle
    BY <1>4, <2>1, <2>3 DEF EmitResumes
  <2>4. QED
    BY <2>2, <2>3
<1>5. CASE HandlePacket
  <2>1. /\ events' = Append(events, "Packet") /\ "Packet" \in VoiceEvents
        /\ tstate = "Session" /\ vhandle /\ tpc = "select"
        /\ UNCHANGED <<vhandle, tstate, intent, pending>>
    BY <1>5 DEF HandlePacket, CanReceive, VoiceEvents
  <2>2. QED
    BY <1>a, <2>1 DEF Told
<1>6. ASSUME NEW e \in Emittable, NEW next, Emit(e, next)
      PROVE  /\ events' = events \/ events' = Append(events, e)
             /\ vhandle => e \in Elements(events') \cup {pending'.event}
             /\ e \in VoiceEvents /\ e # "Packet"
             /\ Elements(events) \subseteq Elements(events')
  <2>0. e \in VoiceEvents /\ e # "Packet"
    BY DEF Emittable, VoiceEvents
  <2>1. CASE ~vhandle /\ UNCHANGED <<events, pending>>
    BY <2>0, <2>1
  <2>2. CASE events' = Append(events, e)
    BY <1>a, <2>0, <2>2
  <2>3. CASE pending' = [event |-> e, next |-> next] /\ UNCHANGED events
    BY <2>0, <2>3
  <2>4. QED
    BY <1>6, <2>1, <2>2, <2>3 DEF Emit
<1>7. CASE HandleSession
  <2>0. tpc = "select" /\ UNCHANGED <<vhandle, intent>>
    BY <1>7 DEF HandleSession
  <2>1. CASE UNCHANGED <<tstate, pending, events>>
    BY <2>0, <2>1 DEF Told
  <2>2. CASE Emit("FullyConnected", "select")
    <3>1. "FullyConnected" \in Emittable
      BY DEF Emittable
    <3>2. QED
      BY <1>6, <2>0, <2>2, <3>1 DEF Told
  <2>3. QED
    BY <1>7, <2>1, <2>2 DEF HandleSession
<1>8. ASSUME NEW m \in {"Notice", "SelfLeft"}, HandleNotice(m)
      PROVE  /\ vhandle' = vhandle /\ tpc = "select" /\ intent' = intent
             /\ events' = events \/ events' = Append(events, "Notice")
             /\ tstate' = tstate /\ (Told => Told')
  <2>1. tpc = "select" /\ UNCHANGED <<vhandle, intent, tstate>> /\ "Notice" \in Emittable
    BY <1>8 DEF HandleNotice, Emittable
  <2>2. PICK next : Emit("Notice", next)
    BY <1>8 DEF HandleNotice
  <2>3. pending.event = "none"
    BY <1>0, <2>1 DEF Emitting
  <2>4. QED
    BY <1>6, <2>1, <2>2, <2>3 DEF Told
<1>9. CASE HandleNotice("Notice") \/ HandleNotice("SelfLeft")
  <2>1. "Notice" \in VoiceEvents
    BY DEF VoiceEvents
  <2>2. QED
    BY <1>8, <1>9, <2>1
<1>10. QED
  BY <1>1, <1>2, <1>3, <1>4, <1>5, <1>7, <1>9 DEF RunnerStep

\* The voice task runs on its own.
LEMMA TaskAlone ==
    ASSUME TaskInv, CallInv, UNCHANGED callVars,
           \/ SocketStep /\ UNCHANGED taskVars
           \/ RunnerStep
           \/ \E e \in GlobalKinds : GlobalArrives(e)
    PROVE  CallInv'
<1> USE DEF callVars, channelVars, workerVars, requestVars
<1>1. /\ vhandle' = vhandle /\ (tpc = "done" => tpc' = "done") /\ (intent # "none" => intent' # "none")
      /\ \/ events' = events
         \/ \E e \in VoiceEvents : /\ events' = Append(events, e)
                                   /\ e = "Packet" => tstate = "Session" /\ vhandle /\ tpc = "select"
      /\ tstate' = "Session" /\ vhandle => Told' \/ (tstate = "Session" /\ ~Told)
  <2>1. CASE RunnerStep
    BY <2>1, RunnerEffect
  <2>2. CASE UNCHANGED <<vhandle, tpc, intent, events, pending, tstate>>
    BY <2>2 DEF Told
  <2>3. QED
    BY <2>1, <2>2 DEF taskVars, runnerVars, handleVars, GlobalArrives
<1>2. ChannelTypes' /\ WorkerTypeOK' /\ callback' \in Requests \cup {"none"} /\ Callbacks' /\ Serving'
  BY <1>1 DEF CallInv, ChannelTypes, WorkerTypeOK, Callbacks, Serving
<1>3. WorkerEnded'
  BY <1>1 DEF CallInv, WorkerEnded, NoTaskWithoutWorker, RemoteEndQueuesHangup
<1>4. AudioInOrder'
  <2>1. AudioOnlyAfterAnswer' /\ SaidConnected' = SaidConnected
    BY DEF CallInv, AudioInOrder, AudioOnlyAfterAnswer, SaidConnected
  <2>2. tstate' = "Session" /\ vhandle' => SaidConnected' \/ Told'
    BY <1>1, <2>1 DEF CallInv, AudioInOrder, Told
  <2>3. ASSUME NEW i \in 1 .. Len(events'), events'[i] = "Packet"
        PROVE  SaidConnected' \/ \E j \in 1 .. i - 1 : events'[j] = "FullyConnected"
    <3>0. events \in Seq(VoiceEvents)
      BY DEF TaskInv, TypeOK
    <3>1. CASE events' = events
      BY <2>1, <2>3, <3>1 DEF CallInv, AudioInOrder
    <3>2. ASSUME NEW e \in VoiceEvents, events' = Append(events, e),
                 e = "Packet" => tstate = "Session" /\ vhandle /\ tpc = "select"
          PROVE  SaidConnected' \/ \E j \in 1 .. i - 1 : events'[j] = "FullyConnected"
      <4>1. /\ Len(events') = Len(events) + 1 /\ Len(events) \in Nat
            /\ \A j \in 1 .. Len(events) : events'[j] = events[j]
            /\ events'[Len(events) + 1] = e
        BY <3>0, <3>2
      <4>2. CASE i \in 1 .. Len(events)
        <5>1. SaidConnected \/ \E j \in 1 .. i - 1 : events[j] = "FullyConnected"
          BY <2>3, <4>1, <4>2 DEF CallInv, AudioInOrder
        <5>2. \A j \in 1 .. i - 1 : events'[j] = events[j]
          BY <4>1, <4>2
        <5>3. QED
          BY <2>1, <5>1, <5>2
      <4>3. CASE i = Len(events) + 1
        <5>1. tstate = "Session" /\ vhandle /\ pending.event = "none"
          BY <2>3, <3>2, <4>1, <4>3 DEF TaskInv, Emitting
        <5>2. SaidConnected \/ "FullyConnected" \in Elements(events)
          BY <5>1 DEF CallInv, AudioInOrder
        <5>3. "FullyConnected" \in Elements(events)
                 => \E j \in 1 .. i - 1 : events'[j] = "FullyConnected"
          BY <4>1, <4>3 DEF Elements
        <5>4. QED
          BY <2>1, <5>2, <5>3
      <4>4. QED
        BY <2>3, <4>1, <4>2, <4>3
    <3>3. QED
      BY <1>1, <3>1, <3>2
  <2>4. QED
    BY <2>1, <2>2, <2>3 DEF AudioInOrder, Told
<1>5. QED
  BY <1>2, <1>3, <1>4 DEF CallInv

\* The worker takes events in their order, and the first one that matters is
\* that of the session.
LEMMA AudioKept ==
    ASSUME AudioInOrder, events \in Seq(VoiceEvents), AudioOnlyAfterAnswer', SaidConnected => SaidConnected',
           UNCHANGED <<tstate, pending>>, tstate = "Session" /\ vhandle' => vhandle,
           \/ events' = events
           \/ events' = <<>> /\ ~vhandle'
           \/ events # <<>> /\ events' = Tail(events) /\ (Head(events) = "FullyConnected" => SaidConnected')
    PROVE  AudioInOrder'
<1>1. CASE events' = events
  BY <1>1 DEF AudioInOrder
<1>2. CASE events' = <<>> /\ ~vhandle'
  BY <1>2 DEF AudioInOrder
<1>3. CASE events # <<>> /\ events' = Tail(events) /\ (Head(events) = "FullyConnected" => SaidConnected')
  <2>1. /\ Len(events') = Len(events) - 1 /\ Len(events) \in Nat /\ Len(events) >= 1 /\ Head(events) = events[1]
        /\ \A i \in 1 .. Len(events) - 1 : events'[i] = events[i + 1]
    BY <1>3
  <2>2. Elements(events) = Elements(events') \cup {Head(events)}
    BY <1>3, Taken
  <2>3. tstate' = "Session" /\ vhandle' => SaidConnected' \/ "FullyConnected" \in Elements(events') \cup {pending'.event}
    BY <1>3, <2>2 DEF AudioInOrder
  <2>4. ASSUME NEW i \in 1 .. Len(events'), events'[i] = "Packet", ~SaidConnected'
        PROVE  \E j \in 1 .. i - 1 : events'[j] = "FullyConnected"
    <3>1. i + 1 \in 1 .. Len(events) /\ events[i + 1] = "Packet" /\ i + 1 - 1 = i
      BY <2>1, <2>4
    <3>2. PICK j \in 1 .. i : events[j] = "FullyConnected"
      BY <2>4, <3>1 DEF AudioInOrder
    <3>3. j # 1
      BY <1>3, <2>1, <2>4, <3>2
    <3>4. j - 1 \in 1 .. i - 1 /\ events'[j - 1] = events[j]
      BY <2>1, <3>2, <3>3
    <3>5. QED
      BY <3>2, <3>4
  <2>5. QED
    BY <2>3, <2>4 DEF AudioInOrder
<1>4. QED
  BY <1>1, <1>2, <1>3

\* Callbacks begin and return, and the queue thread delivers audio.
LEMMA AsteriskKeeps ==
    ASSUME TaskInv, CallInv, AsteriskStep \/ QueueThreadStep
    PROVE  CallInv'
<1> USE DEF channelVars, workerVars, requestVars
<1>q. queue \in 0 .. QueueBound /\ queue \in Nat
  BY QueueAssumption DEF CallInv, ChannelTypes
<1>0. /\ UNCHANGED vars /\ UNCHANGED <<wpc, voice, mixing, hungUp, answered>>
      /\ heard' = heard \/ queue > 0
      /\ queue' \in 0 .. QueueBound /\ queue' <= queue
  <2>1. CASE AsteriskStep
    <3>1. UNCHANGED <<answered, hungUp, heard, queue>>
      BY <2>1 DEF AsteriskStep, Enter, ReturnCall, ReturnWrite, ReturnHangup, ReturnFixup, Return, SetLock
    <3>2. UNCHANGED vars /\ UNCHANGED <<wpc, voice, mixing>>
      BY <2>1 DEF AsteriskStep, Enter, ReturnCall, ReturnWrite, ReturnHangup, ReturnFixup, Return
    <3>3. QED
      BY <1>q, <3>1, <3>2
  <2>2. CASE QueueThreadStep
    <3>1. UNCHANGED vars /\ UNCHANGED <<wpc, voice, mixing, hungUp, answered>>
      BY <2>2 DEF QueueThreadStep, WriteFrame
    <3>2. queue > 0 /\ queue' = queue - 1
      BY <2>2 DEF QueueThreadStep, WriteFrame
    <3>3. QED
      BY <1>q, <3>1, <3>2, QueueAssumption
  <2>3. QED
    BY <2>1, <2>2
<1>b. lock' \in BOOLEAN /\ heard' \in BOOLEAN
  <2>1. lock \in BOOLEAN /\ heard \in BOOLEAN
    BY DEF CallInv, ChannelTypes
  <2>2. ASSUME NEW held \in BOOLEAN, SetLock(held) PROVE lock' \in BOOLEAN /\ heard' = heard
    BY <2>2, Zenon DEF SetLock
  <2>3. CASE AsteriskStep
    BY <2>1, <2>2, <2>3, Zenon
       DEF AsteriskStep, Enter, ReturnCall, ReturnWrite, ReturnHangup, ReturnFixup, Return
  <2>4. CASE QueueThreadStep
    BY <2>1, <2>4, Zenon DEF QueueThreadStep, WriteFrame
  <2>5. QED
    BY <2>3, <2>4
<1>1. UNCHANGED <<vhandle, tpc, intent, events, pending, tstate>>
  BY <1>0 DEF vars, taskVars, runnerVars, handleVars
<1>2. ChannelTypes'
  BY <1>0, <1>b DEF CallInv, ChannelTypes
<1>3. AudioInOrder'
  <2>1. events \in Seq(VoiceEvents)
    BY DEF TaskInv, TypeOK
  <2>2. AudioOnlyAfterAnswer'
    BY <1>0, QueueAssumption DEF CallInv, ChannelTypes, AudioInOrder, AudioOnlyAfterAnswer
  <2>3. SaidConnected => SaidConnected'
    BY <1>0 DEF SaidConnected
  <2>4. QED
    BY <1>1, <2>1, <2>2, <2>3, AudioKept DEF CallInv
<1>4. WorkerTypeOK' /\ callback' \in Requests \cup {"none"}
  <2>1. areq' \in Requests \cup {"none"} /\ arep' \in {"none", "ok", "err", "dropped"}
        /\ handle' \in {"owned", "released", "freed"} /\ callback' \in Requests \cup {"none"}
    BY DEF AsteriskStep, QueueThreadStep, Enter, ReturnCall, ReturnWrite, ReturnHangup, ReturnFixup,
           Return, CallInv, WorkerTypeOK
  <2>2. QED
    BY <1>0, <2>1 DEF CallInv, WorkerTypeOK
<1>5. CASE QueueThreadStep
  <2>1. UNCHANGED <<lock, handle, areq, arep, callback>>
    BY <1>5 DEF QueueThreadStep, WriteFrame
  <2>2. Callbacks' /\ Serving'
    BY <1>0, <1>1, <2>1 DEF CallInv, Callbacks, Serving
  <2>3. WorkerEnded'
    BY <1>0, <1>1, <2>1 DEF CallInv, WorkerEnded, NoTaskWithoutWorker, RemoteEndQueuesHangup
  <2>4. QED
    BY <1>2, <1>3, <1>4, <2>2, <2>3 DEF CallInv
<1>6. ASSUME NEW r \in Requests, Enter(r) PROVE CallInv'
  <2>1. /\ handle = "owned" /\ callback = "none" /\ callback' = r /\ areq' \in {r, "none"}
        /\ lock' = TRUE /\ UNCHANGED <<handle, arep>> /\ (wpc = "done" => areq' = "none")
    BY <1>6 DEF Enter, SetLock
  <2>2. r # "none" /\ (callback = "none" => arep = "none")
    BY DEF Requests, CallInv, Callbacks
  <2>3. Callbacks' /\ Serving'
    BY <1>0, <1>1, <2>1, <2>2 DEF CallInv, Callbacks, Serving
  <2>4. WorkerEnded'
    BY <1>0, <1>1, <2>1 DEF CallInv, WorkerEnded, NoTaskWithoutWorker, RemoteEndQueuesHangup
  <2>5. QED
    BY <1>2, <1>3, <1>4, <2>3, <2>4 DEF CallInv
<1>7. ASSUME NEW r \in Requests, Return(r),
             IF r = "HangUp" THEN handle' = "released" ELSE handle' \in {handle, "freed"}
      PROVE  CallInv'
  <2>1. /\ callback = r /\ Responded /\ callback' = "none" /\ areq' = "none" /\ arep' = "none"
        /\ lock' = FALSE /\ r # "none"
    BY <1>7 DEF Return, SetLock, Requests
  <2>2. /\ wpc = "awaitWrite" => callback = "WriteFrame" /\ arep = "none"
        /\ wpc \in {"awaitClose", "awaitTask"} => callback = "HangUp" /\ arep = "none"
    BY DEF CallInv, Serving
  <2>3. Callbacks' /\ Serving'
    BY <1>0, <1>1, <2>1, <2>2 DEF CallInv, Callbacks, Serving, Responded
  <2>4. WorkerEnded'
    BY <1>0, <1>1, <1>7, <2>1 DEF CallInv, Callbacks, Serving, Responded, WorkerEnded,
                                  NoTaskWithoutWorker, RemoteEndQueuesHangup
  <2>5. QED
    BY <1>2, <1>3, <1>4, <2>3, <2>4 DEF CallInv
<1>8. QED
  <2>1. {"JoinChannel", "WriteFrame", "HangUp", "FixUp"} = Requests
    BY DEF Requests
  <2>2. QED
    BY <1>5, <1>6, <1>7, <2>1 DEF AsteriskStep, ReturnCall, ReturnWrite, ReturnHangup, ReturnFixup

\* What the holder of the handle does leaves the runner where it is.
LEMMA HolderEffect ==
    ASSUME TaskInv, HandleStep \/ UNCHANGED vars
    PROVE  /\ UNCHANGED <<tstate, pending, intent>>
           /\ tpc' = tpc \/ (tpc = "off" /\ tpc' \in {"spawned", "done"})
           /\ tstate = "Session" /\ vhandle' => vhandle
<1> USE DEF runnerVars, handleVars
<1>0. tpc = "off" => tstate = "WaitingForEvents"
  BY DEF TaskInv, Beginning
<1>1. CASE StartTask
  BY <1>0, <1>1 DEF StartTask
<1>2. CASE Abandon
  BY <1>0, <1>2 DEF Abandon, RunnerEnds
<1>3. CASE TakeEvent \/ TakeResponse \/ DropHandle
  BY <1>3 DEF TakeEvent, TakeResponse, DropHandle
<1>4. CASE \E r \in {"Write", "Close"} : SendRequest(r)
  BY <1>4 DEF SendRequest
<1>5. CASE UNCHANGED vars
  BY <1>5 DEF vars, taskVars
<1>6. QED
  BY <1>1, <1>2, <1>3, <1>4, <1>5 DEF HandleStep

LEMMA DropVoiceEffect ==
    ASSUME TaskInv, DropVoice
    PROVE  /\ events' = events \/ (events' = <<>> /\ ~vhandle')
           /\ tpc' = "done" \/ ~vhandle' \/ voice \in {"ShutLocal", "ShutRemote"}
           /\ voice = "Prepare" => tpc' = "done"
<1> USE DEF runnerVars, handleVars
<1>1. CASE voice = "Prepare" /\ Abandon
  BY <1>1 DEF Abandon, RunnerEnds
<1>2. CASE voice = "Started" /\ DropHandle
  BY <1>2 DEF DropHandle
<1>3. CASE voice \in {"ShutLocal", "ShutRemote"} /\ UNCHANGED vars
  BY <1>3 DEF vars, taskVars
<1>4. QED
  BY <1>1, <1>2, <1>3 DEF DropVoice

\* The worker's steps.
LEMMA WorkerKeeps ==
    ASSUME TaskInv, CallInv, WorkerStep \/ Answers \/ HangsUp, UNCHANGED callback
    PROVE  CallInv'
<1> USE DEF channelVars, workerVars, requestVars
<1>e. /\ UNCHANGED <<tstate, pending, intent>>
      /\ tpc' = tpc \/ (tpc = "off" /\ tpc' \in {"spawned", "done"})
      /\ tstate = "Session" /\ vhandle' => vhandle
  BY WorkerSteps, HolderEffect
<1>s. events \in Seq(VoiceEvents)
  BY DEF TaskInv, TypeOK
<1>v. UNCHANGED vars => UNCHANGED <<tpc, events, vhandle>>
  BY DEF vars, taskVars, runnerVars, handleVars
<1>c. callback' \in Requests \cup {"none"}
  BY DEF CallInv
<1>h. ASSUME UNCHANGED <<lock, answered, hungUp, heard, queue>> PROVE ChannelTypes'
  BY <1>h DEF CallInv, ChannelTypes
<1>a. ASSUME UNCHANGED <<answered, heard, queue>>, wpc # "answering", mixing' => answered,
             \/ events' = events
             \/ events' = <<>> /\ ~vhandle'
             \/ events # <<>> /\ events' = Tail(events) /\ (Head(events) = "FullyConnected" => SaidConnected')
      PROVE  AudioInOrder'
  <2>1. AudioOnlyAfterAnswer'
    BY <1>a DEF CallInv, AudioInOrder, AudioOnlyAfterAnswer
  <2>2. SaidConnected => SaidConnected'
    BY <1>a DEF SaidConnected
  <2>3. QED
    BY <1>a, <1>e, <1>s, <2>1, <2>2, AudioKept DEF CallInv
<1>x. mixing => answered
  BY DEF CallInv, AudioInOrder, AudioOnlyAfterAnswer
<1>1. CASE HandleJoin
  <2>1. /\ wpc = "select" /\ areq = "JoinChannel" /\ areq' = "none" /\ arep' \in {"ok", "err"}
        /\ UNCHANGED <<wpc, mixing, handle, lock, answered, hungUp, heard, queue>>
        /\ voice' \in {voice, "Started"} /\ UNCHANGED events
    BY <1>1, <1>v DEF HandleJoin, Takes, StartTask
  <2>2. WorkerTypeOK'
    BY <2>1 DEF CallInv, WorkerTypeOK
  <2>3. Callbacks' /\ Serving'
    BY <1>e, <2>1 DEF CallInv, Callbacks, Serving
  <2>4. WorkerEnded'
    BY <1>e, <2>1 DEF CallInv, WorkerEnded, NoTaskWithoutWorker, RemoteEndQueuesHangup
  <2>5. AudioInOrder'
    BY <1>a, <1>x, <2>1
  <2>6. QED
    BY <1>c, <1>h, <2>1, <2>2, <2>3, <2>4, <2>5 DEF CallInv
<1>2. CASE HandleWriteFrame
  <2>1. /\ wpc = "select" /\ areq = "WriteFrame" /\ areq' = "none"
        /\ \/ wpc' = "awaitWrite" /\ arep' = arep /\ voice = "Started"
           \/ wpc' = wpc /\ arep' = "err"
        /\ UNCHANGED <<voice, mixing, handle, lock, answered, hungUp, heard, queue, events>>
    BY <1>2, <1>v DEF HandleWriteFrame, Takes, SendRequest
  <2>2. WorkerTypeOK'
    BY <2>1 DEF CallInv, WorkerTypeOK
  <2>3. Callbacks' /\ Serving'
    BY <1>e, <2>1 DEF CallInv, Callbacks, Serving
  <2>4. WorkerEnded'
    BY <1>e, <2>1 DEF CallInv, WorkerEnded, NoTaskWithoutWorker, RemoteEndQueuesHangup
  <2>5. AudioInOrder'
    BY <1>a, <1>x, <2>1
  <2>6. QED
    BY <1>c, <1>h, <2>1, <2>2, <2>3, <2>4, <2>5 DEF CallInv
<1>3. CASE WriteReturns
  <2>1. /\ wpc = "awaitWrite" /\ wpc' = "select" /\ arep' \in {"ok", "err"}
        /\ UNCHANGED <<voice, mixing, handle, areq, lock, answered, hungUp, heard, queue, events>>
    BY <1>3 DEF WriteReturns, TakeResponse
  <2>2. WorkerTypeOK'
    BY <2>1 DEF CallInv, WorkerTypeOK
  <2>3. Callbacks' /\ Serving'
    BY <1>e, <2>1 DEF CallInv, Callbacks, Serving
  <2>4. WorkerEnded'
    BY <1>e, <2>1 DEF CallInv, WorkerEnded, NoTaskWithoutWorker, RemoteEndQueuesHangup
  <2>5. AudioInOrder'
    BY <1>a, <1>x, <2>1
  <2>6. QED
    BY <1>c, <1>h, <2>1, <2>2, <2>3, <2>4, <2>5 DEF CallInv
<1>4. CASE HandleHangUp
  <2>1. /\ wpc = "select" /\ areq = "HangUp" /\ areq' = "none" /\ voice' = "ShutLocal"
        /\ UNCHANGED <<handle, lock, answered, hungUp, heard, queue>>
    BY <1>4 DEF HandleHangUp, Takes
  <2>2. \/ wpc' = "awaitClose" /\ UNCHANGED <<mixing, arep, events>>
        \/ /\ wpc' = "done" /\ mixing' = FALSE /\ arep' = "ok" /\ tpc' = "done"
           /\ events' = events \/ (events' = <<>> /\ ~vhandle')
    <3>1. CASE SendRequest("Close") /\ wpc' = "awaitClose" /\ UNCHANGED <<mixing, arep>>
      BY <3>1 DEF SendRequest
    <3>2. CASE voice # "Started" /\ DropVoice /\ WorkerEnds /\ arep' = "ok"
      <4>1. voice = "Prepare"
        BY <2>1, <3>2 DEF CallInv, Serving
      <4>2. QED
        BY <3>2, <4>1, DropVoiceEffect DEF WorkerEnds
    <3>3. QED
      BY <1>4, <3>1, <3>2 DEF HandleHangUp
  <2>3. WorkerTypeOK'
    BY <2>1, <2>2 DEF CallInv, WorkerTypeOK
  <2>4. Callbacks' /\ Serving'
    BY <1>e, <2>1, <2>2 DEF CallInv, Callbacks, Serving
  <2>5. WorkerEnded'
    BY <1>e, <2>1, <2>2 DEF CallInv, Callbacks, WorkerEnded, NoTaskWithoutWorker, RemoteEndQueuesHangup
  <2>6. AudioInOrder'
    BY <1>a, <1>x, <2>1, <2>2
  <2>7. QED
    BY <1>c, <1>h, <2>1, <2>3, <2>4, <2>5, <2>6 DEF CallInv
<1>5. CASE CloseReturns
  <2>1. /\ wpc = "awaitClose" /\ wpc' = "awaitTask"
        /\ UNCHANGED <<voice, mixing, handle, areq, arep, lock, answered, hungUp, heard, queue, events>>
    BY <1>5 DEF CloseReturns, TakeResponse
  <2>2. WorkerTypeOK'
    BY <2>1 DEF CallInv, WorkerTypeOK
  <2>3. Callbacks' /\ Serving'
    BY <1>e, <2>1 DEF CallInv, Callbacks, Serving
  <2>4. WorkerEnded'
    BY <1>e, <2>1 DEF CallInv, WorkerEnded, NoTaskWithoutWorker, RemoteEndQueuesHangup
  <2>5. AudioInOrder'
    BY <1>a, <1>x, <2>1
  <2>6. QED
    BY <1>c, <1>h, <2>1, <2>2, <2>3, <2>4, <2>5 DEF CallInv
<1>6. CASE TaskReturns
  <2>1. /\ wpc = "awaitTask" /\ wpc' = "done" /\ tpc = "done" /\ arep' = "ok" /\ mixing' = FALSE
        /\ events' = <<>> /\ ~vhandle'
        /\ UNCHANGED <<voice, handle, areq, lock, answered, hungUp, heard, queue>>
    BY <1>6 DEF TaskReturns, DropHandle, WorkerEnds
  <2>2. WorkerTypeOK'
    BY <2>1 DEF CallInv, WorkerTypeOK
  <2>3. Callbacks' /\ Serving'
    BY <1>e, <2>1 DEF CallInv, Callbacks, Serving
  <2>4. WorkerEnded'
    BY <1>e, <2>1 DEF CallInv, Serving, WorkerEnded, NoTaskWithoutWorker, RemoteEndQueuesHangup
  <2>5. AudioInOrder'
    BY <1>a, <1>x, <2>1
  <2>6. QED
    BY <1>c, <1>h, <2>1, <2>2, <2>3, <2>4, <2>5 DEF CallInv
<1>7. CASE HandleFixUp
  <2>1. /\ wpc = "select" /\ areq = "FixUp" /\ areq' = "none" /\ arep' = "dropped"
        /\ UNCHANGED <<wpc, voice, mixing, handle, lock, answered, hungUp, heard, queue, events>>
    BY <1>7, <1>v DEF HandleFixUp, Takes
  <2>2. WorkerTypeOK'
    BY <2>1 DEF CallInv, WorkerTypeOK
  <2>3. Callbacks' /\ Serving'
    BY <1>e, <2>1 DEF CallInv, Callbacks, Serving
  <2>4. WorkerEnded'
    BY <1>e, <2>1 DEF CallInv, WorkerEnded, NoTaskWithoutWorker, RemoteEndQueuesHangup
  <2>5. AudioInOrder'
    BY <1>a, <1>x, <2>1
  <2>6. QED
    BY <1>c, <1>h, <2>1, <2>2, <2>3, <2>4, <2>5 DEF CallInv
<1>8. CASE HandleGone
  <2>1. /\ wpc = "select" /\ handle # "owned" /\ areq = "none" /\ wpc' = "done" /\ mixing' = FALSE /\ DropVoice
        /\ UNCHANGED <<voice, handle, areq, arep, lock, answered, hungUp, heard, queue>>
    BY <1>8 DEF HandleGone, WorkerEnds
  <2>2. /\ events' = events \/ (events' = <<>> /\ ~vhandle')
        /\ tpc' = "done" \/ ~vhandle'
    BY <2>1, DropVoiceEffect DEF CallInv, Serving
  <2>3. handle = "freed"
    BY <2>1 DEF CallInv, WorkerTypeOK, WorkerEnded
  <2>4. WorkerTypeOK'
    BY <2>1 DEF CallInv, WorkerTypeOK
  <2>5. Callbacks' /\ Serving'
    BY <1>e, <2>1 DEF CallInv, Callbacks, Serving
  <2>6. WorkerEnded'
    BY <1>e, <2>1, <2>2, <2>3 DEF CallInv, WorkerEnded, NoTaskWithoutWorker, RemoteEndQueuesHangup
  <2>7. AudioInOrder'
    BY <1>a, <1>x, <2>1, <2>2
  <2>8. QED
    BY <1>c, <1>h, <2>1, <2>4, <2>5, <2>6, <2>7 DEF CallInv
<1>9. CASE HandleConnected \/ HandleMedia
  <2>0. /\ wpc = "select" /\ events # <<>> /\ events' = Tail(events)
        /\ UNCHANGED <<voice, handle, areq, arep, lock, answered, hungUp, heard, queue>>
        /\ \/ Head(events) = "FullyConnected" /\ wpc' = "answering" /\ mixing' = mixing
           \/ /\ Head(events) \in {"Packet", "Notice"} /\ wpc' = "select"
              /\ mixing' = (mixing \/ Head(events) = "Packet")
    BY <1>9 DEF HandleConnected, HandleMedia, Event, TakeEvent
  <2>1. Head(events) = events[1] /\ 1 \in 1 .. Len(events)
    BY <1>s, <2>0
  <2>2. Head(events) = "Packet" => answered
    BY <2>0, <2>1 DEF CallInv, AudioInOrder, SaidConnected
  <2>3. Head(events) = "FullyConnected" => intent # "none"
    BY <2>1 DEF TaskInv, Announced, Elements
  <2>4. WorkerTypeOK'
    BY <2>0 DEF CallInv, WorkerTypeOK
  <2>5. Callbacks' /\ Serving'
    BY <1>e, <2>0, <2>3 DEF CallInv, Callbacks, Serving
  <2>6. WorkerEnded'
    BY <1>e, <2>0 DEF CallInv, WorkerEnded, NoTaskWithoutWorker, RemoteEndQueuesHangup
  <2>7. AudioInOrder'
    <3>1. mixing' => answered
      BY <1>x, <2>0, <2>2
    <3>2. Head(events) = "FullyConnected" => SaidConnected'
      BY <2>0 DEF SaidConnected
    <3>3. wpc # "answering" /\ UNCHANGED <<answered, heard, queue>> /\ events # <<>> /\ events' = Tail(events)
      BY <2>0
    <3>4. QED
      BY <1>a, <3>1, <3>2, <3>3
  <2>8. QED
    BY <1>c, <1>h, <2>0, <2>4, <2>5, <2>6, <2>7 DEF CallInv
<1>10. CASE HandleClosed \/ EventsEnded
  <2>0. /\ wpc = "select" /\ wpc' = "hangingUp"
        /\ UNCHANGED <<mixing, handle, areq, arep, lock, answered, hungUp, heard, queue>>
        /\ voice' \in {voice, "ShutRemote"}
        /\ events' = events \/ (events' = <<>> /\ ~vhandle')
    BY <1>10, <1>v DEF HandleClosed, EventsEnded, DropHandle, Event
  <2>1. tpc = "done"
    <3>1. CASE Event("Closed")
      <4>1. "Closed" \in Elements(events)
        BY <1>s, <3>1, Taken DEF Event
      <4>2. QED
        BY <4>1 DEF TaskInv, Announced
    <3>2. QED
      BY <1>10, <3>1 DEF HandleClosed, EventsEnded
  <2>2. WorkerTypeOK'
    BY <2>0 DEF CallInv, WorkerTypeOK
  <2>3. Callbacks' /\ Serving'
    BY <1>e, <2>0, <2>1 DEF CallInv, Callbacks, Serving
  <2>4. WorkerEnded'
    BY <1>e, <2>0 DEF CallInv, WorkerEnded, NoTaskWithoutWorker, RemoteEndQueuesHangup
  <2>5. AudioInOrder'
    BY <1>a, <1>x, <2>0
  <2>6. QED
    BY <1>c, <1>h, <2>0, <2>2, <2>3, <2>4, <2>5 DEF CallInv
<1>11. CASE HandleMixed
  <2>0. /\ wpc = "select" /\ mixing /\ mixing' \in BOOLEAN /\ queue < QueueBound /\ queue' = queue + 1
        /\ UNCHANGED <<wpc, voice, handle, areq, arep, lock, answered, hungUp, heard, events, tpc, vhandle>>
    BY <1>11, <1>v DEF HandleMixed, QueueFrame
  <2>1. answered /\ AudioOnlyAfterAnswer' /\ SaidConnected'
    BY <1>x, <2>0 DEF AudioOnlyAfterAnswer, SaidConnected
  <2>2. AudioInOrder'
    BY <1>e, <1>s, <2>0, <2>1, AudioKept DEF CallInv
  <2>3. queue' \in 0 .. QueueBound
    BY <2>0, QueueAssumption DEF CallInv, ChannelTypes
  <2>4. ChannelTypes' /\ WorkerTypeOK'
    BY <2>0, <2>3 DEF CallInv, ChannelTypes, WorkerTypeOK
  <2>5. Callbacks' /\ Serving'
    BY <1>e, <2>0 DEF CallInv, Callbacks, Serving
  <2>6. WorkerEnded'
    BY <1>e, <2>0 DEF CallInv, WorkerEnded, NoTaskWithoutWorker, RemoteEndQueuesHangup
  <2>7. QED
    BY <1>c, <2>2, <2>4, <2>5, <2>6 DEF CallInv
<1>12. CASE Answers
  <2>0. /\ wpc = "answering" /\ wpc' = "select" /\ answered' = TRUE
        /\ UNCHANGED <<voice, mixing, handle, areq, arep, lock, hungUp, heard, queue, events, tpc, vhandle>>
    BY <1>12, <1>v DEF Answers, QueueAnswer
  <2>1. AudioOnlyAfterAnswer' /\ SaidConnected'
    BY <2>0 DEF AudioOnlyAfterAnswer, SaidConnected
  <2>2. AudioInOrder'
    BY <1>e, <1>s, <2>0, <2>1, AudioKept DEF CallInv
  <2>3. ChannelTypes'
    BY <2>0, Zenon DEF CallInv, ChannelTypes
  <2>4. WorkerTypeOK'
    BY <2>0 DEF CallInv, WorkerTypeOK
  <2>5. Callbacks' /\ Serving'
    BY <1>e, <2>0 DEF CallInv, Callbacks, Serving
  <2>6. WorkerEnded'
    BY <1>e, <2>0 DEF CallInv, WorkerEnded, NoTaskWithoutWorker, RemoteEndQueuesHangup
  <2>7. QED
    BY <1>c, <2>2, <2>3, <2>4, <2>5, <2>6 DEF CallInv
<1>13. CASE HangsUp
  <2>0. /\ wpc = "hangingUp" /\ wpc' = "done" /\ mixing' = FALSE /\ hungUp' = TRUE /\ DropVoice
        /\ UNCHANGED <<voice, handle, areq, arep, lock, answered, heard, queue>>
    BY <1>13 DEF HangsUp, QueueHangup, WorkerEnds
  <2>1. events' = events \/ (events' = <<>> /\ ~vhandle')
    BY <2>0, DropVoiceEffect
  <2>2. tpc = "done"
    BY <2>0 DEF CallInv, Serving
  <2>3. AudioInOrder'
    BY <1>a, <1>x, <2>0, <2>1
  <2>4. ChannelTypes'
    BY <2>0, Zenon DEF CallInv, ChannelTypes
  <2>5. WorkerTypeOK'
    BY <2>0 DEF CallInv, WorkerTypeOK
  <2>6. Callbacks' /\ Serving'
    BY <1>e, <2>0 DEF CallInv, Callbacks, Serving
  <2>7. WorkerEnded'
    BY <1>e, <2>0, <2>2 DEF CallInv, WorkerEnded, NoTaskWithoutWorker, RemoteEndQueuesHangup
  <2>8. QED
    BY <1>c, <2>3, <2>4, <2>5, <2>6, <2>7 DEF CallInv
<1>14. QED
  BY <1>1, <1>2, <1>3, <1>4, <1>5, <1>6, <1>7, <1>8, <1>9, <1>10, <1>11, <1>12, <1>13 DEF WorkerStep

LEMMA CallInductive == TaskInv /\ CallInv /\ [CallNext]_allVars => CallInv'
<1> SUFFICES ASSUME TaskInv, CallInv, [CallNext]_allVars PROVE CallInv'
  OBVIOUS
<1>1. CASE UNCHANGED allVars
  <2>1. /\ UNCHANGED <<lock, answered, hungUp, heard, queue, wpc, voice, mixing, handle, areq, arep, callback>>
        /\ UNCHANGED <<tpc, intent, events, vhandle, pending, tstate>>
    BY <1>1 DEF allVars, callVars, channelVars, workerVars, requestVars, vars, taskVars, runnerVars, handleVars
  <2>2. ChannelTypes' /\ WorkerTypeOK' /\ callback' \in Requests \cup {"none"} /\ Callbacks' /\ Serving'
    BY <2>1 DEF CallInv, ChannelTypes, WorkerTypeOK, Callbacks, Serving
  <2>3. WorkerEnded' /\ AudioInOrder'
    BY <2>1 DEF CallInv, WorkerEnded, NoTaskWithoutWorker, RemoteEndQueuesHangup, AudioInOrder,
                AudioOnlyAfterAnswer, SaidConnected
  <2>4. QED
    BY <2>2, <2>3 DEF CallInv
<1>2. CASE /\ UNCHANGED callVars
           /\ \/ SocketStep /\ UNCHANGED taskVars
              \/ RunnerStep
              \/ \E e \in GlobalKinds : GlobalArrives(e)
  BY <1>2, TaskAlone
<1>3. CASE (WorkerStep \/ Answers \/ HangsUp) /\ UNCHANGED callback
  BY <1>3, WorkerKeeps
<1>4. CASE AsteriskStep \/ QueueThreadStep
  BY <1>4, AsteriskKeeps
<1>5. QED
  BY <1>1, <1>2, <1>3, <1>4 DEF CallNext

-----------------------------------------------------------------------------
\* The inductive invariant holds of every call.
THEOREM CallInvariance == CallSpec => []CallInv
  BY CallInitHolds, CallInductive, TaskInvOfCall, PTL DEF CallSpec

\* The variables of a call have their types.
THEOREM CallTypeCorrect == CallSpec => []CallTypeOK
<1>1. TaskInv /\ CallInv => CallTypeOK
  BY DEF TaskInv, CallInv, ChannelTypes, ChannelTypeOK, CallTypeOK
<1>2. QED
  BY <1>1, CallInvariance, TaskInvOfCall, PTL

\* When Asterisk has its hangup back, the bot has left the voice channel, and
\* nothing is left that could make it join again (leave_and_close).
THEOREM HangupIsFinal == CallSpec => []HangupMeansLeft
<1>1. TaskInv /\ CallInv => HangupMeansLeft
  BY DEF TaskInv, Ending, CallInv, WorkerEnded, NoTaskWithoutWorker, HangupMeansLeft
<1>2. QED
  BY <1>1, CallInvariance, TaskInvOfCall, PTL

\* No audio reaches a channel that was not answered, on any of the threads'
\* ways to it: FullyConnected is ahead of the first packet in the events channel,
\* and the worker stops to answer before it takes the next event.
THEOREM AudioFollowsAnswer == CallSpec => []AudioOnlyAfterAnswer
<1>1. CallInv => AudioOnlyAfterAnswer
  BY DEF CallInv, AudioInOrder
<1>2. QED
  BY <1>1, CallInvariance, PTL

\* A call that ends on Discord's side tells Asterisk so (run, after its loop).
THEOREM RemoteEndReported == CallSpec => []RemoteEndQueuesHangup
<1>1. CallInv => RemoteEndQueuesHangup
  BY DEF CallInv, WorkerEnded
<1>2. QED
  BY <1>1, CallInvariance, PTL

\* A voice task outlives its worker only to leave.
THEOREM TaskFollowsWorker == CallSpec => []NoTaskWithoutWorker
<1>1. CallInv => NoTaskWithoutWorker
  BY DEF CallInv, WorkerEnded
<1>2. QED
  BY <1>1, CallInvariance, PTL

-----------------------------------------------------------------------------
(***************************************************************************)
(* The promise of a call.                                                  *)
(***************************************************************************)

\* A step that leaves what is promised alone.
LEMMA PromiseUntouched ==
    ASSUME UNCHANGED <<intent, answered, heard, hungUp, handle>>
    PROVE  UNCHANGED CP!pvars
  BY DEF CP!pvars

\* Only two steps of the runner speak to Discord about the bot's seat.
LEMMA SeatSteps ==
    ASSUME RunnerStep
    PROVE  JoinIntent \/ CloseRunner \/ UNCHANGED intent
<1>1. CASE JoinIntentFails \/ EmitResumes \/ HandleWrite \/ HandleClose \/ RequestsClosed \/ HandleGlobal
  BY <1>1 DEF JoinIntentFails, EmitResumes, HandleWrite, HandleClose, RequestsClosed, HandleGlobal, runnerVars
<1>2. CASE HandleHello \/ HandleReady \/ HandleSession \/ HandleAck \/ HandleGatewayEnd \/ HandlePacket
  BY <1>2 DEF HandleHello, HandleReady, HandleSession, HandleAck, HandleGatewayEnd, HandlePacket,
              taskVars, runnerVars
<1>3. CASE HandleNotice("Notice") \/ HandleNotice("SelfLeft") \/ Discovered \/ DiscoveryFails
  BY <1>3 DEF HandleNotice, Discovered, DiscoveryFails
<1>4. QED
  BY <1>1, <1>2, <1>3 DEF RunnerStep

\* While the voice task runs, nobody has been told that the call is over.
LEMMA RunningIsNotOver ==
    ASSUME CallInv, tpc # "done"
    PROVE  ~hungUp /\ handle # "released"
  BY DEF CallInv, WorkerEnded, NoTaskWithoutWorker

LEMMA RunnerPromises ==
    ASSUME TaskInv, CallInv, RunnerStep, UNCHANGED callVars
    PROVE  [CP!Next]_CP!pvars
<1>0. UNCHANGED <<answered, heard, hungUp, handle>>
  BY DEF callVars, channelVars
<1>1. CASE JoinIntent
  <2>1. tpc = "spawned" /\ intent' = "joined"
    BY <1>1 DEF JoinIntent
  <2>2. intent = "none" /\ ~hungUp /\ handle # "released"
    BY <2>1, RunningIsNotOver DEF TaskInv, Beginning
  <2>3. CP!Join
    BY <1>0, <2>1, <2>2 DEF CP!Join
  <2>4. QED
    BY <2>3 DEF CP!Next
<1>2. CASE CloseRunner
  <2>1. tpc = "closing" /\ intent' = "left"
    BY <1>2 DEF CloseRunner
  <2>2. intent # "left"
    BY <2>1 DEF TaskInv, Beginning
  <2>3. CP!Leave
    BY <1>0, <2>1, <2>2 DEF CP!Leave
  <2>4. QED
    BY <2>3 DEF CP!Next
<1>3. CASE UNCHANGED intent
  BY <1>0, <1>3, PromiseUntouched
<1>4. QED
  BY <1>1, <1>2, <1>3, SeatSteps

LEMMA WorkerPromises ==
    ASSUME TaskInv, CallInv, WorkerStep \/ Answers \/ HangsUp
    PROVE  [CP!Next]_CP!pvars
<1>0. UNCHANGED intent
  BY WorkerSteps, HolderEffect
<1>1. CASE WorkerStep
  <2>1. CASE HandleJoin \/ HandleWriteFrame \/ HandleHangUp \/ HandleFixUp
    BY <1>0, <2>1, PromiseUntouched
       DEF HandleJoin, HandleWriteFrame, HandleHangUp, HandleFixUp, Takes, channelVars
  <2>2. CASE HandleGone \/ WriteReturns \/ CloseReturns \/ TaskReturns
    BY <1>0, <2>2, PromiseUntouched
       DEF HandleGone, WriteReturns, CloseReturns, TaskReturns, channelVars
  <2>3. CASE HandleConnected \/ HandleMedia \/ HandleClosed \/ EventsEnded \/ HandleMixed
    BY <1>0, <2>3, PromiseUntouched
       DEF HandleConnected, HandleMedia, HandleClosed, EventsEnded, HandleMixed, QueueFrame, channelVars
  <2>4. QED
    BY <1>1, <2>1, <2>2, <2>3 DEF WorkerStep
<1>2. CASE Answers
  <2>1. /\ wpc = "answering" /\ answered' = TRUE
        /\ UNCHANGED <<heard, hungUp, handle>>
    BY <1>2 DEF Answers, QueueAnswer
  <2>2. intent # "none" /\ ~hungUp /\ handle # "released"
    BY <2>1 DEF CallInv, Serving, WorkerEnded
  <2>3. CP!Answer
    BY <1>0, <2>1, <2>2 DEF CP!Answer
  <2>4. QED
    BY <2>3 DEF CP!Next
<1>3. CASE HangsUp
  <2>1. /\ wpc = "hangingUp" /\ hungUp' = TRUE
        /\ UNCHANGED <<heard, answered, handle>>
    BY <1>3 DEF HangsUp, QueueHangup
  <2>2. intent # "joined" /\ handle # "released"
    BY <2>1 DEF TaskInv, Ending, CallInv, Serving, WorkerEnded
  <2>3. CP!ReportEnd
    BY <1>0, <2>1, <2>2 DEF CP!ReportEnd
  <2>4. QED
    BY <2>3 DEF CP!Next
<1>4. QED
  BY <1>1, <1>2, <1>3

LEMMA AsteriskPromises ==
    ASSUME TaskInv, CallInv, AsteriskStep \/ QueueThreadStep
    PROVE  [CP!Next]_CP!pvars
<1>0. UNCHANGED intent
  BY AsteriskSteps DEF vars, taskVars, runnerVars
<1>1. CASE (\E r \in Requests : Enter(r)) \/ ReturnCall \/ ReturnWrite
  BY <1>0, <1>1, PromiseUntouched DEF Enter, ReturnCall, ReturnWrite, Return, SetLock
<1>2. CASE ReturnHangup
  <2>1. /\ callback = "HangUp" /\ Responded /\ handle' = "released"
        /\ UNCHANGED <<answered, heard, hungUp>>
    BY <1>2 DEF ReturnHangup, Return, SetLock
  <2>2. wpc = "done" /\ handle = "owned"
    BY <2>1 DEF Responded, CallInv, Callbacks, Serving
  <2>3. intent # "joined"
    BY <2>2 DEF TaskInv, Ending, CallInv, WorkerEnded, NoTaskWithoutWorker
  <2>4. CP!Release
    BY <1>0, <2>1, <2>3 DEF CP!Release
  <2>5. QED
    BY <2>4 DEF CP!Next
<1>3. CASE ReturnFixup
  <2>1. /\ callback = "FixUp" /\ handle' = "freed"
        /\ UNCHANGED <<answered, heard, hungUp>>
    BY <1>3 DEF ReturnFixup, Return, SetLock
  <2>2. handle = "owned"
    BY <2>1 DEF CallInv, Callbacks
  <2>3. QED
    BY <1>0, <2>1, <2>2 DEF CP!pvars
<1>4. CASE QueueThreadStep
  <2>1. /\ queue > 0 /\ heard' = TRUE
        /\ UNCHANGED <<answered, hungUp, handle>>
    BY <1>4 DEF QueueThreadStep, WriteFrame
  <2>2. answered
    BY <2>1 DEF CallInv, AudioInOrder, AudioOnlyAfterAnswer
  <2>3. CP!Hear
    BY <1>0, <2>1, <2>2 DEF CP!Hear
  <2>4. QED
    BY <2>3 DEF CP!Next
<1>5. QED
  BY <1>1, <1>2, <1>3, <1>4 DEF AsteriskStep

LEMMA CallPromises == TaskInv /\ CallInv /\ [CallNext]_allVars => [CP!Next]_CP!pvars
<1> SUFFICES ASSUME TaskInv, CallInv, [CallNext]_allVars PROVE [CP!Next]_CP!pvars
  OBVIOUS
<1>1. CASE UNCHANGED allVars
  BY <1>1, PromiseUntouched DEF allVars, callVars, channelVars, vars, taskVars, runnerVars
<1>2. CASE /\ UNCHANGED callVars
           /\ \/ SocketStep /\ UNCHANGED taskVars
              \/ \E e \in GlobalKinds : GlobalArrives(e)
  BY <1>2, PromiseUntouched DEF GlobalArrives, callVars, channelVars, taskVars, runnerVars
<1>3. CASE RunnerStep /\ UNCHANGED callVars
  BY <1>3, RunnerPromises
<1>4. CASE WorkerStep \/ Answers \/ HangsUp
  BY <1>4, WorkerPromises
<1>5. CASE AsteriskStep \/ QueueThreadStep
  BY <1>5, AsteriskPromises
<1>6. QED
  BY <1>1, <1>2, <1>3, <1>4, <1>5 DEF CallNext

\* Whatever its threads, its peers and Asterisk do, a call keeps the promise of
\* CallPromise: the bot takes its seat at most once, gives it back before Asterisk
\* is told of the end or has its hangup back, and is heard only once answered.
THEOREM PromiseKept == CallSpec => KeepsPromise
<1>1. CallInit => CP!Init
  BY DEF CallInit, Init, TaskInit, ChannelInit, WorkerInit, CP!Init
<1>2. QED
  BY <1>1, CallPromises, CallInvariance, TaskInvOfCall, PTL DEF CallSpec, KeepsPromise, CP!Spec
=============================================================================
