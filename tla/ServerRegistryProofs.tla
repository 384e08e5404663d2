------------------------ MODULE ServerRegistryProofs ------------------------
(***************************************************************************)
(* Proofs about ServerRegistry for every set of servers and calls and      *)
(* every capacity of the event channels.                                   *)
(*                                                                         *)
(* RegistryInv is inductive.  Exclusivity alone is not: it rests on the    *)
(* map routing to every open call, which the dispatcher only preserves     *)
(* because the call it is blocked on cannot have been replaced meanwhile.  *)
(***************************************************************************)
EXTENDS ServerRegistry, TLAPS

\* The entry the blocked dispatcher may remove still is that of the call it
\* sends to: the mutex has kept the main loop away from the map.
SendingIsRouted == sending # NoCall => channels[ServerOf[sending]] = sending

\* A receiver does not survive the thread its tasks run on.
OpenWhileRunning == \A c \in Calls : Open(c) => running

RegistryInv == /\ TypeOK
               /\ RoutedWhileOpen
               /\ JoinedWhileOpen
               /\ SendingIsRouted
               /\ OpenWhileRunning

ClosingStep(c) == DropPrepared(c) \/ JoinFails(c) \/ Leave(c)

\* The initial state satisfies the invariant: no call has a receiver yet.
LEMMA InitInv == Init => RegistryInv
<1> SUFFICES ASSUME Init PROVE RegistryInv
  OBVIOUS
<1> USE RegistryAssumption DEF Init
<1>1. TypeOK
  BY DEF TypeOK, Holders
<1>2. RoutedWhileOpen /\ JoinedWhileOpen /\ SendingIsRouted /\ OpenWhileRunning
  BY DEF RoutedWhileOpen, JoinedWhileOpen, SendingIsRouted, OpenWhileRunning, Open
<1>3. QED
  BY <1>1, <1>2 DEF RegistryInv

\* Every step keeps the types: in particular a channel never holds more events
\* than its capacity, and an entry stays on the server of its call.
LEMMA TypeStep == TypeOK /\ [Next]_vars => TypeOK'
<1> SUFFICES ASSUME TypeOK, [Next]_vars PROVE TypeOK'
  OBVIOUS
<1> USE RegistryAssumption DEF TypeOK, Holders
<1>1. ASSUME NEW c \in Calls, Request(c) PROVE TypeOK'
  BY <1>1 DEF Request
<1>2. ASSUME NEW c \in Calls, PrepareRefused(c) PROVE TypeOK'
  BY <1>2 DEF PrepareRefused
<1>3. ASSUME NEW c \in Calls, PrepareGranted(c) PROVE TypeOK'
  BY <1>3 DEF PrepareGranted
<1>4. ASSUME NEW c \in Calls, PrepareFailed(c) PROVE TypeOK'
  BY <1>4 DEF PrepareFailed, Close
<1>5. ASSUME NEW c \in Calls, ClosingStep(c) PROVE TypeOK'
  BY <1>5 DEF ClosingStep, DropPrepared, JoinFails, Leave, Close
<1>6. ASSUME NEW c \in Calls, StartTask(c) \/ Stall(c) \/ Resume(c) PROVE TypeOK'
  BY <1>6 DEF StartTask, Stall, Resume
<1>7. ASSUME NEW c \in Calls, Join(c) PROVE TypeOK'
  BY <1>7 DEF Join
<1>8. ASSUME NEW c \in Calls, Take(c) PROVE TypeOK'
  BY <1>8 DEF Take
<1>9. ASSUME NEW s \in Servers, DispatchQueued(s) PROVE TypeOK'
  BY <1>9 DEF DispatchQueued, Listening
<1>10. ASSUME NEW s \in Servers, DispatchBlocks(s) \/ DispatchRemoves(s) PROVE TypeOK'
  BY <1>10 DEF DispatchBlocks, DispatchRemoves
<1>11. CASE SendResumes
  BY <1>11 DEF SendResumes
<1>12. CASE SendFails
  BY <1>12 DEF SendFails
<1>13. CASE Stop
  <2>1. rx' \in [Calls -> Holders]
    BY <1>13 DEF Stop
  <2>2. /\ channels' \in [Servers -> Calls \cup {NoCall}]
        /\ queued' \in [Calls -> 0 .. EventCap]
    BY <1>13 DEF Stop
  <2>3. \A s \in Servers : channels'[s] = NoCall
    BY <1>13 DEF Stop
  <2>4. QED
    BY <1>13, <2>1, <2>2, <2>3 DEF Stop
<1>14. CASE UNCHANGED vars
  BY <1>14 DEF vars
<1>15. QED
  BY <1>1, <1>2, <1>3, <1>4, <1>5, <1>6, <1>7, <1>8, <1>9, <1>10, <1>11, <1>12, <1>13, <1>14
     DEF Next, Prepare, Place, TaskStep, Dispatch, ClosingStep

\* Every step keeps the invariant.
LEMMA InvStep == RegistryInv /\ [Next]_vars => RegistryInv'
<1> SUFFICES ASSUME RegistryInv, [Next]_vars PROVE RegistryInv'
  OBVIOUS
<1> DEFINE Rest == /\ RoutedWhileOpen
                   /\ JoinedWhileOpen
                   /\ SendingIsRouted
                   /\ OpenWhileRunning
<1>0. TypeOK /\ TypeOK' /\ Rest
  BY TypeStep DEF RegistryInv
<1> USE RegistryAssumption
<1>1. ASSUME NEW c \in Calls, Request(c) \/ PrepareRefused(c) \/ Take(c) PROVE Rest'
  <2>1. UNCHANGED <<running, channels, rx, sending, voiceState>>
    BY <1>1 DEF Request, PrepareRefused, Take
  <2>2. QED
    BY <1>0, <2>1 DEF RoutedWhileOpen, JoinedWhileOpen, SendingIsRouted, OpenWhileRunning, Open
<1>2. ASSUME NEW c \in Calls, PrepareGranted(c) \/ PrepareFailed(c) PROVE Rest'
  <2>1. /\ running /\ sending = NoCall /\ ~Listening(ServerOf[c])
        /\ channels' = [channels EXCEPT ![ServerOf[c]] = c]
        /\ \A d \in Calls : d # c => rx'[d] = rx[d]
        /\ UNCHANGED <<running, sending, voiceState>>
    BY <1>0, <1>2 DEF PrepareGranted, PrepareFailed, Close, Taken, MutexFree, DispatcherIdle, TypeOK
  <2>2. \A d \in Calls : Open(d) => ServerOf[d] # ServerOf[c]
    BY <1>0, <2>1 DEF RoutedWhileOpen, Listening, TypeOK
  <2>3. RoutedWhileOpen'
    BY <1>0, <2>1, <2>2 DEF RoutedWhileOpen, Open, TypeOK
  <2>4. JoinedWhileOpen'
    BY <1>0, <2>1, <2>2 DEF JoinedWhileOpen, Open, TypeOK
  <2>5. SendingIsRouted' /\ OpenWhileRunning'
    BY <2>1 DEF SendingIsRouted, OpenWhileRunning, Open
  <2>6. QED
    BY <2>3, <2>4, <2>5
<1>3. ASSUME NEW c \in Calls, StartTask(c) \/ Stall(c) \/ Resume(c) PROVE Rest'
  <2>1. /\ Open(c)
        /\ rx[c] = "worker" => rx'[c] = "spawned"
        /\ rx[c] # "worker" => rx'[c] \in {"task", "stalled"}
        /\ \A d \in Calls : d # c => rx'[d] = rx[d]
        /\ UNCHANGED <<running, channels, sending, voiceState>>
    BY <1>0, <1>3 DEF StartTask, Stall, Resume, Open, TypeOK
  <2>2. RoutedWhileOpen' /\ SendingIsRouted' /\ OpenWhileRunning'
    BY <1>0, <2>1 DEF RoutedWhileOpen, SendingIsRouted, OpenWhileRunning, Open
  <2>3. JoinedWhileOpen'
    BY <1>0, <2>1 DEF JoinedWhileOpen, TypeOK
  <2>4. QED
    BY <2>2, <2>3
<1>4. ASSUME NEW c \in Calls, Join(c) PROVE Rest'
  <2>1. /\ rx[c] = "spawned" /\ rx'[c] = "task"
        /\ \A d \in Calls : d # c => rx'[d] = rx[d]
        /\ voiceState' = [voiceState EXCEPT ![ServerOf[c]] = c]
        /\ UNCHANGED <<running, channels, sending>>
    BY <1>0, <1>4 DEF Join, TypeOK
  <2>2. RoutedWhileOpen' /\ SendingIsRouted' /\ OpenWhileRunning'
    BY <1>0, <2>1 DEF RoutedWhileOpen, SendingIsRouted, OpenWhileRunning, Open
  <2>3. JoinedWhileOpen'
    BY <1>0, <2>1 DEF JoinedWhileOpen, TypeOK
  <2>4. QED
    BY <2>2, <2>3
<1>5. ASSUME NEW c \in Calls, ClosingStep(c) PROVE Rest'
  <2>1. /\ Open(c) /\ rx'[c] = "closed"
        /\ \A d \in Calls : d # c => rx'[d] = rx[d]
        /\ UNCHANGED <<running, channels, sending>>
    BY <1>0, <1>5 DEF ClosingStep, DropPrepared, JoinFails, Leave, Close, Open, TypeOK
  <2>2. RoutedWhileOpen' /\ SendingIsRouted' /\ OpenWhileRunning'
    BY <1>0, <2>1 DEF RoutedWhileOpen, SendingIsRouted, OpenWhileRunning, Open
  <2>3. JoinedWhileOpen'
    <3>1. CASE Leave(c)
      BY <1>0, <2>1, <3>1 DEF Leave, JoinedWhileOpen, TypeOK
    <3>2. CASE DropPrepared(c) \/ JoinFails(c)
      BY <1>0, <2>1, <3>2 DEF DropPrepared, JoinFails, JoinedWhileOpen, TypeOK
    <3>3. QED
      BY <1>5, <3>1, <3>2 DEF ClosingStep
  <2>4. QED
    BY <2>2, <2>3
<1>6. ASSUME NEW s \in Servers, Dispatch(s) PROVE Rest'
  <2>1. CASE DispatchQueued(s)
    BY <1>0, <2>1 DEF DispatchQueued, RoutedWhileOpen, JoinedWhileOpen, SendingIsRouted,
                      OpenWhileRunning, Open
  <2>2. CASE DispatchBlocks(s)
    BY <1>0, <2>2 DEF DispatchBlocks, Listening, RoutedWhileOpen, JoinedWhileOpen,
                      SendingIsRouted, OpenWhileRunning, Open, TypeOK
  <2>3. CASE DispatchRemoves(s)
    BY <1>0, <2>3 DEF DispatchRemoves, DispatcherIdle, RoutedWhileOpen, JoinedWhileOpen,
                      SendingIsRouted, OpenWhileRunning, Open, TypeOK
  <2>4. QED
    BY <1>6, <2>1, <2>2, <2>3 DEF Dispatch
<1>7. ASSUME SendResumes PROVE Rest'
  <2>1. sending' = NoCall /\ UNCHANGED <<running, channels, rx, voiceState>>
    BY <1>7 DEF SendResumes
  <2>2. QED
    BY <1>0, <2>1 DEF RoutedWhileOpen, JoinedWhileOpen, SendingIsRouted, OpenWhileRunning, Open
<1>8. ASSUME SendFails PROVE Rest'
  <2>1. /\ sending \in Calls /\ ~Open(sending) /\ sending' = NoCall
        /\ channels' = [channels EXCEPT ![ServerOf[sending]] = NoCall]
        /\ UNCHANGED <<running, rx, voiceState>>
    BY <1>0, <1>8 DEF SendFails, TypeOK
  <2>2. \A c \in Calls : Open(c) => ServerOf[c] # ServerOf[sending]
    BY <1>0, <2>1 DEF SendingIsRouted, RoutedWhileOpen
  <2>3. RoutedWhileOpen'
    BY <1>0, <2>1, <2>2 DEF RoutedWhileOpen, Open, TypeOK
  <2>4. JoinedWhileOpen' /\ SendingIsRouted' /\ OpenWhileRunning'
    BY <1>0, <2>1 DEF JoinedWhileOpen, SendingIsRouted, OpenWhileRunning, Open
  <2>5. QED
    BY <2>3, <2>4
<1>9. ASSUME Stop PROVE Rest'
  <2>1. \A c \in Calls : rx'[c] \in {"none", "closed"}
    BY <1>9, Zenon DEF Stop
  <2>2. running' = FALSE /\ sending' = NoCall
    BY <1>9 DEF Stop
  <2>3. QED
    BY <2>1, <2>2 DEF RoutedWhileOpen, JoinedWhileOpen, SendingIsRouted, OpenWhileRunning, Open
<1>10. ASSUME UNCHANGED vars PROVE Rest'
  <2>1. UNCHANGED <<running, channels, rx, sending, voiceState>>
    BY <1>10 DEF vars
  <2>2. QED
    BY <1>0, <2>1 DEF RoutedWhileOpen, JoinedWhileOpen, SendingIsRouted, OpenWhileRunning, Open
<1>11. Rest'
  BY <1>1, <1>2, <1>3, <1>4, <1>5, <1>6, <1>7, <1>8, <1>9, <1>10
     DEF Next, Prepare, Place, TaskStep, ClosingStep
<1>12. QED
  BY <1>0, <1>11 DEF RegistryInv

-----------------------------------------------------------------------------
(***************************************************************************)
(* Invariants of the specification.                                        *)
(***************************************************************************)

\* RegistryInv holds in every reachable state.
THEOREM RegistryInvariant == Spec => []RegistryInv
<1> QED
  BY InitInv, InvStep, PTL DEF Spec

\* Every variable keeps its type; no event channel exceeds its capacity.
THEOREM TypeCorrect == Spec => []TypeOK
<1>1. RegistryInv => TypeOK
  BY DEF RegistryInv
<1> QED
  BY <1>1, RegistryInvariant, PTL

\* The map routes a server's events to the call that listens there, although
\* the dispatcher removes entries of ended calls after having waited.
THEOREM EventsReachOpenCalls == Spec => []RoutedWhileOpen
<1>1. RegistryInv => RoutedWhileOpen
  BY DEF RegistryInv
<1> QED
  BY <1>1, RegistryInvariant, PTL

\* No two calls listen on one server: exclusive_server_events is exclusive.
THEOREM Exclusivity == Spec => []OneCallPerServer
<1>1. RegistryInv => OneCallPerServer
  BY DEF RegistryInv, RoutedWhileOpen, OneCallPerServer
<1> QED
  BY <1>1, RegistryInvariant, PTL

\* Until the module is unloaded, the bot is in no voice channel for a call that
\* has ended.
THEOREM NobodyForgetsToLeave == Spec => []JoinedWhileOpen
<1>1. RegistryInv => JoinedWhileOpen
  BY DEF RegistryInv
<1> QED
  BY <1>1, RegistryInvariant, PTL

-----------------------------------------------------------------------------
(***************************************************************************)
(* The voice state on Discord.                                             *)
(***************************************************************************)

\* The step form of OnlyOwnLeave.
OwnLeave == \A s \in Servers :
    voiceState[s] # NoCall /\ voiceState'[s] # voiceState[s]
       => Open(voiceState[s]) /\ rx'[voiceState[s]] = "closed"

\* A call that announced itself is routed, so a call joining its server would be
\* routed too: they are the same call, and it joins only once.
LEMMA OwnLeaveStep == RegistryInv /\ [Next]_vars => OwnLeave
<1> SUFFICES ASSUME RegistryInv, [Next]_vars,
                    NEW s \in Servers,
                    voiceState[s] # NoCall, voiceState'[s] # voiceState[s]
             PROVE  Open(voiceState[s]) /\ rx'[voiceState[s]] = "closed"
  BY DEF OwnLeave
<1> USE RegistryAssumption
<1>1. PICK c \in Calls : Join(c) \/ Leave(c)
  <2>1. voiceState' # voiceState
    OBVIOUS
  <2>2. QED
    BY <2>1 DEF Next, vars, Request, Prepare, PrepareRefused, PrepareGranted, PrepareFailed,
                Place, StartTask, DropPrepared, TaskStep, JoinFails, Take, Stall, Resume,
                Dispatch, DispatchQueued, DispatchBlocks, DispatchRemoves,
                SendResumes, SendFails, Stop
<1>2. Open(c) /\ running /\ channels[ServerOf[c]] = c /\ ServerOf[c] = s
  BY <1>1 DEF RegistryInv, TypeOK, RoutedWhileOpen, OpenWhileRunning, Open, Join, Leave
<1>3. rx[voiceState[s]] \in {"task", "stalled"} /\ voiceState[s] \in Calls /\ ServerOf[voiceState[s]] = s
  BY <1>2 DEF RegistryInv, TypeOK, JoinedWhileOpen
<1>4. voiceState[s] = c
  BY <1>2, <1>3 DEF RegistryInv, RoutedWhileOpen, Open
<1>5. CASE Join(c)
  BY <1>3, <1>4, <1>5 DEF Join
<1>6. CASE Leave(c)
  BY <1>2, <1>4, <1>6 DEF Leave, Close, RegistryInv, TypeOK
<1>7. QED
  BY <1>1, <1>5, <1>6

\* No call's join or leave disturbs the seat another call took.
THEOREM SeatsAreSafe == Spec => OnlyOwnLeave
<1>1. RegistryInv /\ [Next]_vars
        => [\A s \in Servers : voiceState[s] # NoCall /\ voiceState'[s] # voiceState[s]
               => Open(voiceState[s]) /\ rx'[voiceState[s]] = "closed"]_vars
  BY OwnLeaveStep DEF OwnLeave
<1> QED
  BY <1>1, RegistryInvariant, PTL DEF Spec, OnlyOwnLeave

-----------------------------------------------------------------------------
(***************************************************************************)
(* The registry implements ExclusiveServer.                                *)
(***************************************************************************)

\* The call owning a server in the abstract specification.
Owner(s) == IF Listening(s) THEN channels[s] ELSE NoCall

\* What the abstract specification knows of a call's answer.
Told(c) == IF answer[c] = "pending" THEN "none" ELSE answer[c]

\* The initial state is one of ExclusiveServer.
LEMMA RefinesInit == Init => ES!Init
<1> SUFFICES ASSUME Init PROVE ES!Init
  OBVIOUS
<1>1. \A s \in Servers : ~Listening(s)
  BY DEF Init, Listening
<1>2. \A c \in Calls : answer[c] = "none"
  BY DEF Init
<1>3. QED
  BY <1>1, <1>2 DEF ES!Init

\* Every step is a grant, a refusal, a failure, a release, or invisible.
LEMMA RefinesNext == RegistryInv /\ RegistryInv' /\ [Next]_vars => [ES!Next]_ES!avars
<1> SUFFICES ASSUME RegistryInv, RegistryInv', [Next]_vars PROVE [ES!Next]_ES!avars
  OBVIOUS
<1> USE RegistryAssumption
<1> DEFINE Same == (\A s \in Servers : Owner(s)' = Owner(s)) /\ answer' = answer
<1>0. TypeOK /\ TypeOK' /\ RoutedWhileOpen /\ OpenWhileRunning
  BY DEF RegistryInv
<1>1. ASSUME Same PROVE UNCHANGED ES!avars
  BY <1>1, Zenon DEF Owner, ES!avars
<1>2. ASSUME NEW c \in Calls, Request(c) PROVE UNCHANGED ES!avars
  <2>1. \A s \in Servers : Owner(s)' = Owner(s)
    BY <1>2 DEF Request, Owner, Listening, Open
  <2>2. \A d \in Calls : Told(d)' = Told(d)
    BY <1>0, <1>2 DEF Request, Told, TypeOK
  <2>3. QED
    BY <2>1, <2>2, Zenon DEF Owner, Told, ES!avars
<1>3. ASSUME NEW c \in Calls, Prepare(c) PROVE ES!Next
  <2>1. /\ answer[c] = "pending"
        /\ \A d \in Calls : d # c => answer'[d] = answer[d]
    BY <1>0, <1>3 DEF Prepare, PrepareRefused, PrepareGranted, PrepareFailed, TypeOK
  <2>2. \A d \in Calls : d # c => Told(d)' = Told(d)
    BY <2>1 DEF Told
  <2>3. CASE PrepareRefused(c)
    <3>1. answer'[c] = "refused"
      BY <1>0, <2>3 DEF PrepareRefused, TypeOK
    <3>2. \A s \in Servers : Owner(s)' = Owner(s)
      BY <2>3 DEF PrepareRefused, Owner, Listening, Open
    <3>3. Owner(ServerOf[c]) # NoCall
      BY <2>3 DEF PrepareRefused, Taken, Owner, Listening
    <3>4. ES!Refuse(c)
      BY <2>1, <2>2, <3>1, <3>2, <3>3 DEF ES!Refuse, Told, Owner
    <3>5. QED
      BY <3>4 DEF ES!Next
  <2>4. CASE PrepareGranted(c)
    <3>1. /\ answer'[c] = "granted" /\ rx'[c] = "worker" /\ channels'[ServerOf[c]] = c
          /\ \A s \in Servers : s # ServerOf[c] => channels'[s] = channels[s]
          /\ \A d \in Calls : d # c => rx'[d] = rx[d]
      BY <1>0, <2>4 DEF PrepareGranted, TypeOK
    <3>2. Owner(ServerOf[c]) = NoCall /\ Owner(ServerOf[c])' = c
      BY <2>4, <3>1 DEF PrepareGranted, Taken, Owner, Listening, Open
    <3>3. \A s \in Servers : s # ServerOf[c] => Owner(s)' = Owner(s)
      BY <1>0, <3>1 DEF Owner, Listening, Open, TypeOK
    <3>4. ES!Grant(c)
      BY <2>1, <2>2, <3>1, <3>2, <3>3 DEF ES!Grant, Told, Owner
    <3>5. QED
      BY <3>4 DEF ES!Next
  <2>5. CASE PrepareFailed(c)
    <3>1. /\ answer'[c] = "failed" /\ rx'[c] = "closed" /\ channels'[ServerOf[c]] = c
          /\ \A s \in Servers : s # ServerOf[c] => channels'[s] = channels[s]
          /\ \A d \in Calls : d # c => rx'[d] = rx[d]
      BY <1>0, <2>5 DEF PrepareFailed, Close, TypeOK
    <3>2. Owner(ServerOf[c]) = NoCall /\ Owner(ServerOf[c])' = NoCall
      BY <2>5, <3>1 DEF PrepareFailed, Taken, Owner, Listening, Open
    <3>3. \A s \in Servers : s # ServerOf[c] => Owner(s)' = Owner(s)
      BY <1>0, <3>1 DEF Owner, Listening, Open, TypeOK
    <3>4. ES!Fail(c)
      BY <2>1, <2>2, <3>1, <3>2, <3>3 DEF ES!Fail, Told, Owner
    <3>5. QED
      BY <3>4 DEF ES!Next
  <2>6. QED
    BY <1>3, <2>3, <2>4, <2>5 DEF Prepare
<1>4. ASSUME NEW c \in Calls, ClosingStep(c) PROVE ES!Next
  <2>1. /\ Open(c) /\ rx'[c] = "closed" /\ UNCHANGED <<channels, answer>>
        /\ \A d \in Calls : d # c => rx'[d] = rx[d]
    BY <1>0, <1>4 DEF ClosingStep, DropPrepared, JoinFails, Leave, Close, Open, TypeOK
  <2>2. channels[ServerOf[c]] = c
    BY <1>0, <2>1 DEF RoutedWhileOpen
  <2>3. \A s \in Servers : Owner(s)' = IF s \in {ServerOf[c]} THEN NoCall ELSE Owner(s)
    BY <1>0, <2>1, <2>2 DEF Owner, Listening, Open, TypeOK
  <2>4. ES!Release({ServerOf[c]})
    BY <2>1, <2>3, Zenon DEF ES!Release, Owner
  <2>5. {ServerOf[c]} \in SUBSET Servers
    OBVIOUS
  <2>6. QED
    BY <2>4, <2>5 DEF ES!Next
<1>5. ASSUME NEW c \in Calls, StartTask(c) \/ Stall(c) \/ Resume(c) \/ Join(c) \/ Take(c)
      PROVE UNCHANGED ES!avars
  <2>1. /\ UNCHANGED <<channels, answer>>
        /\ \A d \in Calls : Open(d)' = Open(d)
    BY <1>0, <1>5 DEF StartTask, Stall, Resume, Join, Take, Open, TypeOK
  <2>2. Same
    BY <1>0, <2>1 DEF Owner, Listening, TypeOK
  <2>3. QED
    BY <1>1, <2>2
<1>6. ASSUME NEW s \in Servers, Dispatch(s) PROVE UNCHANGED ES!avars
  <2>1. /\ UNCHANGED <<rx, answer>>
        /\ \A t \in Servers : channels'[t] # channels[t]
              => channels[t] # NoCall /\ ~Open(channels[t]) /\ channels'[t] = NoCall
    BY <1>0, <1>6 DEF Dispatch, DispatchQueued, DispatchBlocks, DispatchRemoves, TypeOK
  <2>2. Same
    BY <2>1 DEF Owner, Listening, Open
  <2>3. QED
    BY <1>1, <2>2
<1>7. ASSUME SendResumes PROVE UNCHANGED ES!avars
  <2>1. Same
    BY <1>7 DEF SendResumes, Owner, Listening, Open
  <2>2. QED
    BY <1>1, <2>1
<1>8. ASSUME SendFails PROVE UNCHANGED ES!avars
  <2>1. /\ UNCHANGED <<rx, answer>> /\ ~Open(sending) /\ sending \in Calls
        /\ channels[ServerOf[sending]] = sending
        /\ channels' = [channels EXCEPT ![ServerOf[sending]] = NoCall]
    BY <1>0, <1>8 DEF SendFails, RegistryInv, SendingIsRouted, TypeOK
  <2>2. Same
    BY <1>0, <2>1 DEF Owner, Listening, Open, TypeOK
  <2>3. QED
    BY <1>1, <2>2
<1>9. ASSUME Stop PROVE ES!Next
  <2>1. answer' = answer /\ \A s \in Servers : channels'[s] = NoCall
    BY <1>9 DEF Stop
  <2>2. \A s \in Servers : Owner(s)' = IF s \in Servers THEN NoCall ELSE Owner(s)
    BY <2>1 DEF Owner, Listening
  <2>3. ES!Release(Servers)
    BY <2>1, <2>2, Zenon DEF ES!Release, Owner
  <2>4. Servers \in SUBSET Servers
    OBVIOUS
  <2>5. QED
    BY <2>3, <2>4 DEF ES!Next
<1>10. ASSUME UNCHANGED vars PROVE UNCHANGED ES!avars
  <2>1. Same
    BY <1>10 DEF vars, Owner, Listening, Open
  <2>2. QED
    BY <1>1, <2>1
<1>11. QED
  BY <1>2, <1>3, <1>4, <1>5, <1>6, <1>7, <1>8, <1>9, <1>10
     DEF Next, Place, TaskStep, ClosingStep

\* The registry hands out each server to one call at a time, and refuses a call
\* only while another one really listens, for any number of calls and servers.
THEOREM RegistryRefinesExclusiveServer == Spec => Exclusive
<1> QED
  BY RegistryInvariant, RefinesInit, RefinesNext, PTL DEF Spec, Exclusive, ES!Spec
=============================================================================
