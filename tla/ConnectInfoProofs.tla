------------------------- MODULE ConnectInfoProofs -------------------------
(***************************************************************************)
(* Proofs about ConnectInfo for every number of calls, of servers and of   *)
(* updates about other users, and every capacity of the event channel.     *)
(*                                                                         *)
(* That a call identifies with a token of its own seat is no invariant of  *)
(* the bot alone: it needs what Discord still owes it, what is on the      *)
(* wire and in the channel, and that the seat was given back before.       *)
(***************************************************************************)
EXTENDS ConnectInfo, SequenceTheorems, TLAPS

\* A server's endpoint comes with its token, or not at all.
PairedUpdates == {u \in Updates : u.kind = "server" =>
                     u.token.server # 0 /\ u.endpoint \in {0, u.token.server}}

\* What Discord and the dispatcher have under way is paired, and a server is
\* owed only to a bot that is seated.
PairedOnTheWay == /\ wire \in Seq(PairedUpdates) /\ gevents \in Seq(PairedUpdates)
                  /\ "server" \in owed => seat # 0

\* WaitForConnectInfo as TypeOK types it, its endpoint beside its token.
InfoTyped(i) == /\ i \in [channel : BOOLEAN, session : {"none", "bot", "stranger"},
                          token : [server : Nat, seat : 0 .. Calls], endpoint : Nat]
                /\ i.endpoint \in {0, i.token.server}

\* TypeOK for the other variables.
RestTyped == /\ call \in 0 .. Calls
             /\ status \in {"closed", "prepared", "WaitingForEvents", "Identified"}
             /\ gevents \in Seq(Updates) /\ Len(gevents) <= EventCap
             /\ wire \in Seq(Updates)
             /\ intents \in Seq(0 .. Calls)
             /\ owed \subseteq {"state", "server"}
             /\ seat \in 0 .. Calls
             /\ servers \in Nat /\ strangers \in 0 .. StrangerCap
             /\ inFlight \in BOOLEAN /\ overrun \in BOOLEAN

\* The types, with what keeps them.
TypeInv == RestTyped /\ InfoTyped(info) /\ PairedOnTheWay

\* The last word Discord has had from the bot, or will have, is that it leaves.
Leaving == IF intents = <<>> THEN seat = 0 ELSE intents[Len(intents)] = 0

\* Between two calls the bot is leaving or has left.
LeftBetweenCalls == status \in {"closed", "prepared"} => Leaving

\* Updates that are not about the voice server of another call.
OwnUpdates == {u \in Updates : u.kind = "server" => u.token.seat = call}

\* With nothing in flight at its start, all that reaches a call is its own: the
\* intents, the seat, the updates under way and the token it has.
AllIsOwn == status # "closed" /\ ~inFlight =>
                /\ intents \in Seq({call}) /\ seat \in {0, call}
                /\ wire \in Seq(OwnUpdates) /\ gevents \in Seq(OwnUpdates)
                /\ info.token.server # 0 => info.token.seat = call
                /\ status = "prepared" => intents = <<>> /\ owed = {}

\* A call identifies with complete information only.
IdentifiedIsComplete == status = "Identified" => IsComplete(info)

ConnectInv == TypeInv /\ LeftBetweenCalls /\ AllIsOwn /\ IdentifiedIsComplete

-----------------------------------------------------------------------------
\* Appending to and taking from a sequence over a set keeps it one.
LEMMA SeqOver ==
    ASSUME NEW S, NEW s \in Seq(S), NEW e \in S
    PROVE  /\ Append(s, e) \in Seq(S)
           /\ s # <<>> => Head(s) \in S /\ Tail(s) \in Seq(S) /\ Len(Tail(s)) = Len(s) - 1
           /\ Len(Append(s, e)) = Len(s) + 1
           /\ Append(s, e)[Len(Append(s, e))] = e
           /\ Append(s, e) # <<>>
  BY AppendProperties, HeadTailProperties

\* Taking the head leaves the last element where it was, or nothing.
LEMMA LastOfTail ==
    ASSUME NEW S, NEW s \in Seq(S), s # <<>>
    PROVE  IF Tail(s) = <<>> THEN Head(s) = s[Len(s)]
           ELSE Tail(s)[Len(Tail(s))] = s[Len(s)]
<1>1. /\ Len(s) \in Nat \ {0} /\ Head(s) = s[1]
      /\ Tail(s) \in Seq(S) /\ Len(Tail(s)) = Len(s) - 1
      /\ \A i \in 1 .. Len(Tail(s)) : Tail(s)[i] = s[i + 1]
  BY EmptySeq, HeadTailProperties
<1>2. CASE Tail(s) = <<>>
  <2>1. Len(Tail(s)) = 0
    BY <1>2, EmptySeq
  <2>2. Len(s) = 1
    <3>1. Len(s) - 1 = 0 /\ Len(s) \in Nat
      BY <1>1, <2>1, Zenon
    <3>2. QED
      BY <3>1
  <2>3. QED
    BY <1>1, <1>2, <2>2, Zenon
<1>3. CASE Tail(s) # <<>>
  <2>1. Len(Tail(s)) \in Nat \ {0}
    BY <1>1, <1>3, EmptySeq
  <2>2. Tail(s)[Len(Tail(s))] = s[Len(Tail(s)) + 1]
    BY <1>1, <2>1
  <2>3. QED
    BY <1>1, <1>3, <2>2
<1>4. QED
  BY <1>2, <1>3

\* A call starts with no information, which is typed.
LEMMA NoInfoTyped == InfoTyped(NoInfo)
  BY ConnectAssumption DEF InfoTyped, NoInfo

\* Nothing is under way at the start.
LEMMA InitInv == Init => ConnectInv
<1> SUFFICES ASSUME Init PROVE ConnectInv
  OBVIOUS
<1> USE ConnectAssumption DEF Init
<1>1. TypeInv
  <2>1. <<>> \in Seq(Updates) /\ <<>> \in Seq(PairedUpdates) /\ <<>> \in Seq(0 .. Calls)
        /\ Len(<<>>) = 0
    BY EmptySeq
  <2>2. RestTyped
    <3>1. /\ call \in 0 .. Calls /\ seat \in 0 .. Calls /\ servers \in Nat
          /\ strangers \in 0 .. StrangerCap /\ 0 <= EventCap
      OBVIOUS
    <3>2. /\ gevents \in Seq(Updates) /\ Len(gevents) = 0
          /\ wire \in Seq(Updates) /\ intents \in Seq(0 .. Calls)
      BY <2>1, Zenon
    <3>3. QED
      BY <3>1, <3>2 DEF RestTyped
  <2>3. PairedOnTheWay
    BY <2>1 DEF PairedOnTheWay
  <2>4. QED
    BY <2>2, <2>3, NoInfoTyped DEF TypeInv
<1>2. LeftBetweenCalls /\ AllIsOwn /\ IdentifiedIsComplete
  BY DEF LeftBetweenCalls, Leaving, AllIsOwn, IdentifiedIsComplete
<1>3. QED
  BY <1>1, <1>2 DEF ConnectInv

\* Every update Discord sends is paired.
LEMMA SentIsPaired ==
    ASSUME TypeInv
    PROVE  /\ \A u \in {"bot", "stranger"}, j \in BOOLEAN : StateUpdate(u, j) \in PairedUpdates
           /\ seat # 0 => \A up \in BOOLEAN : ServerUpdate(servers + 1, seat, up) \in PairedUpdates
  BY DEF TypeInv, RestTyped, PairedUpdates, Updates, StateUpdate, ServerUpdate

\* apply keeps the type of a call's information, its endpoint beside its token.
LEMMA AppliedTyped ==
    ASSUME TypeInv, NEW e \in PairedUpdates, NEW i, i = Applied(info, e)
    PROVE  InfoTyped(i)
<1> USE ConnectAssumption DEF TypeInv, InfoTyped
<1>1. CASE e.kind = "state"
  <2>1. e \in [kind : {"state"}, session : {"bot", "stranger"}, channel : BOOLEAN]
    BY <1>1 DEF PairedUpdates, Updates
  <2>2. QED
    BY <1>1, <2>1 DEF Applied
<1>2. CASE e.kind # "state"
  <2>1. /\ e \in [kind : {"server"}, token : [server : Nat, seat : 1 .. Calls], endpoint : Nat]
        /\ e.endpoint \in {0, e.token.server}
    BY <1>2 DEF PairedUpdates, Updates
  <2>2. e.token \in [server : Nat, seat : 0 .. Calls] /\ e.endpoint \in Nat
    BY <2>1
  <2>3. /\ i = [info EXCEPT !.token = e.token, !.endpoint = e.endpoint]
        /\ i.token = e.token /\ i.endpoint = e.endpoint
    BY <1>2 DEF Applied
  <2>4. QED
    BY <2>1, <2>2, <2>3
<1>3. QED
  BY <1>1, <1>2

\* Every step keeps the types, and what is under way paired.
LEMMA TypeStep == TypeInv /\ [Next]_vars => TypeInv'
<1> SUFFICES ASSUME TypeInv, [Next]_vars PROVE TypeInv'
  OBVIOUS
<1> USE ConnectAssumption DEF TypeInv, RestTyped, PairedOnTheWay, botVars, discordVars
<1>1. CASE Prepare
  <2>1. gevents' \in Seq(Updates) /\ gevents' \in Seq(PairedUpdates) /\ Len(gevents') <= EventCap
    BY <1>1, EmptySeq DEF Prepare
  <2>2. call' \in 0 .. Calls /\ status' = "prepared" /\ inFlight' \in BOOLEAN /\ overrun' = FALSE
    BY <1>1 DEF Prepare
  <2>3. InfoTyped(info') /\ UNCHANGED <<intents, discordVars, wire>>
    BY <1>1, NoInfoTyped DEF Prepare
  <2>4. QED
    BY <2>1, <2>2, <2>3
<1>2. CASE JoinIntent
  BY <1>2, SeqOver DEF JoinIntent
<1>3. CASE HandleGlobal
  <2>1. /\ gevents # <<>> /\ gevents' = Tail(gevents)
        /\ UNCHANGED <<call, intents, discordVars, wire, inFlight>>
    BY <1>3 DEF HandleGlobal
  <2>2. /\ gevents' \in Seq(Updates) /\ gevents' \in Seq(PairedUpdates)
        /\ Len(gevents') <= EventCap /\ Head(gevents) \in PairedUpdates
    BY <2>1, HeadTailProperties
  <2>3. InfoTyped(info')
    <3>1. CASE info' = Applied(info, Head(gevents))
      BY <3>1, <2>2, AppliedTyped
    <3>2. CASE info' = info
      BY <3>2
    <3>3. QED
      BY <1>3, <3>1, <3>2 DEF HandleGlobal
  <2>4. status' \in {"WaitingForEvents", "Identified"} /\ overrun' \in BOOLEAN
    BY <1>3 DEF HandleGlobal
  <2>5. QED
    BY <2>1, <2>2, <2>3, <2>4
<1>4. CASE Close
  <2>1. intents' \in Seq(0 .. Calls)
    <3>1. 0 \in 0 .. Calls
      OBVIOUS
    <3>2. QED
      BY <1>4, <3>1, AppendProperties DEF Close
  <2>2. QED
    BY <1>4, <2>1 DEF Close
<1>5. CASE Dispatch
  <2>1. /\ Head(wire) \in Updates /\ Head(wire) \in PairedUpdates
        /\ Tail(wire) \in Seq(Updates) /\ Tail(wire) \in Seq(PairedUpdates)
    BY <1>5, HeadTailProperties DEF Dispatch
  <2>2. /\ gevents' \in Seq(Updates) /\ gevents' \in Seq(PairedUpdates)
        /\ Len(gevents') <= EventCap
    <3>1. CASE gevents' = gevents
      BY <3>1
    <3>2. CASE Len(gevents) < EventCap /\ gevents' = Append(gevents, Head(wire))
      <4>1. Len(gevents) \in Nat /\ Len(gevents') = Len(gevents) + 1
        BY <2>1, <3>2, LenProperties, AppendProperties
      <4>2. gevents' \in Seq(Updates) /\ gevents' \in Seq(PairedUpdates)
        BY <2>1, <3>2, AppendProperties
      <4>3. QED
        BY <3>2, <4>1, <4>2
    <3>3. QED
      BY <1>5, <3>1, <3>2 DEF Dispatch
  <2>3. QED
    BY <1>5, <2>1, <2>2 DEF Dispatch
<1>6. CASE TakeIntent
  <2>1. Head(intents) \in 0 .. Calls /\ Tail(intents) \in Seq(0 .. Calls)
    BY <1>6, HeadTailProperties DEF TakeIntent
  <2>2. QED
    BY <1>6, <2>1 DEF TakeIntent
<1>7. ASSUME NEW e \in PairedUpdates, wire' = Append(wire, e)
      PROVE  wire' \in Seq(Updates) /\ wire' \in Seq(PairedUpdates)
  BY <1>7, AppendProperties DEF PairedUpdates
<1>8. CASE SendState
  BY <1>8, <1>7, SentIsPaired DEF SendState
<1>9. CASE SendServer
  <2>1. wire' \in Seq(Updates) /\ wire' \in Seq(PairedUpdates)
    BY <1>9, <1>7, SentIsPaired DEF SendServer
  <2>2. servers' \in Nat /\ owed' \subseteq {"state", "server"} /\ ("server" \in owed' => seat' # 0)
    BY <1>9 DEF SendServer
  <2>3. UNCHANGED <<botVars, intents, seat, strangers>>
    BY <1>9 DEF SendServer
  <2>4. QED
    BY <2>1, <2>2, <2>3
<1>10. CASE LoseServer
  <2>1. wire' \in Seq(Updates) /\ wire' \in Seq(PairedUpdates)
    BY <1>10, <1>7, SentIsPaired DEF LoseServer
  <2>2. servers' \in Nat /\ owed' \subseteq {"state", "server"} /\ ("server" \in owed' => seat' # 0)
    BY <1>10 DEF LoseServer
  <2>3. UNCHANGED <<botVars, intents, seat, strangers>>
    BY <1>10 DEF LoseServer
  <2>4. QED
    BY <2>1, <2>2, <2>3
<1>11. ASSUME NEW joined \in BOOLEAN, StrangerMoves(joined) PROVE TypeInv'
  BY <1>11, <1>7, SentIsPaired DEF StrangerMoves
<1>12. CASE UNCHANGED vars
  BY <1>12 DEF vars
<1>13. QED
  BY <1>1, <1>2, <1>3, <1>4, <1>5, <1>6, <1>8, <1>9, <1>10, <1>11, <1>12 DEF Next

\* Every step keeps the bot leaving between two calls: Close announces it, and
\* Discord takes the intents in their order.
LEMMA LeftStep == TypeInv /\ LeftBetweenCalls /\ [Next]_vars => LeftBetweenCalls'
<1> SUFFICES ASSUME TypeInv, LeftBetweenCalls, [Next]_vars PROVE LeftBetweenCalls'
  OBVIOUS
<1>0. intents \in Seq(0 .. Calls) /\ 0 \in 0 .. Calls
  BY ConnectAssumption DEF TypeInv, RestTyped
<1> USE DEF LeftBetweenCalls, botVars, discordVars
<1>1. CASE Prepare
  BY <1>1 DEF Prepare, Leaving
<1>2. CASE JoinIntent
  BY <1>2 DEF JoinIntent
<1>3. CASE HandleGlobal
  BY <1>3 DEF HandleGlobal
<1>4. CASE Close
  <2>1. CASE status = "prepared"
    BY <1>4, <2>1 DEF Close, Leaving
  <2>2. CASE status # "prepared"
    <3>1. intents' = Append(intents, 0)
      BY <1>4, <2>2 DEF Close
    <3>2. intents' # <<>> /\ intents'[Len(intents')] = 0
      BY <1>0, <3>1, SeqOver
    <3>3. QED
      BY <3>2 DEF Leaving
  <2>3. QED
    BY <2>1, <2>2
<1>5. CASE TakeIntent
  <2>1. intents # <<>> /\ seat' = Head(intents) /\ intents' = Tail(intents) /\ status' = status
    BY <1>5 DEF TakeIntent
  <2>2. IF Tail(intents) = <<>> THEN Head(intents) = intents[Len(intents)]
        ELSE Tail(intents)[Len(Tail(intents))] = intents[Len(intents)]
    BY <1>0, <2>1, LastOfTail
  <2>3. QED
    BY <2>1, <2>2, Zenon DEF Leaving
<1>6. CASE Dispatch \/ SendState \/ SendServer \/ LoseServer
           \/ (\E joined \in BOOLEAN : StrangerMoves(joined)) \/ UNCHANGED vars
  <2>1. UNCHANGED <<status, intents, seat>>
    BY <1>6 DEF Dispatch, SendState, SendServer, LoseServer, StrangerMoves, vars
  <2>2. QED
    BY <2>1 DEF Leaving
<1>7. QED
  BY <1>1, <1>2, <1>3, <1>4, <1>5, <1>6 DEF Next

\* Every step keeps what reaches a call its own.
LEMMA OwnStep == TypeInv /\ LeftBetweenCalls /\ AllIsOwn /\ [Next]_vars => AllIsOwn'
<1> SUFFICES ASSUME TypeInv, LeftBetweenCalls, AllIsOwn, [Next]_vars,
                    status' # "closed", ~inFlight'
             PROVE  /\ intents' \in Seq({call'}) /\ seat' \in {0, call'}
                    /\ wire' \in Seq(OwnUpdates') /\ gevents' \in Seq(OwnUpdates')
                    /\ info'.token.server # 0 => info'.token.seat = call'
                    /\ status' = "prepared" => intents' = <<>> /\ owed' = {}
  BY DEF AllIsOwn
<1> USE DEF botVars, discordVars
<1>1. CASE Prepare
  <2>1. intents = <<>> /\ owed = {} /\ wire = <<>> /\ status = "closed"
    BY <1>1 DEF Prepare
  <2>2. seat = 0
    BY <2>1 DEF LeftBetweenCalls, Leaving
  <2>3. /\ intents' = <<>> /\ owed' = {} /\ wire' = <<>> /\ gevents' = <<>> /\ seat' = 0
        /\ info' = NoInfo
    BY <1>1, <2>1, <2>2 DEF Prepare
  <2>4. info'.token.server = 0
    BY <2>3 DEF NoInfo
  <2>5. intents' \in Seq({call'}) /\ wire' \in Seq(OwnUpdates') /\ gevents' \in Seq(OwnUpdates')
    BY <2>3, EmptySeq
  <2>6. QED
    BY <2>3, <2>4, <2>5
<1>2. ASSUME ~Prepare
      PROVE  /\ status # "closed" /\ ~inFlight /\ call' = call /\ OwnUpdates' = OwnUpdates
             /\ intents \in Seq({call}) /\ seat \in {0, call}
             /\ wire \in Seq(OwnUpdates) /\ gevents \in Seq(OwnUpdates)
             /\ info.token.server # 0 => info.token.seat = call
             /\ status = "prepared" => intents = <<>> /\ owed = {} /\ seat = 0
  <2>1. status # "closed" /\ ~inFlight /\ call' = call
    <3>1. CASE JoinIntent
      BY <3>1 DEF JoinIntent
    <3>2. CASE HandleGlobal
      BY <3>2 DEF HandleGlobal
    <3>3. CASE Close
      BY <3>3 DEF Close
    <3>4. CASE Dispatch
      BY <3>4 DEF Dispatch
    <3>5. CASE TakeIntent \/ SendState \/ SendServer \/ LoseServer
               \/ (\E joined \in BOOLEAN : StrangerMoves(joined)) \/ UNCHANGED vars
      <4>1. UNCHANGED botVars
        BY <3>5 DEF TakeIntent, SendState, SendServer, LoseServer, StrangerMoves, vars
      <4>2. QED
        BY <4>1
    <3>6. QED
      BY <1>2, <3>1, <3>2, <3>3, <3>4, <3>5 DEF Next
  <2>2. OwnUpdates' = OwnUpdates
    BY <2>1 DEF OwnUpdates, Updates
  <2>3. QED
    BY <2>1, <2>2 DEF AllIsOwn, LeftBetweenCalls, Leaving
<1>3. CASE JoinIntent
  <2>1. intents' \in Seq({call})
    BY <1>2, <1>3, AppendProperties DEF JoinIntent, Prepare
  <2>2. QED
    BY <1>2, <1>3, <2>1 DEF JoinIntent, Prepare
<1>4. CASE HandleGlobal
  <2>1. ~Prepare /\ gevents # <<>> /\ gevents' = Tail(gevents)
    BY <1>4 DEF HandleGlobal, Prepare
  <2>2. gevents' \in Seq(OwnUpdates) /\ Head(gevents) \in OwnUpdates
    BY <1>2, <2>1, HeadTailProperties
  <2>3. info'.token.server # 0 => info'.token.seat = call
    <3>1. CASE info' = info
      BY <1>2, <2>1, <3>1
    <3>2. CASE info' = Applied(info, Head(gevents)) /\ Head(gevents).kind = "state"
      <4>1. info'.token = info.token
        BY <3>2 DEF Applied, TypeInv, InfoTyped
      <4>2. QED
        BY <1>2, <2>1, <4>1
    <3>3. CASE info' = Applied(info, Head(gevents)) /\ Head(gevents).kind # "state"
      <4>1. info'.token = Head(gevents).token
        BY <3>3 DEF Applied, TypeInv, InfoTyped
      <4>2. Head(gevents).kind = "server" /\ Head(gevents).token.seat = call
        BY <2>2, <3>3 DEF OwnUpdates, Updates
      <4>3. QED
        BY <4>1, <4>2
    <3>4. QED
      BY <1>4, <3>1, <3>2, <3>3 DEF HandleGlobal
  <2>4. status' # "prepared" /\ UNCHANGED <<call, intents, seat, wire>>
    BY <1>4 DEF HandleGlobal
  <2>5. QED
    BY <1>2, <2>1, <2>2, <2>3, <2>4
<1>5. CASE Close
  BY <1>5 DEF Close
<1>6. CASE Dispatch
  <2>1. ~Prepare /\ wire # <<>> /\ wire' = Tail(wire)
        /\ UNCHANGED <<call, status, info, inFlight, intents, seat, owed>>
    BY <1>6 DEF Dispatch, Prepare
  <2>2. wire' \in Seq(OwnUpdates) /\ Head(wire) \in OwnUpdates
    BY <1>2, <2>1, HeadTailProperties
  <2>3. gevents' \in Seq(OwnUpdates)
    <3>1. gevents' = gevents \/ gevents' = Append(gevents, Head(wire))
      BY <1>6 DEF Dispatch
    <3>2. QED
      BY <1>2, <2>1, <2>2, <3>1, AppendProperties
  <2>4. QED
    BY <1>2, <2>1, <2>2, <2>3
<1>7. CASE TakeIntent
  <2>1. ~Prepare /\ intents # <<>> /\ intents' = Tail(intents) /\ seat' = Head(intents)
        /\ UNCHANGED <<call, status, gevents, info, inFlight, wire>>
    BY <1>7 DEF TakeIntent, Prepare
  <2>2. intents' \in Seq({call}) /\ seat' \in {call}
    BY <1>2, <2>1, HeadTailProperties
  <2>3. QED
    BY <1>2, <2>1, <2>2
<1>8. CASE SendState \/ SendServer \/ LoseServer \/ \E joined \in BOOLEAN : StrangerMoves(joined)
  <2>1. /\ ~Prepare /\ UNCHANGED <<call, status, gevents, info, inFlight, intents, seat>>
    BY <1>8 DEF SendState, SendServer, LoseServer, StrangerMoves, Prepare
  <2>2. status = "prepared" => owed' = owed
    BY <1>2, <1>8, <2>1 DEF SendState, SendServer, LoseServer, StrangerMoves
  <2>3. ASSUME NEW e \in OwnUpdates, wire' = Append(wire, e) PROVE wire' \in Seq(OwnUpdates)
    BY <1>2, <2>1, <2>3, AppendProperties
  <2>4. wire' \in Seq(OwnUpdates)
    <3>1. ASSUME NEW u \in {"bot", "stranger"}, NEW j \in BOOLEAN
          PROVE  StateUpdate(u, j) \in OwnUpdates
      BY DEF StateUpdate, OwnUpdates, Updates
    <3>2. ASSUME seat # 0, NEW up \in BOOLEAN
          PROVE  ServerUpdate(servers + 1, seat, up) \in OwnUpdates
      BY <1>2, <2>1, <3>2, SentIsPaired DEF PairedUpdates, OwnUpdates, ServerUpdate
    <3>3. CASE SendState
      BY <2>3, <3>1, <3>3 DEF SendState
    <3>4. CASE SendServer
      BY <2>3, <3>2, <3>4 DEF SendServer, TypeInv, PairedOnTheWay
    <3>5. CASE LoseServer
      BY <2>3, <3>2, <3>5 DEF LoseServer
    <3>6. ASSUME NEW joined \in BOOLEAN, StrangerMoves(joined) PROVE wire' \in Seq(OwnUpdates)
      BY <2>3, <3>1, <3>6 DEF StrangerMoves
    <3>7. QED
      BY <1>8, <3>3, <3>4, <3>5, <3>6
  <2>5. OwnUpdates' = OwnUpdates /\ call' = call
    BY <1>2, <2>1
  <2>6. wire' \in Seq(OwnUpdates') /\ gevents' \in Seq(OwnUpdates') /\ intents' \in Seq({call'})
    BY <1>2, <2>1, <2>4, <2>5
  <2>7. QED
    BY <1>2, <2>1, <2>2, <2>6
<1>9. CASE UNCHANGED vars
  BY <1>2, <1>9 DEF vars, Prepare
<1>10. QED
  BY <1>1, <1>3, <1>4, <1>5, <1>6, <1>7, <1>8, <1>9 DEF Next

\* Every step keeps the invariant.
LEMMA InvStep == ConnectInv /\ [Next]_vars => ConnectInv'
<1> SUFFICES ASSUME ConnectInv, [Next]_vars PROVE ConnectInv'
  OBVIOUS
<1>1. TypeInv' /\ LeftBetweenCalls' /\ AllIsOwn'
  BY TypeStep, LeftStep, OwnStep DEF ConnectInv
<1>2. IdentifiedIsComplete'
  <2> USE DEF IdentifiedIsComplete, botVars, discordVars, ConnectInv
  <2>1. CASE HandleGlobal
    <3>1. CASE status = "Identified" /\ UNCHANGED <<info, status>>
      BY <3>1
    <3>2. CASE status' = IF IsComplete(info') THEN "Identified" ELSE "WaitingForEvents"
      BY <3>2
    <3>3. QED
      BY <2>1, <3>1, <3>2 DEF HandleGlobal
  <2>2. CASE Prepare \/ JoinIntent \/ Close
    BY <2>2 DEF Prepare, JoinIntent, Close
  <2>3. CASE Dispatch \/ TakeIntent \/ SendState \/ SendServer \/ LoseServer
             \/ (\E joined \in BOOLEAN : StrangerMoves(joined)) \/ UNCHANGED vars
    <3>1. UNCHANGED <<status, info>>
      BY <2>3 DEF Dispatch, TakeIntent, SendState, SendServer, LoseServer, StrangerMoves, vars
    <3>2. QED
      BY <3>1
  <2>4. QED
    BY <2>1, <2>2, <2>3 DEF Next
<1>3. QED
  BY <1>1, <1>2 DEF ConnectInv

\* The invariant holds in every state of every behaviour.
LEMMA Invariance == Spec => []ConnectInv
  BY InitInv, InvStep, PTL DEF Spec

-----------------------------------------------------------------------------
\* The variables have their types, however many calls and updates there are; in
\* particular the endpoint of WaitForConnectInfo is that of its token's server.
THEOREM TypeCorrect == Spec => []TypeOK
<1>1. ConnectInv => TypeOK
  BY DEF ConnectInv, TypeInv, RestTyped, InfoTyped, TypeOK
<1>2. QED
  BY <1>1, Invariance, PTL

\* A call identifies with a token of its own seat unless an earlier call's
\* updates were under way at its start: whatever Discord and other users do in
\* between, nothing unread reaches it through exclusive_server_events.
THEOREM OnlyInFlightIsStale == Spec => []StaleOnlyInFlight
<1>1. ConnectInv => StaleOnlyInFlight
  BY DEF ConnectInv, AllIsOwn, IdentifiedIsComplete, IsComplete, StaleOnlyInFlight, TypeInv, RestTyped
<1>2. QED
  BY <1>1, Invariance, PTL
=============================================================================
