---------------------------- MODULE ConnectInfo ----------------------------
(***************************************************************************)
(* How the calls on one server, one after the other, learn where and as    *)
(* whom to identify: WaitForConnectInfo (voice_task.rs) fed with the       *)
(* events of the global gateway that the registry routes to the call       *)
(* (mod.rs).                                                               *)
(*                                                                         *)
(* Discord tells the bot about the voice states of everybody on the        *)
(* server, in updates without a word on which intent they answer, and the  *)
(* registry routes an event to the call that listens when it comes.        *)
(***************************************************************************)
EXTENDS Naturals, Sequences

CONSTANTS Calls,        \* how many calls there are
          EventCap,     \* capacity of a call's channel of events
          StrangerCap,  \* bound on the updates about other users
          ServerCap     \* bound on the voice servers Discord allocates

ASSUME ConnectAssumption == /\ Calls \in Nat /\ StrangerCap \in Nat /\ ServerCap \in Nat
                            /\ EventCap \in Nat \ {0}

VARIABLES call,      \* the latest call
          status,    \* where it is
          gevents,   \* its channel of events
          info,      \* its WaitForConnectInfo, also after start_gateway
          intents,   \* the bot's intents on their way to Discord
          owed,      \* updates Discord has yet to send for the last intent
          seat,      \* the call Discord has seated the bot for, or 0
          servers,   \* the servers Discord has allocated
          wire,      \* events on their way to the dispatcher
          strangers, \* updates about other users so far
          inFlight,  \* an earlier call's updates were not all delivered at its start
          overrun    \* another user's leave came between its updates

botVars == <<call, status, gevents, info, inFlight, overrun>>
discordVars == <<owed, seat, servers, strangers>>
vars == <<botVars, intents, discordVars, wire>>

\* WaitForConnectInfo.  A session is the user's whose it is; token and endpoint
\* are the number of the server that was allocated with them, and the token
\* remembers the seat it was issued for.
NoInfo == [channel |-> FALSE, session |-> "none", token |-> [server |-> 0, seat |-> 0],
           endpoint |-> 0]

\* Events: what the code looks at in VoiceStateUpdate and VoiceServerUpdate.
StateUpdate(user, joined) == [kind |-> "state", session |-> user, channel |-> joined]
ServerUpdate(n, c, up) == [kind |-> "server", token |-> [server |-> n, seat |-> c],
                           endpoint |-> IF up THEN n ELSE 0]

Init == /\ call = 0 /\ status = "closed"
        /\ gevents = <<>>
        /\ info = NoInfo
        /\ intents = <<>>
        /\ owed = {}
        /\ seat = 0
        /\ servers = 0
        /\ wire = <<>>
        /\ strangers = 0
        /\ inFlight = FALSE /\ overrun = FALSE

-----------------------------------------------------------------------------
(***************************************************************************)
(* The bot.                                                                *)
(***************************************************************************)

\* If exclusive_server_events kept the channel of the call before.
BugKeepsEvents == /\ status = "closed" /\ call < Calls
                  /\ call' = call + 1
                  /\ status' = "prepared"
                  /\ info' = NoInfo
                  /\ inFlight' = (intents # <<>> \/ owed # {} \/ wire # <<>>)
                  /\ overrun' = FALSE
                  /\ UNCHANGED <<gevents, intents, discordVars, wire>>

\* exclusive_server_events: a call gets a channel of its own once the receiver
\* of the one before is closed.
Prepare == /\ status = "closed" /\ call < Calls
           /\ call' = call + 1
           /\ status' = "prepared"
           /\ gevents' = <<>>
           /\ info' = NoInfo
           /\ inFlight' = (intents # <<>> \/ owed # {} \/ wire # <<>>)
           /\ overrun' = FALSE
           /\ UNCHANGED <<intents, discordVars, wire>>

\* register_join_intent.
JoinIntent == /\ status = "prepared"
              /\ status' = "WaitingForEvents"
              /\ intents' = Append(intents, call)
              /\ UNCHANGED <<call, gevents, info, discordVars, wire, inFlight, overrun>>

\* If an update without an endpoint did not take the old one back.
BugKeepsEndpoint(i, e) ==
    IF e.kind = "state" THEN [i EXCEPT !.channel = e.channel, !.session = e.session]
    ELSE [i EXCEPT !.token = e.token,
                   !.endpoint = IF e.endpoint = 0 THEN @ ELSE e.endpoint]

\* If apply expected the state update to come first.
BugInOrder(i, e) ==
    CASE e.kind = "state" -> [i EXCEPT !.channel = e.channel, !.session = e.session]
      [] e.kind = "server" /\ i.channel -> [i EXCEPT !.token = e.token, !.endpoint = e.endpoint]
      [] OTHER -> i

\* apply: whatever user or intent the update is about.
Applied(i, e) ==
    IF e.kind = "state" THEN [i EXCEPT !.channel = e.channel, !.session = e.session]
    ELSE [i EXCEPT !.token = e.token, !.endpoint = e.endpoint]

\* is_complete.  guild_id is there with the first state update.
IsComplete(i) == /\ i.token.server # 0 /\ i.endpoint # 0
                 /\ i.channel /\ i.session # "none"

\* handle_event for a GlobalEvent: a complete info starts the gateway, which
\* identifies with it; later events are ignored.
HandleGlobal ==
    /\ status \in {"WaitingForEvents", "Identified"} /\ gevents # <<>>
    /\ LET e == Head(gevents)
       IN  \/ /\ status = "WaitingForEvents"
              /\ info' = Applied(info, e)
              /\ status' = IF IsComplete(info') THEN "Identified" ELSE status
              /\ overrun' = (overrun \/ (e.kind = "state" /\ e.session # "bot" /\ ~e.channel))
           \/ /\ status = "Identified"
              /\ UNCHANGED <<info, status, overrun>>
    /\ gevents' = Tail(gevents)
    /\ UNCHANGED <<call, intents, discordVars, wire, inFlight>>

\* The call ends: close announces the leave, if it had announced a join, and
\* the receiver is dropped; nobody reads what is left in its channel.
Close == /\ status \in {"prepared", "WaitingForEvents", "Identified"}
         /\ status' = "closed"
         /\ intents' = IF status = "prepared" THEN intents ELSE Append(intents, 0)
         /\ UNCHANGED <<call, gevents, info, discordVars, wire, inFlight, overrun>>

\* The dispatcher routes the oldest event to the call that listens, if one does
\* and once its channel has room.
Dispatch == /\ wire # <<>>
            /\ \/ /\ status = "closed"
                  /\ UNCHANGED gevents
               \/ /\ status # "closed" /\ Len(gevents) < EventCap
                  /\ gevents' = Append(gevents, Head(wire))
            /\ wire' = Tail(wire)
            /\ UNCHANGED <<call, status, info, inFlight, overrun, intents, discordVars>>

-----------------------------------------------------------------------------
(***************************************************************************)
(* Discord.                                                                *)
(***************************************************************************)

\* An intent takes effect once the one before was answered.  Joining is
\* answered with both updates in any order, leaving with a state update.
TakeIntent == /\ intents # <<>> /\ owed = {}
              /\ seat' = Head(intents)
              /\ owed' = IF Head(intents) = 0 THEN {"state"} ELSE {"state", "server"}
              /\ intents' = Tail(intents)
              /\ UNCHANGED <<botVars, servers, wire, strangers>>

SendState == /\ "state" \in owed
             /\ wire' = Append(wire, StateUpdate("bot", seat # 0))
             /\ owed' = owed \ {"state"}
             /\ UNCHANGED <<botVars, intents, seat, servers, strangers>>

\* A server is allocated.
SendServer == /\ "server" \in owed
              /\ wire' = Append(wire, ServerUpdate(servers + 1, seat, TRUE))
              /\ servers' = servers + 1
              /\ owed' = owed \ {"server"}
              /\ UNCHANGED <<botVars, intents, seat, strangers>>

\* No server is available, or the one there was is given up: an update without
\* endpoint, and another one will follow.
LoseServer == /\ seat # 0 /\ owed \subseteq {"server"} /\ servers < ServerCap
              /\ wire' = Append(wire, ServerUpdate(servers + 1, seat, FALSE))
              /\ servers' = servers + 1
              /\ owed' = owed \cup {"server"}
              /\ UNCHANGED <<botVars, intents, seat, strangers>>

\* Another user joins a channel of the server, or leaves it.
StrangerMoves(joined) == /\ strangers < StrangerCap
                         /\ wire' = Append(wire, StateUpdate("stranger", joined))
                         /\ strangers' = strangers + 1
                         /\ UNCHANGED <<botVars, intents, owed, seat, servers>>

-----------------------------------------------------------------------------
Next == \/ Prepare \/ JoinIntent \/ HandleGlobal \/ Close
        \/ Dispatch
        \/ TakeIntent \/ SendState \/ SendServer \/ LoseServer
        \/ \E joined \in BOOLEAN : StrangerMoves(joined)

Spec == Init /\ [][Next]_vars

\* The tasks are polled, and Discord answers its intents.
Fairness == /\ WF_vars(HandleGlobal)
            /\ WF_vars(Dispatch)
            /\ WF_vars(TakeIntent) /\ WF_vars(SendState) /\ WF_vars(SendServer)

FairSpec == Spec /\ Fairness
-----------------------------------------------------------------------------
(***************************************************************************)
(* Properties.                                                             *)
(***************************************************************************)
Updates == [kind : {"state"}, session : {"bot", "stranger"}, channel : BOOLEAN]
           \cup [kind : {"server"}, token : [server : Nat, seat : 1 .. Calls], endpoint : Nat]

\* The variables have their types, and an endpoint only ever stands beside the
\* token of the same server, whatever servers Discord gave up in between.
TypeOK == /\ call \in 0 .. Calls
          /\ status \in {"closed", "prepared", "WaitingForEvents", "Identified"}
          /\ gevents \in Seq(Updates) /\ Len(gevents) <= EventCap
          /\ wire \in Seq(Updates)
          /\ intents \in Seq(0 .. Calls)
          /\ owed \subseteq {"state", "server"}
          /\ seat \in 0 .. Calls
          /\ servers \in Nat /\ strangers \in 0 .. StrangerCap
          /\ inFlight \in BOOLEAN /\ overrun \in BOOLEAN
          /\ info \in [channel : BOOLEAN, session : {"none", "bot", "stranger"},
                       token : [server : Nat, seat : 0 .. Calls], endpoint : Nat]
          /\ info.endpoint \in {0, info.token.server}

\* A call identifies with a token of its own seat, unless updates for an earlier
\* call were still under way when it got its channel: nothing that call left
\* unread reaches it otherwise (exclusive_server_events makes a new channel).
StaleOnlyInFlight == status = "Identified" /\ info.token.seat # call => inFlight

\* A call that has announced its join identifies or ends, whatever the order
\* and number of updates, unless another user's leave overwrote its own state
\* update (apply does not look at the user).
WaitingEnds == (status = "WaitingForEvents")
                   ~> (status # "WaitingForEvents" \/ overrun)

\* voice_task.rs: "after announcing our intent of joining a voice channel on the
\* global gateway connection, we're waiting for Discord to tell us about the
\* voice server to connect to": the bot identifies with what it was told.
IdentifiesAsTold == status = "Identified" => info.session = "bot" /\ info.token.seat = call
=============================================================================
