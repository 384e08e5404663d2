-------------------------- MODULE ExclusiveServer --------------------------
(***************************************************************************)
(* What the module promises Asterisk about Discord servers: "a bot can     *)
(* only be active in a single channel per server at the same time"         *)
(* (README.md), and "Returns a channel receiving events on the [server] id *)
(* if no other channel is listening on that server yet" (discord/mod.rs).  *)
(*                                                                         *)
(* Every call asks once for the server it names.  It is granted the server *)
(* when nobody owns it, it is refused only while somebody else does, and a *)
(* granted call gives the server back when it ends.                        *)
(***************************************************************************)
CONSTANTS Servers,   \* the Discord servers (guilds)
          Calls,     \* the Asterisk channels asking for a call
          NoCall,    \* not a call
          ServerOf   \* the server a call's address names

VARIABLES owner,     \* owner[s]: the call listening on server s, or NoCall
          answer     \* answer[c]: what call c has been told

avars == <<owner, answer>>

Answers == {"none", "granted", "refused", "failed"}

Init == /\ owner = [s \in Servers |-> NoCall]
        /\ answer = [c \in Calls |-> "none"]

\* The server is free: it becomes the call's.
Grant(c) == /\ answer[c] = "none"
            /\ owner[ServerOf[c]] = NoCall
            /\ owner' = [owner EXCEPT ![ServerOf[c]] = c]
            /\ answer' = [answer EXCEPT ![c] = "granted"]

\* Another call is listening on the server.
Refuse(c) == /\ answer[c] = "none"
             /\ owner[ServerOf[c]] # NoCall
             /\ answer' = [answer EXCEPT ![c] = "refused"]
             /\ UNCHANGED owner

\* The call cannot be set up for a reason that has nothing to do with servers.
Fail(c) == /\ answer[c] = "none"
           /\ answer' = [answer EXCEPT ![c] = "failed"]
           /\ UNCHANGED owner

\* The calls owning the servers of a set end (all of them when the module stops).
Release(S) == /\ owner' = [s \in Servers |-> IF s \in S THEN NoCall ELSE owner[s]]
              /\ UNCHANGED answer

Next == \/ \E c \in Calls : Grant(c) \/ Refuse(c) \/ Fail(c)
        \/ \E S \in SUBSET Servers : Release(S)

Spec == Init /\ [][Next]_avars
=============================================================================
