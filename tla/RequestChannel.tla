--------------------------- MODULE RequestChannel ---------------------------
(***************************************************************************)
(* request_channel.rs: unbounded channels of requests, each with a         *)
(* one-shot channel for its response.  A request whose receiver is gone    *)
(* fails at once; one whose response sender is dropped, in the queue or    *)
(* taken from it, fails then.  Both are reported as ReceiverDropped.       *)
(***************************************************************************)
EXTENDS Naturals, Sequences

CONSTANTS Receivers,  \* the RequestReceivers
          Requests,   \* the requests; each has one caller, which may repeat it
          To          \* To[r]: the receiver r is sent to

VARIABLES rxOpen,  \* the receivers that exist
          rqueue,  \* rqueue[k]: requests sent to k and not taken
          reply    \* reply[r]: what the caller of r will find

RequestInit == /\ rxOpen = {}
               /\ rqueue = [k \in Receivers |-> <<>>]
               /\ reply = [r \in Requests |-> "none"]

\* request_channel: a channel with its receiver k.
OpenChannel(k) == /\ rxOpen' = rxOpen \cup {k}
                  /\ rqueue' = [rqueue EXCEPT ![k] = <<>>]

\* request or request_blocking, up to its wait for the response.
Send(r) == /\ reply[r] = "none"
           /\ \/ /\ To[r] \in rxOpen
                 /\ rqueue' = [rqueue EXCEPT ![To[r]] = Append(@, r)]
                 /\ reply' = [reply EXCEPT ![r] = "sent"]
              \/ /\ To[r] \notin rxOpen
                 /\ reply' = [reply EXCEPT ![r] = "failed"]
                 /\ UNCHANGED rqueue
           /\ UNCHANGED rxOpen

\* RequestReceiver::request takes the oldest request.
Take(r) == /\ rqueue[To[r]] # <<>> /\ Head(rqueue[To[r]]) = r
           /\ rqueue' = [rqueue EXCEPT ![To[r]] = Tail(@)]
           /\ reply' = [reply EXCEPT ![r] = "taken"]
           /\ UNCHANGED rxOpen

\* The oldest request is taken, and the sender of its response dropped unused.
TakeUnanswered(r) == /\ rqueue[To[r]] # <<>> /\ Head(rqueue[To[r]]) = r
                     /\ rqueue' = [rqueue EXCEPT ![To[r]] = Tail(@)]
                     /\ reply' = [reply EXCEPT ![r] = "failed"]
                     /\ UNCHANGED rxOpen

\* The response is sent.
Respond(r) == /\ reply[r] = "taken"
              /\ reply' = [reply EXCEPT ![r] = "answered"]

Pending(r) == reply[r] \in {"sent", "taken"}

\* If only the requests that were taken noticed that their receiver is gone.
BugQueueForgotten(K, r) ==
    LET fails == {q \in Requests : To[q] \in K /\ q # r /\ reply[q] = "taken"}
    IN  /\ rxOpen' = rxOpen \ K
        /\ rqueue' = [k \in Receivers |-> IF k \in K THEN <<>> ELSE rqueue[k]]
        /\ reply' = [q \in Requests |-> IF q \in fails THEN "failed" ELSE
                                        IF q = r THEN "answered" ELSE reply[q]]

\* The receivers in K are dropped, with the requests in their queues and the
\* response senders their owners hold; r is answered right before.
CloseChannels(K, r) ==
    LET fails == {q \in Requests : To[q] \in K /\ q # r /\ Pending(q)}
    IN  /\ rxOpen' = rxOpen \ K
        /\ rqueue' = [k \in Receivers |-> IF k \in K THEN <<>> ELSE rqueue[k]]
        /\ reply' = [q \in Requests |-> IF q \in fails THEN "failed" ELSE
                                        IF q = r THEN "answered" ELSE reply[q]]

\* The caller has the response or the error.
Returned(r) == reply[r] \in {"answered", "failed"}
TakeReply(r) == /\ Returned(r)
                /\ reply' = [reply EXCEPT ![r] = "none"]
                /\ UNCHANGED <<rxOpen, rqueue>>

RequestTypeOK == /\ rxOpen \subseteq Receivers
                 /\ rqueue \in [Receivers -> Seq(Requests)]
                 /\ reply \in [Requests -> {"none", "sent", "taken", "answered", "failed"}]
=============================================================================
