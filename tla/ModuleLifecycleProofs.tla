----------------------- MODULE ModuleLifecycleProofs -----------------------
(***************************************************************************)
(* Proofs about ModuleLifecycle for every set of channels and every bound  *)
(* on the frames.                                                          *)
(*                                                                         *)
(* LifecycleInv is inductive.  It relates the three threads' views of the  *)
(* same things: the module's state and the Discord thread (Phases), the    *)
(* requesters and WORKER's read lock (ReadersAsk), what is in a queue and  *)
(* what its sender waits for (QueuesMatch), a request and the task that    *)
(* may answer it (RequestsMatch, ReceiversMatch).                          *)
(***************************************************************************)
EXTENDS ModuleLifecycle, SequenceTheorems, FunctionTheorems, FiniteSetTheorems, TLAPS

\* TypeOK but for the counters, which are natural because of OwnersMatch.
RestTyped == /\ refs \in [Channels -> Int]
             /\ lock \in [Channels -> {"requester", "callback"} \cup {"free"}]
             /\ RequestTypeOK
             /\ mod \in {"out", "starting", "running", "locking", "stopping", "unlocked"}
             /\ logger \in BOOLEAN /\ techCaps \in BOOLEAN /\ registered \in BOOLEAN
             /\ worker \in {"unset", "some", "none"}
             /\ readers \subseteq Channels
             /\ thread \in {"off", "starting", "running"}
             /\ threadAt \in Channels \cup {NoChannel}
             /\ queueThread \in BOOLEAN
             /\ frames \in Seq(Channels) /\ Len(frames) <= FrameBound
             /\ chan \in [Channels -> {"none", "requested", "reading", "asking", "up", "fixedUp"}]
             /\ callback \in [Channels -> {"none", "call", "write", "hangup", "fixup"}]
             /\ task \in [Channels -> {"none", "prepared", "started"}]

\* Where load_module and unload_module are tells what there is of the thread,
\* of WORKER and of the Stop request.
Phases ==
    /\ ~logger => mod = "out" /\ worker = "unset"
    /\ mod = "out" => worker # "some" /\ thread = "off" /\ ~registered
    /\ mod = "starting" => worker = "unset" /\ thread = "starting" /\ ~registered
    /\ mod \in {"running", "locking"} => worker = "some" /\ thread = "running" /\ registered
    /\ mod \in {"stopping", "unlocked"} => worker = "none" /\ thread # "starting" /\ readers = {}
    /\ mod = "unlocked" => thread = "off"
    /\ mod = "stopping" => reply[Stop] = IF thread = "off" THEN "answered" ELSE "sent"
    /\ mod # "stopping" => reply[Stop] = "none"

\* A requester that is reading WORKER keeps the module from being unloaded.
ReadersAsk == /\ readers = {c \in Channels : chan[c] \in {"reading", "asking"}}
              /\ readers # {} => mod \in {"running", "locking"}

\* The thread only runs tasks while it runs, and only a task stops it for a lock.
ThreadHasTasks == /\ thread # "running" => Tasks = {} /\ threadAt = NoChannel
                  /\ threadAt # NoChannel => task[threadAt] # "none"

\* The receivers there are: that of the thread and one for every worker.
ReceiversMatch == rxOpen = {k \in {Thread} : thread # "off"} \cup Tasks

\* A request waits in one place of the queue of its own receiver.
QueuesMatch ==
    \A k \in Channels \cup {Thread} :
        /\ \A i \in 1 .. Len(rqueue[k]) :
              reply[rqueue[k][i]] = "sent" /\ ReceiverOf[rqueue[k][i]] = k
        /\ \A i, j \in 1 .. Len(rqueue[k]) : rqueue[k][i] = rqueue[k][j] => i = j

\* A caller waits as long as its request is under way.  A channel has no worker
\* before its PrepareCall is answered, and a callback fails without one.
RequestsMatch ==
    \A c \in Channels :
        /\ chan[c] = "asking" <=> reply[Prepare(c)] # "none"
        /\ callback[c] # "none" <=> reply[Callback(c)] # "none"
        /\ callback[c] # "none" => chan[c] = "up"
        /\ chan[c] \in {"requested", "reading"} \/ Pending(Prepare(c)) => task[c] = "none"
        /\ Pending(Callback(c)) => task[c] # "none"

\* OwnersMatch with the owners counted one by one.
One(b) == IF b THEN 1 ELSE 0
Places(s, c) == {i \in DOMAIN s : s[i] = c}
FramesIn(s, c) == Cardinality(Places(s, c))
Counted == \A c \in Channels :
               refs[c] = FramesIn(frames, c) + One(chan[c] # "none") + One(Pending(Prepare(c)))
                         + One(FixUpPending(c)) + One(task[c] # "none")
LocksMatch == \A c \in Channels :
                  lock[c] # "free" <=> \/ chan[c] \in {"requested", "reading", "asking"}
                                       \/ callback[c] # "none"

LifecycleInv == /\ RestTyped /\ Phases /\ ReadersAsk /\ ThreadHasTasks
                /\ ReceiversMatch /\ QueuesMatch /\ RequestsMatch
                /\ NoRequesterDropped /\ Counted /\ LocksMatch

-----------------------------------------------------------------------------
(***************************************************************************)
(* Requests, and the channels they go through (request_channel.rs).        *)
(***************************************************************************)

\* There is a PrepareCall and a callback's request for each channel, and one
\* Stop; all of them are different.
LEMMA RequestKinds ==
    /\ Stop \in AllRequests /\ <<>> \notin AllRequests
    /\ \A c \in Channels : Prepare(c) \in AllRequests /\ Callback(c) \in AllRequests
    /\ \A c \in Channels : Prepare(c) # Stop /\ Callback(c) # Stop
    /\ \A c, d \in Channels : Prepare(c) # Callback(d)
    /\ \A c, d \in Channels : (Prepare(c) = Prepare(d) \/ Callback(c) = Callback(d)) => c = d
    /\ \A r \in AllRequests : r = Stop \/ \E c \in Channels : r = Prepare(c) \/ r = Callback(c)
  BY DEF AllRequests, Prepare, Callback, Stop

\* A callback's request goes to the worker of its channel, the others to the
\* thread.
LEMMA RequestReceivers ==
    /\ ReceiverOf[Stop] = Thread
    /\ \A c \in Channels : ReceiverOf[Prepare(c)] = Thread /\ ReceiverOf[Callback(c)] = c
    /\ \A r \in AllRequests : ReceiverOf[r] \in Channels \cup {Thread}
  BY RequestKinds DEF ReceiverOf, Prepare, Callback, Stop

Replies == {"none", "sent", "taken", "answered", "failed"}

\* A request that is sent waits at the end of the right queue, or has failed.
LEMMA SendEffect ==
    ASSUME RequestTypeOK, QueuesMatch, NEW r \in AllRequests, Send(r)
    PROVE  /\ RequestTypeOK' /\ QueuesMatch'
           /\ rxOpen' = rxOpen /\ reply[r] = "none"
           /\ reply' = [reply EXCEPT ![r] = IF ReceiverOf[r] \in rxOpen THEN "sent" ELSE "failed"]
<1> DEFINE k == ReceiverOf[r]
<1>0. k \in Channels \cup {Thread} /\ rqueue[k] \in Seq(AllRequests)
  BY RequestReceivers DEF RequestTypeOK
<1>1. /\ rxOpen' = rxOpen /\ reply[r] = "none"
      /\ reply' = [reply EXCEPT ![r] = IF k \in rxOpen THEN "sent" ELSE "failed"]
  BY DEF Send
<1>2. RequestTypeOK'
  <2>1. reply' \in [AllRequests -> Replies]
    BY <1>1 DEF RequestTypeOK, Replies
  <2>2. rqueue' \in [Channels \cup {Thread} -> Seq(AllRequests)]
    <3>1. Append(rqueue[k], r) \in Seq(AllRequests)
      BY <1>0, AppendProperties
    <3>2. QED
      BY <1>0, <3>1 DEF Send, RequestTypeOK
  <2>3. QED
    BY <1>1, <2>1, <2>2 DEF RequestTypeOK, Replies
<1>3. QueuesMatch'
  <2> SUFFICES ASSUME NEW m \in Channels \cup {Thread}
               PROVE  /\ \A i \in 1 .. Len(rqueue'[m]) :
                            reply'[rqueue'[m][i]] = "sent" /\ ReceiverOf[rqueue'[m][i]] = m
                      /\ \A i, j \in 1 .. Len(rqueue'[m]) : rqueue'[m][i] = rqueue'[m][j] => i = j
    BY DEF QueuesMatch
  <2>1. \A i \in 1 .. Len(rqueue[m]) : /\ rqueue[m][i] \in AllRequests /\ rqueue[m][i] # r
                                       /\ reply'[rqueue[m][i]] = "sent"
    <3>1. \A i \in 1 .. Len(rqueue[m]) : rqueue[m][i] \in AllRequests /\ reply[rqueue[m][i]] = "sent"
      BY ElementOfSeq DEF QueuesMatch, RequestTypeOK
    <3>2. QED
      BY <1>1, <3>1 DEF RequestTypeOK
  <2>2. CASE rqueue'[m] = rqueue[m]
    BY <2>1, <2>2 DEF QueuesMatch
  <2>3. CASE m = k /\ k \in rxOpen /\ rqueue'[m] = Append(rqueue[m], r)
    <3>1. /\ Len(rqueue[m]) \in Nat /\ Len(rqueue'[m]) = Len(rqueue[m]) + 1
          /\ \A i \in 1 .. Len(rqueue[m]) : rqueue'[m][i] = rqueue[m][i]
          /\ rqueue'[m][Len(rqueue[m]) + 1] = r
      BY <1>0, <2>3, AppendProperties, LenProperties
    <3>2. reply'[r] = "sent"
      BY <1>1, <2>3 DEF RequestTypeOK
    <3>3. \A i \in 1 .. Len(rqueue[m]) + 1 : i \in 1 .. Len(rqueue[m]) \/ i = Len(rqueue[m]) + 1
      BY <3>1
    <3>4. ASSUME NEW i \in 1 .. Len(rqueue'[m])
          PROVE  reply'[rqueue'[m][i]] = "sent" /\ ReceiverOf[rqueue'[m][i]] = m
      BY <2>1, <2>3, <3>1, <3>2, <3>3 DEF QueuesMatch
    <3>5. ASSUME NEW i \in 1 .. Len(rqueue'[m]), NEW j \in 1 .. Len(rqueue'[m]),
                 rqueue'[m][i] = rqueue'[m][j]
          PROVE  i = j
      BY <2>1, <3>1, <3>3, <3>5 DEF QueuesMatch
    <3>6. QED
      BY <3>4, <3>5
  <2>4. QED
    BY <1>0, <2>2, <2>3 DEF Send, RequestTypeOK
<1>4. QED
  BY <1>1, <1>2, <1>3

\* A request that leaves its queue had been sent, whether its response is still to
\* come or not.
LEMMA DequeueEffect ==
    ASSUME RequestTypeOK, QueuesMatch, NEW r \in AllRequests, NEW v \in {"taken", "failed"},
           rqueue[ReceiverOf[r]] # <<>>, Head(rqueue[ReceiverOf[r]]) = r,
           rqueue' = [rqueue EXCEPT ![ReceiverOf[r]] = Tail(@)],
           reply' = [reply EXCEPT ![r] = v], UNCHANGED rxOpen
    PROVE  RequestTypeOK' /\ QueuesMatch' /\ reply[r] = "sent"
<1> DEFINE k == ReceiverOf[r]
<1>0. k \in Channels \cup {Thread} /\ rqueue[k] \in Seq(AllRequests)
  BY RequestReceivers DEF RequestTypeOK
<1>1. /\ rxOpen' = rxOpen /\ reply' = [reply EXCEPT ![r] = v]
      /\ rqueue[k] # <<>> /\ rqueue[k][1] = r /\ rqueue' = [rqueue EXCEPT ![k] = Tail(@)]
  BY <1>0
<1>2. /\ Len(rqueue[k]) \in Nat \ {0} /\ Tail(rqueue[k]) \in Seq(AllRequests)
      /\ Len(Tail(rqueue[k])) = Len(rqueue[k]) - 1
      /\ \A i \in 1 .. Len(Tail(rqueue[k])) : Tail(rqueue[k])[i] = rqueue[k][i + 1]
  BY <1>0, <1>1, EmptySeq, HeadTailProperties
<1>3. reply[r] = "sent"
  <2>1. 1 \in 1 .. Len(rqueue[k])
    BY <1>2
  <2>2. QED
    BY <1>0, <1>1, <2>1 DEF QueuesMatch
<1>4. RequestTypeOK'
  <2>1. reply' \in [AllRequests -> Replies]
    BY <1>1 DEF RequestTypeOK, Replies
  <2>2. rqueue' \in [Channels \cup {Thread} -> Seq(AllRequests)]
    BY <1>0, <1>1, <1>2 DEF RequestTypeOK
  <2>3. QED
    BY <1>1, <2>1, <2>2 DEF RequestTypeOK, Replies
<1>5. QueuesMatch'
  <2> SUFFICES ASSUME NEW m \in Channels \cup {Thread}
               PROVE  /\ \A i \in 1 .. Len(rqueue'[m]) :
                            reply'[rqueue'[m][i]] = "sent" /\ ReceiverOf[rqueue'[m][i]] = m
                      /\ \A i, j \in 1 .. Len(rqueue'[m]) : rqueue'[m][i] = rqueue'[m][j] => i = j
    BY DEF QueuesMatch
  <2>1. \A i \in 1 .. Len(rqueue[m]) :
            /\ rqueue[m][i] \in AllRequests /\ reply[rqueue[m][i]] = "sent"
            /\ ReceiverOf[rqueue[m][i]] = m
    BY ElementOfSeq DEF QueuesMatch, RequestTypeOK
  <2>2. CASE m # k
    <3>1. rqueue'[m] = rqueue[m]
      BY <1>1, <2>2 DEF RequestTypeOK
    <3>2. \A i \in 1 .. Len(rqueue[m]) : rqueue[m][i] # r /\ reply'[rqueue[m][i]] = "sent"
      BY <1>1, <2>1, <2>2 DEF RequestTypeOK
    <3>3. QED
      BY <2>1, <3>1, <3>2 DEF QueuesMatch
  <2>3. CASE m = k
    <3>1. rqueue'[m] = Tail(rqueue[k])
      BY <1>0, <1>1, <2>3 DEF RequestTypeOK
    <3>2. \A i \in 1 .. Len(Tail(rqueue[k])) : i + 1 \in 1 .. Len(rqueue[k]) /\ i + 1 # 1
      BY <1>2
    <3>3. 1 \in 1 .. Len(rqueue[k])
      BY <1>2
    <3>4. ASSUME NEW i \in 1 .. Len(Tail(rqueue[k]))
          PROVE  /\ rqueue[k][i + 1] # r
                 /\ reply'[Tail(rqueue[k])[i]] = "sent" /\ ReceiverOf[Tail(rqueue[k])[i]] = m
      <4>1. rqueue[k][i + 1] # r
        BY <1>0, <1>1, <3>2, <3>3 DEF QueuesMatch
      <4>2. QED
        BY <1>1, <1>2, <2>1, <2>3, <3>2, <4>1 DEF RequestTypeOK
    <3>5. ASSUME NEW i \in 1 .. Len(Tail(rqueue[k])), NEW j \in 1 .. Len(Tail(rqueue[k])),
                 Tail(rqueue[k])[i] = Tail(rqueue[k])[j]
          PROVE  i = j
      <4>1. rqueue[k][i + 1] = rqueue[k][j + 1]
        BY <1>2, <3>5
      <4>2. i + 1 = j + 1
        BY <1>0, <3>2, <4>1 DEF QueuesMatch
      <4>3. QED
        BY <1>2, <4>2
    <3>6. QED
      BY <3>1, <3>4, <3>5
  <2>4. QED
    BY <2>2, <2>3
<1>6. QED
  BY <1>3, <1>4, <1>5

\* A request that is taken is in the queue no more.
LEMMA TakeEffect ==
    ASSUME RequestTypeOK, QueuesMatch, NEW r \in AllRequests, Take(r)
    PROVE  /\ RequestTypeOK' /\ QueuesMatch'
           /\ rxOpen' = rxOpen /\ reply[r] = "sent"
           /\ reply' = [reply EXCEPT ![r] = "taken"]
  BY DequeueEffect DEF Take

\* So is one that is dropped then, which fails.
LEMMA TakeUnansweredEffect ==
    ASSUME RequestTypeOK, QueuesMatch, NEW r \in AllRequests, TakeUnanswered(r)
    PROVE  /\ RequestTypeOK' /\ QueuesMatch'
           /\ rxOpen' = rxOpen /\ reply[r] = "sent"
           /\ reply' = [reply EXCEPT ![r] = "failed"]
  BY DequeueEffect DEF TakeUnanswered

\* Queues that are kept, or emptied, keep matching as long as no request in
\* them is answered or dropped.
LEMMA QueuesKept ==
    ASSUME RequestTypeOK, QueuesMatch,
           \A m \in Channels \cup {Thread} :
               \/ rqueue'[m] = <<>>
               \/ /\ rqueue'[m] = rqueue[m]
                  /\ \A q \in AllRequests : ReceiverOf[q] = m /\ reply[q] = "sent"
                                               => reply'[q] = "sent"
    PROVE  QueuesMatch'
<1> SUFFICES ASSUME NEW m \in Channels \cup {Thread}
             PROVE  /\ \A i \in 1 .. Len(rqueue'[m]) :
                          reply'[rqueue'[m][i]] = "sent" /\ ReceiverOf[rqueue'[m][i]] = m
                    /\ \A i, j \in 1 .. Len(rqueue'[m]) : rqueue'[m][i] = rqueue'[m][j] => i = j
  BY DEF QueuesMatch
<1>1. CASE rqueue'[m] = <<>>
  <2>1. Len(rqueue'[m]) = 0
    BY <1>1, EmptySeq
  <2>2. 1 .. Len(rqueue'[m]) = {}
    BY <2>1
  <2>3. QED
    BY <2>2, Zenon
<1>2. CASE rqueue'[m] = rqueue[m] /\ \A q \in AllRequests : ReceiverOf[q] = m /\ reply[q] = "sent"
                                                             => reply'[q] = "sent"
  <2>1. \A i \in 1 .. Len(rqueue[m]) :
            /\ rqueue[m][i] \in AllRequests /\ reply[rqueue[m][i]] = "sent"
            /\ ReceiverOf[rqueue[m][i]] = m
    BY ElementOfSeq DEF QueuesMatch, RequestTypeOK
  <2>2. QED
    BY <1>2, <2>1 DEF QueuesMatch
<1>3. QED
  BY <1>1, <1>2

\* An answer ends a request that had been taken, whether the receiver that gives
\* it opens a channel with it or not.
LEMMA RespondEffect ==
    ASSUME RequestTypeOK, QueuesMatch, NEW r \in AllRequests, Respond(r),
           UNCHANGED <<rxOpen, rqueue>> \/ \E k \in Channels : OpenChannel(k)
    PROVE  /\ RequestTypeOK' /\ QueuesMatch'
           /\ reply[r] = "taken" /\ reply' = [reply EXCEPT ![r] = "answered"]
<1>1. reply[r] = "taken" /\ reply' = [reply EXCEPT ![r] = "answered"]
  BY DEF Respond
<1>2. \A m \in Channels \cup {Thread} : rqueue'[m] = <<>> \/ rqueue'[m] = rqueue[m]
  BY DEF OpenChannel, RequestTypeOK
<1>3. RequestTypeOK'
  <2>1. reply' \in [AllRequests -> Replies]
    BY <1>1 DEF RequestTypeOK, Replies
  <2>2. rxOpen' \subseteq Channels \cup {Thread}
    BY DEF OpenChannel, RequestTypeOK
  <2>3. rqueue' \in [Channels \cup {Thread} -> Seq(AllRequests)]
    <3>1. <<>> \in Seq(AllRequests)
      BY EmptySeq
    <3>2. QED
      BY <3>1 DEF OpenChannel, RequestTypeOK
  <2>4. QED
    BY <2>1, <2>2, <2>3 DEF RequestTypeOK, Replies
<1>4. \A q \in AllRequests : reply[q] = "sent" => reply'[q] = "sent"
  BY <1>1 DEF RequestTypeOK
<1>5. QueuesMatch'
  BY <1>2, <1>4, QueuesKept
<1>6. QED
  BY <1>1, <1>3, <1>5

\* A caller that takes its result is idle again.
LEMMA TakeReplyEffect ==
    ASSUME RequestTypeOK, QueuesMatch, NEW r \in AllRequests, TakeReply(r)
    PROVE  /\ RequestTypeOK' /\ QueuesMatch'
           /\ UNCHANGED <<rxOpen, rqueue>>
           /\ Returned(r) /\ reply' = [reply EXCEPT ![r] = "none"]
<1>1. /\ UNCHANGED <<rxOpen, rqueue>>
      /\ Returned(r) /\ reply' = [reply EXCEPT ![r] = "none"]
  BY DEF TakeReply
<1>2. RequestTypeOK'
  BY <1>1 DEF RequestTypeOK
<1>3. \A q \in AllRequests : reply[q] = "sent" => reply'[q] = "sent"
  BY <1>1 DEF RequestTypeOK, Returned
<1>4. QueuesMatch'
  BY <1>1, <1>3, QueuesKept
<1>5. QED
  BY <1>1, <1>2, <1>4

\* A new channel is empty.
LEMMA OpenEffect ==
    ASSUME RequestTypeOK, QueuesMatch, NEW k \in Channels \cup {Thread}, OpenChannel(k), reply' = reply
    PROVE  RequestTypeOK' /\ QueuesMatch' /\ rxOpen' = rxOpen \cup {k}
<1>1. RequestTypeOK'
  <2>1. <<>> \in Seq(AllRequests)
    BY EmptySeq
  <2>2. QED
    BY <2>1 DEF OpenChannel, RequestTypeOK
<1>2. \A m \in Channels \cup {Thread} : rqueue'[m] = <<>> \/ rqueue'[m] = rqueue[m]
  BY DEF OpenChannel, RequestTypeOK
<1>3. QueuesMatch'
  BY <1>2, QueuesKept
<1>4. QED
  BY <1>1, <1>3 DEF OpenChannel

\* With its receiver every pending request fails, but the one that was answered.
LEMMA CloseEffect ==
    ASSUME RequestTypeOK, QueuesMatch, NEW K \in SUBSET (Channels \cup {Thread}), NEW r,
           CloseChannels(K, r), r \in AllRequests => ReceiverOf[r] \in K
    PROVE  /\ RequestTypeOK' /\ QueuesMatch' /\ rxOpen' = rxOpen \ K
           /\ r \in AllRequests => reply'[r] = "answered"
           /\ \A q \in AllRequests : q # r /\ ReceiverOf[q] \in K /\ Pending(q) => reply'[q] = "failed"
           /\ \A q \in AllRequests : q # r /\ (ReceiverOf[q] \notin K \/ ~Pending(q))
                                        => reply'[q] = reply[q]
<1> DEFINE fails == {q \in AllRequests : ReceiverOf[q] \in K /\ q # r /\ Pending(q)}
<1>1. /\ rxOpen' = rxOpen \ K
      /\ rqueue' = [k \in Channels \cup {Thread} |-> IF k \in K THEN <<>> ELSE rqueue[k]]
      /\ reply' = [q \in AllRequests |-> IF q \in fails THEN "failed" ELSE
                                         IF q = r THEN "answered" ELSE reply[q]]
  BY Zenon DEF CloseChannels
<1>2. /\ r \in AllRequests => reply'[r] = "answered"
      /\ \A q \in AllRequests : q # r /\ ReceiverOf[q] \in K /\ Pending(q) => reply'[q] = "failed"
      /\ \A q \in AllRequests : q # r /\ (ReceiverOf[q] \notin K \/ ~Pending(q))
                                   => reply'[q] = reply[q]
  BY <1>1, Zenon
<1>3. RequestTypeOK'
  <2>1. \A q \in AllRequests : reply'[q] \in Replies
    BY <1>2 DEF RequestTypeOK, Replies
  <2>2. reply' \in [AllRequests -> Replies]
    BY <1>1, <2>1, Zenon
  <2>3. rqueue' \in [Channels \cup {Thread} -> Seq(AllRequests)]
    <3>1. <<>> \in Seq(AllRequests)
      BY EmptySeq
    <3>2. QED
      BY <1>1, <3>1 DEF RequestTypeOK
  <2>4. QED
    BY <1>1, <2>2, <2>3 DEF RequestTypeOK, Replies
<1>4. \A m \in Channels \cup {Thread} :
          \/ rqueue'[m] = <<>>
          \/ /\ rqueue'[m] = rqueue[m]
             /\ \A q \in AllRequests : ReceiverOf[q] = m /\ reply[q] = "sent" => reply'[q] = "sent"
  BY <1>1, <1>2
<1>5. QueuesMatch'
  BY <1>4, QueuesKept
<1>6. QED
  BY <1>1, <1>2, <1>3, <1>5

-----------------------------------------------------------------------------
(***************************************************************************)
(* Counting the owners of a channel's references.                          *)
(***************************************************************************)

\* Owners that are there or not are counted one by one.
LEMMA OwnerCount ==
    ASSUME NEW A \in BOOLEAN, NEW R \in BOOLEAN, NEW F \in BOOLEAN, NEW W \in BOOLEAN
    PROVE  Cardinality({o \in {"asterisk", "request", "fixup", "worker"} :
                          \/ o = "asterisk" /\ A
                          \/ o = "request" /\ R
                          \/ o = "fixup" /\ F
                          \/ o = "worker" /\ W}) = One(A) + One(R) + One(F) + One(W)
<1> DEFINE SA == {o \in {"asterisk"} : A}
           SR == SA \cup {o \in {"request"} : R}
           SF == SR \cup {o \in {"fixup"} : F}
           SW == SF \cup {o \in {"worker"} : W}
<1>1. IsFiniteSet(SA) /\ Cardinality(SA) = One(A)
  <2>1. CASE A
    <3>1. SA = {"asterisk"}
      BY <2>1
    <3>2. QED
      BY <2>1, <3>1, FS_Singleton DEF One
  <2>2. CASE ~A
    <3>1. SA = {}
      BY <2>2
    <3>2. QED
      BY <2>2, <3>1, FS_EmptySet DEF One
  <2>3. QED
    BY <2>1, <2>2
<1>2. IsFiniteSet(SR) /\ Cardinality(SR) = One(A) + One(R)
  <2>1. CASE R
    <3>1. SR = SA \cup {"request"} /\ "request" \notin SA
      BY <2>1
    <3>2. QED
      BY <1>1, <2>1, <3>1, FS_AddElement DEF One
  <2>2. CASE ~R
    <3>1. SR = SA
      BY <2>2
    <3>2. QED
      BY <1>1, <2>2, <3>1 DEF One
  <2>3. QED
    BY <2>1, <2>2
<1>3. IsFiniteSet(SF) /\ Cardinality(SF) = One(A) + One(R) + One(F)
  <2>1. CASE F
    <3>1. SF = SR \cup {"fixup"} /\ "fixup" \notin SR
      BY <2>1
    <3>2. QED
      BY <1>2, <2>1, <3>1, FS_AddElement DEF One
  <2>2. CASE ~F
    <3>1. SF = SR
      BY <2>2
    <3>2. QED
      BY <1>2, <2>2, <3>1 DEF One
  <2>3. QED
    BY <2>1, <2>2
<1>4. IsFiniteSet(SW) /\ Cardinality(SW) = One(A) + One(R) + One(F) + One(W)
  <2>1. CASE W
    <3>1. SW = SF \cup {"worker"} /\ "worker" \notin SF
      BY <2>1
    <3>2. QED
      BY <1>3, <2>1, <3>1, FS_AddElement DEF One
  <2>2. CASE ~W
    <3>1. SW = SF
      BY <2>2
    <3>2. QED
      BY <1>3, <2>2, <3>1 DEF One
  <2>3. QED
    BY <2>1, <2>2
<1>5. SW = {o \in {"asterisk", "request", "fixup", "worker"} : \/ o = "asterisk" /\ A
                                                               \/ o = "request" /\ R
                                                               \/ o = "fixup" /\ F
                                                               \/ o = "worker" /\ W}
  OBVIOUS
<1>6. QED
  BY <1>4, <1>5

\* A queue has finitely many frames of a channel.
LEMMA FramesFinite ==
    ASSUME NEW S, NEW s \in Seq(S), NEW c
    PROVE  IsFiniteSet(Places(s, c)) /\ FramesIn(s, c) \in Nat
<1>1. IsFiniteSet(1 .. Len(s)) /\ DOMAIN s = 1 .. Len(s)
  BY LenProperties, FS_Interval
<1>2. Places(s, c) \in SUBSET (1 .. Len(s))
  BY <1>1 DEF Places
<1>3. IsFiniteSet(Places(s, c))
  BY <1>1, <1>2, FS_Subset
<1>4. QED
  BY <1>3, FS_CardinalityType DEF FramesIn

\* A frame that is queued is one more of its channel's.
LEMMA FrameQueued ==
    ASSUME NEW S, NEW s \in Seq(S), NEW c \in S, NEW d
    PROVE  FramesIn(Append(s, c), d) = FramesIn(s, d) + One(d = c)
<1> DEFINE n == Len(s) + 1
<1>1. /\ Len(s) \in Nat /\ DOMAIN s = 1 .. Len(s)
      /\ DOMAIN Append(s, c) = 1 .. n
      /\ \A i \in 1 .. Len(s) : Append(s, c)[i] = s[i]
      /\ Append(s, c)[n] = c
  BY LenProperties, AppendProperties
<1>2. \A i \in 1 .. n : i \in 1 .. Len(s) \/ i = n
  BY <1>1
<1>3. n \in 1 .. n /\ n \notin 1 .. Len(s) /\ 1 .. Len(s) \subseteq 1 .. n
  BY <1>1
<1>4. CASE d = c
  <2>1. Places(Append(s, c), d) = Places(s, d) \cup {n} /\ n \notin Places(s, d)
    BY <1>1, <1>2, <1>3, <1>4 DEF Places
  <2>2. QED
    BY <1>4, <2>1, FramesFinite, FS_AddElement DEF FramesIn, One
<1>5. CASE d # c
  <2>1. Places(Append(s, c), d) = Places(s, d)
    BY <1>1, <1>2, <1>3, <1>5 DEF Places
  <2>2. QED
    BY <1>5, <2>1, FramesFinite DEF FramesIn, One
<1>6. QED
  BY <1>4, <1>5

\* The frame that is written was one of its channel's.
LEMMA FrameWritten ==
    ASSUME NEW S, NEW s \in Seq(S), s # <<>>, NEW d
    PROVE  FramesIn(Tail(s), d) = FramesIn(s, d) - One(d = Head(s))
<1>1. /\ Len(s) \in Nat \ {0} /\ DOMAIN s = 1 .. Len(s) /\ Head(s) = s[1]
      /\ Tail(s) \in Seq(S) /\ DOMAIN Tail(s) = 1 .. Len(s) - 1
      /\ \A i \in 1 .. Len(s) - 1 : Tail(s)[i] = s[i + 1]
  BY EmptySeq, LenProperties, HeadTailProperties
<1> DEFINE P == Places(Tail(s), d)
           Q == Places(s, d) \ {1}
           f == [i \in P |-> i + 1]
<1>2. f \in [P -> Q]
  <2>1. \A i \in P : i + 1 \in Q
    BY <1>1 DEF Places
  <2>2. QED
    BY <2>1
<1>3. \A i, j \in P : f[i] = f[j] => i = j
  BY <1>1 DEF Places
<1>4. \A j \in Q : \E i \in P : f[i] = j
  <2> SUFFICES ASSUME NEW j \in Q PROVE j - 1 \in P /\ f[j - 1] = j
    OBVIOUS
  <2>1. j \in 1 .. Len(s) /\ j # 1 /\ s[j] = d
    BY <1>1 DEF Places
  <2>2. j - 1 \in 1 .. Len(s) - 1 /\ (j - 1) + 1 = j
    BY <1>1, <2>1
  <2>3. QED
    BY <1>1, <2>1, <2>2 DEF Places
<1>5. ExistsBijection(P, Q)
  <2>1. f \in Bijection(P, Q)
    BY <1>2, <1>3, <1>4, Fun_IsBij
  <2>2. QED
    BY <2>1 DEF ExistsBijection
<1>6. FramesIn(Tail(s), d) = Cardinality(Q)
  BY <1>1, <1>5, FramesFinite, FS_Bijection DEF FramesIn
<1>7. Cardinality(Q) = IF 1 \in Places(s, d) THEN FramesIn(s, d) - 1 ELSE FramesIn(s, d)
  BY FramesFinite, FS_RemoveElement DEF FramesIn
<1>8. 1 \in Places(s, d) <=> d = Head(s)
  BY <1>1 DEF Places
<1>9. QED
  BY <1>6, <1>7, <1>8, FramesFinite DEF One

\* Both forms say the same, and no count is negative.
Owners(c) == Cardinality({o \in {"asterisk", "request", "fixup", "worker"} :
                            \/ o = "asterisk" /\ chan[c] # "none"
                            \/ o = "request" /\ Pending(Prepare(c))
                            \/ o = "fixup" /\ FixUpPending(c)
                            \/ o = "worker" /\ task[c] # "none"})
LEMMA OwnersCounted ==
    ASSUME RestTyped
    PROVE  /\ OwnersMatch <=> Counted /\ LocksMatch
           /\ Counted => refs \in [Channels -> Nat]
<1>1. ASSUME NEW c \in Channels
      PROVE  Owners(c) = One(chan[c] # "none") + One(Pending(Prepare(c)))
                         + One(FixUpPending(c)) + One(task[c] # "none")
  <2> DEFINE A == chan[c] # "none"
             R == Pending(Prepare(c))
             F == FixUpPending(c)
             W == task[c] # "none"
  <2>1. A \in BOOLEAN /\ R \in BOOLEAN /\ F \in BOOLEAN /\ W \in BOOLEAN
    BY DEF Pending, FixUpPending
  <2> HIDE DEF A, R, F, W
  <2>2. Cardinality({o \in {"asterisk", "request", "fixup", "worker"} :
                         \/ o = "asterisk" /\ A
                         \/ o = "request" /\ R
                         \/ o = "fixup" /\ F
                         \/ o = "worker" /\ W}) = One(A) + One(R) + One(F) + One(W)
    BY <2>1, OwnerCount
  <2>3. QED
    BY <2>2, Zenon DEF Owners, A, R, F, W
<1>2. \A c \in Channels : FramesIn(frames, c) \in Nat
  BY FramesFinite DEF RestTyped
<1>3. ASSUME NEW c \in Channels
      PROVE  FramesIn(frames, c) + (One(chan[c] # "none") + One(Pending(Prepare(c)))
                                    + One(FixUpPending(c)) + One(task[c] # "none"))
             = FramesIn(frames, c) + One(chan[c] # "none") + One(Pending(Prepare(c)))
               + One(FixUpPending(c)) + One(task[c] # "none")
  BY <1>2 DEF One
<1>4. Counted <=> \A c \in Channels : refs[c] = FramesIn(frames, c) + Owners(c)
  BY <1>1, <1>3, Zenon DEF Counted
<1>5. OwnersMatch <=> Counted /\ LocksMatch
  BY <1>4, Zenon DEF OwnersMatch, LocksMatch, FramesIn, Places, Owners
<1>6. Counted => refs \in [Channels -> Nat]
  <2>1. Counted => \A c \in Channels : refs[c] \in Nat
    BY <1>2 DEF Counted, One
  <2>2. QED
    BY <2>1 DEF RestTyped
<1>7. QED
  BY <1>5, <1>6

-----------------------------------------------------------------------------
(***************************************************************************)
(* The invariant is inductive.                                             *)
(***************************************************************************)

\* The invariant holds before the module is first loaded.
LEMMA InitInv == Init => LifecycleInv
<1> SUFFICES ASSUME Init PROVE LifecycleInv
  OBVIOUS
<1> USE LifecycleAssumption DEF Init, ObjectInit, RequestInit
<1>1. <<>> \in Seq(AllRequests) /\ <<>> \in Seq(Channels) /\ Len(<<>>) = 0
  BY EmptySeq
<1>2. RestTyped
  <2>1. RequestTypeOK
    BY <1>1 DEF RequestTypeOK
  <2>2. frames \in Seq(Channels) /\ Len(frames) <= FrameBound
    BY <1>1
  <2>3. refs \in [Channels -> Int] /\ lock \in [Channels -> {"requester", "callback"} \cup {"free"}]
    OBVIOUS
  <2>4. QED
    BY <2>1, <2>2, <2>3 DEF RestTyped
<1>3. QueuesMatch
  <2>1. \A k \in Channels \cup {Thread} : 1 .. Len(rqueue[k]) = {}
    BY <1>1
  <2>2. QED
    BY <2>1, Zenon DEF QueuesMatch
<1>4. \A r \in AllRequests : reply[r] = "none"
  OBVIOUS
<1>5. Phases /\ ReadersAsk
  BY <1>4, RequestKinds DEF Phases, ReadersAsk
<1>6. ThreadHasTasks /\ ReceiversMatch
  BY DEF ThreadHasTasks, ReceiversMatch, Tasks
<1>7. RequestsMatch /\ NoRequesterDropped
  BY <1>4, RequestKinds DEF RequestsMatch, NoRequesterDropped, Pending
<1>8. LocksMatch
  BY DEF LocksMatch
<1>9. Counted
  <2>1. \A c \in Channels : FramesIn(frames, c) = 0
    <3>1. \A c \in Channels : Places(frames, c) = {}
      BY <1>1 DEF Places
    <3>2. QED
      BY <3>1, FS_EmptySet DEF FramesIn
  <2>2. QED
    BY <1>4, <2>1, RequestKinds DEF Counted, One, Pending, FixUpPending
<1>10. QED
  BY <1>2, <1>3, <1>5, <1>6, <1>7, <1>8, <1>9 DEF LifecycleInv

\* load_module finds WORKER unset, as the logger was unset before.
LEMMA SetupSets ==
    ASSUME LifecycleInv, SetupDone
    PROVE  /\ mod = "starting" /\ mod' = "running"
           /\ thread' = "running" /\ worker' = "some" /\ registered' = TRUE
           /\ UNCHANGED <<objectVars, requestVars, logger, techCaps, readers, threadAt, queueVars,
                          callVars>>
  BY DEF SetupDone, LifecycleInv, Phases

\* A step that leaves the calls and their requests alone keeps what the
\* invariant says of them.
LEMMA CallsUntouched ==
    ASSUME LifecycleInv, UNCHANGED <<objectVars, frames, callVars>>,
           \A c \in Channels : reply'[Prepare(c)] = reply[Prepare(c)]
                               /\ reply'[Callback(c)] = reply[Callback(c)]
    PROVE  RequestsMatch' /\ NoRequesterDropped' /\ Counted' /\ LocksMatch' /\ Tasks' = Tasks
<1> USE DEF LifecycleInv, objectVars, callVars
<1>1. RequestsMatch' /\ NoRequesterDropped'
  BY DEF RequestsMatch, NoRequesterDropped, Pending
<1>2. Counted'
  BY DEF Counted, Pending, FixUpPending
<1>3. LocksMatch' /\ Tasks' = Tasks
  BY DEF LocksMatch, Tasks
<1>4. QED
  BY <1>1, <1>2, <1>3

\* Loading, unloading and mapping the module again keep the invariant.
LEMMA ModuleSteps == LifecycleInv /\ (LoadStep \/ UnloadStep \/ Remap) => LifecycleInv'
<1> SUFFICES ASSUME LifecycleInv, LoadStep \/ UnloadStep \/ Remap PROVE LifecycleInv'
  OBVIOUS
<1> USE DEF objectVars, requestVars, threadVars, queueVars, callVars
<1>0. RequestTypeOK /\ QueuesMatch /\ reply \in [AllRequests -> Replies]
  BY DEF LifecycleInv, RestTyped, RequestTypeOK, Replies
<1>1. CASE LoadDeclines \/ SetupDone \/ UnloadStarts \/ UnloadDone \/ Remap
  <2>1. UNCHANGED <<objectVars, requestVars, readers, threadAt, queueVars, callVars>>
    BY <1>1, SetupSets DEF LoadDeclines, UnloadStarts, UnloadDone, Remap
  <2>2. RequestsMatch' /\ NoRequesterDropped' /\ Counted' /\ LocksMatch' /\ Tasks' = Tasks
    BY <2>1, CallsUntouched
  <2>3. RestTyped'
    <3>0. RestTyped
      BY DEF LifecycleInv
    <3> DEFINE Typed == /\ mod \in {"out", "starting", "running", "locking", "stopping", "unlocked"}
                        /\ logger \in BOOLEAN /\ techCaps \in BOOLEAN /\ registered \in BOOLEAN
                        /\ worker \in {"unset", "some", "none"}
                        /\ thread \in {"off", "starting", "running"}
    <3>1. Typed
      BY <3>0 DEF RestTyped
    <3>2. ASSUME LoadDeclines PROVE Typed'
      BY <3>1, <3>2 DEF LoadDeclines
    <3>3. ASSUME SetupDone PROVE Typed'
      BY <3>1, <3>3, SetupSets
    <3>4. ASSUME UnloadStarts PROVE Typed'
      BY <3>1, <3>4 DEF UnloadStarts
    <3>5. ASSUME UnloadDone PROVE Typed'
      BY <3>1, <3>5 DEF UnloadDone
    <3>6. ASSUME Remap PROVE Typed'
      BY <3>1, <3>6 DEF Remap
    <3>7. Typed'
      BY <1>1, <3>2, <3>3, <3>4, <3>5, <3>6
    <3>8. RequestTypeOK'
      BY <1>0, <2>1 DEF RequestTypeOK
    <3>9. QED
      BY <2>1, <3>0, <3>7, <3>8 DEF RestTyped
  <2>4. Phases'
    <3>1. CASE LoadDeclines
      BY <2>1, <3>1 DEF LifecycleInv, Phases, LoadDeclines
    <3>2. CASE SetupDone
      BY <2>1, <3>2, SetupSets DEF LifecycleInv, Phases
    <3>3. CASE UnloadStarts
      BY <2>1, <3>3 DEF LifecycleInv, Phases, UnloadStarts
    <3>4. CASE UnloadDone
      BY <2>1, <3>4 DEF LifecycleInv, Phases, UnloadDone
    <3>5. CASE Remap
      BY <2>1, <3>5 DEF LifecycleInv, Phases, Remap
    <3>6. QED
      BY <1>1, <3>1, <3>2, <3>3, <3>4, <3>5
  <2>5. ReadersAsk'
    BY <1>1, <2>1, SetupSets DEF LifecycleInv, ReadersAsk, Phases, LoadDeclines, UnloadStarts,
                                 UnloadDone, Remap
  <2>6. ThreadHasTasks' /\ ReceiversMatch'
    BY <1>1, <2>1, <2>2, SetupSets DEF LifecycleInv, ThreadHasTasks, ReceiversMatch, Phases,
                                       LoadDeclines, UnloadStarts, UnloadDone, Remap
  <2>7. QueuesMatch'
    BY <1>0, <2>1 DEF QueuesMatch
  <2>8. QED
    BY <2>2, <2>3, <2>4, <2>5, <2>6, <2>7 DEF LifecycleInv
<1>2. CASE LoadStarts
  <2>1. /\ UNCHANGED <<objectVars, reply, readers, threadAt, queueVars, callVars>>
        /\ OpenChannel(Thread)
    BY <1>2 DEF LoadStarts
  <2>2. RequestTypeOK' /\ QueuesMatch' /\ rxOpen' = rxOpen \cup {Thread}
    BY <1>0, <2>1, OpenEffect
  <2>3. RequestsMatch' /\ NoRequesterDropped' /\ Counted' /\ LocksMatch' /\ Tasks' = Tasks
    BY <2>1, CallsUntouched
  <2>4. RestTyped'
    BY <1>2, <2>1, <2>2 DEF LifecycleInv, RestTyped, LoadStarts
  <2>5. Phases' /\ ReadersAsk'
    BY <1>2, <2>1 DEF LifecycleInv, Phases, ReadersAsk, LoadStarts
  <2>6. ThreadHasTasks' /\ ReceiversMatch'
    BY <1>2, <2>1, <2>2, <2>3 DEF LifecycleInv, Phases, ThreadHasTasks, ReceiversMatch, LoadStarts
  <2>7. QED
    BY <2>2, <2>3, <2>4, <2>5, <2>6 DEF LifecycleInv
<1>3. CASE SetupFails
  <2>1. /\ UNCHANGED <<objectVars, readers, threadAt, queueVars, callVars, worker, registered>>
        /\ CloseChannels({Thread}, <<>>) /\ mod = "starting" /\ mod' = "out" /\ thread' = "off"
    BY <1>3 DEF SetupFails
  <2>2. /\ RequestTypeOK' /\ QueuesMatch' /\ rxOpen' = rxOpen \ {Thread}
        /\ \A q \in AllRequests : ReceiverOf[q] # Thread \/ ~Pending(q) => reply'[q] = reply[q]
    <3>1. /\ {Thread} \in SUBSET (Channels \cup {Thread})
          /\ <<>> \in AllRequests => ReceiverOf[<<>>] \in {Thread}
          /\ \A q \in AllRequests : q # <<>>
      BY RequestKinds
    <3>2. /\ RequestTypeOK' /\ QueuesMatch' /\ rxOpen' = rxOpen \ {Thread}
          /\ \A q \in AllRequests : q # <<>> /\ (ReceiverOf[q] \notin {Thread} \/ ~Pending(q))
                                       => reply'[q] = reply[q]
      BY <1>0, <2>1, <3>1, CloseEffect
    <3>3. QED
      BY <3>1, <3>2
  <2>3. \A c \in Channels : ~Pending(Prepare(c))
    BY <2>1 DEF LifecycleInv, Phases, ReadersAsk, RequestsMatch, Pending
  <2>4. /\ reply'[Stop] = reply[Stop]
        /\ \A c \in Channels : reply'[Prepare(c)] = reply[Prepare(c)]
                               /\ reply'[Callback(c)] = reply[Callback(c)]
    BY <2>1, <2>2, <2>3, RequestKinds, RequestReceivers, LifecycleAssumption
       DEF LifecycleInv, Phases, Pending
  <2>5. RequestsMatch' /\ NoRequesterDropped' /\ Counted' /\ LocksMatch' /\ Tasks' = Tasks
    BY <2>1, <2>4, CallsUntouched
  <2>6. RestTyped'
    BY <1>3, <2>1, <2>2 DEF LifecycleInv, RestTyped, SetupFails
  <2>7. Phases' /\ ReadersAsk'
    BY <1>3, <2>1, <2>4 DEF LifecycleInv, Phases, ReadersAsk, SetupFails
  <2>8. ThreadHasTasks' /\ ReceiversMatch'
    BY <2>1, <2>2, <2>5, LifecycleAssumption
       DEF LifecycleInv, Phases, ThreadHasTasks, ReceiversMatch, Tasks
  <2>9. QED
    BY <2>2, <2>5, <2>6, <2>7, <2>8 DEF LifecycleInv
<1>4. CASE UnloadLocks
  <2>1. /\ UNCHANGED <<objectVars, logger, techCaps, registered, readers, threadVars, queueVars,
                       callVars>>
        /\ Send(Stop) /\ mod = "locking" /\ mod' = "stopping" /\ readers = {} /\ worker' = "none"
    BY <1>4 DEF UnloadLocks
  <2>2. /\ RequestTypeOK' /\ QueuesMatch' /\ rxOpen' = rxOpen
        /\ reply' = [reply EXCEPT ![Stop] = IF Thread \in rxOpen THEN "sent" ELSE "failed"]
    BY <1>0, <2>1, SendEffect, RequestKinds, RequestReceivers
  <2>3. Thread \in rxOpen /\ thread = "running"
    BY <2>1 DEF LifecycleInv, Phases, ReceiversMatch
  <2>4. /\ reply'[Stop] = "sent"
        /\ \A c \in Channels : reply'[Prepare(c)] = reply[Prepare(c)]
                               /\ reply'[Callback(c)] = reply[Callback(c)]
    BY <1>0, <2>2, <2>3, RequestKinds
  <2>5. RequestsMatch' /\ NoRequesterDropped' /\ Counted' /\ LocksMatch' /\ Tasks' = Tasks
    BY <2>1, <2>4, CallsUntouched
  <2>6. RestTyped'
    BY <2>1, <2>2 DEF LifecycleInv, RestTyped
  <2>7. Phases' /\ ReadersAsk'
    BY <2>1, <2>3, <2>4 DEF LifecycleInv, Phases, ReadersAsk
  <2>8. ThreadHasTasks' /\ ReceiversMatch'
    BY <2>1, <2>2, <2>5 DEF LifecycleInv, ThreadHasTasks, ReceiversMatch
  <2>9. QED
    BY <2>2, <2>5, <2>6, <2>7, <2>8 DEF LifecycleInv
<1>5. CASE UnloadJoins
  <2>1. /\ UNCHANGED <<objectVars, logger, techCaps, registered, worker, readers, threadVars,
                       queueVars, callVars>>
        /\ TakeReply(Stop) /\ mod = "stopping" /\ mod' = "unlocked" /\ thread = "off"
    BY <1>5 DEF UnloadJoins
  <2>2. /\ RequestTypeOK' /\ QueuesMatch' /\ rxOpen' = rxOpen
        /\ reply' = [reply EXCEPT ![Stop] = "none"]
    BY <1>0, <2>1, TakeReplyEffect, RequestKinds
  <2>3. /\ reply'[Stop] = "none"
        /\ \A c \in Channels : reply'[Prepare(c)] = reply[Prepare(c)]
                               /\ reply'[Callback(c)] = reply[Callback(c)]
    BY <1>0, <2>2, RequestKinds
  <2>4. RequestsMatch' /\ NoRequesterDropped' /\ Counted' /\ LocksMatch' /\ Tasks' = Tasks
    BY <2>1, <2>3, CallsUntouched
  <2>5. RestTyped'
    BY <2>1, <2>2 DEF LifecycleInv, RestTyped
  <2>6. Phases' /\ ReadersAsk'
    BY <2>1, <2>3 DEF LifecycleInv, Phases, ReadersAsk
  <2>7. ThreadHasTasks' /\ ReceiversMatch'
    BY <2>1, <2>2, <2>4 DEF LifecycleInv, ThreadHasTasks, ReceiversMatch
  <2>8. QED
    BY <2>2, <2>4, <2>5, <2>6, <2>7 DEF LifecycleInv
<1>6. QED
  BY <1>1, <1>2, <1>3, <1>4, <1>5 DEF LoadStep, UnloadStep

\* A step of a call leaves the module where it is.
LEMMA ModuleUntouched ==
    ASSUME LifecycleInv, UNCHANGED <<moduleVars, thread>>, reply'[Stop] = reply[Stop],
           readers' = readers \/ mod \in {"running", "locking"}
    PROVE  Phases'
  BY DEF LifecycleInv, Phases, moduleVars

\* A requester's steps keep the invariant.  A requester that found the worker
\* reads WORKER, so that there is a thread to send PrepareCall to.
LEMMA RequesterSteps ==
    ASSUME LifecycleInv, NEW c \in Channels,
           \/ RequesterCalled(c) \/ NoWorker(c) \/ FindWorker(c)
           \/ PrepareCall(c) \/ RequesterReturns(c)
    PROVE  LifecycleInv'
<1> USE DEF objectVars, requestVars, threadVars, queueVars
<1>0. RequestTypeOK /\ QueuesMatch /\ reply \in [AllRequests -> Replies] /\ RestTyped
  BY DEF LifecycleInv, RestTyped, RequestTypeOK, Replies
<1>f. \A d \in Channels : FramesIn(frames, d) \in Nat
  BY <1>0, FramesFinite DEF RestTyped
<1>1. CASE RequesterCalled(c)
  <2>1. /\ chan[c] = "none" /\ refs[c] = 0 /\ chan' = [chan EXCEPT ![c] = "requested"]
        /\ refs' = [refs EXCEPT ![c] = 1] /\ lock' = [lock EXCEPT ![c] = "requester"]
        /\ UNCHANGED <<requestVars, moduleVars, readers, threadVars, queueVars, callback, task>>
    BY <1>1 DEF RequesterCalled, NewLocked
  <2>2. FramesIn(frames, c) = 0 /\ ~Pending(Prepare(c)) /\ task[c] = "none"
    BY <1>f, <2>1 DEF LifecycleInv, Counted, One
  <2>3. RestTyped'
    BY <1>0, <2>1 DEF RestTyped, RequestTypeOK, moduleVars
  <2>4. Phases'
    BY <2>1, ModuleUntouched
  <2>5. ReadersAsk' /\ ThreadHasTasks' /\ ReceiversMatch' /\ QueuesMatch' /\ NoRequesterDropped'
    BY <1>0, <2>1 DEF LifecycleInv, RestTyped, ReadersAsk, ThreadHasTasks, ReceiversMatch,
                      QueuesMatch, NoRequesterDropped, Tasks, moduleVars
  <2>6. RequestsMatch'
    BY <1>0, <2>1, <2>2 DEF LifecycleInv, RestTyped, RequestsMatch, Pending
  <2>7. Counted'
    <3>1. ASSUME NEW d \in Channels, d # c
          PROVE  refs'[d] = refs[d] /\ chan'[d] = chan[d]
      BY <1>0, <2>1, <3>1 DEF RestTyped
    <3>2. refs'[c] = 1 /\ chan'[c] = "requested"
      BY <1>0, <2>1 DEF RestTyped
    <3>3. QED
      BY <2>1, <2>2, <3>1, <3>2 DEF LifecycleInv, Counted, One, Pending, FixUpPending
  <2>8. LocksMatch'
    BY <1>0, <2>1 DEF LifecycleInv, RestTyped, LocksMatch
  <2>9. QED
    BY <2>3, <2>4, <2>5, <2>6, <2>7, <2>8 DEF LifecycleInv
<1>2. CASE NoWorker(c)
  <2>1. /\ chan[c] = "requested" /\ chan' = [chan EXCEPT ![c] = "none"]
        /\ refs' = [d \in Channels |-> IF d \in {c} THEN refs[d] - 1 ELSE refs[d]]
        /\ lock' = [lock EXCEPT ![c] = "free"]
        /\ UNCHANGED <<requestVars, moduleVars, readers, threadVars, queueVars, callback, task>>
    BY <1>2 DEF NoWorker, RequesterGivesUp, Unlock, Release
  <2>2. RestTyped'
    BY <1>0, <2>1 DEF RestTyped, RequestTypeOK, moduleVars
  <2>3. Phases'
    BY <2>1, ModuleUntouched
  <2>4. ReadersAsk' /\ ThreadHasTasks' /\ ReceiversMatch' /\ QueuesMatch' /\ NoRequesterDropped'
    BY <1>0, <2>1 DEF LifecycleInv, RestTyped, ReadersAsk, ThreadHasTasks, ReceiversMatch,
                      QueuesMatch, NoRequesterDropped, Tasks, moduleVars
  <2>5. RequestsMatch'
    BY <1>0, <2>1 DEF LifecycleInv, RestTyped, RequestsMatch, Pending
  <2>6. Counted'
    <3>1. ASSUME NEW d \in Channels, d # c
          PROVE  refs'[d] = refs[d] /\ chan'[d] = chan[d]
      BY <1>0, <2>1, <3>1 DEF RestTyped
    <3>2. refs'[c] = refs[c] - 1 /\ chan'[c] = "none"
      BY <1>0, <2>1 DEF RestTyped
    <3>3. QED
      BY <1>f, <2>1, <3>1, <3>2 DEF LifecycleInv, Counted, One, Pending, FixUpPending
  <2>7. LocksMatch'
    BY <1>0, <2>1 DEF LifecycleInv, RestTyped, LocksMatch, RequestsMatch
  <2>8. QED
    BY <2>2, <2>3, <2>4, <2>5, <2>6, <2>7 DEF LifecycleInv
<1>3. CASE FindWorker(c)
  <2>1. /\ chan[c] = "requested" /\ mod \notin {"locking", "stopping"} /\ worker = "some"
        /\ chan' = [chan EXCEPT ![c] = "reading"] /\ readers' = readers \cup {c}
        /\ UNCHANGED <<objectVars, requestVars, moduleVars, threadVars, queueVars, callback, task>>
    BY <1>3 DEF FindWorker, CanRead
  <2>2. mod = "running"
    BY <1>0, <2>1 DEF LifecycleInv, RestTyped, Phases
  <2>3. RestTyped'
    BY <1>0, <2>1 DEF RestTyped, RequestTypeOK, moduleVars
  <2>4. Phases'
    BY <2>1, <2>2, ModuleUntouched
  <2>5. ReadersAsk'
    BY <1>0, <2>1, <2>2 DEF LifecycleInv, RestTyped, ReadersAsk, moduleVars
  <2>6. ThreadHasTasks' /\ ReceiversMatch' /\ QueuesMatch' /\ NoRequesterDropped'
    BY <1>0, <2>1 DEF LifecycleInv, ThreadHasTasks, ReceiversMatch,
                      QueuesMatch, NoRequesterDropped, Tasks
  <2>7. RequestsMatch'
    BY <1>0, <2>1 DEF LifecycleInv, RestTyped, RequestsMatch, Pending
  <2>8. Counted'
    BY <1>0, <2>1 DEF LifecycleInv, RestTyped, Counted, One, Pending, FixUpPending
  <2>9. LocksMatch'
    BY <1>0, <2>1 DEF LifecycleInv, RestTyped, LocksMatch
  <2>10. QED
    BY <2>3, <2>4, <2>5, <2>6, <2>7, <2>8, <2>9 DEF LifecycleInv
<1>4. CASE PrepareCall(c)
  <2>1. /\ chan[c] = "reading" /\ chan' = [chan EXCEPT ![c] = "asking"]
        /\ refs' = [d \in Channels |-> IF d \in {c} THEN refs[d] + 1 ELSE refs[d]]
        /\ Send(Prepare(c))
        /\ UNCHANGED <<lock, moduleVars, readers, threadVars, queueVars, callback, task>>
    BY <1>4 DEF PrepareCall, Clone
  <2>2. /\ RequestTypeOK' /\ QueuesMatch' /\ rxOpen' = rxOpen /\ reply[Prepare(c)] = "none"
        /\ reply' = [reply EXCEPT ![Prepare(c)] = IF Thread \in rxOpen THEN "sent" ELSE "failed"]
    BY <1>0, <2>1, SendEffect, RequestKinds, RequestReceivers
  <2>3. Thread \in rxOpen
    BY <2>1 DEF LifecycleInv, ReadersAsk, Phases, ReceiversMatch
  <2>4. /\ reply'[Prepare(c)] = "sent" /\ reply'[Stop] = reply[Stop]
        /\ \A d \in Channels : reply'[Callback(d)] = reply[Callback(d)]
        /\ \A d \in Channels : d # c => reply'[Prepare(d)] = reply[Prepare(d)]
    BY <1>0, <2>2, <2>3, RequestKinds
  <2>5. RestTyped'
    BY <1>0, <2>1, <2>2 DEF RestTyped, moduleVars
  <2>6. Phases'
    BY <2>1, <2>4, ModuleUntouched
  <2>7. ReadersAsk' /\ ThreadHasTasks' /\ ReceiversMatch'
    BY <1>0, <2>1, <2>2 DEF LifecycleInv, RestTyped, ReadersAsk, ThreadHasTasks, ReceiversMatch,
                            Tasks, moduleVars
  <2>8. RequestsMatch' /\ NoRequesterDropped'
    <3>1. chan'[c] = "asking" /\ \A d \in Channels : d # c => chan'[d] = chan[d]
      BY <1>0, <2>1 DEF RestTyped
    <3>2. QED
      BY <2>1, <2>4, <3>1 DEF LifecycleInv, RequestsMatch, NoRequesterDropped, Pending
  <2>9. Counted'
    <3>1. ASSUME NEW d \in Channels, d # c
          PROVE  /\ refs'[d] = refs[d] /\ chan'[d] = chan[d]
                 /\ Pending(Prepare(d))' <=> Pending(Prepare(d))
      BY <1>0, <2>1, <2>4, <3>1 DEF RestTyped, Pending
    <3>2. /\ refs'[c] = refs[c] + 1 /\ chan'[c] = "asking"
          /\ Pending(Prepare(c))' /\ ~Pending(Prepare(c))
      BY <1>0, <2>1, <2>2, <2>4 DEF RestTyped, Pending
    <3>3. \A d \in Channels : FixUpPending(d)' <=> FixUpPending(d)
      BY <2>1, <2>4 DEF FixUpPending, Pending
    <3>4. QED
      BY <1>f, <2>1, <3>1, <3>2, <3>3 DEF LifecycleInv, Counted, One
  <2>10. LocksMatch'
    BY <1>0, <2>1 DEF LifecycleInv, RestTyped, LocksMatch
  <2>11. QED
    BY <2>2, <2>5, <2>6, <2>7, <2>8, <2>9, <2>10 DEF LifecycleInv
<1>5. CASE RequesterReturns(c)
  <2>1. /\ chan[c] = "asking" /\ TakeReply(Prepare(c)) /\ readers' = readers \ {c}
        /\ lock' = [lock EXCEPT ![c] = "free"]
        /\ UNCHANGED <<moduleVars, threadVars, queueVars, callback, task>>
    BY <1>5 DEF RequesterReturns, RequesterGivesUp, Unlock
  <2>2. \/ chan' = [chan EXCEPT ![c] = "up"] /\ refs' = refs
        \/ /\ chan' = [chan EXCEPT ![c] = "none"]
           /\ refs' = [d \in Channels |-> IF d \in {c} THEN refs[d] - 1 ELSE refs[d]]
    BY <1>5 DEF RequesterReturns, RequesterGivesUp, Release
  <2>3. /\ RequestTypeOK' /\ QueuesMatch' /\ UNCHANGED <<rxOpen, rqueue>> /\ Returned(Prepare(c))
        /\ reply' = [reply EXCEPT ![Prepare(c)] = "none"]
    BY <1>0, <2>1, TakeReplyEffect, RequestKinds
  <2>4. /\ reply'[Prepare(c)] = "none" /\ reply'[Stop] = reply[Stop] /\ ~Pending(Prepare(c))
        /\ \A d \in Channels : reply'[Callback(d)] = reply[Callback(d)]
        /\ \A d \in Channels : d # c => reply'[Prepare(d)] = reply[Prepare(d)]
    BY <1>0, <2>3, RequestKinds DEF Returned, Pending
  <2>5. RestTyped'
    <3>1. chan' \in [Channels -> {"none", "requested", "reading", "asking", "up", "fixedUp"}]
      BY <1>0, <2>2 DEF RestTyped
    <3>2. refs \in [Channels -> Int]
      BY <1>0 DEF RestTyped
    <3>3. refs' \in [Channels -> Int]
      BY <2>2, <3>2
    <3>4. QED
      BY <1>0, <2>1, <2>3, <3>1, <3>3 DEF RestTyped, moduleVars
  <2>6. mod \in {"running", "locking"}
    BY <2>1 DEF LifecycleInv, ReadersAsk
  <2>7. Phases'
    BY <2>1, <2>4, <2>6, ModuleUntouched
  <2>8. ReadersAsk' /\ ThreadHasTasks' /\ ReceiversMatch'
    BY <1>0, <2>1, <2>2, <2>3, <2>6 DEF LifecycleInv, RestTyped, ReadersAsk, ThreadHasTasks,
                                        ReceiversMatch, Tasks, moduleVars
  <2>9. RequestsMatch' /\ NoRequesterDropped'
    <3>1. /\ chan'[c] \in {"up", "none"}
          /\ \A d \in Channels : d # c => chan'[d] = chan[d]
      BY <1>0, <2>2 DEF RestTyped
    <3>2. callback[c] = "none"
      BY <2>1 DEF LifecycleInv, RequestsMatch
    <3>3. RequestsMatch'
      BY <2>1, <2>4, <3>1, <3>2 DEF LifecycleInv, RequestsMatch, Pending
    <3>4. NoRequesterDropped'
      BY <2>4 DEF LifecycleInv, NoRequesterDropped
    <3>5. QED
      BY <3>3, <3>4
  <2>10. Counted'
    <3>1. ASSUME NEW d \in Channels, d # c
          PROVE  /\ refs'[d] = refs[d] /\ chan'[d] = chan[d]
                 /\ Pending(Prepare(d))' <=> Pending(Prepare(d))
      BY <1>0, <2>2, <2>4, <3>1 DEF RestTyped, Pending
    <3>2. /\ ~Pending(Prepare(c)) /\ ~Pending(Prepare(c))'
          /\ \/ chan'[c] = "up" /\ refs'[c] = refs[c]
             \/ chan'[c] = "none" /\ refs'[c] = refs[c] - 1
      BY <1>0, <2>2, <2>4 DEF RestTyped, Pending
    <3>3. \A d \in Channels : FixUpPending(d)' <=> FixUpPending(d)
      BY <2>1, <2>4 DEF FixUpPending, Pending
    <3>4. QED
      BY <1>f, <2>1, <3>1, <3>2, <3>3 DEF LifecycleInv, Counted, One
  <2>11. LocksMatch'
    BY <1>0, <2>1, <2>2 DEF LifecycleInv, RestTyped, LocksMatch, RequestsMatch
  <2>12. QED
    BY <2>3, <2>5, <2>7, <2>8, <2>9, <2>10, <2>11 DEF LifecycleInv
<1>6. QED
  BY <1>1, <1>2, <1>3, <1>4, <1>5

\* Taking a request keeps the invariant: its caller waits as before.
LEMMA TakeSteps ==
    ASSUME LifecycleInv, NEW c \in Channels, TakePrepare(c) \/ TakeRequest(c)
    PROVE  LifecycleInv'
<1> USE DEF objectVars, threadVars, queueVars, callVars
<1>0. RequestTypeOK /\ QueuesMatch /\ reply \in [AllRequests -> Replies] /\ RestTyped
  BY DEF LifecycleInv, RestTyped, RequestTypeOK, Replies
<1>1. /\ UNCHANGED <<objectVars, moduleVars, readers, threadVars, queueVars, callVars>>
      /\ \E r \in {Prepare(c), Callback(c)} : Take(r)
  BY DEF TakePrepare, TakeRequest
<1>2. PICK r \in {Prepare(c), Callback(c)} : Take(r)
  BY <1>1
<1>3. /\ RequestTypeOK' /\ QueuesMatch' /\ rxOpen' = rxOpen /\ reply[r] = "sent"
      /\ reply' = [reply EXCEPT ![r] = "taken"]
  BY <1>0, <1>2, TakeEffect, RequestKinds
<1>4. \A q \in AllRequests : q # r => reply'[q] = reply[q]
  BY <1>0, <1>3
<1>5. reply'[r] = "taken"
  BY <1>0, <1>2, <1>3, RequestKinds
<1>6. /\ reply'[Stop] = reply[Stop]
      /\ \A q \in AllRequests : /\ Pending(q)' <=> Pending(q)
                                /\ reply'[q] = "none" <=> reply[q] = "none"
                                /\ reply'[q] = "failed" <=> reply[q] = "failed"
  BY <1>2, <1>3, <1>4, <1>5, RequestKinds DEF Pending
<1>7. RestTyped'
  BY <1>0, <1>1, <1>3 DEF RestTyped, moduleVars
<1>8. Phases'
  BY <1>1, <1>6, ModuleUntouched
<1>9. ReadersAsk' /\ ThreadHasTasks' /\ ReceiversMatch' /\ LocksMatch'
  BY <1>1, <1>3 DEF LifecycleInv, ReadersAsk, ThreadHasTasks, ReceiversMatch, LocksMatch, Tasks,
                    moduleVars
<1>10. RequestsMatch' /\ NoRequesterDropped'
  BY <1>1, <1>6, RequestKinds DEF LifecycleInv, RequestsMatch, NoRequesterDropped
<1>11. Counted'
  BY <1>1, <1>6, RequestKinds DEF LifecycleInv, Counted, FixUpPending, One
<1>12. QED
  BY <1>3, <1>7, <1>8, <1>9, <1>10, <1>11 DEF LifecycleInv

\* Taking a FixUp keeps the invariant: the reference in it is the worker's now, and
\* the worker's is dropped.
LEMMA FixUpStep == ASSUME LifecycleInv, NEW c \in Channels, TakeFixUp(c) PROVE LifecycleInv'
<1> USE DEF objectVars, threadVars, queueVars, callVars
<1>0. RequestTypeOK /\ QueuesMatch /\ reply \in [AllRequests -> Replies] /\ RestTyped
  BY DEF LifecycleInv, RestTyped, RequestTypeOK, Replies
<1>f. \A d \in Channels : FramesIn(frames, d) \in Nat
  BY <1>0, FramesFinite DEF RestTyped
<1>1. /\ callback[c] = "fixup" /\ TakeUnanswered(Callback(c))
      /\ refs' = [d \in Channels |-> IF d \in {c} THEN refs[d] - 1 ELSE refs[d]]
      /\ UNCHANGED <<lock, moduleVars, readers, threadVars, queueVars, callVars>>
  BY DEF TakeFixUp, Release
<1>2. /\ RequestTypeOK' /\ QueuesMatch' /\ rxOpen' = rxOpen /\ reply[Callback(c)] = "sent"
      /\ reply' = [reply EXCEPT ![Callback(c)] = "failed"]
  BY <1>0, <1>1, TakeUnansweredEffect, RequestKinds
<1>3. /\ reply'[Callback(c)] = "failed" /\ reply'[Stop] = reply[Stop]
      /\ \A d \in Channels : /\ reply'[Prepare(d)] = reply[Prepare(d)]
                             /\ d # c => reply'[Callback(d)] = reply[Callback(d)]
  BY <1>0, <1>2, RequestKinds
<1>4. RestTyped'
  <2>1. refs' \in [Channels -> Int]
    BY <1>0, <1>1 DEF RestTyped
  <2>2. QED
    BY <1>0, <1>1, <1>2, <2>1 DEF RestTyped, moduleVars
<1>5. Phases'
  BY <1>1, <1>3, ModuleUntouched
<1>6. ReadersAsk' /\ ThreadHasTasks' /\ ReceiversMatch' /\ LocksMatch'
  BY <1>1, <1>2 DEF LifecycleInv, ReadersAsk, ThreadHasTasks, ReceiversMatch, LocksMatch, Tasks,
                    moduleVars
<1>7. RequestsMatch' /\ NoRequesterDropped'
  BY <1>1, <1>2, <1>3 DEF LifecycleInv, RequestsMatch, NoRequesterDropped, Pending
<1>8. Counted'
  <2>1. refs'[c] = refs[c] - 1 /\ \A d \in Channels : d # c => refs'[d] = refs[d]
    BY <1>1
  <2>2. /\ FixUpPending(c) /\ ~FixUpPending(c)'
        /\ \A d \in Channels : d # c => (FixUpPending(d)' <=> FixUpPending(d))
        /\ \A d \in Channels : Pending(Prepare(d))' <=> Pending(Prepare(d))
    BY <1>1, <1>2, <1>3 DEF FixUpPending, Pending
  <2>3. QED
    BY <1>f, <1>1, <2>1, <2>2 DEF LifecycleInv, Counted, One
<1>9. QED
  BY <1>2, <1>4, <1>5, <1>6, <1>7, <1>8 DEF LifecycleInv

\* What an answer changes: the request it is for.
LEMMA AnswerTo ==
    ASSUME LifecycleInv, NEW c \in Channels, NEW r \in {Prepare(c), Callback(c)},
           Respond(r), UNCHANGED <<rxOpen, rqueue>> \/ \E k \in Channels : OpenChannel(k)
    PROVE  /\ RequestTypeOK' /\ QueuesMatch' /\ reply'[Stop] = reply[Stop]
           /\ reply[r] = "taken" /\ reply'[r] = "answered"
           /\ \A d \in Channels : /\ r # Prepare(d) => reply'[Prepare(d)] = reply[Prepare(d)]
                                  /\ r # Callback(d) => reply'[Callback(d)] = reply[Callback(d)]
<1>1. RequestTypeOK /\ QueuesMatch /\ r \in AllRequests /\ reply \in [AllRequests -> Replies]
  BY RequestKinds DEF LifecycleInv, RestTyped, RequestTypeOK, Replies
<1>2. /\ RequestTypeOK' /\ QueuesMatch' /\ reply[r] = "taken"
      /\ reply' = [reply EXCEPT ![r] = "answered"]
  BY <1>1, RespondEffect
<1>3. QED
  BY <1>1, <1>2, RequestKinds

\* The answers to a PrepareCall keep the invariant: the request's reference is
\* dropped, or passed on to the worker, which did not exist before.
LEMMA PrepareSteps ==
    ASSUME LifecycleInv, NEW c \in Channels, PrepareRefused(c) \/ PrepareGranted(c)
    PROVE  LifecycleInv'
<1> USE DEF objectVars, threadVars, queueVars, callVars
<1>0. RestTyped
  BY DEF LifecycleInv
<1>f. \A d \in Channels : FramesIn(frames, d) \in Nat
  BY <1>0, FramesFinite DEF RestTyped
<1>1. /\ Polling /\ Respond(Prepare(c)) /\ c \in Channels
      /\ UNCHANGED <<lock, moduleVars, readers, threadVars, frames, chan, callback>>
  BY DEF PrepareRefused, PrepareGranted
<1>2. /\ RequestTypeOK' /\ QueuesMatch' /\ reply'[Stop] = reply[Stop]
      /\ reply[Prepare(c)] = "taken" /\ reply'[Prepare(c)] = "answered"
      /\ \A d \in Channels : /\ d # c => reply'[Prepare(d)] = reply[Prepare(d)]
                             /\ reply'[Callback(d)] = reply[Callback(d)]
  <2>1. UNCHANGED <<rxOpen, rqueue>> \/ \E k \in Channels : OpenChannel(k)
    BY DEF PrepareRefused, PrepareGranted
  <2>2. QED
    BY <1>1, <2>1, AnswerTo, RequestKinds
<1>3. Phases'
  BY <1>1, <1>2, ModuleUntouched
<1>4. ReadersAsk' /\ LocksMatch' /\ NoRequesterDropped'
  BY <1>1, <1>2 DEF LifecycleInv, ReadersAsk, LocksMatch, NoRequesterDropped, moduleVars
<1>5. /\ Pending(Prepare(c)) /\ ~Pending(Prepare(c))'
      /\ \A d \in Channels : d # c => (Pending(Prepare(d))' <=> Pending(Prepare(d)))
      /\ \A d \in Channels : Pending(Callback(d))' <=> Pending(Callback(d))
      /\ \A d \in Channels : FixUpPending(d)' <=> FixUpPending(d)
  BY <1>1, <1>2 DEF Pending, FixUpPending
<1>6. CASE PrepareRefused(c)
  <2>1. /\ refs' = [d \in Channels |-> IF d \in {c} THEN refs[d] - 1 ELSE refs[d]]
        /\ UNCHANGED <<rxOpen, queueThread, task>>
    BY <1>6 DEF PrepareRefused, Release
  <2>2. RestTyped'
    BY <1>0, <1>1, <1>2, <2>1 DEF RestTyped, moduleVars
  <2>3. ThreadHasTasks' /\ ReceiversMatch'
    BY <1>1, <2>1 DEF LifecycleInv, ThreadHasTasks, ReceiversMatch, Tasks
  <2>4. RequestsMatch'
    BY <1>1, <1>2, <1>5, <2>1 DEF LifecycleInv, RequestsMatch
  <2>5. Counted'
    <3>1. refs'[c] = refs[c] - 1 /\ \A d \in Channels : d # c => refs'[d] = refs[d]
      BY <2>1
    <3>2. QED
      BY <1>f, <1>1, <1>5, <2>1, <3>1 DEF LifecycleInv, Counted, One
  <2>6. QED
    BY <1>2, <1>3, <1>4, <2>2, <2>3, <2>4, <2>5 DEF LifecycleInv
<1>7. CASE PrepareGranted(c)
  <2>1. /\ refs' = refs /\ task' = [task EXCEPT ![c] = "prepared"] /\ queueThread' = TRUE
        /\ OpenChannel(c)
    BY <1>7 DEF PrepareGranted
  <2>2. /\ task[c] = "none" /\ task'[c] = "prepared" /\ rxOpen' = rxOpen \cup {c}
        /\ \A d \in Channels : d # c => task'[d] = task[d]
        /\ Tasks' = Tasks \cup {c}
    BY <1>0, <1>5, <2>1 DEF LifecycleInv, RestTyped, RequestsMatch, OpenChannel, Tasks
  <2>3. RestTyped'
    BY <1>0, <1>1, <1>2, <2>1 DEF RestTyped, moduleVars
  <2>4. ThreadHasTasks' /\ ReceiversMatch'
    BY <1>1, <2>1, <2>2 DEF LifecycleInv, ThreadHasTasks, ReceiversMatch, Polling
  <2>5. RequestsMatch'
    BY <1>1, <1>2, <1>5, <2>2 DEF LifecycleInv, RequestsMatch
  <2>6. Counted'
    BY <1>f, <1>1, <1>5, <2>1, <2>2 DEF LifecycleInv, Counted, One
  <2>7. QED
    BY <1>2, <1>3, <1>4, <2>3, <2>4, <2>5, <2>6 DEF LifecycleInv
<1>8. QED
  BY <1>6, <1>7

\* Stopping the thread keeps the invariant: Stop is only sent when no requester
\* reads WORKER, so no PrepareCall is dropped, and a callback fails with the
\* worker it was sent to.
LEMMA StopStep == ASSUME LifecycleInv, ThreadStops PROVE LifecycleInv'
<1> USE DEF objectVars, threadVars, queueVars, callVars
<1> DEFINE K == {Thread} \cup Tasks
<1>0. RequestTypeOK /\ QueuesMatch /\ reply \in [AllRequests -> Replies] /\ RestTyped
  BY DEF LifecycleInv, RestTyped, RequestTypeOK, Replies
<1>1. /\ Polling /\ rqueue[Thread] # <<>> /\ Head(rqueue[Thread]) = Stop
      /\ CloseChannels(K, Stop)
      /\ refs' = [c \in Channels |-> CASE c \notin Tasks -> refs[c]
                                       [] c \in Tasks /\ ~FixUpPending(c) -> refs[c] - 1
                                       [] c \in Tasks /\ FixUpPending(c) -> refs[c] - 2]
      /\ task' = [c \in Channels |-> "none"] /\ thread' = "off"
      /\ UNCHANGED <<lock, moduleVars, readers, threadAt, queueVars, chan, callback>>
  BY DEF ThreadStops
<1>2. mod = "stopping"
  <2>1. rqueue[Thread] \in Seq(AllRequests)
    BY <1>0 DEF RequestTypeOK
  <2>2. rqueue[Thread][1] = Stop /\ 1 \in 1 .. Len(rqueue[Thread])
    BY <1>1, <2>1, EmptySeq
  <2>3. reply[Stop] = "sent"
    BY <1>0, <2>2 DEF QueuesMatch
  <2>4. QED
    BY <2>3 DEF LifecycleInv, Phases
<1>3. \A c \in Channels : chan[c] # "asking" /\ reply[Prepare(c)] = "none"
  BY <1>2 DEF LifecycleInv, Phases, ReadersAsk, RequestsMatch
<1>4. K \in SUBSET (Channels \cup {Thread}) /\ ReceiverOf[Stop] \in K
  BY RequestReceivers DEF Tasks
<1> HIDE DEF K
<1>c. PICK L : L = K
  OBVIOUS
<1>5. /\ RequestTypeOK' /\ QueuesMatch' /\ rxOpen' = rxOpen \ K
      /\ reply'[Stop] = "answered"
      /\ \A q \in AllRequests : q # Stop /\ ReceiverOf[q] \in K /\ Pending(q) => reply'[q] = "failed"
      /\ \A q \in AllRequests : q # Stop /\ (ReceiverOf[q] \notin K \/ ~Pending(q))
                                   => reply'[q] = reply[q]
  <2>1. CloseChannels(L, Stop) /\ L \in SUBSET (Channels \cup {Thread}) /\ ReceiverOf[Stop] \in L
    BY <1>1, <1>4, <1>c, Zenon
  <2>2. Stop \in AllRequests
    BY RequestKinds
  <2>3. /\ RequestTypeOK' /\ QueuesMatch' /\ rxOpen' = rxOpen \ L
        /\ reply'[Stop] = "answered"
        /\ \A q \in AllRequests : q # Stop /\ ReceiverOf[q] \in L /\ Pending(q) => reply'[q] = "failed"
        /\ \A q \in AllRequests : q # Stop /\ (ReceiverOf[q] \notin L \/ ~Pending(q))
                                     => reply'[q] = reply[q]
    BY <1>0, <2>1, <2>2, CloseEffect
  <2>4. QED
    BY <1>c, <2>3, Zenon
<1>6. /\ \A c \in Channels : reply'[Prepare(c)] = "none"
      /\ \A c \in Channels : reply'[Callback(c)] = "none" <=> reply[Callback(c)] = "none"
      /\ \A c \in Channels : ~Pending(Callback(c))' /\ ~Pending(Prepare(c)) /\ ~Pending(Prepare(c))'
  <2>1. \A c \in Channels : ~Pending(Prepare(c)) /\ reply'[Prepare(c)] = "none"
    BY <1>3, <1>5, RequestKinds DEF Pending
  <2>2. \A c \in Channels : Pending(Callback(c)) => c \in K
    BY DEF LifecycleInv, RequestsMatch, Tasks, K
  <2>3. \A c \in Channels : /\ Pending(Callback(c)) => reply'[Callback(c)] = "failed"
                            /\ ~Pending(Callback(c)) => reply'[Callback(c)] = reply[Callback(c)]
    BY <1>5, <2>2, RequestKinds, RequestReceivers
  <2>4. QED
    BY <2>1, <2>3 DEF Pending
<1>7. \A c \in Channels : task'[c] = "none" /\ (c \in Tasks <=> task[c] # "none")
  BY <1>1 DEF Tasks
<1>r. \A c \in Channels : refs'[c] = refs[c] - One(FixUpPending(c)) - One(task[c] # "none")
  <2>1. \A c \in Channels : FixUpPending(c) => c \in Tasks
    BY DEF LifecycleInv, RequestsMatch, FixUpPending, Tasks
  <2>2. \A c \in Channels : refs[c] \in Int
    BY <1>0 DEF RestTyped
  <2>3. QED
    BY <1>1, <1>7, <2>1, <2>2 DEF One
<1>8. Tasks' = {}
  BY <1>7 DEF Tasks
<1>9. RestTyped'
  <2>1. task' \in [Channels -> {"none", "prepared", "started"}]
    BY <1>0, <1>1 DEF RestTyped
  <2>2. refs' \in [Channels -> Int]
    <3>1. refs \in [Channels -> Int] /\ \A c \in Channels : One(FixUpPending(c)) \in {0, 1}
      BY <1>0 DEF RestTyped, One
    <3>2. \A c \in Channels : refs'[c] \in Int
      BY <1>r, <3>1 DEF One
    <3>3. QED
      BY <1>1, <3>2
  <2>3. QED
    BY <1>0, <1>1, <1>5, <2>1, <2>2 DEF RestTyped, moduleVars
<1>10. Phases' /\ ReadersAsk'
  <2>1. mod' = "stopping" /\ thread' = "off" /\ UNCHANGED <<mod, logger, worker, readers, chan>>
    BY <1>1, <1>2 DEF moduleVars
  <2>2. Phases'
    BY <1>2, <1>5, <2>1 DEF LifecycleInv, Phases
  <2>3. ReadersAsk'
    BY <2>1 DEF LifecycleInv, ReadersAsk
  <2>4. QED
    BY <2>2, <2>3
<1>11. ThreadHasTasks' /\ ReceiversMatch'
  <2>1. rxOpen' = {}
    BY <1>5 DEF LifecycleInv, ReceiversMatch, K
  <2>2. QED
    BY <1>1, <1>8, <2>1 DEF Polling, ThreadHasTasks, ReceiversMatch
<1>12. RequestsMatch' /\ NoRequesterDropped'
  BY <1>1, <1>3, <1>6, <1>7 DEF LifecycleInv, RequestsMatch, NoRequesterDropped
<1>13. Counted'
  <2>1. \A c \in Channels : ~FixUpPending(c)'
    BY <1>6 DEF FixUpPending
  <2>2. \A c \in Channels : FramesIn(frames, c) \in Nat
    BY <1>0, FramesFinite DEF RestTyped
  <2>3. QED
    BY <1>1, <1>6, <1>7, <1>r, <2>1, <2>2 DEF LifecycleInv, Counted, One
<1>14. LocksMatch'
  BY <1>1 DEF LifecycleInv, LocksMatch
<1>15. QED
  BY <1>5, <1>9, <1>10, <1>11, <1>12, <1>13, <1>14 DEF LifecycleInv

\* The steps of a callback keep the invariant: its request is pending only if
\* there is a worker to answer it.
LEMMA CallbackSteps ==
    ASSUME LifecycleInv, NEW c \in Channels,
           \/ \E cb \in {"call", "write", "hangup"} : CallbackStarts(c, cb)
           \/ FixupStarts(c) \/ CallbackReturns(c)
    PROVE  LifecycleInv'
<1> USE DEF objectVars, threadVars, queueVars
<1>0. RequestTypeOK /\ QueuesMatch /\ reply \in [AllRequests -> Replies] /\ RestTyped
  BY DEF LifecycleInv, RestTyped, RequestTypeOK, Replies
<1>f. \A d \in Channels : FramesIn(frames, d) \in Nat
  BY <1>0, FramesFinite DEF RestTyped
<1>1. ASSUME NEW cb \in {"call", "write", "hangup", "fixup"},
             chan[c] = "up", Lock(c, "callback"), Send(Callback(c)),
             callback' = [callback EXCEPT ![c] = cb],
             IF cb = "fixup" /\ c \in rxOpen THEN Clone({c}) ELSE UNCHANGED refs,
             UNCHANGED <<moduleVars, readers, threadVars, queueVars, chan, task>>
      PROVE  LifecycleInv'
  <2>1. /\ chan[c] = "up" /\ lock' = [lock EXCEPT ![c] = "callback"]
        /\ callback' = [callback EXCEPT ![c] = cb] /\ Send(Callback(c))
        /\ UNCHANGED <<moduleVars, readers, threadVars, queueVars, chan, task>>
    BY <1>1 DEF Lock
  <2>2. /\ RequestTypeOK' /\ QueuesMatch' /\ rxOpen' = rxOpen /\ reply[Callback(c)] = "none"
        /\ reply' = [reply EXCEPT ![Callback(c)] = IF c \in rxOpen THEN "sent" ELSE "failed"]
    BY <1>0, <2>1, SendEffect, RequestKinds, RequestReceivers
  <2>3. /\ reply'[Callback(c)] = (IF c \in rxOpen THEN "sent" ELSE "failed")
        /\ reply'[Stop] = reply[Stop]
        /\ \A d \in Channels : reply'[Prepare(d)] = reply[Prepare(d)]
        /\ \A d \in Channels : d # c => reply'[Callback(d)] = reply[Callback(d)]
    BY <1>0, <2>2, RequestKinds
  <2>4. c \in rxOpen => task[c] # "none"
    BY LifecycleAssumption DEF LifecycleInv, ReceiversMatch, Tasks
  <2>5. callback'[c] = cb /\ \A d \in Channels : d # c => callback'[d] = callback[d]
    BY <1>0, <2>1 DEF RestTyped
  <2>r. /\ refs' \in [Channels -> Int]
        /\ refs'[c] = refs[c] + One(cb = "fixup" /\ c \in rxOpen)
        /\ \A d \in Channels : d # c => refs'[d] = refs[d]
    <3>1. refs \in [Channels -> Int]
      BY <1>0 DEF RestTyped
    <3>2. QED
      BY <1>1, <3>1 DEF Clone, One
  <2>6. RestTyped'
    <3>1. refs' \in [Channels -> Int]
      BY <2>r
    <3>2. callback' \in [Channels -> {"none", "call", "write", "hangup", "fixup"}]
      BY <1>0, <2>1 DEF RestTyped
    <3>3. lock' \in [Channels -> {"requester", "callback"} \cup {"free"}]
      BY <1>0, <2>1 DEF RestTyped
    <3>4. QED
      BY <1>0, <2>1, <2>2, <3>1, <3>2, <3>3 DEF RestTyped, moduleVars
  <2>7. Phases'
    BY <2>1, <2>3, ModuleUntouched
  <2>8. ReadersAsk' /\ ThreadHasTasks' /\ ReceiversMatch'
    BY <2>1, <2>2 DEF LifecycleInv, ReadersAsk, ThreadHasTasks, ReceiversMatch, Tasks, moduleVars
  <2>9. RequestsMatch' /\ NoRequesterDropped'
    BY <2>1, <2>3, <2>4, <2>5 DEF LifecycleInv, RequestsMatch, NoRequesterDropped, Pending
  <2>10. Counted'
    <3>1. /\ ~FixUpPending(c)
          /\ FixUpPending(c)' <=> (cb = "fixup" /\ c \in rxOpen)
          /\ \A d \in Channels : d # c => (FixUpPending(d)' <=> FixUpPending(d))
          /\ \A d \in Channels : Pending(Prepare(d))' <=> Pending(Prepare(d))
      BY <2>2, <2>3, <2>5 DEF Pending, FixUpPending
    <3>2. QED
      BY <1>f, <2>1, <2>r, <3>1 DEF LifecycleInv, Counted, One
  <2>11. LocksMatch'
    BY <1>0, <2>1, <2>5 DEF LifecycleInv, RestTyped, LocksMatch
  <2>12. QED
    BY <2>2, <2>6, <2>7, <2>8, <2>9, <2>10, <2>11 DEF LifecycleInv
<1>2. CASE CallbackReturns(c)
  <2>1. /\ TakeReply(Callback(c)) /\ lock' = [lock EXCEPT ![c] = "free"]
        /\ callback' = [callback EXCEPT ![c] = "none"]
        /\ UNCHANGED <<moduleVars, readers, threadVars, queueVars, task>>
    BY <1>2 DEF CallbackReturns, Unlock
  <2>2. \/ UNCHANGED <<refs, chan>>
        \/ chan' = [chan EXCEPT ![c] = "fixedUp"] /\ refs' = refs
        \/ /\ chan' = [chan EXCEPT ![c] = "none"]
           /\ refs' = [d \in Channels |-> IF d \in {c} THEN refs[d] - 1 ELSE refs[d]]
    BY <1>2 DEF CallbackReturns, Release
  <2>3. /\ RequestTypeOK' /\ QueuesMatch' /\ UNCHANGED <<rxOpen, rqueue>> /\ Returned(Callback(c))
        /\ reply' = [reply EXCEPT ![Callback(c)] = "none"]
    BY <1>0, <2>1, TakeReplyEffect, RequestKinds
  <2>4. /\ reply'[Callback(c)] = "none" /\ reply'[Stop] = reply[Stop]
        /\ \A d \in Channels : reply'[Prepare(d)] = reply[Prepare(d)]
        /\ \A d \in Channels : d # c => reply'[Callback(d)] = reply[Callback(d)]
    BY <1>0, <2>3, RequestKinds
  <2>5. chan[c] = "up"
    BY <2>3 DEF LifecycleInv, RequestsMatch, Returned
  <2>6. /\ callback'[c] = "none" /\ \A d \in Channels : d # c => callback'[d] = callback[d]
        /\ chan'[c] \in {"up", "fixedUp", "none"} /\ \A d \in Channels : d # c => chan'[d] = chan[d]
    BY <1>0, <2>1, <2>2, <2>5 DEF RestTyped
  <2>7. /\ \A d \in Channels : d # c => refs'[d] = refs[d]
        /\ refs'[c] = refs[c] - One(chan'[c] = "none")
    BY <1>0, <2>2, <2>5 DEF RestTyped, One
  <2>8. RestTyped'
    <3>1. chan' \in [Channels -> {"none", "requested", "reading", "asking", "up", "fixedUp"}]
      BY <1>0, <2>2 DEF RestTyped
    <3>2. refs \in [Channels -> Int]
      BY <1>0 DEF RestTyped
    <3>3. refs' \in [Channels -> Int]
      BY <2>2, <3>2
    <3>4. QED
      BY <1>0, <2>1, <2>3, <3>1, <3>3 DEF RestTyped, moduleVars
  <2>9. Phases'
    BY <2>1, <2>4, ModuleUntouched
  <2>10. ReadersAsk' /\ ThreadHasTasks' /\ ReceiversMatch'
    BY <2>1, <2>3, <2>5, <2>6 DEF LifecycleInv, ReadersAsk, ThreadHasTasks, ReceiversMatch, Tasks,
                                  moduleVars
  <2>11. RequestsMatch' /\ NoRequesterDropped'
    BY <2>1, <2>4, <2>5, <2>6 DEF LifecycleInv, RequestsMatch, NoRequesterDropped, Pending
  <2>12. Counted'
    <3>1. \A d \in Channels : /\ FixUpPending(d)' <=> FixUpPending(d)
                              /\ Pending(Prepare(d))' <=> Pending(Prepare(d))
      BY <2>3, <2>4, <2>6 DEF Returned, Pending, FixUpPending
    <3>2. QED
      BY <1>f, <2>1, <2>5, <2>6, <2>7, <3>1 DEF LifecycleInv, Counted, One
  <2>13. LocksMatch'
    BY <1>0, <2>1, <2>6 DEF LifecycleInv, RestTyped, LocksMatch
  <2>14. QED
    BY <2>3, <2>8, <2>9, <2>10, <2>11, <2>12, <2>13 DEF LifecycleInv
<1>3. ASSUME NEW cb \in {"call", "write", "hangup"}, CallbackStarts(c, cb) PROVE LifecycleInv'
  <2>1. /\ chan[c] = "up" /\ Lock(c, "callback") /\ Send(Callback(c)) /\ cb # "fixup"
        /\ callback' = [callback EXCEPT ![c] = cb]
        /\ UNCHANGED <<refs, moduleVars, readers, threadVars, queueVars, chan, task>>
    BY <1>3 DEF CallbackStarts
  <2>2. QED
    BY <1>1, <2>1
<1>4. CASE FixupStarts(c)
  BY <1>1, <1>4 DEF FixupStarts
<1>5. QED
  BY <1>2, <1>3, <1>4

\* Answering a call or a write keeps the invariant: the worker goes on.
LEMMA AnswerStep ==
    ASSUME LifecycleInv, NEW c \in Channels, AnswerRequest(c)
    PROVE  LifecycleInv'
<1> USE DEF objectVars, threadVars, queueVars
<1>0. RestTyped
  BY DEF LifecycleInv
<1>1. /\ Respond(Callback(c)) /\ callback[c] \in {"call", "write"}
      /\ task' = [task EXCEPT ![c] = IF callback[c] = "call" THEN "started" ELSE @]
      /\ UNCHANGED <<objectVars, rxOpen, rqueue, moduleVars, readers, threadVars, queueVars, chan,
                     callback>>
  BY DEF AnswerRequest
<1>2. /\ RequestTypeOK' /\ QueuesMatch' /\ reply'[Stop] = reply[Stop]
      /\ reply[Callback(c)] = "taken" /\ reply'[Callback(c)] = "answered"
      /\ \A d \in Channels : /\ reply'[Prepare(d)] = reply[Prepare(d)]
                             /\ d # c => reply'[Callback(d)] = reply[Callback(d)]
  BY <1>1, AnswerTo, RequestKinds
<1>3. task[c] # "none"
  BY <1>2 DEF LifecycleInv, RequestsMatch, Pending
<1>4. \A d \in Channels : task'[d] # "none" <=> task[d] # "none"
  BY <1>0, <1>1, <1>3 DEF RestTyped
<1>5. RestTyped'
  <2>1. task' \in [Channels -> {"none", "prepared", "started"}]
    BY <1>0, <1>1 DEF RestTyped
  <2>2. QED
    BY <1>0, <1>1, <1>2, <2>1 DEF RestTyped, moduleVars
<1>6. Phases'
  BY <1>1, <1>2, ModuleUntouched
<1>7. ReadersAsk' /\ LocksMatch'
  BY <1>1 DEF LifecycleInv, ReadersAsk, LocksMatch, moduleVars
<1>8. ThreadHasTasks' /\ ReceiversMatch'
  <2>1. Tasks' = Tasks
    BY <1>4 DEF Tasks
  <2>2. QED
    BY <1>0, <1>1, <1>4, <2>1 DEF LifecycleInv, RestTyped, ThreadHasTasks, ReceiversMatch
<1>9. RequestsMatch' /\ NoRequesterDropped'
  BY <1>1, <1>2, <1>4 DEF LifecycleInv, RequestsMatch, NoRequesterDropped, Pending
<1>10. Counted'
  <2>1. \A d \in Channels : /\ FixUpPending(d)' <=> FixUpPending(d)
                            /\ Pending(Prepare(d))' <=> Pending(Prepare(d))
    BY <1>1, <1>2 DEF Pending, FixUpPending
  <2>2. QED
    BY <1>1, <1>4, <2>1 DEF LifecycleInv, Counted, One
<1>11. QED
  BY <1>2, <1>5, <1>6, <1>7, <1>8, <1>9, <1>10 DEF LifecycleInv

\* What a worker's end changes, whether its last request was answered or not.
LEMMA EndOf ==
    ASSUME LifecycleInv, NEW c \in Channels, NEW r \in {Callback(c), <<>>}, WorkerEnds(c, r),
           r = Callback(c) => Pending(r)
    PROVE  /\ RequestTypeOK' /\ QueuesMatch' /\ rxOpen' = rxOpen \ {c}
           /\ reply'[Stop] = reply[Stop] /\ ~Pending(Callback(c))'
           /\ reply'[Callback(c)] = "none" <=> reply[Callback(c)] = "none"
           /\ \A d \in Channels : /\ reply'[Prepare(d)] = reply[Prepare(d)]
                                  /\ d # c => reply'[Callback(d)] = reply[Callback(d)]
<1>1. RequestTypeOK /\ QueuesMatch /\ reply \in [AllRequests -> Replies]
  BY DEF LifecycleInv, RestTyped, RequestTypeOK, Replies
<1>2. /\ CloseChannels({c}, r) /\ {c} \in SUBSET (Channels \cup {Thread})
      /\ r \in AllRequests => ReceiverOf[r] \in {c}
  BY RequestKinds, RequestReceivers DEF WorkerEnds
<1>3. /\ RequestTypeOK' /\ QueuesMatch' /\ rxOpen' = rxOpen \ {c}
      /\ r \in AllRequests => reply'[r] = "answered"
      /\ \A q \in AllRequests : q # r /\ ReceiverOf[q] \in {c} /\ Pending(q) => reply'[q] = "failed"
      /\ \A q \in AllRequests : q # r /\ (ReceiverOf[q] \notin {c} \/ ~Pending(q))
                                   => reply'[q] = reply[q]
  BY <1>1, <1>2, CloseEffect
<1>4. \A q \in AllRequests : ReceiverOf[q] # c => q # r
  BY <1>2
<1>5. \A q \in AllRequests : ReceiverOf[q] # c => reply'[q] = reply[q]
  BY <1>3, <1>4
<1>6. /\ reply'[Stop] = reply[Stop]
      /\ \A d \in Channels : /\ reply'[Prepare(d)] = reply[Prepare(d)]
                             /\ d # c => reply'[Callback(d)] = reply[Callback(d)]
  BY <1>5, RequestKinds, RequestReceivers, LifecycleAssumption
<1>7. /\ Pending(Callback(c)) => reply'[Callback(c)] \in {"answered", "failed"}
      /\ ~Pending(Callback(c)) => reply'[Callback(c)] = reply[Callback(c)]
  BY <1>3, RequestKinds, RequestReceivers
<1>8. QED
  BY <1>3, <1>6, <1>7 DEF Pending

\* A worker's end keeps the invariant, and its reference is the only one dropped.
LEMMA EndSteps ==
    ASSUME LifecycleInv, NEW c \in Channels,
           AnswerHangup(c) \/ NoMoreRequests(c) \/ QueuesHangup(c)
    PROVE  LifecycleInv'
<1> USE DEF objectVars, threadVars, queueVars
<1>0. RestTyped
  BY DEF LifecycleInv
<1>f. \A d \in Channels : FramesIn(frames, d) \in Nat
  BY <1>0, FramesFinite DEF RestTyped
<1>1. /\ task' = [task EXCEPT ![c] = "none"]
      /\ refs' = [d \in Channels |-> IF d \in {c} THEN refs[d] - 1 ELSE refs[d]]
      /\ UNCHANGED <<lock, moduleVars, readers, thread, queueVars, chan, callback>>
      /\ threadAt' = NoChannel
  BY DEF AnswerHangup, NoMoreRequests, QueuesHangup, Selecting, WorkerEnds, Release, Polling
<1>2. task[c] # "none"
  <2>1. CASE AnswerHangup(c)
    BY <2>1 DEF AnswerHangup, LifecycleInv, RequestsMatch, Pending
  <2>2. CASE QueuesHangup(c)
    BY <2>2, LifecycleAssumption DEF QueuesHangup, LifecycleInv, ThreadHasTasks
  <2>3. CASE NoMoreRequests(c)
    BY <2>3 DEF NoMoreRequests, Selecting
  <2>4. QED
    BY <2>1, <2>2, <2>3
<1>3. /\ RequestTypeOK' /\ QueuesMatch' /\ rxOpen' = rxOpen \ {c}
      /\ reply'[Stop] = reply[Stop] /\ ~Pending(Callback(c))'
      /\ reply'[Callback(c)] = "none" <=> reply[Callback(c)] = "none"
      /\ \A d \in Channels : /\ reply'[Prepare(d)] = reply[Prepare(d)]
                             /\ d # c => reply'[Callback(d)] = reply[Callback(d)]
  <2>1. CASE AnswerHangup(c)
    <3>1. WorkerEnds(c, Callback(c)) /\ Pending(Callback(c))
      BY <2>1 DEF AnswerHangup, Pending
    <3>2. QED
      BY <3>1, EndOf
  <2>2. CASE NoMoreRequests(c) \/ QueuesHangup(c)
    <3>1. WorkerEnds(c, <<>>) /\ <<>> # Callback(c)
      BY <2>2, RequestKinds DEF NoMoreRequests, QueuesHangup
    <3>2. QED
      BY <3>1, EndOf
  <2>3. QED
    BY <2>1, <2>2
<1>c. callback[c] # "fixup"
  BY LifecycleAssumption DEF AnswerHangup, NoMoreRequests, QueuesHangup, LifecycleInv, RequestsMatch,
                             LocksMatch
<1>4. task'[c] = "none" /\ \A d \in Channels : d # c => task'[d] = task[d]
  BY <1>0, <1>1 DEF RestTyped
<1>5. RestTyped'
  <2>1. refs' \in [Channels -> Int] /\ task' \in [Channels -> {"none", "prepared", "started"}]
    BY <1>0, <1>1 DEF RestTyped
  <2>2. QED
    BY <1>0, <1>1, <1>3, <2>1 DEF RestTyped, moduleVars
<1>6. Phases'
  BY <1>1, <1>3, ModuleUntouched
<1>7. ReadersAsk' /\ LocksMatch'
  BY <1>1 DEF LifecycleInv, ReadersAsk, LocksMatch, moduleVars
<1>8. ThreadHasTasks' /\ ReceiversMatch'
  <2>1. Tasks' = Tasks \ {c}
    BY <1>4 DEF Tasks
  <2>2. QED
    BY <1>1, <1>3, <2>1, LifecycleAssumption DEF LifecycleInv, ThreadHasTasks, ReceiversMatch
<1>9. RequestsMatch' /\ NoRequesterDropped'
  BY <1>1, <1>3, <1>4 DEF LifecycleInv, RequestsMatch, NoRequesterDropped, Pending
<1>10. Counted'
  <2>1. refs'[c] = refs[c] - 1 /\ \A d \in Channels : d # c => refs'[d] = refs[d]
    BY <1>1
  <2>2. \A d \in Channels : /\ FixUpPending(d)' <=> FixUpPending(d)
                            /\ Pending(Prepare(d))' <=> Pending(Prepare(d))
    BY <1>1, <1>3, <1>c DEF Pending, FixUpPending
  <2>3. QED
    BY <1>f, <1>1, <1>2, <1>4, <2>1, <2>2 DEF LifecycleInv, Counted, One
<1>11. QED
  BY <1>3, <1>5, <1>6, <1>7, <1>8, <1>9, <1>10 DEF LifecycleInv

\* The steps towards a channel's lock and its queue keep the invariant: a frame
\* holds a reference as long as it waits.
LEMMA FrameSteps ==
    ASSUME LifecycleInv,
           WriteFrame \/ \E c \in Channels : QueueFrame(c) \/ WantsLock(c) \/ QueuesControl(c)
    PROVE  LifecycleInv'
<1> USE DEF objectVars, requestVars, threadVars, queueVars, callVars
<1>0. RestTyped
  BY DEF LifecycleInv
<1>f. \A d \in Channels : FramesIn(frames, d) \in Nat
  BY <1>0, FramesFinite DEF RestTyped
<1>1. UNCHANGED <<lock, requestVars, moduleVars, readers, thread, queueThread, callVars>>
  BY DEF WriteFrame, QueueFrame, WantsLock, QueuesControl
<1>2. Phases' /\ ReadersAsk' /\ ReceiversMatch' /\ LocksMatch'
  BY <1>1 DEF LifecycleInv, Phases, ReadersAsk, ReceiversMatch, LocksMatch, Tasks, moduleVars
<1>3. QueuesMatch' /\ RequestsMatch' /\ NoRequesterDropped'
  BY <1>1 DEF LifecycleInv, QueuesMatch, RequestsMatch, NoRequesterDropped, Pending
<1>p. \A d \in Channels : /\ FixUpPending(d)' <=> FixUpPending(d)
                          /\ Pending(Prepare(d))' <=> Pending(Prepare(d))
  BY <1>1 DEF Pending, FixUpPending
<1>4. ASSUME frames' \in Seq(Channels), Len(frames') <= FrameBound, refs' \in [Channels -> Int],
             threadAt' \in Channels \cup {NoChannel}
      PROVE  RestTyped'
  BY <1>0, <1>1, <1>4 DEF RestTyped, RequestTypeOK, moduleVars
<1>5. ASSUME threadAt' = threadAt PROVE ThreadHasTasks'
  BY <1>1, <1>5 DEF LifecycleInv, ThreadHasTasks, Tasks
<1>6. CASE WriteFrame
  <2>1. /\ frames # <<>> /\ frames' = Tail(frames) /\ threadAt' = threadAt
        /\ refs' = [d \in Channels |-> IF d \in {Head(frames)} THEN refs[d] - 1 ELSE refs[d]]
    BY <1>6 DEF WriteFrame, Release
  <2>2. frames \in Seq(Channels) /\ Len(frames) \in Nat /\ Len(frames) <= FrameBound
        /\ refs \in [Channels -> Int]
    BY <1>0, LenProperties DEF RestTyped
  <2>3. frames' \in Seq(Channels) /\ Len(frames') = Len(frames) - 1
    BY <2>1, <2>2, HeadTailProperties
  <2>4. refs' \in [Channels -> Int]
    BY <2>1, <2>2
  <2>5. RestTyped'
    <3>1. Len(frames') <= FrameBound
      BY <2>2, <2>3, LifecycleAssumption
    <3>2. QED
      BY <1>0, <1>4, <2>1, <2>3, <2>4, <3>1 DEF RestTyped
  <2>6. \A d \in Channels : FramesIn(frames', d) = FramesIn(frames, d) - One(d = Head(frames))
    BY <2>1, <2>2, FrameWritten
  <2>7. \A d \in Channels : refs'[d] = refs[d] - One(d = Head(frames))
    BY <2>1, <2>2 DEF One
  <2>8. Counted'
    BY <1>f, <1>1, <1>p, <2>6, <2>7 DEF LifecycleInv, Counted, One
  <2>9. QED
    BY <1>2, <1>3, <1>5, <2>1, <2>5, <2>8 DEF LifecycleInv
<1>7. ASSUME NEW c \in Channels, QueueFrame(c) PROVE LifecycleInv'
  <2>1. /\ frames' = Append(frames, c) /\ threadAt' = threadAt /\ Len(frames) < FrameBound
        /\ refs' = [d \in Channels |-> IF d \in {c} THEN refs[d] + 1 ELSE refs[d]]
    BY <1>7 DEF QueueFrame, Clone
  <2>2. frames \in Seq(Channels) /\ Len(frames) \in Nat /\ refs \in [Channels -> Int]
    BY <1>0, LenProperties DEF RestTyped
  <2>3. frames' \in Seq(Channels) /\ Len(frames') = Len(frames) + 1
    BY <2>1, <2>2, AppendProperties
  <2>4. refs' \in [Channels -> Int]
    BY <2>1, <2>2
  <2>5. RestTyped'
    <3>1. Len(frames') <= FrameBound
      BY <2>1, <2>2, <2>3, LifecycleAssumption
    <3>2. QED
      BY <1>0, <1>4, <2>1, <2>3, <2>4, <3>1 DEF RestTyped
  <2>6. \A d \in Channels : FramesIn(frames', d) = FramesIn(frames, d) + One(d = c)
    BY <2>1, <2>2, FrameQueued
  <2>7. \A d \in Channels : refs'[d] = refs[d] + One(d = c)
    BY <2>1, <2>2 DEF One
  <2>8. Counted'
    BY <1>f, <1>1, <1>p, <2>6, <2>7 DEF LifecycleInv, Counted, One
  <2>9. QED
    BY <1>2, <1>3, <1>5, <2>1, <2>5, <2>8 DEF LifecycleInv
<1>8. ASSUME NEW c \in Channels, WantsLock(c) \/ QueuesControl(c) PROVE LifecycleInv'
  <2>1. UNCHANGED <<refs, frames>> /\ threadAt' \in {c, NoChannel}
    BY <1>8 DEF WantsLock, QueuesControl
  <2>2. RestTyped'
    BY <1>0, <1>4, <2>1 DEF RestTyped
  <2>3. ThreadHasTasks'
    BY <1>1, <1>8 DEF WantsLock, QueuesControl, Selecting, Polling, LifecycleInv, ThreadHasTasks,
                      Tasks
  <2>4. Counted'
    BY <1>1, <2>1 DEF LifecycleInv, Counted, Pending, FixUpPending
  <2>5. QED
    BY <1>2, <1>3, <2>2, <2>3, <2>4 DEF LifecycleInv
<1>9. QED
  BY <1>6, <1>7, <1>8

\* Every step keeps the invariant.
LEMMA InvStep == LifecycleInv /\ [Next]_vars => LifecycleInv'
<1> SUFFICES ASSUME LifecycleInv, [Next]_vars PROVE LifecycleInv'
  OBVIOUS
<1>1. CASE LoadStep \/ UnloadStep \/ Remap
  BY <1>1, ModuleSteps
<1>2. CASE ThreadStops
  BY <1>2, StopStep
<1>3. CASE WriteFrame
  BY <1>3, FrameSteps
<1>4. ASSUME NEW c \in Channels,
             \/ RequesterCalled(c) \/ NoWorker(c) \/ FindWorker(c)
             \/ PrepareCall(c) \/ RequesterReturns(c)
      PROVE  LifecycleInv'
  BY <1>4, RequesterSteps
<1>5. ASSUME NEW c \in Channels, TakePrepare(c) \/ TakeRequest(c) PROVE LifecycleInv'
  BY <1>5, TakeSteps
<1>6. ASSUME NEW c \in Channels, PrepareRefused(c) \/ PrepareGranted(c) PROVE LifecycleInv'
  BY <1>6, PrepareSteps
<1>7. ASSUME NEW c \in Channels,
             \/ \E cb \in {"call", "write", "hangup"} : CallbackStarts(c, cb)
             \/ FixupStarts(c) \/ CallbackReturns(c)
      PROVE  LifecycleInv'
  BY <1>7, CallbackSteps
<1>8. ASSUME NEW c \in Channels, AnswerRequest(c) PROVE LifecycleInv'
  BY <1>8, AnswerStep
<1>9. ASSUME NEW c \in Channels, AnswerHangup(c) \/ NoMoreRequests(c) \/ QueuesHangup(c)
      PROVE  LifecycleInv'
  BY <1>9, EndSteps
<1>10. ASSUME NEW c \in Channels, QueueFrame(c) \/ WantsLock(c) \/ QueuesControl(c)
       PROVE  LifecycleInv'
  BY <1>10, FrameSteps
<1>11. ASSUME NEW c \in Channels, TakeFixUp(c) PROVE LifecycleInv'
  BY <1>11, FixUpStep
<1>12. CASE UNCHANGED vars
  <2>1. UNCHANGED <<refs, lock, rxOpen, rqueue, reply, mod, logger, techCaps, registered, worker,
                    readers, thread, threadAt, queueThread, frames, chan, callback, task>>
    BY <1>12 DEF vars, objectVars, requestVars, moduleVars, threadVars, queueVars, callVars
  <2>2. RestTyped' /\ Phases' /\ ReadersAsk'
    BY <2>1 DEF LifecycleInv, RestTyped, RequestTypeOK, Phases, ReadersAsk
  <2>3. ThreadHasTasks' /\ ReceiversMatch' /\ QueuesMatch' /\ RequestsMatch'
    BY <2>1 DEF LifecycleInv, ThreadHasTasks, ReceiversMatch, QueuesMatch, RequestsMatch, Tasks, Pending
  <2>4. NoRequesterDropped' /\ Counted' /\ LocksMatch'
    BY <2>1 DEF LifecycleInv, NoRequesterDropped, Counted, LocksMatch, Pending, FixUpPending
  <2>5. QED
    BY <2>2, <2>3, <2>4 DEF LifecycleInv
<1>13. QED
  BY <1>1, <1>2, <1>3, <1>4, <1>5, <1>6, <1>7, <1>8, <1>9, <1>10, <1>11, <1>12, Zenon
     DEF Next, GetsLock

\* The invariant holds in every state of every behaviour.
LEMMA Invariance == Spec => []LifecycleInv
  BY InitInv, InvStep, PTL DEF Spec

-----------------------------------------------------------------------------
\* The variables have their types, for any channels and frames: in particular
\* no count of references becomes negative.
THEOREM TypeCorrect == Spec => []TypeOK
<1>1. LifecycleInv => TypeOK
  BY OwnersCounted DEF LifecycleInv, RestTyped, TypeOK, ObjectTypeOK
<1>2. QED
  BY <1>1, Invariance, PTL

\* Ao2's references are balanced: a channel has one for each of its owners and
\* is locked exactly while requester or a callback is in it, however calls and
\* module end.
THEOREM ReferencesBalanced == Spec => []OwnersMatch
<1>1. LifecycleInv => OwnersMatch
  BY OwnersCounted DEF LifecycleInv
<1>2. QED
  BY <1>1, Invariance, PTL

\* A loaded module has a thread, and nothing but the queue thread runs on after
\* unload_module.
THEOREM Served == Spec => []ServedWhileLoaded
<1>1. LifecycleInv => ServedWhileLoaded
  BY LifecycleAssumption DEF LifecycleInv, Phases, ReceiversMatch, ThreadHasTasks, ServedWhileLoaded
<1>2. QED
  BY <1>1, Invariance, PTL

\* WORKER's lock keeps unload_module from taking the thread away from a requester
\* that found it.
THEOREM RequestersAreServed == Spec => []NoRequesterDropped
<1>1. LifecycleInv => NoRequesterDropped
  BY DEF LifecycleInv
<1>2. QED
  BY <1>1, Invariance, PTL

-----------------------------------------------------------------------------
(***************************************************************************)
(* The request channels implement RemoteCall.                              *)
(***************************************************************************)

\* The states a caller may find its call in.
Outcomes == {"idle", "pending", "notified", "answered", "failed"}

\* The cases of an outcome.
LEMMA OutcomeOf ==
    ASSUME RequestTypeOK, NEW r \in AllRequests
    PROVE  /\ reply[r] = "none" <=> Outcome(r) = "idle"
           /\ Pending(r) /\ r \notin FixUps <=> Outcome(r) = "pending"
           /\ Pending(r) /\ r \in FixUps <=> Outcome(r) = "notified"
           /\ reply[r] = "answered" <=> Outcome(r) = "answered"
           /\ reply[r] = "failed" <=> Outcome(r) = "failed"
           /\ Outcome(r) \in Outcomes
<1>1. reply[r] \in Replies
  BY DEF RequestTypeOK, Replies
<1>2. CASE r \in FixUps
  BY <1>1, <1>2 DEF Replies, Outcomes, Outcome, Pending
<1>3. CASE r \notin FixUps
  BY <1>1, <1>3 DEF Replies, Outcomes, Outcome, Pending
<1>4. QED
  BY <1>2, <1>3

\* Afterwards it has the same cases.
LEMMA OutcomeThen ==
    ASSUME RequestTypeOK', NEW r \in AllRequests
    PROVE  /\ reply'[r] = "none" <=> Outcome(r)' = "idle"
           /\ Pending(r)' /\ r \notin FixUps' <=> Outcome(r)' = "pending"
           /\ Pending(r)' /\ r \in FixUps' <=> Outcome(r)' = "notified"
           /\ reply'[r] = "answered" <=> Outcome(r)' = "answered"
           /\ reply'[r] = "failed" <=> Outcome(r)' = "failed"
           /\ Outcome(r)' \in Outcomes
<1>1. reply'[r] \in Replies
  BY DEF RequestTypeOK, Replies
<1>2. CASE r \in FixUps'
  BY <1>1, <1>2 DEF Replies, Outcomes, Outcome, Pending
<1>3. CASE r \notin FixUps'
  BY <1>1, <1>3 DEF Replies, Outcomes, Outcome, Pending
<1>4. QED
  BY <1>2, <1>3

\* A request that nothing happens to keeps its outcome.
LEMMA OutcomeKept ==
    ASSUME NEW r \in AllRequests, reply'[r] = reply[r], r \in FixUps' <=> r \in FixUps
    PROVE  Outcome(r)' = Outcome(r)
<1>1. CASE r \in FixUps
  BY <1>1 DEF Outcome, Pending
<1>2. CASE r \notin FixUps
  BY <1>2 DEF Outcome, Pending
<1>3. QED
  BY <1>1, <1>2

\* A callback that starts or returns tells of no other channel's request that it
\* is, or is not, a FixUp.
LEMMA FixUpsKept ==
    ASSUME NEW c \in Channels, NEW cb, callback' = [callback EXCEPT ![c] = cb], RestTyped
    PROVE  \A q \in AllRequests : q # Callback(c) => (q \in FixUps' <=> q \in FixUps)
<1>1. \A d \in Channels : d # c => callback'[d] = callback[d]
  BY DEF RestTyped
<1>2. \A q : /\ q \in FixUps <=> \E d \in Channels : callback[d] = "fixup" /\ q = Callback(d)
             /\ q \in FixUps' <=> \E d \in Channels : callback'[d] = "fixup" /\ q = Callback(d)
  BY Zenon DEF FixUps
<1>3. QED
  BY <1>1, <1>2, RequestKinds

\* No call is under way at the start.
LEMMA RefinesInit == Init => Call!Init
<1> SUFFICES ASSUME Init PROVE Call!Init
  OBVIOUS
<1>1. \A r \in AllRequests : Outcome(r) = "idle"
  <2>1. \A r \in AllRequests : reply[r] = "none" /\ ~Pending(r)
    BY DEF Init, RequestInit, Pending
  <2>2. QED
    BY <2>1 DEF Outcome
<1>2. QED
  BY <1>1, Zenon DEF Call!Init, Init, RequestInit

\* Nothing a caller can see has changed.
LEMMA RefinesSilently ==
    ASSUME rxOpen' = rxOpen, \A r \in AllRequests : Outcome(r)' = Outcome(r)
    PROVE  UNCHANGED Call!callVars
  BY Zenon DEF Call!callVars

\* A request that is sent is a call or a notice, which fails at once only without
\* a server.
LEMMA RefinesCall ==
    ASSUME RequestTypeOK, QueuesMatch, NEW r \in AllRequests, Send(r),
           \A q \in AllRequests : q # r => (q \in FixUps' <=> q \in FixUps)
    PROVE  Call!Next
<1>1. /\ RequestTypeOK' /\ rxOpen' = rxOpen /\ reply[r] = "none"
      /\ reply' = [reply EXCEPT ![r] = IF ReceiverOf[r] \in rxOpen THEN "sent" ELSE "failed"]
  BY SendEffect
<1>2. \A q \in AllRequests : q # r => reply'[q] = reply[q]
  BY <1>1 DEF RequestTypeOK
<1>3. reply'[r] = IF ReceiverOf[r] \in rxOpen THEN "sent" ELSE "failed"
  BY <1>1 DEF RequestTypeOK
<1>4. \A q \in AllRequests : q # r => Outcome(q)' = Outcome(q)
  BY <1>2, OutcomeKept
<1>5. /\ Outcome(r) = "idle"
      /\ ReceiverOf[r] \notin rxOpen => Outcome(r)' = "failed"
      /\ ReceiverOf[r] \in rxOpen /\ r \notin FixUps' => Outcome(r)' = "pending"
      /\ ReceiverOf[r] \in rxOpen /\ r \in FixUps' => Outcome(r)' = "notified"
  BY <1>1, <1>3, OutcomeOf, OutcomeThen DEF Pending
<1>6. CASE r \notin FixUps'
  <2>1. Call!Call(r)
    BY <1>1, <1>4, <1>5, <1>6 DEF Call!Call
  <2>2. QED
    BY <2>1 DEF Call!Next
<1>7. CASE r \in FixUps'
  <2>1. Call!Notify(r)
    BY <1>1, <1>4, <1>5, <1>7 DEF Call!Notify
  <2>2. QED
    BY <2>1 DEF Call!Next
<1>8. QED
  BY <1>6, <1>7

\* A caller that takes its result returns.
LEMMA RefinesReturn ==
    ASSUME RequestTypeOK, QueuesMatch, NEW r \in AllRequests, TakeReply(r),
           \A q \in AllRequests : q # r => (q \in FixUps' <=> q \in FixUps)
    PROVE  Call!Next
<1>1. /\ RequestTypeOK' /\ rxOpen' = rxOpen /\ Returned(r)
      /\ reply' = [reply EXCEPT ![r] = "none"]
  BY TakeReplyEffect
<1>2. \A q \in AllRequests : q # r => reply'[q] = reply[q]
  BY <1>1 DEF RequestTypeOK
<1>3. \A q \in AllRequests : q # r => Outcome(q)' = Outcome(q)
  BY <1>2, OutcomeKept
<1>4. Outcome(r) \in {"answered", "failed"} /\ Outcome(r)' = "idle"
  <2>1. reply'[r] = "none"
    BY <1>1 DEF RequestTypeOK
  <2>2. QED
    BY <1>1, <2>1, OutcomeOf, OutcomeThen DEF Returned
<1>5. Call!Return(r)
  BY <1>1, <1>3, <1>4 DEF Call!Return
<1>6. QED
  BY <1>5 DEF Call!Next

\* An answer comes from a server that is there, and only to a call.
LEMMA RefinesAnswer ==
    ASSUME RequestTypeOK, RequestTypeOK', NEW r \in AllRequests, Respond(r),
           ReceiverOf[r] \in rxOpen, r \notin FixUps, FixUps' = FixUps
    PROVE  Call!Answer(r)
<1>1. /\ reply[r] = "taken" /\ reply' = [reply EXCEPT ![r] = "answered"]
  BY DEF Respond
<1>2. reply'[r] = "answered" /\ \A q \in AllRequests : q # r => reply'[q] = reply[q]
  BY <1>1 DEF RequestTypeOK
<1>3. \A q \in AllRequests : q # r => Outcome(q)' = Outcome(q)
  BY <1>2, OutcomeKept
<1>4. Outcome(r) = "pending" /\ Outcome(r)' = "answered"
  BY <1>1, <1>2, OutcomeOf, OutcomeThen DEF Pending
<1>5. QED
  BY <1>3, <1>4 DEF Call!Answer

\* A FixUp that is taken is a notice that arrives.
LEMMA RefinesNotice ==
    ASSUME RequestTypeOK, QueuesMatch, NEW r \in AllRequests, TakeUnanswered(r),
           ReceiverOf[r] \in rxOpen, r \in FixUps, FixUps' = FixUps
    PROVE  Call!Next
<1>1. /\ RequestTypeOK' /\ rxOpen' = rxOpen /\ reply[r] = "sent"
      /\ reply' = [reply EXCEPT ![r] = "failed"]
  BY TakeUnansweredEffect
<1>2. reply'[r] = "failed" /\ \A q \in AllRequests : q # r => reply'[q] = reply[q]
  BY <1>1 DEF RequestTypeOK
<1>3. \A q \in AllRequests : q # r => Outcome(q)' = Outcome(q)
  BY <1>2, OutcomeKept
<1>4. Outcome(r) = "notified" /\ Outcome(r)' = "failed"
  BY <1>1, <1>2, OutcomeOf, OutcomeThen DEF Pending
<1>5. Call!Notice(r)
  BY <1>1, <1>3, <1>4 DEF Call!Notice
<1>6. QED
  BY <1>5 DEF Call!Next

\* Receivers that are dropped are servers that stop, and nothing that is sent to
\* them stays pending.
LEMMA RefinesStop ==
    ASSUME RequestTypeOK, QueuesMatch, NEW K \in SUBSET (Channels \cup {Thread}), NEW r,
           CloseChannels(K, r), r \in AllRequests => ReceiverOf[r] \in K, FixUps' = FixUps
    PROVE  /\ r \in AllRequests => Pending(r) /\ r \notin FixUps
           /\ K \subseteq rxOpen /\ K # {}
           => Call!Next
<1>1. /\ RequestTypeOK' /\ QueuesMatch' /\ rxOpen' = rxOpen \ K
      /\ r \in AllRequests => reply'[r] = "answered"
      /\ \A q \in AllRequests : q # r /\ ReceiverOf[q] \in K /\ Pending(q) => reply'[q] = "failed"
      /\ \A q \in AllRequests : q # r /\ (ReceiverOf[q] \notin K \/ ~Pending(q))
                                   => reply'[q] = reply[q]
  BY CloseEffect
<1> HAVE /\ r \in AllRequests => Pending(r) /\ r \notin FixUps
         /\ K \subseteq rxOpen /\ K # {}
<1>2. ASSUME NEW q \in AllRequests
      PROVE  CASE ReceiverOf[q] \in K /\ Outcome(q) = "pending" ->
                    Outcome(q)' \in {"answered", "failed"}
               [] ReceiverOf[q] \in K /\ Outcome(q) = "notified" -> Outcome(q)' = "failed"
               [] OTHER -> Outcome(q)' = Outcome(q)
  <2>1. /\ Outcome(q) = "pending" <=> Pending(q) /\ q \notin FixUps
        /\ Outcome(q) = "notified" <=> Pending(q) /\ q \in FixUps
    BY OutcomeOf
  <2>2. CASE q = r
    <3>1. reply'[q] = "answered" /\ ReceiverOf[q] \in K /\ Pending(q) /\ q \notin FixUps
      BY <1>1, <2>2
    <3>2. Outcome(q)' = "answered"
      BY <1>1, <3>1, OutcomeThen
    <3>3. QED
      BY <2>1, <3>1, <3>2
  <2>3. CASE q # r /\ ReceiverOf[q] \in K /\ Pending(q)
    <3>1. reply'[q] = "failed"
      BY <1>1, <2>3
    <3>2. Outcome(q)' = "failed"
      BY <1>1, <3>1, OutcomeThen
    <3>3. QED
      BY <2>1, <2>3, <3>2
  <2>4. CASE q # r /\ ~(ReceiverOf[q] \in K /\ Pending(q))
    <3>1. reply'[q] = reply[q]
      BY <1>1, <2>4
    <3>2. Outcome(q)' = Outcome(q)
      BY <3>1, OutcomeKept
    <3>3. QED
      BY <2>1, <2>4, <3>2
  <2>5. QED
    BY <2>2, <2>3, <2>4
<1>3. \A q \in AllRequests : Outcome(q)' \in {"idle", "pending", "notified", "answered", "failed"}
  BY <1>1, OutcomeThen DEF Outcomes
<1>4. Call!Stop(K)
  BY <1>1, <1>2, <1>3 DEF Call!Stop
<1>5. QED
  BY <1>4 DEF Call!Next

\* Every step is a step of the remote calls, or none that a caller can see.
LEMMA RefinesNext == LifecycleInv /\ [Next]_vars => [Call!Next]_Call!callVars
<1> SUFFICES ASSUME LifecycleInv, [Next]_vars PROVE [Call!Next]_Call!callVars
  OBVIOUS
<1> USE DEF objectVars, requestVars, threadVars, queueVars, callVars
<1>0. RequestTypeOK /\ QueuesMatch /\ RestTyped /\ reply \in [AllRequests -> Replies]
  BY DEF LifecycleInv, RestTyped, RequestTypeOK, Replies
<1>r. \A c \in Channels : Prepare(c) \in AllRequests /\ Callback(c) \in AllRequests
  BY RequestKinds
<1>n. /\ \A c \in Channels : Prepare(c) \notin FixUps /\ Stop \notin FixUps
      /\ \A c \in Channels : Callback(c) \in FixUps <=> callback[c] = "fixup"
  BY RequestKinds DEF FixUps
<1>k. ASSUME callback' = callback
      PROVE  /\ FixUps' = FixUps
             /\ \A r, q \in AllRequests : q # r => (q \in FixUps' <=> q \in FixUps)
  BY <1>k DEF FixUps
<1>1. ASSUME rxOpen' = rxOpen, reply' = reply, callback' = callback PROVE UNCHANGED Call!callVars
  BY <1>1, <1>k, OutcomeKept, RefinesSilently
<1>2. CASE LoadStep \/ UnloadStep \/ Remap
  <2>1. CASE LoadDeclines \/ SetupDone \/ UnloadStarts \/ UnloadDone \/ Remap
    <3>1. rxOpen' = rxOpen /\ reply' = reply /\ callback' = callback
      BY <2>1, SetupSets DEF LoadDeclines, UnloadStarts, UnloadDone, Remap
    <3>2. QED
      BY <1>1, <3>1
  <2>2. CASE LoadStarts
    <3>1. Thread \notin rxOpen /\ rxOpen' = rxOpen \cup {Thread} /\ reply' = reply
      BY <2>2, LifecycleAssumption
         DEF LoadStarts, OpenChannel, LifecycleInv, Phases, ReceiversMatch, Tasks
    <3>2. \A q \in AllRequests : Outcome(q)' = Outcome(q)
      BY <1>k, <2>2, <3>1, OutcomeKept DEF LoadStarts
    <3>3. Call!Next
      BY <3>1, <3>2 DEF Call!Next, Call!Start
    <3>4. QED
      BY <3>3
  <2>3. CASE SetupFails
    <3>1. /\ {Thread} \in SUBSET (Channels \cup {Thread}) /\ <<>> \notin AllRequests
          /\ CloseChannels({Thread}, <<>>) /\ {Thread} \subseteq rxOpen /\ {Thread} # {}
          /\ callback' = callback
      BY <2>3, RequestKinds DEF SetupFails, LifecycleInv, Phases, ReceiversMatch
    <3>2. QED
      BY <1>0, <1>k, <3>1, RefinesStop
  <2>4. CASE UnloadLocks
    BY <1>0, <1>k, <2>4, RefinesCall, RequestKinds DEF UnloadLocks
  <2>5. CASE UnloadJoins
    BY <1>0, <1>k, <2>5, RefinesReturn, RequestKinds DEF UnloadJoins
  <2>6. QED
    BY <1>2, <2>1, <2>2, <2>3, <2>4, <2>5 DEF LoadStep, UnloadStep
<1>3. CASE ThreadStops
  <2>1. PICK K : K = {Thread} \cup Tasks
    OBVIOUS
  <2>2. /\ K \in SUBSET (Channels \cup {Thread}) /\ K # {} /\ K \subseteq rxOpen
        /\ ReceiverOf[Stop] \in K
    BY <1>3, <2>1, RequestReceivers DEF ThreadStops, Polling, LifecycleInv, ReceiversMatch, Tasks
  <2>3. CloseChannels(K, Stop) /\ Stop \in AllRequests /\ callback' = callback
    BY <1>3, <2>1, RequestKinds, Zenon DEF ThreadStops
  <2>4. Pending(Stop)
    <3>1. rqueue[Thread] \in Seq(AllRequests)
      BY <1>0 DEF RequestTypeOK
    <3>2. rqueue[Thread][1] = Stop /\ 1 \in 1 .. Len(rqueue[Thread])
      BY <1>3, <3>1, EmptySeq DEF ThreadStops
    <3>3. QED
      BY <1>0, <3>2 DEF QueuesMatch, Pending
  <2>5. Stop \notin FixUps
    BY RequestKinds DEF FixUps
  <2>6. QED
    BY <1>0, <1>k, <2>2, <2>3, <2>4, <2>5, RefinesStop
<1>4. ASSUME NEW c \in Channels, RequesterCalled(c) \/ NoWorker(c) \/ FindWorker(c)
      PROVE  UNCHANGED Call!callVars
  BY <1>1, <1>4 DEF RequesterCalled, NoWorker, FindWorker
<1>5. ASSUME NEW c \in Channels, PrepareCall(c) PROVE Call!Next
  BY <1>0, <1>r, <1>k, <1>5, RefinesCall DEF PrepareCall
<1>6. ASSUME NEW c \in Channels, RequesterReturns(c) PROVE Call!Next
  BY <1>0, <1>r, <1>k, <1>6, RefinesReturn DEF RequesterReturns
<1>7. ASSUME NEW c \in Channels, TakePrepare(c) \/ TakeRequest(c) PROVE UNCHANGED Call!callVars
  <2>1. PICK r \in {Prepare(c), Callback(c)} : Take(r)
    BY <1>7 DEF TakePrepare, TakeRequest
  <2>2. /\ RequestTypeOK' /\ rxOpen' = rxOpen /\ reply[r] = "sent"
        /\ reply' = [reply EXCEPT ![r] = "taken"]
    BY <1>0, <1>r, <2>1, TakeEffect
  <2>3. callback' = callback
    BY <1>7 DEF TakePrepare, TakeRequest
  <2>4. \A q \in AllRequests : q # r => Outcome(q)' = Outcome(q)
    <3>1. \A q \in AllRequests : q # r => reply'[q] = reply[q]
      BY <1>0, <2>2
    <3>2. QED
      BY <1>k, <2>3, <3>1, OutcomeKept
  <2>5. Outcome(r)' = Outcome(r)
    <3>1. r \in AllRequests /\ reply'[r] = "taken"
      BY <1>0, <1>r, <2>1, <2>2
    <3>2. Pending(r) /\ Pending(r)' /\ (r \in FixUps' <=> r \in FixUps)
      BY <1>k, <2>2, <2>3, <3>1 DEF Pending
    <3>3. CASE r \in FixUps
      BY <1>0, <2>2, <3>1, <3>2, <3>3, OutcomeOf, OutcomeThen
    <3>4. CASE r \notin FixUps
      BY <1>0, <2>2, <3>1, <3>2, <3>4, OutcomeOf, OutcomeThen
    <3>5. QED
      BY <3>3, <3>4
  <2>6. QED
    BY <2>2, <2>4, <2>5, RefinesSilently
<1>8. ASSUME NEW c \in Channels, PrepareRefused(c) PROVE Call!Next
  <2>1. /\ Respond(Prepare(c)) /\ UNCHANGED <<rxOpen, rqueue, callback>>
        /\ ReceiverOf[Prepare(c)] \in rxOpen
    BY <1>8, RequestReceivers DEF PrepareRefused, Polling, LifecycleInv, ReceiversMatch
  <2>r. RequestTypeOK'
    BY <1>0, <1>r, <2>1, RespondEffect
  <2>2. Call!Answer(Prepare(c))
    BY <1>0, <1>r, <1>n, <1>k, <2>1, <2>r, RefinesAnswer
  <2>3. QED
    BY <1>r, <2>1, <2>2 DEF Call!Next
<1>9. ASSUME NEW c \in Channels, PrepareGranted(c) PROVE Call!Next
  <2>1. /\ Respond(Prepare(c)) /\ rxOpen' = rxOpen \cup {c} /\ ReceiverOf[Prepare(c)] \in rxOpen
        /\ callback' = callback /\ OpenChannel(c)
    BY <1>9, RequestReceivers DEF PrepareGranted, OpenChannel, Polling, LifecycleInv, ReceiversMatch
  <2>2. c \notin rxOpen
    BY <2>1, LifecycleAssumption
       DEF Respond, LifecycleInv, RequestsMatch, ReceiversMatch, Pending, Tasks
  <2>r. RequestTypeOK'
    BY <1>0, <1>r, <2>1, RespondEffect
  <2>3. Call!Answer(Prepare(c)) /\ Call!Start(c)
    BY <1>0, <1>r, <1>n, <1>k, <2>1, <2>2, <2>r, RefinesAnswer DEF Call!Start
  <2>4. QED
    BY <1>r, <2>3 DEF Call!Next
<1>10. ASSUME NEW c \in Channels, NEW cb \in {"call", "write", "hangup"}, CallbackStarts(c, cb)
       PROVE  Call!Next
  <2>1. Send(Callback(c)) /\ callback' = [callback EXCEPT ![c] = cb]
    BY <1>10 DEF CallbackStarts
  <2>2. \A q \in AllRequests : q # Callback(c) => (q \in FixUps' <=> q \in FixUps)
    BY <1>0, <2>1, FixUpsKept
  <2>3. QED
    BY <1>0, <1>r, <2>1, <2>2, RefinesCall
<1>f. ASSUME NEW c \in Channels, FixupStarts(c) PROVE Call!Next
  <2>1. Send(Callback(c)) /\ callback' = [callback EXCEPT ![c] = "fixup"]
    BY <1>f DEF FixupStarts
  <2>2. \A q \in AllRequests : q # Callback(c) => (q \in FixUps' <=> q \in FixUps)
    BY <1>0, <2>1, FixUpsKept
  <2>3. QED
    BY <1>0, <1>r, <2>1, <2>2, RefinesCall
<1>11. ASSUME NEW c \in Channels, CallbackReturns(c) PROVE Call!Next
  <2>1. TakeReply(Callback(c)) /\ callback' = [callback EXCEPT ![c] = "none"]
    BY <1>11 DEF CallbackReturns
  <2>2. \A q \in AllRequests : q # Callback(c) => (q \in FixUps' <=> q \in FixUps)
    BY <1>0, <2>1, FixUpsKept
  <2>3. QED
    BY <1>0, <1>r, <2>1, <2>2, RefinesReturn
<1>t. ASSUME NEW c \in Channels, TakeFixUp(c) PROVE Call!Next
  <2>1. TakeUnanswered(Callback(c)) /\ callback' = callback /\ Callback(c) \in FixUps
    BY <1>n, <1>t DEF TakeFixUp
  <2>2. ReceiverOf[Callback(c)] \in rxOpen
    BY <1>t, RequestReceivers DEF TakeFixUp, Selecting, LifecycleInv, ReceiversMatch, Tasks
  <2>3. QED
    BY <1>0, <1>r, <1>k, <2>1, <2>2, RefinesNotice
<1>12. ASSUME NEW c \in Channels, AnswerRequest(c) PROVE Call!Next
  <2>1. /\ Respond(Callback(c)) /\ UNCHANGED <<rxOpen, rqueue, callback>>
        /\ Callback(c) \notin FixUps
    BY <1>n, <1>12 DEF AnswerRequest
  <2>r. RequestTypeOK'
    BY <1>0, <1>r, <2>1, RespondEffect
  <2>2. ReceiverOf[Callback(c)] \in rxOpen
    BY <2>1, RequestReceivers DEF Respond, LifecycleInv, RequestsMatch, ReceiversMatch, Pending, Tasks
  <2>3. Call!Answer(Callback(c))
    BY <1>0, <1>r, <1>k, <2>1, <2>2, <2>r, RefinesAnswer
  <2>4. QED
    BY <1>r, <2>1, <2>3 DEF Call!Next
<1>13. ASSUME NEW c \in Channels, AnswerHangup(c) \/ NoMoreRequests(c) \/ QueuesHangup(c)
       PROVE  Call!Next
  <2>1. task[c] # "none"
    BY <1>13, LifecycleAssumption
       DEF AnswerHangup, NoMoreRequests, QueuesHangup, Selecting, LifecycleInv, RequestsMatch,
           ThreadHasTasks, Pending
  <2>k. FixUps' = FixUps
    BY <1>k, <1>13 DEF AnswerHangup, NoMoreRequests, QueuesHangup
  <2>2. {c} \in SUBSET (Channels \cup {Thread}) /\ {c} \subseteq rxOpen /\ {c} # {}
    BY <2>1 DEF LifecycleInv, ReceiversMatch, Tasks
  <2>3. CASE AnswerHangup(c)
    <3>1. /\ CloseChannels({c}, Callback(c)) /\ ReceiverOf[Callback(c)] \in {c}
          /\ Pending(Callback(c)) /\ Callback(c) \notin FixUps
      BY <1>n, <2>3, RequestReceivers DEF AnswerHangup, WorkerEnds, Pending
    <3>2. QED
      BY <1>0, <1>r, <2>2, <2>k, <3>1, RefinesStop
  <2>4. CASE NoMoreRequests(c) \/ QueuesHangup(c)
    <3>1. CloseChannels({c}, <<>>) /\ <<>> \notin AllRequests
      BY <2>4, RequestKinds DEF NoMoreRequests, QueuesHangup, WorkerEnds
    <3>2. QED
      BY <1>0, <2>2, <2>k, <3>1, RefinesStop
  <2>5. QED
    BY <1>13, <2>3, <2>4
<1>14. ASSUME WriteFrame \/ \E c \in Channels : QueueFrame(c) \/ WantsLock(c) \/ QueuesControl(c)
       PROVE  UNCHANGED Call!callVars
  BY <1>1, <1>14 DEF WriteFrame, QueueFrame, WantsLock, QueuesControl
<1>15. CASE UNCHANGED vars
  BY <1>1, <1>15 DEF vars
<1>16. QED
  BY <1>2, <1>3, <1>4, <1>5, <1>6, <1>7, <1>8, <1>9, <1>10, <1>f, <1>11, <1>t, <1>12, <1>13,
     <1>14, <1>15, Zenon
     DEF Next, GetsLock

\* request_channel.rs keeps its promise to every caller, in the thread, in the
\* workers and in their end: a request that is not a FixUp fails only for want of
\* its receiver, a FixUp is never answered, and none stays pending when the
\* receiver is dropped.
THEOREM RequestsRefineRemoteCall == Spec => RequestsAreCalls
  BY Invariance, RefinesInit, RefinesNext, PTL DEF Spec, RequestsAreCalls, Call!Spec
=============================================================================
