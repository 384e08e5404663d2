---------------------------- MODULE RtpReceiver ----------------------------
(***************************************************************************)
(* RtpReceiver (rtp_receiver.rs), which mixes the audio of the other users *)
(* in a voice channel, and mixed_packet of the call worker (call.rs),      *)
(* which waits for mixed audio in one branch of the worker's select!.      *)
(* Whatever the worker does in another branch starts the wait afresh.      *)
(*                                                                         *)
(* Each user's audio goes through a jitter buffer of Asterisk, reduced to  *)
(* what jitterbuffer.rs says of its return codes: frames in the order they *)
(* are due, and a code for a frame that became the first one (JB_SCHED).   *)
(* Times are relative: a due time counts down to 0 and stays there.        *)
(***************************************************************************)
EXTENDS Naturals, Sequences, FiniteSets

CONSTANTS Users,    \* Discord users
          Ssrcs,    \* sources of audio in RTP
          NoSsrc,   \* not a source
          Delay,    \* bound on how long a frame waits until it is due
          JbCap,    \* bound on the frames in a jitter buffer (100 ms in the code)
          Lengths   \* the numbers of samples a packet may decode to

ASSUME ReceiverAssumption ==
    /\ NoSsrc \notin Ssrcs
    /\ Delay \in Nat \ {0} /\ JbCap \in Nat \ {0}
    /\ Lengths \subseteq Nat \ {0}

VARIABLES user_id_to_ssrc,  \* the source of each user, or NoSsrc
          participants,     \* the keys of ssrc_to_participant
          heard,            \* participants with an initial timestamp and a buffer
          jitterbuf,        \* jitterbuf[s]: the frames in the buffer of s
          known_next,       \* KnownNextFrameTime, or NoFrame
          mixer             \* where mixed_packet is, or how it panicked

maps == <<user_id_to_ssrc, participants, heard>>
vars == <<maps, jitterbuf, known_next, mixer>>

Frames == [due : 0 .. Delay, len : Lengths]
NoFrame == [due |-> 0, ssrc |-> NoSsrc]
Panicked == mixer \in {"overflow", "outOfBounds"}

Init == /\ user_id_to_ssrc = [u \in Users |-> NoSsrc]
        /\ participants = {}
        /\ heard = {}
        /\ jitterbuf = [s \in Ssrcs |-> <<>>]
        /\ known_next = NoFrame
        /\ mixer = "poll"

-----------------------------------------------------------------------------
(***************************************************************************)
(* The jitter buffer.                                                      *)
(***************************************************************************)

\* next_frame: when the next frame of s is due, if there is one.
HasFrame(s) == jitterbuf[s] # <<>>
NextFrame(s) == jitterbuf[s][1].due

\* put: frame f in its place among the frames q, behind those that are not later.
Queued(q, f) == LET before == Cardinality({i \in DOMAIN q : q[i].due <= f.due})
                IN SubSeq(q, 1, before) \o <<f>> \o SubSeq(q, before + 1, Len(q))

\* get: the frames it may take or tell the receiver to drop.
DueFrames(s) == Cardinality({i \in 1 .. Len(jitterbuf[s]) : jitterbuf[s][i].due = 0})

-----------------------------------------------------------------------------
(***************************************************************************)
(* fetch_packet, in mixed_packet.                                          *)
(***************************************************************************)

\* The participant whose next frame is due first; any of several.
Earliest == LET waiting == {s \in participants : HasFrame(s)}
            IN {[due |-> NextFrame(s), ssrc |-> s] :
                   s \in {s \in waiting : \A o \in waiting : NextFrame(s) <= NextFrame(o)}}

\* If a participant without a buffer ended the search for the next frame.
BugSilentBlocks == IF participants = heard THEN Earliest ELSE {}

\* next_frame_time: the cached time, or what it may cache.
NextFrameTime == IF known_next # NoFrame THEN {known_next} ELSE Earliest

\* Nothing is queued: the mixer is pending, until another branch is taken.
FetchNothing == /\ mixer = "poll" /\ NextFrameTime = {}
                /\ mixer' = "pending"
                /\ UNCHANGED <<maps, jitterbuf, known_next>>

\* The next frame is due later: the mixer sleeps until then.
FetchLater == /\ mixer = "poll"
              /\ \E next \in NextFrameTime : next.due > 0 /\ known_next' = next
              /\ mixer' = "sleep"
              /\ UNCHANGED <<maps, jitterbuf>>

\* It is due: every buffer gives a frame that is due, after others that are to
\* be dropped, or none, as when it asks for interpolation (JB_INTERP).  Frames
\* are added up in one of the shortest's length, by an index that runs over the
\* whole of each.
FetchDue(interpolated) ==
    /\ mixer = "poll"
    /\ \E next \in NextFrameTime : next.due = 0 /\ known_next' = next
    /\ \E dropped \in [Ssrcs -> 0 .. JbCap] :
          /\ \A s \in Ssrcs : dropped[s] <= DueFrames(s)
          /\ LET taken == {s \in Ssrcs \ interpolated : dropped[s] < DueFrames(s)}
                 lengths == {jitterbuf[s][dropped[s] + 1].len : s \in taken}
                 gone(s) == dropped[s] + (IF s \in taken THEN 1 ELSE 0)
             IN /\ jitterbuf' = [s \in Ssrcs |->
                                   SubSeq(jitterbuf[s], gone(s) + 1, Len(jitterbuf[s]))]
                /\ mixer' = CASE taken = {}               -> "pending"
                              [] Cardinality(lengths) > 1 -> "outOfBounds"
                              [] OTHER                    -> "poll"
    /\ UNCHANGED maps
FetchAllDue == FetchDue({})

\* sleep_until returns.
Wake == /\ mixer = "sleep" /\ known_next.due = 0
        /\ mixer' = "poll"
        /\ UNCHANGED <<maps, jitterbuf, known_next>>

-----------------------------------------------------------------------------
(***************************************************************************)
(* The other branches of the worker's select!.                             *)
(***************************************************************************)
Restarts == ~Panicked /\ mixer' = "poll"

\* A branch that does not touch the receiver, such as a frame Asterisk writes.
OtherEvent == /\ Restarts /\ mixer # "poll"
              /\ UNCHANGED <<maps, jitterbuf, known_next>>

\* JB_SCHED: the frame of s due at time is the first in its buffer now.  It
\* becomes the known one if that was of s too, or was due later.  Either may be
\* earlier if both are due in one tick.
Scheduled(s, time) ==
    LET new == [due |-> time, ssrc |-> s]
        own == known_next.ssrc = s
    IN IF known_next = NoFrame THEN {NoFrame}
       ELSE (IF own \/ time <= known_next.due THEN {new} ELSE {})
            \cup (IF ~own /\ time >= known_next.due THEN {known_next} ELSE {})

\* What put of frame f by s does to the known time, by its return code.
AfterPut(s, f) ==
    (IF \A i \in DOMAIN jitterbuf[s] : f.due <= jitterbuf[s][i].due
     THEN Scheduled(s, f.due) ELSE {})
    \cup (IF \E i \in DOMAIN jitterbuf[s] : jitterbuf[s][i].due <= f.due
          THEN {known_next} ELSE {})

\* If packets of unknown senders were queued.
BugUnknownSender(s, f) ==
    /\ Restarts
    /\ Len(jitterbuf[s]) < JbCap
    /\ heard' = heard \cup {s}
    /\ jitterbuf' = [jitterbuf EXCEPT ![s] = Queued(@, f)]
    /\ known_next' \in AfterPut(s, f)
    /\ UNCHANGED <<user_id_to_ssrc, participants>>

\* handle_packet: the packet decodes to frame f and is put into the buffer.
PacketQueued(s, f) ==
    /\ Restarts
    /\ s \in participants /\ Len(jitterbuf[s]) < JbCap
    /\ heard' = heard \cup {s}
    /\ jitterbuf' = [jitterbuf EXCEPT ![s] = Queued(@, f)]
    /\ known_next' \in AfterPut(s, f)
    /\ UNCHANGED <<user_id_to_ssrc, participants>>

\* The packet is decoded, but the buffer has no use for it: JB_DROP.  Packets
\* of unknown senders, and those that are not audio, are an OtherEvent.
PacketDropped(s) ==
    /\ Restarts
    /\ s \in participants
    /\ heard' = heard \cup {s}
    /\ UNCHANGED <<user_id_to_ssrc, participants, jitterbuf, known_next>>

\* The packet is older than the first one of its sender.  The difference of
\* their timestamps panics, in a build that checks for overflows, or wraps to a
\* time a day away, beyond the resync_threshold of the buffer, which drops it.
PacketTooOld(s) ==
    /\ ~Panicked
    /\ s \in heard
    /\ mixer' \in {"overflow", "poll"}
    /\ UNCHANGED <<maps, jitterbuf, known_next>>

\* If map_user_id also took a source that has a participant.
BugMapsTwice(u, s) ==
    /\ Restarts
    /\ participants' = participants \cup {s}
    /\ user_id_to_ssrc' = [user_id_to_ssrc EXCEPT ![u] = s]
    /\ UNCHANGED <<heard, jitterbuf, known_next>>

\* map_user_id: a source that has a participant is left as it is.
MapUser(u, s) ==
    /\ Restarts
    /\ s \notin participants
    /\ participants' = participants \cup {s}
    /\ user_id_to_ssrc' = [user_id_to_ssrc EXCEPT ![u] = s]
    /\ UNCHANGED <<heard, jitterbuf, known_next>>

\* If unmap_user_id kept the cached time.
BugKeepsCache(u) ==
    LET s == user_id_to_ssrc[u] IN
    /\ Restarts
    /\ s # NoSsrc
    /\ user_id_to_ssrc' = [user_id_to_ssrc EXCEPT ![u] = NoSsrc]
    /\ participants' = participants \ {s}
    /\ heard' = heard \ {s}
    /\ jitterbuf' = [jitterbuf EXCEPT ![s] = <<>>]
    /\ UNCHANGED known_next

\* unmap_user_id: the participant goes with its buffer, and the cached time if it
\* is the participant's.
UnmapUser(u) ==
    LET s == user_id_to_ssrc[u] IN
    /\ Restarts
    /\ s # NoSsrc
    /\ user_id_to_ssrc' = [user_id_to_ssrc EXCEPT ![u] = NoSsrc]
    /\ participants' = participants \ {s}
    /\ heard' = heard \ {s}
    /\ jitterbuf' = [jitterbuf EXCEPT ![s] = <<>>]
    /\ known_next' = IF known_next.ssrc = s THEN NoFrame ELSE known_next

\* Time passes.  The worker is not busy, and wakes up in time.
Sooner(t) == IF t = 0 THEN 0 ELSE t - 1
Tick == /\ mixer = "pending" \/ (mixer = "sleep" /\ known_next.due > 0)
        /\ jitterbuf' = [s \in Ssrcs |->
                           [i \in DOMAIN jitterbuf[s] |->
                               [jitterbuf[s][i] EXCEPT !.due = Sooner(@)]]]
        /\ known_next' = [known_next EXCEPT !.due = Sooner(@)]
        /\ UNCHANGED <<maps, mixer>>

-----------------------------------------------------------------------------
Fetch == FetchNothing \/ FetchLater \/ \E interpolated \in SUBSET Ssrcs : FetchDue(interpolated)
Packet(s) == \/ \E f \in Frames : PacketQueued(s, f)
             \/ PacketDropped(s)
             \/ PacketTooOld(s)

Next == \/ Fetch \/ Wake \/ OtherEvent
        \/ \E s \in Ssrcs : Packet(s)
        \/ \E u \in Users : UnmapUser(u) \/ \E s \in Ssrcs : MapUser(u, s)
        \/ Tick

\* The worker is polled and time passes.  Buffers do not ask for interpolation
\* for ever, only when frames are lost or late.  Nothing is assumed of the other
\* branches: no packet, request or event need ever come.
Spec == Init /\ [][Next]_vars
FairSpec == /\ Spec
            /\ WF_vars(Fetch) /\ SF_vars(FetchAllDue)
            /\ WF_vars(Wake) /\ SF_vars(Tick)

-----------------------------------------------------------------------------
(***************************************************************************)
(* Properties.                                                             *)
(***************************************************************************)

\* The variables have their types; only participants have frames queued.
TypeOK == /\ user_id_to_ssrc \in [Users -> Ssrcs \cup {NoSsrc}]
          /\ participants \subseteq Ssrcs
          /\ heard \subseteq participants
          /\ \A s \in Ssrcs : /\ jitterbuf[s] \in Seq(Frames)
                              /\ Len(jitterbuf[s]) <= JbCap
                              /\ HasFrame(s) => s \in heard
          /\ known_next \in [due : 0 .. Delay, ssrc : Ssrcs \cup {NoSsrc}]
          /\ mixer \in {"poll", "sleep", "pending", "overflow", "outOfBounds"}

\* Each user is mapped to a participant of their own, whatever the order in
\* which users appear, change their source and leave: unmap_user_id removes
\* nobody else's audio.
UsersHaveParticipants ==
    \A u, v \in Users : user_id_to_ssrc[u] # NoSsrc =>
        /\ user_id_to_ssrc[u] \in participants
        /\ user_id_to_ssrc[u] = user_id_to_ssrc[v] => u = v

\* A cached time in the future is that of a frame: the mixer never sleeps for
\* audio that is not there, of a user who left or has moved (known_next).
CacheIsAFrame ==
    known_next.due > 0 => HasFrame(known_next.ssrc) /\ NextFrame(known_next.ssrc) = known_next.due

\* mixed_packet awaits pending(), and no other branch of the select! is taken.
\* Frames may be queued, and due: a cached time that is in the past keeps
\* fetch_packet from telling when the next one is (NoneQueued).
MixerStalled == mixer = "pending"

\* Nobody's audio is stuck behind that of others: while frames of s are due, s
\* goes on losing them to the mixer or by leaving, although the cached time may
\* be later and is postponed by packets (handle_packet), unless the mixer is
\* stalled for good: any other branch that is taken lets it go on.
DueFramesTaken ==
    \/ \A s \in Ssrcs : \/ []<>(DueFrames(s) = 0)
                        \/ []<><<DueFrames(s)' < DueFrames(s)>>_vars
    \/ <>[]MixerStalled
    \/ <>Panicked

\* rtp_receiver.rs: the sum of frames fits the "mixed" frame it is added to.
MixStaysInBounds == mixer # "outOfBounds"
=============================================================================
