------------------------- MODULE RtpReceiverProofs -------------------------
(***************************************************************************)
(* Proofs about RtpReceiver, for any number of users, sources and frames,  *)
(* and for jitter buffers of any size.                                     *)
(*                                                                         *)
(* That the cached time is that of a frame rests on the order of a buffer: *)
(* the frame that is due first is the first one, before and after a frame  *)
(* is put into its place.                                                  *)
(***************************************************************************)
EXTENDS RtpReceiver, FiniteSetTheorems, SequenceTheorems, WellFoundedInduction, TLAPS

\* The frames of q are in the order they are due.
InOrder(q) == \A i, j \in 1 .. Len(q) : i <= j => q[i].due <= q[j].due

\* The buffers hold frames in the order they are due, of participants only.
Buffers == /\ jitterbuf \in [Ssrcs -> Seq(Frames)]
           /\ \A s \in Ssrcs : /\ Len(jitterbuf[s]) <= JbCap
                               /\ InOrder(jitterbuf[s])
                               /\ jitterbuf[s] # <<>> => s \in heard
Maps == /\ user_id_to_ssrc \in [Users -> Ssrcs \cup {NoSsrc}]
        /\ participants \subseteq Ssrcs
        /\ heard \subseteq participants
        /\ UsersHaveParticipants

\* The cache is empty, or of a source, and then in the future only for its frame.
KnownNext == /\ known_next \in [due : 0 .. Delay, ssrc : Ssrcs \cup {NoSsrc}]
             /\ known_next.due > 0 => known_next.ssrc \in Ssrcs
             /\ CacheIsAFrame

Mixers == {"poll", "sleep", "pending", "overflow", "outOfBounds"}
ReceiverInv == Buffers /\ Maps /\ KnownNext /\ mixer \in Mixers

-----------------------------------------------------------------------------
(***************************************************************************)
(* Buffers as sequences.                                                   *)
(***************************************************************************)

\* Every set of natural numbers that is not empty has a least one.
LEMMA LeastElement ==
    ASSUME NEW T, T \subseteq Nat, T # {}
    PROVE  \E x \in T : \A y \in T : x <= y
<1>1. IsWellFoundedOn(OpToRel(<, Nat), Nat)
  BY NatLessThanWellFounded
<1>2. PICK x \in T : \A y \in T : ~(<<y, x>> \in OpToRel(<, Nat))
  BY <1>1, WFMin
<1>3. \A y \in T : ~(y < x)
  BY <1>2 DEF OpToRel
<1>4. QED
  BY <1>3

LEMMA FrameTypes ==
    \A f \in Frames : f.due \in 0 .. Delay /\ f.due \in Nat
  BY ReceiverAssumption DEF Frames

\* What is left of a buffer when its first k frames are gone.
LEMMA FramesGone ==
    ASSUME NEW q \in Seq(Frames), NEW k \in 0 .. Len(q)
    PROVE  LET rest == SubSeq(q, k + 1, Len(q))
           IN  /\ rest \in Seq(Frames) /\ Len(rest) = Len(q) - k
               /\ \A i \in 1 .. Len(q) - k : rest[i] = q[i + k]
<1> DEFINE rest == SubSeq(q, k + 1, Len(q))
<1>1. k + 1 \in 1 .. Len(q) + 1 /\ Len(q) \in k + 1 - 1 .. Len(q) /\ Len(q) \in Nat
  OBVIOUS
<1>2. /\ rest \in Seq(Frames)
      /\ Len(rest) = IF k + 1 <= Len(q) THEN Len(q) - (k + 1) + 1 ELSE 0
      /\ \A i \in 1 .. Len(q) - (k + 1) + 1 : rest[i] = q[k + 1 + i - 1]
  BY <1>1, SubSeqProperties
<1> HIDE DEF rest
<1>3. Len(rest) = Len(q) - k
  BY <1>1, <1>2
<1>4. \A i \in 1 .. Len(q) - k : rest[i] = q[i + k]
  BY <1>1, <1>2
<1>5. QED
  BY <1>2, <1>3, <1>4 DEF rest

\* In an ordered buffer the frames not later than f are the first ones.
LEMMA PlaceInOrder ==
    ASSUME NEW q \in Seq(Frames), InOrder(q), NEW f \in Frames
    PROVE  LET k == Cardinality({i \in DOMAIN q : q[i].due <= f.due})
           IN  /\ k \in 0 .. Len(q)
               /\ \A i \in 1 .. Len(q) : q[i].due <= f.due <=> i <= k
<1> DEFINE S == {i \in DOMAIN q : q[i].due <= f.due}
           k == Cardinality(S)
           later == {i \in 1 .. Len(q) : ~(q[i].due <= f.due)}
<1>0. DOMAIN q = 1 .. Len(q) /\ Len(q) \in Nat /\ \A i \in 1 .. Len(q) : q[i] \in Frames
  OBVIOUS
<1>a. f.due \in Nat /\ \A i \in 1 .. Len(q) : q[i].due \in Nat
  BY <1>0, FrameTypes
<1>1. PICK m \in 0 .. Len(q) : S = 1 .. m
  <2>1. CASE later = {}
    <3>1. \A i \in 1 .. Len(q) : q[i].due <= f.due
      BY <2>1
    <3>2. S = DOMAIN q
      <4>1. \A i \in DOMAIN q : q[i].due <= f.due
        BY <1>0, <3>1
      <4>2. QED
        BY <4>1
    <3>3. Len(q) \in 0 .. Len(q)
      BY <1>0
    <3>4. QED
      BY <1>0, <3>2, <3>3
  <2>2. CASE later # {}
    <3>0. later \subseteq Nat
      BY <1>0
    <3>1. PICK n \in later : \A i \in later : n <= i
      <4> HIDE DEF later
      <4>1. QED
        BY <2>2, <3>0, LeastElement
    <3>2. \A i \in 1 .. Len(q) : q[i].due <= f.due <=> i <= n - 1
      BY <1>0, <1>a, <3>1 DEF InOrder
    <3>3. S = 1 .. n - 1 /\ n - 1 \in 0 .. Len(q)
      BY <1>0, <3>1, <3>2
    <3>4. QED
      BY <3>3
  <2>3. QED
    BY <2>1, <2>2
<1>2. k = m
  <2>1. Cardinality(1 .. m) = IF 1 > m THEN 0 ELSE m - 1 + 1
    BY <1>0, FS_Interval
  <2>2. k = Cardinality(1 .. m)
    BY <1>1
  <2>3. QED
    BY <1>0, <2>1, <2>2
<1>3. \A i \in 1 .. Len(q) : q[i].due <= f.due <=> i <= m
  BY <1>0, <1>1
<1>4. QED
  BY <1>0, <1>2, <1>3

\* What put makes of an ordered buffer: another one, one frame longer, whose
\* first frame is due when the earlier of f and the first one was.
LEMMA PutInOrder ==
    ASSUME NEW q \in Seq(Frames), InOrder(q), NEW f \in Frames
    PROVE  /\ Queued(q, f) \in Seq(Frames) /\ Len(Queued(q, f)) = Len(q) + 1
           /\ InOrder(Queued(q, f))
           /\ (\A i \in DOMAIN q : f.due <= q[i].due) => Queued(q, f)[1].due = f.due
           /\ (\E i \in DOMAIN q : q[i].due <= f.due) => Queued(q, f)[1] = q[1]
<1> DEFINE k == Cardinality({i \in DOMAIN q : q[i].due <= f.due})
           p == SubSeq(q, 1, k) \o <<f>> \o SubSeq(q, k + 1, Len(q))
<1>1. /\ k \in 0 .. Len(q)
      /\ \A i \in 1 .. Len(q) : q[i].due <= f.due <=> i <= k
  BY PlaceInOrder
<1>2. p = Queued(q, f)
  BY DEF Queued
<1> HIDE DEF k
<1>0. DOMAIN q = 1 .. Len(q) /\ Len(q) \in Nat /\ \A i \in 1 .. Len(q) : q[i] \in Frames
  OBVIOUS
<1>a. f.due \in Nat /\ \A i \in 1 .. Len(q) : q[i].due \in Nat
  BY <1>0, FrameTypes
<1>3. /\ p \in Seq(Frames) /\ Len(p) = Len(q) + 1
      /\ \A i \in 1 .. Len(q) + 1 :
            p[i] = IF i <= k THEN q[i] ELSE IF i = k + 1 THEN f ELSE q[i - 1]
  <2>1. /\ SubSeq(q, 1, k) \in Seq(Frames) /\ Len(SubSeq(q, 1, k)) = k
        /\ \A i \in 1 .. k : SubSeq(q, 1, k)[i] = q[i]
    BY <1>0, <1>1
  <2>2. /\ SubSeq(q, k + 1, Len(q)) \in Seq(Frames) /\ Len(SubSeq(q, k + 1, Len(q))) = Len(q) - k
        /\ \A i \in 1 .. Len(q) - k : SubSeq(q, k + 1, Len(q))[i] = q[i + k]
    BY <1>1, FramesGone
  <2> HIDE DEF p
  <2> DEFINE a == SubSeq(q, 1, k)
             b == SubSeq(q, k + 1, Len(q))
  <2>3. p = a \o <<f>> \o b
    BY DEF p
  <2>4. a \in Seq(Frames) /\ Len(a) = k /\ b \in Seq(Frames) /\ Len(b) = Len(q) - k
    BY <2>1, <2>2
  <2>5. \A i \in 1 .. k : a[i] = q[i]
    BY <2>1
  <2>6. \A i \in 1 .. Len(q) - k : b[i] = q[i + k]
    BY <2>2
  <2> HIDE DEF a, b
  <2>7. p \in Seq(Frames) /\ Len(p) = Len(q) + 1
    BY <1>0, <1>1, <2>3, <2>4
  <2>8. \A i \in 1 .. k : p[i] = q[i]
    BY <1>0, <1>1, <2>3, <2>4, <2>5
  <2>9. p[k + 1] = f
    BY <1>0, <1>1, <2>3, <2>4
  <2>10. \A i \in k + 2 .. Len(q) + 1 : p[i] = b[i - k - 1]
    BY <1>0, <1>1, <2>3, <2>4
  <2>11. \A i \in k + 2 .. Len(q) + 1 : p[i] = q[i - 1]
    BY <1>0, <1>1, <2>6, <2>10
  <2>12. QED
    BY <1>0, <1>1, <2>7, <2>8, <2>9, <2>11
<1> HIDE DEF p
<1>4. InOrder(p)
  <2> SUFFICES ASSUME NEW i \in 1 .. Len(q) + 1, NEW j \in 1 .. Len(q) + 1, i < j
               PROVE  p[i].due <= p[j].due
    BY <1>0, <1>a, <1>3, FrameTypes DEF InOrder
  <2>1. CASE j <= k \/ i > k + 1
    BY <1>0, <1>1, <1>3, <2>1 DEF InOrder
  <2>2. CASE i <= k /\ j = k + 1
    BY <1>0, <1>1, <1>3, <2>2
  <2>3. CASE i <= k /\ j > k + 1
    <3>1. p[i] = q[i] /\ p[j] = q[j - 1]
      BY <1>0, <1>1, <1>3, <2>3
    <3>2. i \in 1 .. Len(q) /\ j - 1 \in 1 .. Len(q) /\ i <= j - 1
      BY <1>0, <1>1, <2>3
    <3>3. q[i].due <= q[j - 1].due
      BY <3>2 DEF InOrder
    <3>4. QED
      BY <3>1, <3>3
  <2>4. CASE i = k + 1
    BY <1>0, <1>a, <1>1, <1>3, <2>4
  <2>5. QED
    BY <1>0, <1>1, <2>1, <2>2, <2>3, <2>4
<1>5. ASSUME \A i \in DOMAIN q : f.due <= q[i].due PROVE p[1].due = f.due
  <2>1. CASE k = 0
    BY <1>0, <1>1, <1>3, <2>1
  <2>2. CASE k > 0
    BY <1>0, <1>a, <1>1, <1>3, <1>5, <2>2
  <2>3. QED
    BY <1>1, <2>1, <2>2
<1>6. ASSUME NEW i \in DOMAIN q, q[i].due <= f.due PROVE p[1] = q[1]
  BY <1>0, <1>1, <1>3, <1>6
<1>7. QED
  BY <1>2, <1>3, <1>4, <1>5, <1>6

-----------------------------------------------------------------------------
(***************************************************************************)
(* The inductive invariant.                                                *)
(***************************************************************************)
LEMMA InitHolds == Init => ReceiverInv
<1> SUFFICES ASSUME Init PROVE ReceiverInv
  OBVIOUS
<1>0. Delay \in Nat /\ JbCap \in Nat /\ NoSsrc \notin Ssrcs
  BY ReceiverAssumption
<1>1. Buffers
  BY <1>0 DEF Init, Buffers, InOrder
<1>2. Maps
  BY DEF Init, Maps, UsersHaveParticipants
<1>3. KnownNext
  BY <1>0 DEF Init, KnownNext, NoFrame, CacheIsAFrame
<1>4. QED
  BY <1>1, <1>2, <1>3 DEF Init, ReceiverInv, Mixers

\* The time of a source's next frame, when it has one.
LEMMA EarliestIsAFrame ==
    ASSUME ReceiverInv, NEW next \in NextFrameTime
    PROVE  /\ next \in [due : 0 .. Delay, ssrc : Ssrcs \cup {NoSsrc}]
           /\ next.due > 0 => /\ next.ssrc \in Ssrcs
                              /\ HasFrame(next.ssrc) /\ NextFrame(next.ssrc) = next.due
<1>1. CASE next = known_next
  BY <1>1 DEF ReceiverInv, KnownNext, CacheIsAFrame
<1>2. CASE next \in Earliest
  <2>1. PICK s \in participants : HasFrame(s) /\ next = [due |-> NextFrame(s), ssrc |-> s]
    BY <1>2 DEF Earliest
  <2>2. s \in Ssrcs /\ jitterbuf[s] \in Seq(Frames) /\ jitterbuf[s] # <<>>
    BY <2>1 DEF ReceiverInv, Maps, Buffers, HasFrame
  <2>3. jitterbuf[s][1] \in Frames
    BY <2>2
  <2>4. NextFrame(s) \in 0 .. Delay
    BY <2>3, FrameTypes DEF NextFrame
  <2>5. QED
    BY <2>1, <2>2, <2>4
<1>3. QED
  BY <1>1, <1>2 DEF NextFrameTime

\* The due frames of a source are some of its frames.
LEMMA DueFramesType ==
    ASSUME Buffers, NEW s \in Ssrcs
    PROVE  DueFrames(s) \in 0 .. Len(jitterbuf[s])
<1> DEFINE n == Len(jitterbuf[s])
           D == {i \in 1 .. n : jitterbuf[s][i].due = 0}
<1>1. n \in Nat /\ D \in SUBSET (1 .. n)
  BY DEF Buffers
<1> HIDE DEF n, D
<1>2. IsFiniteSet(1 .. n) /\ Cardinality(1 .. n) = IF 1 > n THEN 0 ELSE n - 1 + 1
  BY <1>1, FS_Interval
<1>3. IsFiniteSet(D) /\ Cardinality(D) <= Cardinality(1 .. n)
  BY <1>1, <1>2, FS_Subset
<1>4. Cardinality(D) \in Nat
  BY <1>3, FS_CardinalityType
<1>5. Cardinality(D) \in 0 .. n
  BY <1>1, <1>2, <1>3, <1>4
<1>6. QED
  BY <1>5 DEF DueFrames, n, D

LEMMA FetchKeeps == ReceiverInv /\ Fetch => ReceiverInv'
<1> SUFFICES ASSUME ReceiverInv, Fetch PROVE ReceiverInv'
  OBVIOUS
<1>1. CASE FetchNothing
  BY <1>1 DEF FetchNothing, maps, ReceiverInv, Buffers, Maps, UsersHaveParticipants, KnownNext,
              CacheIsAFrame, HasFrame, NextFrame, Mixers
<1>2. CASE FetchLater
  <2>1. /\ UNCHANGED <<user_id_to_ssrc, participants, heard, jitterbuf>> /\ mixer' = "sleep"
        /\ \E next \in NextFrameTime : known_next' = next
    BY <1>2 DEF FetchLater, maps
  <2>2. KnownNext'
    BY <2>1, EarliestIsAFrame DEF KnownNext, CacheIsAFrame, HasFrame, NextFrame
  <2>3. QED
    BY <2>1, <2>2 DEF ReceiverInv, Buffers, Maps, UsersHaveParticipants, Mixers
<1>3. ASSUME NEW interpolated \in SUBSET Ssrcs, FetchDue(interpolated) PROVE ReceiverInv'
  <2>1. PICK dropped \in [Ssrcs -> 0 .. JbCap] :
          /\ \A s \in Ssrcs : dropped[s] <= DueFrames(s)
          /\ LET taken == {s \in Ssrcs \ interpolated : dropped[s] < DueFrames(s)}
                 lengths == {jitterbuf[s][dropped[s] + 1].len : s \in taken}
                 gone(s) == dropped[s] + (IF s \in taken THEN 1 ELSE 0)
             IN /\ jitterbuf' = [s \in Ssrcs |->
                                   SubSeq(jitterbuf[s], gone(s) + 1, Len(jitterbuf[s]))]
                /\ mixer' = CASE taken = {}               -> "pending"
                              [] Cardinality(lengths) > 1 -> "outOfBounds"
                              [] OTHER                    -> "poll"
    BY <1>3 DEF FetchDue
  <2> DEFINE taken == {s \in Ssrcs \ interpolated : dropped[s] < DueFrames(s)}
             gone(s) == dropped[s] + (IF s \in taken THEN 1 ELSE 0)
  <2>2. jitterbuf' = [s \in Ssrcs |-> SubSeq(jitterbuf[s], gone(s) + 1, Len(jitterbuf[s]))]
    BY <2>1
  <2>3. mixer' \in Mixers
    BY <2>1 DEF Mixers
  <2>4. /\ UNCHANGED <<user_id_to_ssrc, participants, heard>>
        /\ \E next \in NextFrameTime : next.due = 0 /\ known_next' = next
    BY <1>3 DEF FetchDue, maps
  <2>5. KnownNext'
    BY <2>4, EarliestIsAFrame DEF KnownNext, CacheIsAFrame
  <2>6. Maps'
    BY <2>4 DEF ReceiverInv, Maps, UsersHaveParticipants
  <2>7. ASSUME NEW s \in Ssrcs
        PROVE  /\ jitterbuf'[s] \in Seq(Frames) /\ Len(jitterbuf'[s]) <= JbCap
               /\ InOrder(jitterbuf'[s])
               /\ jitterbuf'[s] # <<>> => s \in heard
    <3> DEFINE q == jitterbuf[s]
               k == gone(s)
    <3>1. q \in Seq(Frames) /\ Len(q) <= JbCap /\ InOrder(q) /\ (q # <<>> => s \in heard)
      BY DEF ReceiverInv, Buffers
    <3>2. k \in 0 .. Len(q)
      <4>1. DueFrames(s) \in 0 .. Len(q) /\ Len(q) \in Nat
        BY <3>1, DueFramesType DEF ReceiverInv
      <4>2. dropped[s] \in Nat /\ dropped[s] <= DueFrames(s)
        BY <2>1, ReceiverAssumption
      <4>3. s \in taken => dropped[s] < DueFrames(s)
        OBVIOUS
      <4>4. QED
        BY <4>1, <4>2, <4>3
    <3>3. jitterbuf'[s] = SubSeq(q, k + 1, Len(q))
      BY <2>2
    <3> HIDE DEF k, q
    <3> DEFINE rest == SubSeq(q, k + 1, Len(q))
    <3>4. /\ rest \in Seq(Frames) /\ Len(rest) = Len(q) - k
          /\ \A i \in 1 .. Len(q) - k : rest[i] = q[i + k]
      BY <3>1, <3>2, FramesGone
    <3> HIDE DEF rest
    <3>5. InOrder(rest)
      BY <3>1, <3>2, <3>4 DEF InOrder
    <3>6. Len(rest) <= JbCap
      BY <3>1, <3>2, <3>4, ReceiverAssumption
    <3>7. rest # <<>> => q # <<>>
      BY <3>1, <3>2, <3>4
    <3>8. QED
      BY <3>1, <3>3, <3>4, <3>5, <3>6, <3>7 DEF rest
  <2>8. Buffers'
    <3>1. jitterbuf' \in [Ssrcs -> Seq(Frames)]
      BY <2>2, <2>7
    <3>2. QED
      BY <2>4, <2>7, <3>1 DEF Buffers
  <2>9. QED
    BY <2>3, <2>5, <2>6, <2>8 DEF ReceiverInv
<1>4. QED
  BY <1>1, <1>2, <1>3 DEF Fetch

\* A frame is put into the buffer of its source.
LEMMA QueuedKeeps ==
    ASSUME ReceiverInv, NEW s \in Ssrcs, NEW f \in Frames, PacketQueued(s, f)
    PROVE  ReceiverInv'
<1> DEFINE q == jitterbuf[s]
           p == Queued(q, f)
<1>0. q \in Seq(Frames) /\ Len(q) <= JbCap /\ InOrder(q) /\ jitterbuf \in [Ssrcs -> Seq(Frames)]
  BY DEF ReceiverInv, Buffers
<1>1. /\ mixer' = "poll" /\ s \in participants /\ Len(q) < JbCap
      /\ heard' = heard \cup {s} /\ jitterbuf' = [jitterbuf EXCEPT ![s] = p]
      /\ known_next' \in AfterPut(s, f)
      /\ UNCHANGED <<user_id_to_ssrc, participants>>
  BY DEF PacketQueued, Restarts
<1>2. /\ p \in Seq(Frames) /\ Len(p) = Len(q) + 1 /\ InOrder(p)
      /\ (\A i \in DOMAIN q : f.due <= q[i].due) => p[1].due = f.due
      /\ (\E i \in DOMAIN q : q[i].due <= f.due) => p[1] = q[1]
  BY <1>0, PutInOrder
<1>3. jitterbuf'[s] = p /\ \A o \in Ssrcs \ {s} : jitterbuf'[o] = jitterbuf[o]
  BY <1>0, <1>1
<1>4. Buffers'
  <2> HIDE DEF p, q
  <2>1. jitterbuf' \in [Ssrcs -> Seq(Frames)]
    BY <1>0, <1>1, <1>2
  <2>2. Len(p) <= JbCap
    BY <1>0, <1>1, <1>2, ReceiverAssumption
  <2>3. QED
    BY <1>1, <1>2, <1>3, <2>1, <2>2 DEF ReceiverInv, Buffers
<1>5. Maps'
  BY <1>1 DEF ReceiverInv, Maps, UsersHaveParticipants
<1>6. KnownNext'
  <2> DEFINE new == [due |-> f.due, ssrc |-> s]
  <2>0. p # <<>> /\ f.due \in 0 .. Delay
    BY <1>0, <1>2, FrameTypes
  <2>1. CASE /\ \A i \in DOMAIN q : f.due <= q[i].due
             /\ known_next' = new
    <3>1. jitterbuf'[s] # <<>> /\ jitterbuf'[s][1].due = f.due
      BY <1>2, <1>3, <2>0, <2>1
    <3>2. QED
      BY <2>0, <2>1, <3>1 DEF KnownNext, CacheIsAFrame, HasFrame, NextFrame
  <2>2. CASE known_next' = known_next /\ known_next.ssrc # s
    BY <1>3, <2>2 DEF ReceiverInv, KnownNext, CacheIsAFrame, HasFrame, NextFrame
  <2>3. CASE known_next' = known_next /\ (\E i \in DOMAIN q : q[i].due <= f.due)
    <3>1. jitterbuf'[s] # <<>> /\ jitterbuf'[s][1] = q[1]
      BY <1>2, <1>3, <2>0, <2>3
    <3>2. QED
      BY <1>3, <2>3, <3>1 DEF ReceiverInv, KnownNext, CacheIsAFrame, HasFrame, NextFrame
  <2>4. CASE known_next' = NoFrame
    BY <2>4, ReceiverAssumption DEF KnownNext, CacheIsAFrame, NoFrame
  <2>5. known_next' \in Scheduled(s, f.due) => known_next' \in {NoFrame, new, known_next}
    BY DEF Scheduled
  <2>6. known_next' \in Scheduled(s, f.due) /\ known_next' \notin {NoFrame, new} => known_next.ssrc # s
    BY DEF Scheduled
  <2>7. QED
    BY <1>1, <2>1, <2>2, <2>3, <2>4, <2>5, <2>6 DEF AfterPut
<1>7. QED
  BY <1>1, <1>4, <1>5, <1>6 DEF ReceiverInv, Mixers

LEMMA PacketKeeps ==
    ASSUME ReceiverInv, NEW s \in Ssrcs, Packet(s)
    PROVE  ReceiverInv'
<1>1. CASE \E f \in Frames : PacketQueued(s, f)
  BY <1>1, QueuedKeeps
<1>2. CASE PacketDropped(s)
  <2>1. /\ mixer' = "poll" /\ s \in participants /\ heard' = heard \cup {s}
        /\ UNCHANGED <<user_id_to_ssrc, participants, jitterbuf, known_next>>
    BY <1>2 DEF PacketDropped, Restarts
  <2>2. QED
    BY <2>1 DEF ReceiverInv, Buffers, Maps, UsersHaveParticipants, KnownNext, CacheIsAFrame,
                HasFrame, NextFrame, Mixers
<1>3. CASE PacketTooOld(s)
  BY <1>3 DEF PacketTooOld, maps, ReceiverInv, Buffers, Maps, UsersHaveParticipants, KnownNext,
              CacheIsAFrame, HasFrame, NextFrame, Mixers
<1>4. QED
  BY <1>1, <1>2, <1>3 DEF Packet

\* A user gets a source that nobody has, and a source's owner leaves with it.
LEMMA UsersKeep ==
    ASSUME ReceiverInv, NEW u \in Users, UnmapUser(u) \/ \E s \in Ssrcs : MapUser(u, s)
    PROVE  ReceiverInv'
<1>0. /\ user_id_to_ssrc \in [Users -> Ssrcs \cup {NoSsrc}]
      /\ participants \subseteq Ssrcs /\ heard \subseteq participants
      /\ jitterbuf \in [Ssrcs -> Seq(Frames)]
  BY DEF ReceiverInv, Maps, Buffers
<1>1. ASSUME NEW s \in Ssrcs, MapUser(u, s) PROVE ReceiverInv'
  <2>1. /\ mixer' = "poll" /\ s \notin participants /\ participants' = participants \cup {s}
        /\ user_id_to_ssrc' = [user_id_to_ssrc EXCEPT ![u] = s]
        /\ UNCHANGED <<heard, jitterbuf, known_next>>
    BY <1>1 DEF MapUser, Restarts
  <2>2. UsersHaveParticipants'
    BY <1>0, <2>1 DEF ReceiverInv, Maps, UsersHaveParticipants
  <2>3. QED
    BY <1>0, <2>1, <2>2 DEF ReceiverInv, Buffers, Maps, KnownNext, CacheIsAFrame, HasFrame, NextFrame, Mixers
<1>2. CASE UnmapUser(u)
  <2> DEFINE s == user_id_to_ssrc[u]
  <2>1. /\ mixer' = "poll" /\ s # NoSsrc
        /\ user_id_to_ssrc' = [user_id_to_ssrc EXCEPT ![u] = NoSsrc]
        /\ participants' = participants \ {s} /\ heard' = heard \ {s}
        /\ jitterbuf' = [jitterbuf EXCEPT ![s] = <<>>]
        /\ known_next' = IF known_next.ssrc = s THEN NoFrame ELSE known_next
    BY <1>2 DEF UnmapUser, Restarts
  <2>2. s \in Ssrcs
    BY <1>0, <2>1
  <2>3. UsersHaveParticipants'
    <3> SUFFICES ASSUME NEW v \in Users, NEW w \in Users, user_id_to_ssrc'[v] # NoSsrc
                 PROVE  /\ user_id_to_ssrc'[v] \in participants'
                        /\ user_id_to_ssrc'[v] = user_id_to_ssrc'[w] => v = w
      BY DEF UsersHaveParticipants
    <3>1. v # u /\ user_id_to_ssrc'[v] = user_id_to_ssrc[v]
      BY <1>0, <2>1
    <3>2. user_id_to_ssrc[v] \in participants /\ user_id_to_ssrc[v] # s
      BY <3>1 DEF ReceiverInv, Maps, UsersHaveParticipants
    <3>3. user_id_to_ssrc'[v] = user_id_to_ssrc'[w] => v = w
      BY <1>0, <2>1, <3>1 DEF ReceiverInv, Maps, UsersHaveParticipants
    <3>4. QED
      BY <2>1, <3>1, <3>2, <3>3
  <2>4. Maps'
    BY <1>0, <2>1, <2>3 DEF Maps
  <2> HIDE DEF s
  <2>5. /\ jitterbuf' \in [Ssrcs -> Seq(Frames)] /\ jitterbuf'[s] = <<>>
        /\ \A o \in Ssrcs \ {s} : jitterbuf'[o] = jitterbuf[o]
    BY <1>0, <2>1, <2>2
  <2>6. Buffers'
    <3>1. Len(<<>>) <= JbCap /\ InOrder(<<>>)
      BY ReceiverAssumption DEF InOrder
    <3>2. QED
      BY <2>1, <2>5, <3>1 DEF ReceiverInv, Buffers
  <2>7. KnownNext'
    BY <2>1, <2>5, ReceiverAssumption DEF ReceiverInv, KnownNext, CacheIsAFrame, HasFrame, NextFrame, NoFrame
  <2>8. QED
    BY <2>1, <2>4, <2>6, <2>7 DEF ReceiverInv, Mixers
<1>3. QED
  BY <1>1, <1>2

\* Time passes for every frame and for the cache alike.
LEMMA TickKeeps == ReceiverInv /\ Tick => ReceiverInv'
<1> SUFFICES ASSUME ReceiverInv, Tick PROVE ReceiverInv'
  OBVIOUS
<1>1. /\ UNCHANGED <<user_id_to_ssrc, participants, heard, mixer>>
      /\ jitterbuf' = [s \in Ssrcs |->
                         [i \in DOMAIN jitterbuf[s] |-> [jitterbuf[s][i] EXCEPT !.due = Sooner(@)]]]
      /\ known_next' = [known_next EXCEPT !.due = Sooner(@)]
  BY DEF Tick, maps
<1>2. \A t, v \in 0 .. Delay : Sooner(t) \in 0 .. Delay /\ (t <= v => Sooner(t) <= Sooner(v))
                               /\ (Sooner(t) > 0 => t > 0)
  BY ReceiverAssumption DEF Sooner
<1>3. \A f \in Frames : /\ [f EXCEPT !.due = Sooner(@)] \in Frames
                        /\ [f EXCEPT !.due = Sooner(@)].due = Sooner(f.due)
  BY <1>2 DEF Frames
<1>4. ASSUME NEW s \in Ssrcs
      PROVE  /\ jitterbuf'[s] \in Seq(Frames) /\ Len(jitterbuf'[s]) = Len(jitterbuf[s])
             /\ \A i \in 1 .. Len(jitterbuf[s]) : jitterbuf'[s][i].due = Sooner(jitterbuf[s][i].due)
             /\ InOrder(jitterbuf'[s])
             /\ jitterbuf'[s] # <<>> => jitterbuf[s] # <<>>
             /\ jitterbuf[s] # <<>> => jitterbuf'[s] # <<>>
  <2> DEFINE q == jitterbuf[s]
             p == [i \in DOMAIN q |-> [q[i] EXCEPT !.due = Sooner(@)]]
  <2>1. q \in Seq(Frames) /\ InOrder(q) /\ DOMAIN q = 1 .. Len(q) /\ Len(q) \in Nat
    BY DEF ReceiverInv, Buffers
  <2>2. jitterbuf'[s] = p
    BY <1>1
  <2> HIDE DEF q
  <2>3. ASSUME NEW i \in 1 .. Len(q) PROVE p[i] \in Frames /\ p[i].due = Sooner(q[i].due)
    <3>1. q[i] \in Frames
      BY <2>1
    <3>2. p[i] = [q[i] EXCEPT !.due = Sooner(@)]
      BY <2>1
    <3>3. QED
      BY <1>3, <3>1, <3>2
  <2>4. DOMAIN p = 1 .. Len(q)
    BY <2>1
  <2>5. p \in Seq(Frames) /\ Len(p) = Len(q)
    <3>1. p \in [1 .. Len(q) -> Frames]
      BY <2>1, <2>3
    <3> HIDE DEF p
    <3>2. QED
      BY <2>1, <3>1
  <2> HIDE DEF p
  <2>6. InOrder(p)
    <3>1. \A i \in 1 .. Len(q) : q[i].due \in 0 .. Delay
      BY <2>1, FrameTypes
    <3>2. QED
      BY <1>2, <2>1, <2>3, <2>5, <3>1 DEF InOrder
  <2>7. (p # <<>>) <=> (q # <<>>)
    BY <2>1, <2>5
  <2>8. QED
    BY <2>2, <2>3, <2>5, <2>6, <2>7 DEF q
<1>5. Buffers'
  <2>1. jitterbuf' \in [Ssrcs -> Seq(Frames)]
    BY <1>1, <1>4
  <2>2. QED
    BY <1>1, <1>4, <2>1 DEF ReceiverInv, Buffers
<1>6. KnownNext'
  <2>0. known_next \in [due : 0 .. Delay, ssrc : Ssrcs \cup {NoSsrc}]
    BY DEF ReceiverInv, KnownNext
  <2>1. /\ known_next' \in [due : 0 .. Delay, ssrc : Ssrcs \cup {NoSsrc}]
        /\ known_next'.ssrc = known_next.ssrc /\ known_next'.due = Sooner(known_next.due)
    BY <1>1, <1>2, <2>0
  <2>2. ASSUME known_next'.due > 0
        PROVE  known_next.ssrc \in Ssrcs /\ jitterbuf'[known_next.ssrc] # <<>>
               /\ jitterbuf'[known_next.ssrc][1].due = Sooner(known_next.due)
    <3>1. known_next.due > 0
      BY <1>2, <2>0, <2>1, <2>2
    <3>2. /\ known_next.ssrc \in Ssrcs /\ jitterbuf[known_next.ssrc] # <<>>
          /\ jitterbuf[known_next.ssrc][1].due = known_next.due
      BY <3>1 DEF ReceiverInv, KnownNext, CacheIsAFrame, HasFrame, NextFrame
    <3>3. 1 \in 1 .. Len(jitterbuf[known_next.ssrc])
      BY <3>2 DEF ReceiverInv, Buffers
    <3>4. QED
      BY <1>4, <3>2, <3>3
  <2>3. QED
    BY <2>1, <2>2 DEF KnownNext, CacheIsAFrame, HasFrame, NextFrame
<1>7. Maps'
  BY <1>1 DEF ReceiverInv, Maps, UsersHaveParticipants
<1>8. QED
  BY <1>1, <1>5, <1>6, <1>7 DEF ReceiverInv

LEMMA ReceiverInductive == ReceiverInv /\ [Next]_vars => ReceiverInv'
<1> SUFFICES ASSUME ReceiverInv, [Next]_vars PROVE ReceiverInv'
  OBVIOUS
<1>1. CASE Wake \/ OtherEvent \/ UNCHANGED vars
  <2>1. /\ UNCHANGED <<user_id_to_ssrc, participants, heard, jitterbuf, known_next>>
        /\ mixer' \in {"poll", mixer}
    BY <1>1 DEF Wake, OtherEvent, Restarts, vars, maps
  <2>2. QED
    BY <2>1 DEF ReceiverInv, Buffers, Maps, UsersHaveParticipants, KnownNext, CacheIsAFrame,
                HasFrame, NextFrame, Mixers
<1>2. QED
  BY <1>1, FetchKeeps, PacketKeeps, UsersKeep, TickKeeps DEF Next

-----------------------------------------------------------------------------
\* The inductive invariant holds: users and participants match, the buffers are
\* in order, and the cache agrees with them.
THEOREM Invariance == Spec => []ReceiverInv
  BY InitHolds, ReceiverInductive, PTL DEF Spec

\* The variables have their types, no buffer is over its bound, and only
\* participants that were heard have frames.
THEOREM TypeCorrect == Spec => []TypeOK
<1>1. ReceiverInv => TypeOK
  BY DEF ReceiverInv, Buffers, Maps, KnownNext, Mixers, TypeOK, HasFrame
<1>2. QED
  BY <1>1, Invariance, PTL

\* However users come, change their source and go, each is mapped to a
\* participant of their own (map_user_id, unmap_user_id).
THEOREM OneParticipantEach == Spec => []UsersHaveParticipants
<1>1. ReceiverInv => UsersHaveParticipants
  BY DEF ReceiverInv, Maps
<1>2. QED
  BY <1>1, Invariance, PTL

\* A cached time in the future is always that of the first frame of its source,
\* so that the mixer never sleeps for audio that is not there (known_next).
THEOREM CacheIsFresh == Spec => []CacheIsAFrame
<1>1. ReceiverInv => CacheIsAFrame
  BY DEF ReceiverInv, KnownNext
<1>2. QED
  BY <1>1, Invariance, PTL
=============================================================================
