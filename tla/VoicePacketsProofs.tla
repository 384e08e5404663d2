------------------------ MODULE VoicePacketsProofs ------------------------
(***************************************************************************)
(* Proofs about VoicePackets, for packets, buffers and counters of any     *)
(* size.                                                                   *)
(*                                                                         *)
(* Nonces come back late because of the numbers in them: Numbers ties the  *)
(* timestamp to the frames written, NoncesUsed every nonce to its packet   *)
(* and frame.  A packet can be read because of where its parts lie         *)
(* (Layout).                                                               *)
(***************************************************************************)
EXTENDS VoicePackets, SequenceTheorems, TLAPS

\* The timestamp of the n-th frame, from 0 on.
Stamp(n) == (TsMod - 1 + n * NumSamples) % TsMod

Numbers == /\ timestamp = Stamp(frames)
           /\ sequence \in 0 .. SeqMod - 1
           /\ crypto \in [mode : Modes, key : 0 .. KeyCap, counter : 0 .. CounterMod - 1]
           /\ frames \in 0 .. FrameCap

\* The sequence number of the n-th packet, from 0 on.
SeqNo(n) == (SeqMod - 1 + n) % SeqMod

\* The i-th nonce holds the numbers of its packet and frame.
Made(e, i) == /\ e.mode \in Modes
              /\ e.mode = "Normal" => /\ e.nonce[1] = Plain(SeqNo(i - 1))
                                      /\ e.nonce[2] = Plain(Stamp(e.frame))
              /\ e.mode = "Suffix" => e.nonce[1] = <<"random", e.frame, 1>>

\* One that was made with the present key c after i - 1 of the n packets holds a
\* counter the present one is ahead of by as many as there were packets since.
Behind(e, i, n, c) ==
    /\ e.mode = c.mode
    /\ c.mode = "Lite" => \E k \in 0 .. CounterMod - 1 :
                             /\ e.nonce[1] = <<"counter", k>>
                             /\ (k + (n + 1 - i)) % CounterMod = c.counter

Cells(s) == {s[i] : i \in DOMAIN s}
Used(e, i, n, c, f) == /\ Made(e, i)
                       /\ e.frame \in 0 .. f - 1
                       /\ e.key \in 0 .. c.key
                       /\ e.key = c.key => Behind(e, i, n, c)
NoncesUsed == /\ nonces \in Seq(Cells(nonces))
              /\ sequence = SeqNo(Len(nonces))
              /\ \A i \in 1 .. Len(nonces) : Used(nonces[i], i, Len(nonces), crypto, frames)
              /\ NoncesRepeatLate

-----------------------------------------------------------------------------
(***************************************************************************)
(* Sequences of cells.  Their cells have nothing in common, so each is a   *)
(* sequence over the cells that are in it.                                 *)
(***************************************************************************)
IsRow(r, n) == n \in Nat /\ r = [i \in 1 .. n |-> r[i]]

LEMMA Row ==
    ASSUME NEW n, NEW r, IsRow(r, n)
    PROVE  r \in Seq(Cells(r)) /\ Len(r) = n /\ DOMAIN r = 1 .. n /\ n \in Nat
<1>0. n \in Nat
  BY DEF IsRow
<1>1. DOMAIN r = 1 .. n
  BY DEF IsRow
<1>2. r \in [1 .. n -> Cells(r)]
  BY <1>1 DEF Cells, IsRow
<1>3. r \in Seq(Cells(r))
  BY <1>0, <1>2
<1>4. Len(r) \in Nat /\ 1 .. Len(r) = 1 .. n
  BY <1>1, <1>3, LenProperties
<1>5. Len(r) = n
  BY <1>0, <1>4
<1>6. QED
  BY <1>0, <1>1, <1>3, <1>5

LEMMA SameRow ==
    ASSUME NEW n, NEW r, IsRow(r, n), NEW s, IsRow(s, n), \A i \in 1 .. n : r[i] = s[i]
    PROVE  r = s
  BY DEF IsRow

\* r is the k cells of s from m on.
IsPart(r, s, m, k) == IsRow(r, k) /\ \A i \in 1 .. k : r[i] = s[m + i - 1]

LEMMA Part ==
    ASSUME NEW s, NEW m \in Int, NEW n \in Int, n >= m - 1,
           NEW k, k = n - m + 1, NEW r, r = SubSeq(s, m, n)
    PROVE  IsPart(r, s, m, k)
<1> DEFINE S == {s[i] : i \in m .. n}
<1>0. k \in Nat
  OBVIOUS
<1>1. /\ r \in Seq(S) /\ Len(r) = (IF m <= n THEN n - m + 1 ELSE 0)
      /\ \A i \in 1 .. k : r[i] = s[m + i - 1]
  BY SubSeqProperties
<1>2. Len(r) = k
  BY <1>1
<1> HIDE DEF S
<1>3. r \in [1 .. k -> S]
  BY <1>1, <1>2, LenProperties
<1>4. IsRow(r, k)
  BY <1>0, <1>3 DEF IsRow
<1>5. QED
  BY <1>1, <1>4 DEF IsPart

\* r is the n cells of p and the m cells of q behind them.
Joins(r, n, p, m, q) == /\ IsRow(r, n + m)
                        /\ \A i \in 1 .. n : r[i] = p[i]
                        /\ \A i \in 1 .. m : r[n + i] = q[i]

LEMMA Joined ==
    ASSUME NEW n, NEW p, IsRow(p, n), NEW m, NEW q, IsRow(q, m), NEW r, r = p \o q
    PROVE  Joins(r, n, p, m, q)
<1> DEFINE S == Cells(p) \cup Cells(q)
<1>0. n \in Nat /\ m \in Nat /\ n + m \in Nat /\ Len(p) = n /\ Len(q) = m
  BY Row DEF IsRow
<1>1. p \in Seq(Cells(p)) /\ q \in Seq(Cells(q))
  BY Row
<1>2. p \in Seq(S) /\ q \in Seq(S)
  BY <1>1, SeqMonotonic
<1> HIDE DEF S
<1>3. r \in Seq(S) /\ Len(r) = n + m
  BY <1>0, <1>2, ConcatProperties
<1>4. \A i \in 1 .. n : r[i] = p[i]
  BY <1>0, <1>2
<1>5. \A i \in 1 .. m : r[n + i] = q[i]
  BY <1>0, <1>2
<1>6. r \in [1 .. n + m -> S]
  BY <1>3, LenProperties
<1>7. IsRow(r, n + m)
  BY <1>0, <1>6 DEF IsRow
<1>8. QED
  BY <1>4, <1>5, <1>7 DEF Joins

LEMMA Appended ==
    ASSUME NEW s, s \in Seq(Cells(s)), NEW e
    PROVE  /\ Append(s, e) \in Seq(Cells(Append(s, e)))
           /\ Len(s) \in Nat /\ Len(Append(s, e)) = Len(s) + 1
           /\ \A i \in 1 .. Len(s) : Append(s, e)[i] = s[i]
           /\ Append(s, e)[Len(s) + 1] = e
<1> DEFINE S == Cells(s) \cup {e}
           t == Append(s, e)
<1>1. s \in Seq(S)
  BY SeqMonotonic
<1>2. Len(s) \in Nat /\ t \in Seq(S) /\ Len(t) = Len(s) + 1
  BY <1>1
<1>3. (\A i \in 1 .. Len(s) : t[i] = s[i]) /\ t[Len(s) + 1] = e
  BY <1>1
<1> HIDE DEF S, t
<1>4. t \in Seq(Cells(t))
  <2>1. t \in [1 .. Len(t) -> S] /\ DOMAIN t = 1 .. Len(t) /\ Len(t) \in Nat
    BY <1>2, LenProperties
  <2>2. t \in [1 .. Len(t) -> Cells(t)]
    BY <2>1 DEF Cells
  <2>3. QED
    BY <2>1, <2>2
<1>5. QED
  BY <1>2, <1>3, <1>4 DEF t

-----------------------------------------------------------------------------
(***************************************************************************)
(* Numbers that wrap.                                                      *)
(***************************************************************************)

\* The remainder is the only number below n that differs from a by a multiple.
LEMMA Remainder ==
    ASSUME NEW n \in Nat \ {0}, NEW a \in Int, NEW d \in Int, NEW r \in 0 .. n - 1, a = n * d + r
    PROVE  a % n = r
<1> DEFINE e == a \div n
           m == a % n
<1>1. e \in Int /\ m \in 0 .. n - 1 /\ a = n * e + m
  OBVIOUS
<1> HIDE DEF e, m
<1>2. n * (d - e) = m - r
  BY <1>1
<1>3. ~(d - e >= 1)
  <2> SUFFICES ASSUME d - e >= 1 PROVE FALSE
    OBVIOUS
  <2>1. n * (d - e) >= n
    BY <1>1
  <2>2. QED
    BY <1>1, <1>2, <2>1
<1>4. ~(d - e <= -1)
  <2> SUFFICES ASSUME d - e <= -1 PROVE FALSE
    OBVIOUS
  <2>1. n * (d - e) <= -n
    BY <1>1
  <2>2. QED
    BY <1>1, <1>2, <2>1
<1>5. d = e
  BY <1>1, <1>3, <1>4
<1>6. m = r
  BY <1>1, <1>5
<1>7. QED
  BY <1>6 DEF m

\* Numbers that agree modulo n still do when c is added to both.
LEMMA Shifted ==
    ASSUME NEW n \in Nat \ {0}, NEW a \in Int, NEW b \in Int, NEW c \in Int, a % n = b % n
    PROVE  (a + c) % n = (b + c) % n
<1> DEFINE x == a \div n
           y == b \div n
           z == (b + c) \div n
           r == (b + c) % n
<1>0. \A v \in Int : v \div n \in Int /\ v % n \in 0 .. n - 1 /\ v = n * (v \div n) + (v % n)
  OBVIOUS
<1>1. x \in Int /\ a = n * x + (a % n)
  BY <1>0
<1>2. y \in Int /\ b = n * y + (b % n)
  BY <1>0
<1>3. z \in Int /\ b + c = n * z + r /\ r \in 0 .. n - 1
  BY <1>0, b + c \in Int
<1>4. a % n \in Int
  OBVIOUS
<1> HIDE DEF x, y, z, r
<1>5. n * (x - y + z) = n * x - n * y + n * z
  BY <1>1, <1>2, <1>3
<1>6. a + c = n * (x - y + z) + r
  BY <1>1, <1>2, <1>3, <1>4, <1>5
<1>7. (a + c) % n = r
  <2> DEFINE d == x - y + z
             v == a + c
  <2>1. d \in Int /\ v \in Int /\ v = n * d + r
    BY <1>1, <1>2, <1>3, <1>6
  <2> HIDE DEF d, v
  <2>2. v % n = r
    BY <1>3, <2>1, Remainder
  <2>3. QED
    BY <2>2 DEF v
<1>8. QED
  BY <1>7 DEF r

\* What is added to a number that comes to the same modulo n goes around.
LEMMA Around ==
    ASSUME NEW n \in Nat \ {0}, NEW a \in Int, NEW k \in Int, (a + k) % n = a % n
    PROVE  k % n = 0
<1> DEFINE b == a + k
           c == -a
<1>1. b \in Int /\ c \in Int /\ b + c = k /\ a + c = 0 /\ b % n = a % n
  OBVIOUS
<1> HIDE DEF b, c
<1>2. (b + c) % n = (a + c) % n
  BY <1>1, Shifted
<1>3. 0 % n = 0
  <2>1. 0 = n * 0 + 0 /\ 0 \in 0 .. n - 1
    OBVIOUS
  <2>2. QED
    BY <2>1, Remainder
<1>4. QED
  BY <1>1, <1>2, <1>3

\* A number that is counted up modulo n goes on being ahead.
LEMMA CountedUp ==
    ASSUME NEW n \in Nat \ {0}, NEW a \in Int, NEW x \in Int, x = a % n, NEW d \in Int
    PROVE  (x + d) % n = (a + d) % n
<1>1. x \in 0 .. n - 1
  OBVIOUS
<1>2. x = n * 0 + x
  BY <1>1
<1>3. x % n = x
  BY <1>1, <1>2, Remainder
<1>4. x % n = a % n
  BY <1>3
<1>5. QED
  BY <1>4, Shifted

-----------------------------------------------------------------------------
(***************************************************************************)
(* Nonces.                                                                 *)
(***************************************************************************)

LEMMA CountedOne ==
    ASSUME NEW n \in Nat \ {0}, NEW a \in Int, NEW x \in Int, x = a % n
    PROVE  (x + 1) % n = (a + 1) % n
<1> DEFINE d == 1
<1>1. d \in Int
  OBVIOUS
<1> HIDE DEF d
<1>2. (x + d) % n = (a + d) % n
  BY <1>1, CountedUp
<1>3. QED
  BY <1>2 DEF d

\* write_frame takes the timestamp on.
LEMMA StampAdvances ==
    ASSUME Numbers, NextFrame
    PROVE  timestamp' = Stamp(frames + 1)
<1>0. /\ TsMod \in Nat \ {0} /\ NumSamples \in Nat /\ frames \in Nat
  BY PacketAssumption DEF Numbers
<1> DEFINE a == TsMod - 1 + frames * NumSamples
<1>1. a \in Int /\ timestamp = a % TsMod /\ timestamp' = (timestamp + NumSamples) % TsMod
  BY <1>0 DEF Numbers, Stamp, NextFrame
<1>2. TsMod - 1 + (frames + 1) * NumSamples = a + NumSamples
  BY <1>0
<1> HIDE DEF a
<1>3. timestamp \in Int /\ timestamp % TsMod = a % TsMod
  <2>1. a % TsMod \in 0 .. TsMod - 1
    BY <1>0, <1>1
  <2>2. timestamp = TsMod * 0 + timestamp
    BY <1>0, <1>1, <2>1
  <2>3. timestamp \in 0 .. TsMod - 1 /\ timestamp \in Int
    BY <1>0, <1>1, <2>1
  <2>4. timestamp % TsMod = timestamp
    BY <1>0, <2>2, <2>3, Remainder
  <2>5. QED
    BY <1>1, <2>3, <2>4
<1>4. (timestamp + NumSamples) % TsMod = (a + NumSamples) % TsMod
  <2>1. NumSamples \in Int /\ TsMod \in Nat \ {0} /\ a \in Int
    BY <1>0, <1>1
  <2>2. QED
    BY <1>3, <2>1, Shifted
<1>5. QED
  BY <1>1, <1>2, <1>4 DEF Stamp

LEMMA NumbersInit == Init => Numbers
<1> SUFFICES ASSUME Init PROVE Numbers
  OBVIOUS
<1>0. /\ TsMod \in Nat \ {0} /\ SeqMod \in Nat \ {0} /\ CounterMod \in Nat \ {0}
      /\ FrameCap \in Nat /\ KeyCap \in Nat /\ NumSamples \in Nat
  BY PacketAssumption
<1>1. Stamp(0) = TsMod - 1
  <2>1. TsMod - 1 + 0 * NumSamples = TsMod * 0 + (TsMod - 1) /\ TsMod - 1 \in 0 .. TsMod - 1
    BY <1>0
  <2>2. TsMod - 1 + 0 * NumSamples = TsMod - 1 /\ TsMod - 1 = TsMod * 0 + (TsMod - 1) /\ TsMod - 1 \in Int
    BY <1>0
  <2>3. (TsMod - 1) % TsMod = TsMod - 1
    BY <1>0, <2>1, <2>2, Remainder
  <2>4. QED
    BY <2>2, <2>3 DEF Stamp
<1>2. QED
  BY <1>0, <1>1 DEF Init, Numbers, Modes

LEMMA NumbersKept == Numbers /\ [Next]_vars => Numbers'
<1> SUFFICES ASSUME Numbers, [Next]_vars PROVE Numbers'
  OBVIOUS
<1>0. /\ TsMod \in Nat \ {0} /\ SeqMod \in Nat \ {0} /\ CounterMod \in Nat \ {0}
      /\ FrameCap \in Nat /\ KeyCap \in Nat /\ NumSamples \in Nat
  BY PacketAssumption
<1>a. NextFrame => frames' \in 0 .. FrameCap /\ timestamp' = Stamp(frames')
  BY <1>0, StampAdvances DEF Numbers, NextFrame
<1>1. CASE UNCHANGED vars
  BY <1>1 DEF vars, Numbers
<1>2. ASSUME NEW mode \in Modes, NEW counter \in {0, CounterMod - 1}, SetKey(mode, counter)
      PROVE  Numbers'
  <2>1. counter \in 0 .. CounterMod - 1 /\ crypto.key + 1 \in 0 .. KeyCap
    BY <1>0, <1>2 DEF Numbers, SetKey
  <2>2. QED
    BY <1>2, <2>1 DEF Numbers, SetKey
<1>3. CASE FrameFails
  BY <1>3, <1>a DEF FrameFails, Numbers
<1>4. ASSUME NEW len, SendVoice(len) PROVE Numbers'
  <2>1. /\ NextFrame /\ sequence' = (sequence + 1) % SeqMod
        /\ crypto' = [crypto EXCEPT !.counter =
                        IF crypto.mode = "Lite" THEN (@ + 1) % CounterMod ELSE @]
    BY <1>4 DEF SendVoice
  <2>2. sequence' \in 0 .. SeqMod - 1
    BY <1>0, <2>1 DEF Numbers
  <2>3. (crypto.counter + 1) % CounterMod \in 0 .. CounterMod - 1
    BY <1>0 DEF Numbers
  <2>4. crypto' \in [mode : Modes, key : 0 .. KeyCap, counter : 0 .. CounterMod - 1]
    BY <2>1, <2>3 DEF Numbers
  <2>5. QED
    BY <1>a, <2>1, <2>2, <2>4 DEF Numbers
<1>5. QED
  BY <1>1, <1>2, <1>3, <1>4 DEF Next

\* The cells of a nonce that differ from packet to packet.
LEMMA NonceOfFrame ==
    ASSUME NEW c, c.mode \in Modes, NEW sq, NEW ts, NEW n
    PROVE  LET nonce == Nonce(NonceCells(c, <<Plain(sq), Plain(ts)>>, n))
           IN  /\ c.mode = "Normal" => nonce[1] = Plain(sq) /\ nonce[2] = Plain(ts)
               /\ c.mode = "Suffix" => nonce[1] = <<"random", n, 1>>
               /\ c.mode = "Lite" => nonce[1] = <<"counter", c.counter>>
<1> DEFINE header == <<Plain(sq), Plain(ts)>>
<1>0. \A cells : Nonce(cells)[1] = (IF 1 <= Len(cells) THEN cells[1] ELSE Zero)
                 /\ Nonce(cells)[2] = (IF 2 <= Len(cells) THEN cells[2] ELSE Zero)
  BY DEF Nonce, NonceLen
<1>1. CASE c.mode = "Normal"
  <2>1. NonceCells(c, header, n) = header /\ Len(header) = 2
        /\ header[1] = Plain(sq) /\ header[2] = Plain(ts)
    BY <1>1 DEF NonceCells
  <2>2. QED
    BY <1>0, <1>1, <2>1
<1>2. CASE c.mode = "Suffix"
  <2> DEFINE r == [i \in 1 .. NonceLen |-> <<"random", n, i>>]
  <2>1. NonceCells(c, header, n) = r
    BY <1>2 DEF NonceCells
  <2>2. IsRow(r, 3)
    BY DEF NonceLen, IsRow
  <2>3. r[1] = <<"random", n, 1>>
    BY DEF NonceLen
  <2> HIDE DEF r
  <2>4. Len(r) = 3
    BY <2>2, Row
  <2>5. Nonce(r)[1] = r[1]
    BY <1>0, <2>4
  <2>6. QED
    BY <1>2, <2>1, <2>3, <2>5
<1>3. CASE c.mode = "Lite"
  <2> DEFINE cell == <<"counter", c.counter>>
             r == <<cell>>
  <2>1. NonceCells(c, header, n) = r
    BY <1>3 DEF NonceCells
  <2>2. Len(r) = 1 /\ r[1] = cell
    OBVIOUS
  <2> HIDE DEF r, cell
  <2>3. Nonce(r)[1] = cell
    BY <1>0, <2>2
  <2>4. QED
    BY <1>3, <2>1, <2>3 DEF cell
<1>4. QED
  BY <1>1, <1>2, <1>3 DEF Modes

\* What sending a packet does to the numbers nonces are made from.
LEMMA NumbersAdvance ==
    ASSUME Numbers, NEW len, SendVoice(len)
    PROVE  /\ frames' = frames + 1 /\ frames \in Nat
           /\ sequence' = (sequence + 1) % SeqMod
           /\ crypto'.mode = crypto.mode /\ crypto'.key = crypto.key
           /\ crypto.mode = "Lite" => crypto'.counter = (crypto.counter + 1) % CounterMod
<1>1. /\ NextFrame
      /\ sequence' = (sequence + 1) % SeqMod
      /\ crypto' = [crypto EXCEPT !.counter =
                      IF crypto.mode = "Lite" THEN (@ + 1) % CounterMod ELSE @]
  BY DEF SendVoice
<1>2. frames' = frames + 1 /\ frames \in Nat
  BY <1>1, PacketAssumption DEF NextFrame, Numbers
<1>3. QED
  BY <1>1, <1>2 DEF Numbers

\* The record of a packet that is sent as the n-th.
Sent(e, n) == /\ Made(e, n)
              /\ e.key = crypto.key /\ e.mode = crypto.mode /\ e.frame = frames
              /\ crypto.mode = "Lite" => e.nonce[1] = <<"counter", crypto.counter>>

LEMMA SentHolds ==
    ASSUME Numbers, NEW n \in Nat, sequence = SeqNo(n),
           NEW nonce, nonce = Nonce(NonceCells(crypto, <<Plain(sequence), Plain(timestamp)>>, frames)),
           NEW e, e = [key |-> crypto.key, mode |-> crypto.mode, nonce |-> nonce, frame |-> frames]
    PROVE  Sent(e, n + 1)
<1>1. crypto.mode \in Modes /\ timestamp = Stamp(frames)
  BY DEF Numbers
<1>2. /\ crypto.mode = "Normal" => nonce[1] = Plain(sequence) /\ nonce[2] = Plain(timestamp)
      /\ crypto.mode = "Suffix" => nonce[1] = <<"random", frames, 1>>
      /\ crypto.mode = "Lite" => nonce[1] = <<"counter", crypto.counter>>
  BY <1>1, NonceOfFrame
<1>3. e.key = crypto.key /\ e.mode = crypto.mode /\ e.nonce = nonce /\ e.frame = frames
  OBVIOUS
<1>4. n + 1 - 1 = n
  OBVIOUS
<1>5. Made(e, n + 1)
  BY <1>1, <1>2, <1>3, <1>4 DEF Made
<1>6. QED
  BY <1>2, <1>3, <1>5 DEF Sent

\* The records of earlier packets stay behind,
LEMMA StaysUsed ==
    ASSUME Numbers, NEW len, SendVoice(len), NEW n \in Nat, NEW i \in 1 .. n,
           NEW e, Used(e, i, n, crypto, frames)
    PROVE  Used(e, i, n + 1, crypto', frames')
<1>0. CounterMod \in Nat \ {0}
  BY PacketAssumption
<1>1. /\ frames' = frames + 1 /\ frames \in Nat
      /\ crypto'.mode = crypto.mode /\ crypto'.key = crypto.key
      /\ crypto.mode = "Lite" => crypto'.counter = (crypto.counter + 1) % CounterMod
  BY NumbersAdvance
<1>2. ASSUME crypto.mode = "Lite", Behind(e, i, n, crypto)
      PROVE  \E k \in 0 .. CounterMod - 1 : /\ e.nonce[1] = <<"counter", k>>
                                            /\ (k + (n + 1 + 1 - i)) % CounterMod = crypto'.counter
  <2>1. PICK k \in 0 .. CounterMod - 1 : /\ e.nonce[1] = <<"counter", k>>
                                         /\ (k + (n + 1 - i)) % CounterMod = crypto.counter
    BY <1>2 DEF Behind
  <2> DEFINE a == k + (n + 1 - i)
             x == crypto.counter
  <2>2. a \in Int /\ a + 1 = k + (n + 1 + 1 - i) /\ x \in Int /\ x = a % CounterMod
    BY <2>1 DEF Numbers
  <2>3. crypto'.counter = (x + 1) % CounterMod
    BY <1>1, <1>2
  <2> HIDE DEF a, x
  <2>4. (x + 1) % CounterMod = (a + 1) % CounterMod
    BY <1>0, <2>2, CountedOne
  <2>5. QED
    BY <2>1, <2>2, <2>3, <2>4
<1>3. Behind(e, i, n, crypto) => Behind(e, i, n + 1, crypto')
  BY <1>1, <1>2 DEF Behind
<1>4. QED
  BY <1>1, <1>3 DEF Used

\* and so does the one of the packet.
LEMMA SentIsUsed ==
    ASSUME Numbers, NEW len, SendVoice(len), NEW n \in Nat, NEW e, Sent(e, n + 1)
    PROVE  Used(e, n + 1, n + 1, crypto', frames')
<1>1. /\ frames' = frames + 1 /\ frames \in Nat
      /\ crypto'.mode = crypto.mode /\ crypto'.key = crypto.key
      /\ crypto.mode = "Lite" => crypto'.counter = (crypto.counter + 1) % CounterMod
  BY NumbersAdvance
<1>2. crypto.counter \in 0 .. CounterMod - 1 /\ crypto.key \in Nat
  BY PacketAssumption DEF Numbers
<1>3. n + 1 + 1 - (n + 1) = 1
  OBVIOUS
<1>4. Behind(e, n + 1, n + 1, crypto')
  BY <1>1, <1>2, <1>3 DEF Behind, Sent
<1>5. QED
  BY <1>1, <1>2, <1>4 DEF Used, Sent

\* If an earlier packet had its nonce, their numbers have gone around since.
LEMMA ComesBackLate ==
    ASSUME Numbers, NEW n \in Nat, NEW i \in 1 .. n, NEW d, Used(d, i, n, crypto, frames),
           NEW e, Sent(e, n + 1), d.key = e.key, d.nonce = e.nonce
    PROVE  GoneAround(d, e, n + 1 - i)
<1>0. /\ TsMod \in Nat \ {0} /\ SeqMod \in Nat \ {0} /\ CounterMod \in Nat \ {0}
      /\ NumSamples \in Int /\ frames \in Int
  BY PacketAssumption DEF Numbers
<1>1. /\ d.mode = crypto.mode /\ e.mode = crypto.mode /\ d.mode \in Modes
      /\ Made(d, i) /\ Made(e, n + 1) /\ Behind(d, i, n, crypto)
      /\ d.frame \in 0 .. frames - 1 /\ e.frame = frames
  BY DEF Used, Sent, Behind, Made
<1>2. CASE crypto.mode = "Normal"
  <2>1. /\ Plain(SeqNo(i - 1)) = Plain(SeqNo(n + 1 - 1))
        /\ Plain(Stamp(d.frame)) = Plain(Stamp(frames))
    BY <1>1, <1>2 DEF Made
  <2>2. SeqNo(i - 1) = SeqNo(n + 1 - 1) /\ Stamp(d.frame) = Stamp(frames)
    BY <2>1 DEF Plain
  <2>3. (n + 1 - i) % SeqMod = 0
    <3> DEFINE a == SeqMod - 1 + (i - 1)
               k == n + 1 - i
    <3>1. a \in Int /\ k \in Int /\ a + k = SeqMod - 1 + (n + 1 - 1)
      BY <1>0
    <3>2. (SeqMod - 1 + (n + 1 - 1)) % SeqMod = a % SeqMod
      BY <2>2 DEF SeqNo
    <3> HIDE DEF a, k
    <3>3. k % SeqMod = 0
      BY <1>0, <3>1, <3>2, Around
    <3>4. QED
      BY <3>3 DEF k
  <2>4. ((e.frame - d.frame) * NumSamples) % TsMod = 0
    <3> DEFINE f == d.frame
    <3>0. f \in Int
      BY <1>1
    <3>1. (TsMod - 1 + frames * NumSamples) % TsMod = (TsMod - 1 + f * NumSamples) % TsMod
      BY <2>2 DEF Stamp
    <3> HIDE DEF f
    <3> DEFINE a == TsMod - 1 + f * NumSamples
               k == (frames - f) * NumSamples
    <3>2. a \in Int /\ k \in Int
      BY <1>0, <3>0
    <3>3. k = frames * NumSamples - f * NumSamples
      BY <1>0, <3>0
    <3>4. a + k = TsMod - 1 + frames * NumSamples
      BY <1>0, <3>0, <3>3
    <3>5. (a + k) % TsMod = a % TsMod
      BY <3>1, <3>4
    <3> HIDE DEF a, k
    <3>6. k % TsMod = 0
      BY <1>0, <3>2, <3>5, Around
    <3>7. QED
      BY <1>1, <3>6 DEF k, f
  <2>5. QED
    BY <1>1, <1>2, <2>3, <2>4 DEF GoneAround
<1>3. CASE crypto.mode = "Suffix"
  <2>1. <<"random", d.frame, 1>> = <<"random", frames, 1>>
    BY <1>1, <1>3 DEF Made
  <2>2. d.frame = frames
    BY <2>1
  <2>3. QED
    BY <1>0, <1>1, <2>2
<1>4. CASE crypto.mode = "Lite"
  <2>1. PICK c \in 0 .. CounterMod - 1 : /\ d.nonce[1] = <<"counter", c>>
                                         /\ (c + (n + 1 - i)) % CounterMod = crypto.counter
    BY <1>1, <1>4 DEF Behind
  <2>2. <<"counter", c>> = <<"counter", crypto.counter>>
    BY <1>4, <2>1 DEF Sent
  <2>3. c = crypto.counter
    BY <2>2
  <2>4. c = CounterMod * 0 + c /\ c \in Int
    BY <1>0
  <2>5. c % CounterMod = c
    BY <1>0, <2>4, Remainder
  <2> DEFINE k == n + 1 - i
  <2>6. k \in Int /\ (c + k) % CounterMod = c % CounterMod
    BY <2>1, <2>3, <2>5
  <2> HIDE DEF k
  <2>7. k % CounterMod = 0
    BY <1>0, <2>4, <2>6, Around
  <2>8. QED
    BY <1>1, <1>4, <2>7 DEF GoneAround, k
<1>5. QED
  BY <1>1, <1>2, <1>3, <1>4 DEF Modes

LEMMA NoncesInit == Init => NoncesUsed
<1> SUFFICES ASSUME Init PROVE NoncesUsed
  OBVIOUS
<1>1. nonces = <<>> /\ <<>> \in Seq(Cells(<<>>)) /\ Len(<<>>) = 0 /\ DOMAIN <<>> = {}
  BY DEF Init
<1>2. SeqMod - 1 = SeqNo(0)
  <2>1. SeqMod \in Nat \ {0}
    BY PacketAssumption
  <2>2. SeqMod - 1 + 0 = SeqMod * 0 + (SeqMod - 1) /\ SeqMod - 1 \in 0 .. SeqMod - 1
        /\ SeqMod - 1 + 0 = SeqMod - 1 /\ SeqMod - 1 \in Int
    BY <2>1
  <2>3. (SeqMod - 1) % SeqMod = SeqMod - 1
    BY <2>1, <2>2, Remainder
  <2>4. QED
    BY <2>2, <2>3 DEF SeqNo
<1>3. QED
  BY <1>1, <1>2 DEF NoncesUsed, NoncesRepeatLate, Init

LEMMA SequenceAdvances ==
    ASSUME NEW n \in Nat, sequence = SeqNo(n), sequence' = (sequence + 1) % SeqMod
    PROVE  sequence' = SeqNo(n + 1)
<1>0. SeqMod \in Nat \ {0}
  BY PacketAssumption
<1> DEFINE a == SeqMod - 1 + n
           x == sequence
<1>1. a \in Int /\ x = a % SeqMod /\ a + 1 = SeqMod - 1 + (n + 1)
  BY <1>0 DEF SeqNo
<1>2. x \in Int
  BY <1>0, <1>1
<1>3. sequence' = (x + 1) % SeqMod
  OBVIOUS
<1> HIDE DEF a, x
<1>4. (x + 1) % SeqMod = (a + 1) % SeqMod
  BY <1>0, <1>1, <1>2, CountedOne
<1>5. QED
  BY <1>1, <1>3, <1>4 DEF SeqNo

\* What does not touch the nonces, the key or the numbers of a packet.
LEMMA NoncesStay ==
    ASSUME Numbers, NoncesUsed, nonces' = nonces, sequence' = sequence,
           frames' \in {frames, frames + 1},
           crypto' = crypto \/ crypto'.key = crypto.key + 1
    PROVE  NoncesUsed'
<1>1. crypto.key \in Nat /\ frames \in Nat
  BY PacketAssumption DEF Numbers
<1>2. \A i \in 1 .. Len(nonces) : Used(nonces[i], i, Len(nonces), crypto', frames')
  BY <1>1 DEF NoncesUsed, Used
<1>3. Cells(nonces)' = Cells(nonces) /\ NoncesRepeatLate'
  BY DEF Cells, NoncesUsed, NoncesRepeatLate
<1>4. QED
  BY <1>2, <1>3 DEF NoncesUsed

LEMMA NoncesKept == Numbers /\ NoncesUsed /\ [Next]_vars => NoncesUsed'
<1> SUFFICES ASSUME Numbers, NoncesUsed, [Next]_vars PROVE NoncesUsed'
  OBVIOUS
<1>1. CASE UNCHANGED vars
  BY <1>1, NoncesStay DEF vars
<1>2. ASSUME NEW mode \in Modes, NEW counter \in {0, CounterMod - 1}, SetKey(mode, counter)
      PROVE  NoncesUsed'
  BY <1>2, NoncesStay DEF SetKey
<1>3. CASE FrameFails
  BY <1>3, NoncesStay DEF FrameFails, NextFrame
<1>4. ASSUME NEW len \in 0 .. MaxOpus, SendVoice(len) PROVE NoncesUsed'
  <2> DEFINE n == Len(nonces)
             nonce == Nonce(NonceCells(crypto, <<Plain(sequence), Plain(timestamp)>>, frames))
             new == [key |-> crypto.key, mode |-> crypto.mode, nonce |-> nonce, frame |-> frames]
  <2>1. nonces' = Append(nonces, new)
    BY <1>4 DEF SendVoice
  <2>2. /\ nonces \in Seq(Cells(nonces)) /\ sequence = SeqNo(n) /\ NoncesRepeatLate
        /\ \A i \in 1 .. n : Used(nonces[i], i, n, crypto, frames)
    BY DEF NoncesUsed
  <2>3. n \in Nat /\ DOMAIN nonces = 1 .. n
    BY <2>2, LenProperties
  <2>4. Sent(new, n + 1)
    BY <2>2, <2>3, SentHolds
  <2>5. sequence' = SeqNo(n + 1)
    BY <1>4, <2>2, <2>3, NumbersAdvance, SequenceAdvances
  <2> HIDE DEF nonce, new
  <2>6. /\ nonces' \in Seq(Cells(nonces'))
        /\ Len(nonces') = n + 1
        /\ \A i \in 1 .. n : nonces'[i] = nonces[i]
        /\ nonces'[n + 1] = new
    BY <2>1, <2>2, Appended
  <2> HIDE DEF n
  <2>7. DOMAIN nonces' = 1 .. n + 1 /\ \A i \in 1 .. n + 1 : i \in 1 .. n \/ i = n + 1
    BY <2>3, <2>6, LenProperties
  <2>8. \A i \in 1 .. n : Used(nonces[i], i, n + 1, crypto', frames')
    BY <1>4, <2>2, <2>3, StaysUsed
  <2>9. Used(new, n + 1, n + 1, crypto', frames')
    BY <1>4, <2>3, <2>4, SentIsUsed
  <2>10. \A i \in 1 .. n + 1 : Used(nonces'[i], i, n + 1, crypto', frames')
    BY <2>6, <2>7, <2>8, <2>9
  <2>11. ASSUME NEW i \in 1 .. n, nonces[i].key = new.key, nonces[i].nonce = new.nonce
         PROVE  GoneAround(nonces[i], new, n + 1 - i)
    BY <2>2, <2>3, <2>4, <2>11, ComesBackLate
  <2>12. NoncesRepeatLate'
    <3> SUFFICES ASSUME NEW i \in 1 .. n + 1, NEW j \in 1 .. n + 1, i < j,
                        nonces'[i].key = nonces'[j].key, nonces'[i].nonce = nonces'[j].nonce
                 PROVE  GoneAround(nonces'[i], nonces'[j], j - i)
      BY <2>7 DEF NoncesRepeatLate, GoneAround
    <3>1. i \in 1 .. n
      BY <2>3
    <3>2. CASE j = n + 1
      <4>1. nonces'[i] = nonces[i] /\ nonces'[j] = new
        BY <2>6, <3>1, <3>2, Zenon
      <4>2. GoneAround(nonces[i], new, n + 1 - i)
        BY <2>11, <3>1, <4>1
      <4>3. j - i = n + 1 - i
        BY <2>3, <3>1, <3>2
      <4>4. QED
        BY <4>1, <4>2, <4>3
    <3>3. CASE j \in 1 .. n
      BY <2>2, <2>3, <2>6, <3>1, <3>3 DEF NoncesRepeatLate
    <3>4. QED
      BY <2>7, <3>2, <3>3
  <2>13. QED
    BY <2>5, <2>6, <2>10, <2>12 DEF NoncesUsed, Cells
<1>5. QED
  BY <1>1, <1>2, <1>3, <1>4 DEF Next

-----------------------------------------------------------------------------
(***************************************************************************)
(* Packets.                                                                *)
(***************************************************************************)

\* The nonce of a packet with a header of h cells and n cells behind its tag.
NonceIn(c, packet, h, n) ==
    Nonce(IF c.mode = "Normal" THEN SubSeq(packet, 1, h)
                               ELSE SubSeq(packet, h + TagLen + n + 1, Len(packet)))

\* The packet has the n cells of voice behind a header of h cells, sealed with c.
Carries(c, packet, h, n, voice) ==
    LET nonce == NonceIn(c, packet, h, n)
        cipher == Ciphertext(c.key, nonce, voice)
    IN  /\ IsRow(packet, h + TagLen + n + SuffixLen(c.mode))
        /\ IsRow(voice, n)
        /\ packet[h + TagLen] = Tag(c.key, nonce, cipher)
        /\ \A i \in 1 .. n : packet[h + TagLen + i] = cipher[i]

LEMMA SuffixLens ==
    ASSUME NEW mode \in Modes
    PROVE  SuffixLen(mode) \in 0 .. 3 /\ (mode = "Normal" => SuffixLen(mode) = 0)
  BY DEF Modes, SuffixLen, NonceLen

LEMMA NoRow == IsRow(<<>>, 0)
<1>1. <<>> \in Seq({}) /\ Len(<<>>) = 0
  OBVIOUS
<1>2. <<>> \in [1 .. 0 -> {}]
  BY <1>1, LenProperties
<1>3. QED
  BY <1>2 DEF IsRow

LEMMA WrittenOver ==
    ASSUME NEW b, NEW at, NEW cells, NEW i \in DOMAIN b, i - at \in DOMAIN cells
    PROVE  Written(b, at, cells)[i] = cells[i - at]
  BY DEF Written

LEMMA WrittenBeside ==
    ASSUME NEW b, NEW at, NEW cells, NEW i \in DOMAIN b, i - at \notin DOMAIN cells
    PROVE  Written(b, at, cells)[i] = b[i]
  BY DEF Written

LEMMA CipherRow ==
    ASSUME NEW key, NEW nonce, NEW n, NEW voice, IsRow(voice, n),
           NEW cipher, cipher = Ciphertext(key, nonce, voice)
    PROVE  IsRow(cipher, n) /\ \A i \in 1 .. n : cipher[i] = <<"enc", voice[i], key, nonce>>
<1>1. DOMAIN voice = 1 .. n /\ n \in Nat
  BY Row
<1>2. QED
  BY <1>1 DEF Ciphertext, IsRow

Begins(packet, h, header) == \A i \in 1 .. h : packet[i] = header[i]

\* A packet that is put together as Discord and encrypt_packet do.
LEMMA WholeCarries ==
    ASSUME NEW c, c.mode \in Modes, NEW h \in Nat \ {0}, NEW header, IsRow(header, h),
           NEW n, NEW voice, IsRow(voice, n),
           NEW tail, IsRow(tail, SuffixLen(c.mode)),
           NEW nonce, nonce = Nonce(IF c.mode = "Normal" THEN header ELSE tail),
           NEW cipher, cipher = Ciphertext(c.key, nonce, voice),
           NEW whole, whole = header \o (<<Tag(c.key, nonce, cipher)>> \o cipher \o tail)
    PROVE  Carries(c, whole, h, n, voice) /\ Begins(whole, h, header)
<1> DEFINE tag == Tag(c.key, nonce, cipher)
           m == SuffixLen(c.mode)
           one == <<tag>>
           a == one \o cipher
           b == a \o tail
<1>0. n \in Nat /\ m \in Nat
  BY SuffixLens DEF IsRow
<1>1. IsRow(one, 1) /\ one[1] = tag
  BY DEF IsRow
<1>2. IsRow(cipher, n)
  BY CipherRow
<1> HIDE DEF tag, one, m
<1>a. a = one \o cipher
  OBVIOUS
<1>b. b = a \o tail /\ IsRow(tail, m)
  BY DEF m
<1>c. whole = header \o b
  BY DEF one, tag
<1> HIDE DEF a, b
<1>3. Joins(a, 1, one, n, cipher)
  BY <1>1, <1>2, <1>a, Joined
<1>4. Joins(b, 1 + n, a, m, tail)
  <2>1. IsRow(a, 1 + n)
    BY <1>3 DEF Joins
  <2>2. QED
    BY <1>b, <2>1, Joined
<1>5. Joins(whole, h, header, 1 + n + m, b)
  <2>1. IsRow(b, 1 + n + m)
    BY <1>4 DEF Joins
  <2>2. QED
    BY <1>c, <2>1, Joined
<1>6. IsRow(whole, h + 1 + n + m)
  <2>1. h + (1 + n + m) = h + 1 + n + m
    BY <1>0
  <2>2. QED
    BY <1>5, <2>1 DEF Joins
<1>7. Len(whole) = h + 1 + n + m
  BY <1>6, Row
<1>8. whole[h + 1] = tag
  <2>1. 1 \in 1 .. 1 + n + m /\ 1 \in 1 .. 1 + n /\ 1 \in 1 .. 1
    BY <1>0
  <2>2. whole[h + 1] = b[1] /\ b[1] = a[1] /\ a[1] = one[1]
    BY <1>3, <1>4, <1>5, <2>1 DEF Joins
  <2>3. QED
    BY <1>1, <2>2
<1>9. ASSUME NEW i \in 1 .. n PROVE whole[h + 1 + i] = cipher[i]
  <2> DEFINE j == 1 + i
  <2>1. j \in 1 .. 1 + n + m /\ j \in 1 .. 1 + n /\ h + j = h + 1 + i
    BY <1>0
  <2>2. whole[h + j] = b[j] /\ b[j] = a[j]
    BY <1>4, <1>5, <2>1 DEF Joins
  <2>3. a[j] = cipher[i]
    BY <1>3 DEF Joins
  <2>4. QED
    BY <2>1, <2>2, <2>3
<1>10. \A i \in 1 .. h : whole[i] = header[i]
  BY <1>5 DEF Joins
<1>d. ASSUME NEW i \in 1 .. m PROVE whole[h + 1 + n + i] = tail[i]
  <2> DEFINE j == 1 + n + i
  <2>1. j \in 1 .. 1 + n + m /\ h + j = h + 1 + n + i
    BY <1>0
  <2>2. whole[h + j] = b[j]
    BY <1>5, <2>1 DEF Joins
  <2>3. b[j] = tail[i]
    BY <1>4 DEF Joins
  <2>4. QED
    BY <2>1, <2>2, <2>3
<1>11. NonceIn(c, whole, h, n) = nonce
  <2>1. CASE c.mode = "Normal"
    <3> DEFINE part == SubSeq(whole, 1, h)
    <3>0. 1 \in Int /\ h \in Int /\ h >= 1 - 1 /\ h = h - 1 + 1 /\ part = SubSeq(whole, 1, h)
      OBVIOUS
    <3> HIDE DEF part
    <3>1. IsPart(part, whole, 1, h)
      BY <3>0, Part
    <3>2. IsRow(part, h) /\ \A i \in 1 .. h : part[i] = header[i]
      <4>1. \A i \in 1 .. h : 1 + i - 1 = i
        OBVIOUS
      <4>2. QED
        BY <1>10, <3>1, <4>1 DEF IsPart
    <3>3. part = header
      BY <3>2, SameRow
    <3>4. QED
      BY <2>1, <3>3 DEF NonceIn, part
  <2>2. CASE c.mode # "Normal"
    <3> DEFINE from == h + 1 + n + 1
               to == Len(whole)
               part == SubSeq(whole, from, to)
    <3>1. from \in Int /\ to \in Int /\ to >= from - 1 /\ m = to - from + 1
      BY <1>0, <1>7
    <3>a. part = SubSeq(whole, from, to)
      OBVIOUS
    <3> HIDE DEF from, to, part
    <3>2. IsPart(part, whole, from, m)
      BY <3>1, <3>a, Part
    <3>3. ASSUME NEW i \in 1 .. m PROVE part[i] = tail[i]
      <4>1. from + i - 1 = h + 1 + n + i
        BY <1>0 DEF from
      <4>2. part[i] = whole[from + i - 1]
        BY <3>2 DEF IsPart
      <4>3. whole[h + 1 + n + i] = tail[i]
        BY <1>d
      <4>4. QED
        BY <4>1, <4>2, <4>3
    <3>4. part = tail
      BY <1>b, <3>2, <3>3, SameRow DEF IsPart
    <3>5. QED
      BY <2>2, <3>4 DEF NonceIn, TagLen, part, from, to
  <2>3. QED
    BY <2>1, <2>2
<1>12. QED
  <2>1. Carries(c, whole, h, n, voice)
    BY <1>6, <1>8, <1>9, <1>11 DEF Carries, TagLen, tag, m
  <2>2. QED
    BY <1>10, <2>1 DEF Begins

\* Who has the key reads the voice from a packet that carries it.
LEMMA CarriedIsRead ==
    ASSUME NEW c, c.mode \in Modes, NEW h \in Nat \ {0}, NEW n, NEW voice, NEW packet,
           Carries(c, packet, h, n, voice)
    PROVE  LET opened == DecryptPacket(c, packet, h)
           IN  /\ opened.ok /\ opened.from = h + TagLen /\ opened.to = h + TagLen + n
               /\ IsRow(opened.packet, h + TagLen + n + SuffixLen(c.mode))
               /\ \A i \in 1 .. h : opened.packet[i] = packet[i]
               /\ SubSeq(opened.packet, opened.from + 1, opened.to) = voice
<1> DEFINE m == SuffixLen(c.mode)
           from == h + TagLen
           end == Len(packet) - m
           nonce == NonceIn(c, packet, h, n)
           cipher == SubSeq(packet, from + 1, end)
           text == Plaintext(cipher)
           clear == Written(packet, from, text)
<1>0. n \in Nat /\ m \in Nat /\ IsRow(packet, from + n + m) /\ IsRow(voice, n) /\ from \in Nat \ {0}
  <2>1. IsRow(packet, from + n + m) /\ IsRow(voice, n)
    BY DEF Carries
  <2>2. m \in Nat
    BY SuffixLens
  <2>3. n \in Nat
    BY <2>1 DEF IsRow
  <2>4. from \in Nat \ {0}
    BY DEF TagLen
  <2>5. QED
    BY <2>1, <2>2, <2>3, <2>4
<1>1. Len(packet) = from + n + m /\ DOMAIN packet = 1 .. from + n + m
  BY <1>0, Row
<1>2. end = from + n
  BY <1>0, <1>1
<1>3. cipher = Ciphertext(c.key, nonce, voice)
  <2> DEFINE d == Ciphertext(c.key, nonce, voice)
             first == from + 1
  <2>1. IsRow(d, n) /\ \A i \in 1 .. n : packet[from + i] = d[i]
    BY <1>0, CipherRow DEF Carries
  <2>2. first \in Int /\ end \in Int /\ end >= first - 1 /\ n = end - first + 1
    BY <1>0, <1>2
  <2>a. cipher = SubSeq(packet, first, end)
    OBVIOUS
  <2> HIDE DEF end, first, d, cipher
  <2>3. IsPart(cipher, packet, first, n)
    BY <2>2, <2>a, Part
  <2>4. \A i \in 1 .. n : cipher[i] = d[i]
    <3>1. \A i \in 1 .. n : first + i - 1 = from + i
      BY <1>0 DEF first
    <3>2. QED
      BY <2>1, <2>3, <3>1 DEF IsPart
  <2>5. QED
    BY <2>1, <2>3, <2>4, SameRow DEF d, IsPart
<1>4. packet[from] = Tag(c.key, nonce, cipher)
  BY <1>3 DEF Carries
<1>5. nonce = Nonce(IF c.mode = "Normal" THEN SubSeq(packet, 1, h) ELSE SubSeq(packet, end + 1, Len(packet)))
  BY <1>2 DEF NonceIn
<1>6. DecryptPacket(c, packet, h) = Good(clear, from, end)
  <2>1. ~(end < from)
    BY <1>0, <1>2
  <2>2. QED
    BY <1>4, <1>5, <2>1 DEF DecryptPacket
<1>7. /\ IsRow(text, n)
      /\ \A i \in 1 .. n : text[i] = voice[i]
  <2>1. IsRow(cipher, n) /\ \A i \in 1 .. n : cipher[i] = <<"enc", voice[i], c.key, nonce>>
    <3> HIDE DEF cipher, nonce
    <3>1. QED
      BY <1>0, <1>3, CipherRow
  <2> HIDE DEF cipher, nonce
  <2>2. DOMAIN cipher = 1 .. n
    BY <2>1, Row
  <2>3. QED
    BY <1>0, <2>1, <2>2 DEF Plaintext, IsRow
<1> HIDE DEF cipher, text, nonce
<1>8. DOMAIN text = 1 .. n
  BY <1>7, Row
<1>9. /\ IsRow(clear, from + n + m)
      /\ \A i \in 1 .. from : clear[i] = packet[i]
      /\ \A i \in 1 .. n : clear[from + i] = voice[i]
  <2>1. IsRow(clear, from + n + m)
    BY <1>0, <1>1 DEF IsRow, Written
  <2>2. \A i \in 1 .. from : clear[i] = packet[i]
    BY <1>0, <1>1, <1>8 DEF Written
  <2>3. ASSUME NEW i \in 1 .. n PROVE clear[from + i] = voice[i]
    <3>1. from + i \in DOMAIN packet /\ (from + i) - from = i
      BY <1>0, <1>1
    <3> HIDE DEF from
    <3> DEFINE at == from + i
    <3>2. at \in DOMAIN packet /\ at - from \in DOMAIN text
      BY <1>8, <3>1
    <3> HIDE DEF at
    <3>3. clear[at] = text[at - from]
      BY <3>2, WrittenOver
    <3>4. QED
      BY <1>7, <3>1, <3>3 DEF at
  <2>4. QED
    BY <2>1, <2>2, <2>3
<1> HIDE DEF clear
<1>10. SubSeq(clear, from + 1, end) = voice
  <2> DEFINE first == from + 1
             part == SubSeq(clear, first, end)
  <2>1. first \in Int /\ end \in Int /\ end >= first - 1 /\ n = end - first + 1
    BY <1>0, <1>2
  <2>a. part = SubSeq(clear, first, end)
    OBVIOUS
  <2> HIDE DEF end, first, part
  <2>2. IsPart(part, clear, first, n)
    BY <2>1, <2>a, Part
  <2>3. \A i \in 1 .. n : part[i] = voice[i]
    <3>1. \A i \in 1 .. n : first + i - 1 = from + i
      BY <1>0 DEF first
    <3>2. QED
      BY <1>9, <2>2, <3>1 DEF IsPart
  <2>4. QED
    BY <1>0, <2>2, <2>3, SameRow DEF part, first, IsPart
<1>11. \A i \in 1 .. h : clear[i] = packet[i]
  BY <1>9 DEF TagLen
<1>12. QED
  BY <1>2, <1>6, <1>9, <1>10, <1>11 DEF Good

\* The parts of a packet, and how they are put together.
Fits(c, h, header, n, voice, cells, tail) ==
    /\ c.mode \in Modes /\ IsRow(header, h) /\ IsRow(voice, n)
    /\ IsRow(tail, SuffixLen(c.mode)) /\ tail = (IF c.mode = "Normal" THEN <<>> ELSE cells)
    /\ cells = (IF c.mode = "Normal" THEN header ELSE tail)
Whole(c, header, voice, cells, tail) ==
    LET cipher == Ciphertext(c.key, Nonce(cells), voice)
    IN  header \o (<<Tag(c.key, Nonce(cells), cipher)>> \o cipher \o tail)

\* The parts lie where encrypt_packet expects them.
Ready(b, header, len, voice) ==
    /\ IsRow(b, BufLen) /\ b[1] = header[1] /\ b[2] = header[2]
    /\ \A i \in 1 .. len : b[3 + i] = voice[i]

\* encrypt_packet leaves header, tag, ciphertext and tail at the front of the
\* buffer, whatever else the buffer held.
Encrypts(enc, c, len, whole) ==
    /\ IsRow(enc.buf, BufLen)
    /\ enc.size = 3 + len + SuffixLen(c.mode) /\ enc.size \in 0 .. MaxPacket
    /\ SubSeq(enc.buf, 1, enc.size) = whole

LEMMA Encrypted ==
    ASSUME NEW c, NEW header, NEW len \in 0 .. MaxOpus, NEW voice, NEW cells, NEW tail,
           Fits(c, 2, header, len, voice, cells, tail),
           NEW b, Ready(b, header, len, voice)
    PROVE  Encrypts(EncryptPacket(b, c, len, cells), c, len, Whole(c, header, voice, cells, tail))
<1> DEFINE cipher == Ciphertext(c.key, Nonce(cells), voice)
<1> cipher = Ciphertext(c.key, Nonce(cells), voice)
  OBVIOUS
<1> /\ c.mode \in Modes /\ IsRow(header, 2) /\ IsRow(voice, len) /\ IsRow(tail, SuffixLen(c.mode))
    /\ tail = (IF c.mode = "Normal" THEN <<>> ELSE cells)
  BY DEF Fits
<1> /\ IsRow(b, BufLen) /\ b[1] = header[1] /\ b[2] = header[2]
    /\ \A i \in 1 .. len : b[3 + i] = voice[i]
  BY DEF Ready
<1> HIDE DEF cipher
<1> DEFINE m == SuffixLen(c.mode)
           size == 3 + len + m
           one == <<Tag(c.key, Nonce(cells), cipher)>>
           u == one \o cipher
           t == u \o tail
           w == Written(b, 2, t)
           p == SubSeq(w, 1, size)
<1>0. /\ m \in 0 .. 3 /\ len \in Nat /\ size \in Nat /\ size <= MaxPacket /\ MaxPacket <= BufLen
      /\ MaxPacket \in Nat /\ BufLen \in Nat
  <2>1. m \in 0 .. 3
    BY SuffixLens
  <2>2. len \in Nat /\ len <= MaxPacket - 6
    BY PacketAssumption DEF MaxOpus, HeaderLen, TagLen, NonceLen
  <2>3. QED
    BY <2>1, <2>2, PacketAssumption
<1>1. SubSeq(b, 4, 3 + len) = voice
  <2> DEFINE r == SubSeq(b, 4, 3 + len)
             to == 3 + len
  <2>1. 4 \in Int /\ to \in Int /\ to >= 4 - 1 /\ len = to - 4 + 1 /\ r = SubSeq(b, 4, to)
    BY <1>0
  <2> HIDE DEF r, to
  <2>2. IsPart(r, b, 4, len)
    BY <2>1, Part
  <2>3. ASSUME NEW i \in 1 .. len PROVE r[i] = voice[i]
    <3>1. 4 + i - 1 = 3 + i
      BY <1>0
    <3>2. r[i] = b[4 + i - 1]
      BY <2>2 DEF IsPart
    <3>3. QED
      BY <3>1, <3>2
  <2>4. QED
    BY <2>2, <2>3, SameRow DEF r, IsPart
<1>2. EncryptPacket(b, c, len, cells) = [buf |-> w, size |-> size]
  <2>1. HeaderLen("Rtp") = 2 /\ 2 + TagLen = 3 /\ 3 + 1 = 4
    BY DEF HeaderLen, TagLen
  <2>2. QED
    BY <1>1, <2>1 DEF EncryptPacket
<1>3. IsRow(cipher, len)
  BY CipherRow
<1>4. IsRow(one, 1)
  BY DEF IsRow
<1> HIDE DEF one, u
<1>5. IsRow(u, 1 + len)
  <2>1. Joins(u, 1, one, len, cipher)
    BY <1>3, <1>4, Joined DEF u
  <2>2. QED
    BY <2>1 DEF Joins
<1> HIDE DEF t, m
<1>6. IsRow(t, 1 + len + m)
  <2>0. IsRow(tail, m) /\ t = u \o tail
    BY DEF m, t
  <2>1. Joins(t, 1 + len, u, m, tail)
    BY <1>5, <2>0, Joined
  <2>2. QED
    BY <2>1 DEF Joins
<1>7. DOMAIN t = 1 .. 1 + len + m
  BY <1>6, Row
<1>8. DOMAIN b = 1 .. BufLen
  BY Row
<1>9. IsRow(w, BufLen)
  BY <1>0, <1>8 DEF IsRow, Written
<1>10. IsRow(p, size) /\ \A i \in 1 .. size : p[i] = w[i]
  <2>1. 1 \in Int /\ size \in Int /\ size >= 1 - 1 /\ size = size - 1 + 1 /\ p = SubSeq(w, 1, size)
    BY <1>0
  <2> HIDE DEF size, w, p
  <2>2. IsPart(p, w, 1, size)
    BY <2>1, Part
  <2>3. \A i \in 1 .. size : 1 + i - 1 = i
    BY <2>1
  <2>4. QED
    BY <2>2, <2>3 DEF IsPart
<1> HIDE DEF w, p
<1>11. ASSUME NEW i \in 1 .. 2 PROVE p[i] = header[i]
  <2>1. i \in DOMAIN b /\ i - 2 \notin 1 .. 1 + len + m /\ i \in 1 .. size /\ i \in {1, 2}
    BY <1>0, <1>8
  <2>a. i \in DOMAIN b /\ i - 2 \notin DOMAIN t
    BY <1>7, <2>1
  <2>2. w[i] = b[i]
    BY <2>a, WrittenBeside DEF w
  <2>3. b[i] = header[i]
    BY <2>1
  <2>4. QED
    BY <1>10, <2>1, <2>2, <2>3
<1>12. ASSUME NEW i \in 1 .. 1 + len + m PROVE p[2 + i] = t[i]
  <2> DEFINE j == 2 + i
  <2>1. j \in DOMAIN b /\ j - 2 = i /\ j \in 1 .. size
    BY <1>0, <1>8
  <2> HIDE DEF j
  <2>a. j \in DOMAIN b /\ j - 2 \in DOMAIN t
    BY <1>7, <2>1
  <2>2. w[j] = t[j - 2]
    BY <2>a, WrittenOver DEF w
  <2>3. QED
    BY <1>10, <2>1, <2>2 DEF j
<1>13. p = header \o t
  <2> DEFINE v == header \o t
  <2>0. v = header \o t
    OBVIOUS
  <2> HIDE DEF v
  <2>1. Joins(v, 2, header, 1 + len + m, t)
    BY <1>6, <2>0, Joined
  <2>2. 2 + (1 + len + m) = size
    BY <1>0
  <2>3. IsRow(v, size)
    BY <2>1, <2>2 DEF Joins
  <2>4. ASSUME NEW i \in 1 .. size PROVE p[i] = v[i]
    <3>1. CASE i \in 1 .. 2
      BY <1>11, <2>1, <3>1 DEF Joins
    <3>2. CASE i \notin 1 .. 2
      <4> DEFINE j == i - 2
      <4>1. j \in 1 .. 1 + len + m /\ 2 + j = i
        BY <1>0, <3>2
      <4> HIDE DEF j
      <4>2. p[2 + j] = t[j] /\ v[2 + j] = t[j]
        BY <1>12, <2>1, <4>1 DEF Joins
      <4>3. QED
        BY <4>1, <4>2
    <3>3. QED
      BY <3>1, <3>2
  <2> HIDE DEF size
  <2>5. p = v
    BY <1>10, <2>3, <2>4, SameRow
  <2>6. QED
    BY <2>0, <2>5
<1>14. size \in 0 .. MaxPacket
  BY <1>0
<1>15. SubSeq(w, 1, size) = header \o (<<Tag(c.key, Nonce(cells), cipher)>> \o cipher \o tail)
  BY <1>13 DEF p, t, u, one
<1>16. QED
  <2> DEFINE enc == EncryptPacket(b, c, len, cells)
  <2> HIDE DEF size
  <2>1. enc.buf = w /\ enc.size = size
    BY <1>2
  <2>2. QED
    BY <1>9, <1>14, <1>15, <2>1 DEF size, m, cipher, Encrypts, Whole

-----------------------------------------------------------------------------
(***************************************************************************)
(* The packets that are sent.                                              *)
(***************************************************************************)

\* The buffer is whole and the last packet is no longer than it may be and,
\* while its key is the present one, holds its payload.
Layout == /\ IsRow(buf, BufLen)
          /\ Len(out.packet) <= MaxPacket
          /\ out # NoPacket => Len(nonces) >= 1
          /\ (out # NoPacket /\ nonces[Len(nonces)].key = crypto.key)
                => \E n \in Nat : Carries(crypto, out.packet, 2, n, out.payload)

LEMMA CarriesStays ==
    ASSUME NEW c, NEW d, d.key = c.key, d.mode = c.mode,
           NEW packet, NEW h, NEW n, NEW voice, Carries(c, packet, h, n, voice)
    PROVE  Carries(d, packet, h, n, voice)
<1>1. NonceIn(d, packet, h, n) = NonceIn(c, packet, h, n)
  BY DEF NonceIn
<1>2. QED
  BY <1>1 DEF Carries

\* The suffix of a packet is as long as its mode says.
LEMMA TailRow ==
    ASSUME NEW c, c.mode \in Modes, NEW header, NEW n, NEW cells, cells = NonceCells(c, header, n),
           NEW tail, tail = (IF c.mode = "Normal" THEN <<>> ELSE cells)
    PROVE  /\ IsRow(tail, SuffixLen(c.mode))
           /\ cells = IF c.mode = "Normal" THEN header ELSE tail
<1>1. CASE c.mode = "Normal"
  BY <1>1, NoRow DEF NonceCells, SuffixLen
<1>2. CASE c.mode = "Suffix"
  <2>1. SuffixLen(c.mode) = 3 /\ tail = cells /\ cells = [i \in 1 .. 3 |-> <<"random", n, i>>]
    BY <1>2 DEF NonceCells, SuffixLen, NonceLen
  <2>2. QED
    BY <1>2, <2>1 DEF IsRow
<1>3. CASE c.mode = "Lite"
  <2> DEFINE cell == <<"counter", c.counter>>
  <2>1. SuffixLen(c.mode) = 1 /\ tail = cells /\ cells = <<cell>>
    BY <1>3 DEF NonceCells, SuffixLen
  <2> HIDE DEF cell
  <2>2. IsRow(cells, 1)
    BY <2>1 DEF IsRow
  <2>3. QED
    BY <1>3, <2>1, <2>2
<1>4. QED
  BY <1>1, <1>2, <1>3 DEF Modes

LEMMA FittingCarries ==
    ASSUME NEW c, NEW h \in Nat \ {0}, NEW header, NEW n, NEW voice, NEW cells, NEW tail,
           Fits(c, h, header, n, voice, cells, tail),
           NEW packet, packet = Whole(c, header, voice, cells, tail)
    PROVE  Carries(c, packet, h, n, voice) /\ Begins(packet, h, header)
<1> DEFINE nonce == Nonce(cells)
           cipher == Ciphertext(c.key, nonce, voice)
<1>1. cipher = Ciphertext(c.key, nonce, voice)
  OBVIOUS
<1>2. packet = header \o (<<Tag(c.key, nonce, cipher)>> \o cipher \o tail)
  BY DEF Whole
<1>3. nonce = Nonce(IF c.mode = "Normal" THEN header ELSE tail)
  BY DEF Fits
<1>4. c.mode \in Modes /\ IsRow(header, h) /\ IsRow(voice, n) /\ IsRow(tail, SuffixLen(c.mode))
  BY DEF Fits
<1> HIDE DEF nonce, cipher
<1>5. QED
  BY <1>1, <1>2, <1>3, <1>4, WholeCarries

\* send_voice writes header and payload into the buffer before it is encrypted.
LEMMA Assembled ==
    ASSUME NEW b, IsRow(b, BufLen), NEW len \in 0 .. MaxOpus, NEW header, IsRow(header, 2),
           NEW voice, IsRow(voice, len), NEW clear, clear = Written(Written(b, 0, header), 3, voice)
    PROVE  /\ IsRow(clear, BufLen) /\ clear[1] = header[1] /\ clear[2] = header[2]
           /\ \A i \in 1 .. len : clear[3 + i] = voice[i]
<1> DEFINE top == Written(b, 0, header)
<1>0. BufLen \in Nat /\ len \in Nat /\ 3 + len <= BufLen /\ 2 <= BufLen
  BY PacketAssumption DEF MaxOpus, HeaderLen, TagLen, NonceLen
<1>1. DOMAIN b = 1 .. BufLen /\ DOMAIN header = 1 .. 2 /\ DOMAIN voice = 1 .. len
  BY Row
<1>2. DOMAIN top = 1 .. BufLen
  BY <1>1 DEF Written
<1>3. top[1] = header[1] /\ top[2] = header[2]
  <2>1. 1 \in DOMAIN b /\ 2 \in DOMAIN b /\ 1 - 0 = 1 /\ 2 - 0 = 2 /\ 1 \in DOMAIN header /\ 2 \in DOMAIN header
    BY <1>0, <1>1
  <2>2. QED
    BY <2>1 DEF Written
<1> HIDE DEF top
<1>4. clear = Written(top, 3, voice)
  BY DEF top
<1>5. IsRow(clear, BufLen)
  BY <1>0, <1>2, <1>4 DEF Written, IsRow
<1>6. clear[1] = top[1] /\ clear[2] = top[2]
  <2>1. 1 \in DOMAIN top /\ 2 \in DOMAIN top /\ 1 - 3 \notin DOMAIN voice /\ 2 - 3 \notin DOMAIN voice
    BY <1>0, <1>1, <1>2
  <2>2. QED
    BY <1>4, <2>1, WrittenBeside
<1>7. ASSUME NEW i \in 1 .. len PROVE clear[3 + i] = voice[i]
  <2> DEFINE j == 3 + i
  <2>1. j \in DOMAIN top /\ j - 3 = i /\ j - 3 \in DOMAIN voice
    BY <1>0, <1>1, <1>2
  <2> HIDE DEF j
  <2>2. clear[j] = voice[j - 3]
    BY <1>4, <2>1, WrittenOver
  <2>3. QED
    BY <2>1, <2>2 DEF j
<1>8. QED
  BY <1>3, <1>5, <1>6, <1>7

LEMMA LayoutInit == Init => Layout
<1> SUFFICES ASSUME Init PROVE Layout
  OBVIOUS
<1>1. IsRow(buf, BufLen)
  BY PacketAssumption DEF Init, IsRow
<1>2. out = NoPacket /\ Len(out.packet) = 0
  BY DEF Init, NoPacket
<1>3. QED
  BY <1>1, <1>2, PacketAssumption DEF Layout

LEMMA SendVoiceLayout ==
    ASSUME Numbers, NoncesUsed, Layout, NEW len \in 0 .. MaxOpus, SendVoice(len)
    PROVE  Layout'
<1> DEFINE header == <<Plain(sequence), Plain(timestamp)>>
           voice == Payload(frames, len)
           clear == Written(Written(buf, 0, header), 3, voice)
           cells == NonceCells(crypto, header, frames)
           nonce == Nonce(cells)
           tail == IF crypto.mode = "Normal" THEN <<>> ELSE cells
           enc == EncryptPacket(clear, crypto, len, cells)
           packet == SubSeq(enc.buf, 1, enc.size)
<1>1. /\ buf' = enc.buf /\ out' = [packet |-> packet, payload |-> voice]
      /\ nonces' = Append(nonces, [key |-> crypto.key, mode |-> crypto.mode,
                                   nonce |-> nonce, frame |-> frames])
  <2>1. HeaderLen("Rtp") + TagLen = 3
    BY DEF HeaderLen, TagLen
  <2>2. QED
    BY <2>1 DEF SendVoice
<1>2. crypto.mode \in Modes /\ crypto'.mode = crypto.mode /\ crypto'.key = crypto.key
  BY NumbersAdvance DEF Numbers
<1>3. IsRow(header, 2)
  BY DEF IsRow
<1>4. IsRow(voice, len)
  <2>1. len \in Nat
    OBVIOUS
  <2>2. QED
    BY <2>1 DEF IsRow, Payload
<1>5. tail = (IF crypto.mode = "Normal" THEN <<>> ELSE cells)
  OBVIOUS
<1>6. cells = NonceCells(crypto, header, frames) /\ clear = Written(Written(buf, 0, header), 3, voice)
  OBVIOUS
<1>b. enc = EncryptPacket(clear, crypto, len, cells)
  OBVIOUS
<1>c. packet = SubSeq(enc.buf, 1, enc.size)
  OBVIOUS
<1> HIDE DEF header, voice, clear, cells, nonce, tail, enc, packet
<1>7. Fits(crypto, 2, header, len, voice, cells, tail)
  BY <1>2, <1>3, <1>4, <1>5, <1>6, TailRow DEF Fits
<1>8. Ready(clear, header, len, voice)
  BY <1>3, <1>4, <1>6, Assembled DEF Layout, Ready
<1>9. /\ IsRow(enc.buf, BufLen)
      /\ enc.size = 3 + len + SuffixLen(crypto.mode) /\ enc.size \in 0 .. MaxPacket
      /\ packet = Whole(crypto, header, voice, cells, tail)
  <2>1. /\ IsRow(enc.buf, BufLen)
        /\ enc.size = 3 + len + SuffixLen(crypto.mode) /\ enc.size \in 0 .. MaxPacket
        /\ SubSeq(enc.buf, 1, enc.size) = Whole(crypto, header, voice, cells, tail)
    <3>1. Encrypts(EncryptPacket(clear, crypto, len, cells), crypto, len,
                   Whole(crypto, header, voice, cells, tail))
      BY <1>7, <1>8, Encrypted
    <3>2. QED
      BY <1>b, <3>1 DEF Encrypts
  <2>2. QED
    BY <1>c, <2>1
<1>10. Carries(crypto, packet, 2, len, voice)
  <2>1. 2 \in Nat \ {0} /\ packet = Whole(crypto, header, voice, cells, tail)
    BY <1>9
  <2>2. QED
    BY <1>7, <2>1, FittingCarries
<1>11. Len(packet) <= MaxPacket
  <2>1. IsRow(packet, 2 + TagLen + len + SuffixLen(crypto.mode))
    BY <1>10 DEF Carries
  <2>2. Len(packet) = 2 + TagLen + len + SuffixLen(crypto.mode)
    BY <2>1, Row
  <2>3. SuffixLen(crypto.mode) \in 0 .. 3
    BY <1>2, SuffixLens
  <2>4. QED
    BY <1>9, <2>2, <2>3, PacketAssumption DEF TagLen
<1>12. Len(nonces') >= 1
  <2>1. Len(nonces) \in Nat /\ Len(nonces') = Len(nonces) + 1
    BY <1>1, Appended DEF NoncesUsed
  <2>2. QED
    BY <2>1
<1>13. \E n \in Nat : Carries(crypto, packet, 2, n, voice)
  BY <1>10
<1>14. \E n \in Nat : Carries(crypto', packet, 2, n, voice)
  BY <1>2, <1>13, CarriesStays
<1>15. out'.packet = packet /\ out'.payload = voice
  BY <1>1
<1>16. QED
  BY <1>1, <1>9, <1>11, <1>12, <1>14, <1>15 DEF Layout

LEMMA LayoutKept == Numbers /\ NoncesUsed /\ Layout /\ [Next]_vars => Layout'
<1> SUFFICES ASSUME Numbers, NoncesUsed, Layout, [Next]_vars PROVE Layout'
  OBVIOUS
<1>1. CASE UNCHANGED vars
  BY <1>1 DEF vars, Layout
<1>2. ASSUME NEW mode \in Modes, NEW counter \in {0, CounterMod - 1}, SetKey(mode, counter)
      PROVE  Layout'
  <2>1. UNCHANGED <<buf, out, nonces>> /\ crypto'.key = crypto.key + 1
    BY <1>2 DEF SetKey
  <2>2. out # NoPacket => nonces[Len(nonces)].key # crypto'.key
    <3> SUFFICES ASSUME out # NoPacket PROVE nonces[Len(nonces)].key # crypto'.key
      OBVIOUS
    <3> DEFINE n == Len(nonces)
    <3>1. n \in Nat /\ n >= 1
      BY DEF NoncesUsed, Layout
    <3>2. nonces[n].key \in 0 .. crypto.key
      <4>1. n \in 1 .. Len(nonces)
        BY <3>1
      <4>2. Used(nonces[n], n, Len(nonces), crypto, frames)
        BY <4>1 DEF NoncesUsed
      <4>3. QED
        BY <4>2 DEF Used
    <3>3. crypto.key \in Nat
      BY PacketAssumption DEF Numbers
    <3> HIDE DEF n
    <3>4. nonces[n].key # crypto.key + 1
      BY <3>2, <3>3
    <3>5. QED
      BY <2>1, <3>4 DEF n
  <2>3. QED
    BY <2>1, <2>2 DEF Layout
<1>3. CASE FrameFails
  BY <1>3 DEF FrameFails, Layout
<1>4. ASSUME NEW len \in 0 .. MaxOpus, SendVoice(len) PROVE Layout'
  BY <1>4, SendVoiceLayout
<1>5. QED
  BY <1>1, <1>2, <1>3, <1>4 DEF Next

-----------------------------------------------------------------------------
(***************************************************************************)
(* Packets that are received.                                              *)
(***************************************************************************)

\* decrypt_packet refuses a tag of another key, or for another ciphertext than
\* the one in the packet, which a packet cut off anywhere has.
LEMMA OtherTagRefused ==
    ASSUME NEW c, c.mode \in Modes, NEW h \in Nat \ {0}, NEW len, NEW packet, IsRow(packet, len),
           NEW k, NEW cipher, IsRow(cipher, k), NEW key, NEW nonce,
           h + 1 <= len => packet[h + 1] = Tag(key, nonce, cipher),
           key # c.key \/ len # h + 1 + k + SuffixLen(c.mode)
    PROVE  DecryptPacket(c, packet, h) = Error
<1> DEFINE m == SuffixLen(c.mode)
           end == Len(packet) - m
           from == h + TagLen
           used == Nonce(IF c.mode = "Normal" THEN SubSeq(packet, 1, h) ELSE SubSeq(packet, end + 1, Len(packet)))
           body == SubSeq(packet, from + 1, end)
<1>0. m \in 0 .. 3 /\ k \in Nat /\ len \in Nat /\ Len(packet) = len /\ from = h + 1
  BY SuffixLens, Row DEF TagLen, IsRow
<1>1. SUFFICES ASSUME ~(end < from), packet[from] = Tag(c.key, used, body) PROVE FALSE
  BY DEF DecryptPacket
<1>2. h + 1 <= len /\ end = len - m
  BY <1>0, <1>1
<1>3. Tag(c.key, used, body) = Tag(key, nonce, cipher)
  BY <1>0, <1>1, <1>2
<1> HIDE DEF used
<1>4. c.key = key /\ body = cipher
  <2> HIDE DEF body
  <2>1. QED
    BY <1>3 DEF Tag
<1>5. IsRow(body, end - from)
  <2> DEFINE first == from + 1
             size == end - from
  <2>1. first \in Int /\ end \in Int /\ end >= first - 1 /\ size = end - first + 1
    BY <1>0, <1>1, <1>2
  <2>2. body = SubSeq(packet, first, end)
    OBVIOUS
  <2> HIDE DEF first, size, body, end
  <2>3. IsPart(body, packet, first, size)
    BY <2>1, <2>2, Part
  <2>4. QED
    BY <2>3 DEF IsPart, size
<1>6. Len(body) = end - from /\ Len(cipher) = k
  <2> HIDE DEF body, end, from
  <2>1. QED
    BY <1>5, Row
<1>7. len = h + 1 + k + m
  <2> HIDE DEF body
  <2>1. k = end - from
    BY <1>4, <1>6
  <2>2. QED
    BY <1>0, <1>2, <2>1
<1>8. QED
  BY <1>4, <1>7

\* A packet from which some cells at the end are missing.
IsCut(packet, whole, cut) == packet = SubSeq(whole, 1, Len(whole) - cut)
IsFront(packet, len, whole, size, cut) ==
    /\ IsRow(packet, len) /\ len <= size /\ (cut # 0 /\ size # 0 => len # size)
    /\ \A i \in 1 .. len : packet[i] = whole[i]

LEMMA CutOff ==
    ASSUME NEW size, NEW whole, IsRow(whole, size), NEW cut \in Nat,
           NEW packet, IsCut(packet, whole, cut)
    PROVE  /\ cut = 0 => packet = whole
           /\ \E len \in Nat : IsFront(packet, len, whole, size, cut)
<1>0. size \in Nat /\ Len(whole) = size
  BY Row
<1>1. CASE cut <= size
  <2> DEFINE len == size - cut
  <2>1. 1 \in Int /\ len \in Int /\ len >= 1 - 1 /\ len = len - 1 + 1 /\ packet = SubSeq(whole, 1, len)
    BY <1>0, <1>1 DEF IsCut
  <2> HIDE DEF len
  <2>2. IsPart(packet, whole, 1, len)
    BY <2>1, Part
  <2>3. \A i \in 1 .. len : 1 + i - 1 = i
    BY <2>1
  <2>4. len \in Nat /\ IsRow(packet, len) /\ \A i \in 1 .. len : packet[i] = whole[i]
    BY <2>2, <2>3 DEF IsPart, IsRow
  <2>5. len <= size /\ (cut # 0 => len # size) /\ (cut = 0 => len = size)
    BY <1>0 DEF len
  <2>6. cut = 0 => packet = whole
    BY <2>4, <2>5, SameRow
  <2>7. IsFront(packet, len, whole, size, cut)
    BY <2>4, <2>5 DEF IsFront
  <2>8. QED
    BY <2>4, <2>6, <2>7
<1>2. CASE cut > size
  <2> DEFINE to == size - cut
             S == {whole[i] : i \in 1 .. to}
  <2>1. 1 \in Int /\ to \in Int /\ packet = SubSeq(whole, 1, to) /\ ~(1 <= to)
    BY <1>0, <1>2 DEF IsCut
  <2>2. packet \in Seq(S) /\ Len(packet) = 0
    <3> HIDE DEF to
    <3>1. QED
      BY <2>1, SubSeqProperties
  <2> HIDE DEF S, to
  <2>3. packet = <<>>
    BY <2>2, EmptySeq
  <2>4. IsRow(packet, 0)
    BY <2>3, NoRow
  <2>5. 0 \in Nat /\ 0 <= size /\ (size # 0 => 0 # size) /\ cut # 0 /\ \A i \in 1 .. 0 : packet[i] = whole[i]
    BY <1>0, <1>2
  <2>6. IsFront(packet, 0, whole, size, cut)
    BY <2>4, <2>5 DEF IsFront
  <2>7. QED
    BY <2>5, <2>6
<1>3. cut <= size \/ cut > size
  BY <1>0
<1>4. QED
  BY <1>1, <1>2, <1>3

\* What a packet that was sealed with d is to who reads it with c.
LEMMA SealedOpened ==
    ASSUME NEW c, c.mode \in Modes, NEW d, d.mode = c.mode, NEW h \in Nat \ {0}, NEW k, NEW voice, NEW whole,
           Carries(d, whole, h, k, voice), NEW cut \in Nat,
           NEW packet, IsCut(packet, whole, cut)
    PROVE  /\ (cut = 0 /\ d.key = c.key) => (packet = whole /\ Carries(c, packet, h, k, voice))
           /\ (cut # 0 \/ d.key # c.key) => DecryptPacket(c, packet, h) = Error
<1> DEFINE m == SuffixLen(c.mode)
           size == h + TagLen + k + m
           nonce == NonceIn(d, whole, h, k)
           cipher == Ciphertext(d.key, nonce, voice)
<1>1. /\ IsRow(whole, size) /\ IsRow(voice, k) /\ whole[h + TagLen] = Tag(d.key, nonce, cipher)
  BY DEF Carries
<1>2. cipher = Ciphertext(d.key, nonce, voice)
  OBVIOUS
<1>3. k \in Nat /\ m \in Nat /\ size = h + 1 + k + m /\ size # 0 /\ h + TagLen = h + 1
  <2>1. k \in Nat /\ m \in 0 .. 3
    BY <1>1, SuffixLens DEF IsRow
  <2>2. QED
    BY <2>1 DEF TagLen
<1> HIDE DEF nonce, cipher, size
<1>4. IsRow(cipher, k)
  BY <1>1, <1>2, CipherRow
<1>5. /\ cut = 0 => packet = whole
      /\ \E len \in Nat : IsFront(packet, len, whole, size, cut)
  <2>1. IsRow(whole, size)
    BY <1>1
  <2>2. QED
    BY <2>1, CutOff
<1>6. ASSUME cut = 0, d.key = c.key PROVE packet = whole /\ Carries(c, packet, h, k, voice)
  <2>1. packet = whole
    BY <1>5, <1>6
  <2>2. c.key = d.key /\ c.mode = d.mode
    BY <1>6
  <2>3. Carries(c, whole, h, k, voice)
    BY <2>2, CarriesStays
  <2>4. QED
    BY <2>1, <2>3
<1>7. ASSUME cut # 0 \/ d.key # c.key PROVE DecryptPacket(c, packet, h) = Error
  <2>1. PICK len \in Nat : IsFront(packet, len, whole, size, cut)
    BY <1>5
  <2>2. h + 1 <= len => packet[h + 1] = Tag(d.key, nonce, cipher)
    <3> DEFINE at == h + 1
    <3>1. at <= len => at \in 1 .. len
      OBVIOUS
    <3>2. whole[at] = Tag(d.key, nonce, cipher)
      BY <1>1, <1>3
    <3> HIDE DEF at
    <3>3. at <= len => packet[at] = whole[at]
      BY <2>1, <3>1 DEF IsFront
    <3>4. QED
      BY <3>2, <3>3 DEF at
  <2>3. d.key # c.key \/ len # h + 1 + k + SuffixLen(c.mode)
    <3>1. cut # 0 => len # size
      BY <1>3, <2>1 DEF IsFront
    <3>2. QED
      BY <1>3, <1>7, <3>1
  <2>4. IsRow(packet, len)
    BY <2>1 DEF IsFront
  <2>5. QED
    BY <1>4, <2>2, <2>3, <2>4, OtherTagRefused
<1>8. QED
  BY <1>6, <1>7

\* The plaintext of a packet: the cells of an extension, and the voice behind it.
ExtensionLen(entries) == IF entries = NoExtension THEN 0 ELSE 4 + 4 * entries

LEMMA ExtensionRow ==
    ASSUME NEW entries \in NoExtension .. 1, NEW missing, NEW ext, ext = Extension(entries, missing)
    PROVE  /\ IsRow(ext, ExtensionLen(entries))
           /\ entries # NoExtension
                 => /\ ext[1] = BE /\ ext[2] = DE
                    /\ ext[3] = Plain(0) /\ ext[4] = Plain(entries + missing)
<1>1. CASE entries = NoExtension
  BY <1>1, NoRow DEF Extension, ExtensionLen
<1>2. CASE entries # NoExtension
  <2> DEFINE mark == <<BE, DE, Plain(0), Plain(entries + missing)>>
             fill == [i \in 1 .. 4 * entries |-> Plain(1)]
  <2>0. entries \in Nat /\ 4 * entries \in Nat /\ 4 + 4 * entries = ExtensionLen(entries)
    BY <1>2 DEF ExtensionLen, NoExtension
  <2>1. IsRow(mark, 4) /\ mark[1] = BE /\ mark[2] = DE /\ mark[3] = Plain(0)
        /\ mark[4] = Plain(entries + missing)
    BY DEF IsRow
  <2>2. IsRow(fill, 4 * entries)
    BY <2>0 DEF IsRow
  <2>3. ext = mark \o fill
    BY <1>2 DEF Extension
  <2> HIDE DEF mark, fill
  <2>4. Joins(ext, 4, mark, 4 * entries, fill)
    BY <2>1, <2>2, <2>3, Joined
  <2>5. IsRow(ext, ExtensionLen(entries)) /\ \A i \in 1 .. 4 : ext[i] = mark[i]
    BY <2>0, <2>4 DEF Joins
  <2>6. QED
    BY <2>1, <2>5
<1>3. QED
  BY <1>1, <1>2

LEMMA PayloadRow ==
    ASSUME NEW n, NEW len \in Nat
    PROVE  /\ IsRow(Payload(n, len), len)
           /\ \A i \in 1 .. len : Payload(n, len)[i] = Plain(100 * n + i)
  BY DEF IsRow, Payload

\* The cases of skip_over_extensions.
IsBody(body, r) == body = SubSeq(r.packet, r.from + 1, r.to)
SkippedLen(body) == 4 + 4 * (256 * body[3][2] + body[4][2])

LEMMA NothingToSkip ==
    ASSUME NEW r, r.ok, NEW body, IsBody(body, r)
    PROVE  /\ body = <<>> => SkipOverExtensions(r) = Error
           /\ (body # <<>> /\ body[1] # BE) => SkipOverExtensions(r) = r
  BY Zenon DEF IsBody, SkipOverExtensions

LEMMA Skipped ==
    ASSUME NEW r, r.ok, NEW body, IsBody(body, r), body # <<>>, body[1] = BE, body[2] = DE,
           Len(body) # 1, ~(Len(body) < 4), ~(SkippedLen(body) > Len(body))
    PROVE  SkipOverExtensions(r) = [r EXCEPT !.from = @ + SkippedLen(body)]
  BY Zenon DEF IsBody, SkipOverExtensions, SkippedLen

LEMMA SkipsTooFar ==
    ASSUME NEW r, r.ok, NEW body, IsBody(body, r), body # <<>>, body[1] = BE, body[2] = DE,
           SkippedLen(body) > Len(body)
    PROVE  SkipOverExtensions(r) = Error
  BY Zenon DEF IsBody, SkipOverExtensions, SkippedLen

\* skip_over_extensions leaves the voice of a body that holds what it announces,
\* and nothing of another.
IsPlain(body, entries, missing, len) == body = Extension(entries, missing) \o Payload(0, len)
Leaves(skipped, body, entries, missing, len) ==
    /\ skipped.ok <=> body # <<>> /\ (entries = NoExtension \/ missing = 0)
    /\ skipped.ok => SubSeq(skipped.packet, skipped.from + 1, skipped.to) = Payload(0, len)

LEMMA VoiceRemains ==
    ASSUME NEW entries \in NoExtension .. 1, NEW missing \in 0 .. 1, NEW len \in 0 .. 2,
           NEW body, IsPlain(body, entries, missing, len),
           NEW packet, NEW from \in Nat, NEW to, to = from + ExtensionLen(entries) + len,
           NEW r, r = Good(packet, from, to), IsBody(body, r)
    PROVE  Leaves(SkipOverExtensions(r), body, entries, missing, len)
<1> DEFINE ext == Extension(entries, missing)
           voice == Payload(0, len)
           e == ExtensionLen(entries)
<1>0. len \in Nat /\ e \in Nat /\ to \in Nat /\ to = from + e + len
  BY DEF ExtensionLen, NoExtension
<1>1. IsRow(ext, e)
  BY ExtensionRow
<1>2. IsRow(voice, len) /\ \A i \in 1 .. len : voice[i] = Plain(i)
  <2>1. \A i \in 1 .. len : 100 * 0 + i = i
    OBVIOUS
  <2>2. QED
    BY <1>0, <2>1, PayloadRow DEF Payload
<1>3. body = ext \o voice
  BY DEF IsPlain
<1>a. r.ok /\ r.packet = packet /\ r.from = from /\ r.to = to
  BY DEF Good
<1>b. entries # NoExtension
         => ext[1] = BE /\ ext[2] = DE /\ ext[3] = Plain(0) /\ ext[4] = Plain(entries + missing)
  BY ExtensionRow
<1>c. Error.ok = FALSE
  BY DEF Error
<1> HIDE DEF ext, voice, e
<1>4. Joins(body, e, ext, len, voice)
  BY <1>1, <1>2, <1>3, Joined
<1>5. IsRow(body, e + len) /\ Len(body) = e + len
  BY <1>4, Row DEF Joins
<1>6. body = <<>> => e + len = 0
  BY <1>5
<1>7. CASE entries = NoExtension
  <2>1. e = 0
    BY <1>7 DEF e, ExtensionLen
  <2>2. body = voice
    <3>1. 0 + len = len /\ IsRow(body, len)
      BY <1>0, <1>5, <2>1
    <3>2. ASSUME NEW i \in 1 .. len PROVE body[i] = voice[i]
      <4>1. body[0 + i] = voice[i]
        BY <1>4, <2>1 DEF Joins
      <4>2. 0 + i = i
        OBVIOUS
      <4>3. QED
        BY <4>1, <4>2
    <3>3. QED
      BY <1>2, <3>1, <3>2, SameRow
  <2>3. CASE len = 0
    <3>1. body = <<>> /\ voice = <<>>
      <4>1. IsRow(voice, 0)
        BY <1>2, <2>3
      <4>2. QED
        BY <2>2, <4>1, NoRow, SameRow
    <3>2. SkipOverExtensions(r) = Error
      BY <1>a, <3>1, NothingToSkip
    <3>3. QED
      BY <1>c, <3>1, <3>2 DEF Leaves
  <2>4. CASE len # 0
    <3>1. body # <<>>
      BY <1>0, <1>6, <2>1, <2>4
    <3>2. body[1] # BE
      <4>1. body[1] = Plain(1)
        BY <1>0, <1>2, <2>2, <2>4
      <4>2. Plain(1) # Plain(190)
        BY DEF Plain
      <4>3. QED
        BY <4>1, <4>2 DEF BE
    <3>3. SkipOverExtensions(r) = r
      BY <1>a, <3>1, <3>2, NothingToSkip
    <3>4. SubSeq(r.packet, r.from + 1, r.to) = voice
      BY <2>2 DEF IsBody
    <3>5. QED
      BY <1>7, <1>a, <3>1, <3>3, <3>4 DEF Leaves, voice
  <2>5. QED
    BY <2>3, <2>4
<1>8. CASE entries # NoExtension
  <2>0. entries \in 0 .. 1 /\ e = 4 + 4 * entries
    BY <1>8 DEF e, ExtensionLen, NoExtension
  <2>1. body[1] = BE /\ body[2] = DE /\ body[3] = Plain(0) /\ body[4] = Plain(entries + missing)
    <3>1. 1 \in 1 .. e /\ 2 \in 1 .. e /\ 3 \in 1 .. e /\ 4 \in 1 .. e
      BY <2>0
    <3>2. body[1] = ext[1] /\ body[2] = ext[2] /\ body[3] = ext[3] /\ body[4] = ext[4]
      BY <1>4, <3>1 DEF Joins
    <3>3. QED
      BY <1>8, <1>b, <3>2
  <2>2. SkippedLen(body) = e + 4 * missing
    <3>1. Plain(0)[2] = 0 /\ Plain(entries + missing)[2] = entries + missing
      BY DEF Plain
    <3>2. 4 + 4 * (256 * 0 + (entries + missing)) = e + 4 * missing
      BY <2>0
    <3>3. QED
      BY <2>1, <3>1, <3>2 DEF SkippedLen
  <2>3. body # <<>> /\ Len(body) # 1 /\ ~(Len(body) < 4) /\ ~(e > Len(body))
    BY <1>0, <1>5, <1>6, <2>0
  <2>a. CASE missing # 0
    <3>1. e + 4 * missing > e + len
      BY <1>0, <2>0, <2>a
    <3>2. SkippedLen(body) > Len(body)
      BY <1>5, <2>2, <3>1
    <3>3. SkipOverExtensions(r) = Error
      BY <1>a, <2>1, <2>3, <3>2, SkipsTooFar
    <3>4. QED
      BY <1>8, <1>c, <2>a, <3>3 DEF Leaves
  <2>b. ASSUME missing = 0 PROVE SkippedLen(body) = e
    BY <1>0, <2>2, <2>b
  <2>4. ASSUME missing = 0 PROVE SkipOverExtensions(r) = Good(packet, from + e, to)
    <3>1. SkippedLen(body) = e /\ ~(SkippedLen(body) > Len(body))
      BY <2>3, <2>4, <2>b
    <3>2. SkipOverExtensions(r) = [r EXCEPT !.from = @ + SkippedLen(body)]
      BY <1>a, <2>1, <2>3, <3>1, Skipped
    <3>3. SkipOverExtensions(r) = [r EXCEPT !.from = @ + e]
      BY <3>1, <3>2
    <3>4. QED
      BY <3>3 DEF Good
  <2>7. SubSeq(packet, from + e + 1, to) = voice
    <3> DEFINE first == from + e + 1
               start == from + 1
               part == SubSeq(packet, first, to)
               size == e + len
    <3>1. first \in Int /\ to \in Int /\ to >= first - 1 /\ len = to - first + 1
      BY <1>0
    <3>2. start \in Int /\ to >= start - 1 /\ size = to - start + 1
      BY <1>0
    <3>3. part = SubSeq(packet, first, to) /\ body = SubSeq(packet, start, to)
      BY <1>a DEF IsBody
    <3>4. \A i \in 1 .. len : /\ first + i - 1 = from + e + i /\ e + i \in 1 .. size
                              /\ start + (e + i) - 1 = from + e + i
      BY <1>0
    <3> HIDE DEF first, start, part, size
    <3>5. IsPart(part, packet, first, len)
      BY <3>1, <3>3, Part
    <3>6. IsPart(body, packet, start, size)
      BY <3>1, <3>2, <3>3, Part
    <3>7. ASSUME NEW i \in 1 .. len PROVE part[i] = voice[i]
      <4> DEFINE j == e + i
      <4>1. j \in 1 .. size /\ start + j - 1 = first + i - 1
        BY <3>4
      <4> HIDE DEF j
      <4>2. part[i] = packet[first + i - 1]
        BY <3>5 DEF IsPart
      <4>3. body[j] = packet[start + j - 1]
        BY <3>6, <4>1 DEF IsPart
      <4>4. body[j] = voice[i]
        BY <1>4 DEF Joins, j
      <4>5. QED
        BY <4>1, <4>2, <4>3, <4>4
    <3>8. part = voice
      BY <1>2, <3>5, <3>7, SameRow DEF IsPart
    <3>9. QED
      BY <3>8 DEF part, first
  <2>8. CASE missing = 0
    <3> DEFINE good == Good(packet, from + e, to)
    <3>1. good.ok /\ good.packet = packet /\ good.from = from + e /\ good.to = to
      BY DEF Good
    <3>2. SkipOverExtensions(r) = good
      BY <2>4, <2>8
    <3> HIDE DEF good
    <3>3. QED
      BY <2>3, <2>7, <2>8, <3>1, <3>2 DEF Leaves, voice
  <2>9. QED
    BY <2>8, <2>a
<1>9. QED
  BY <1>7, <1>8

\* Discord's packets are put together like those of encrypt_packet.
LEMMA JoinsAgree ==
    ASSUME NEW n \in Nat, NEW m \in Nat, NEW k \in Nat,
           NEW a, NEW b, NEW c, NEW x, NEW y, NEW u, NEW v,
           Joins(x, n, a, m, b), Joins(y, m, b, k, c), Joins(u, n + m, x, k, c), Joins(v, n, a, m + k, y)
    PROVE  u = v
<1> DEFINE size == n + m + k
<1>1. n + (m + k) = size /\ n + m + k = size /\ size \in Nat
  OBVIOUS
<1>2. IsRow(u, size) /\ IsRow(v, size)
  BY <1>1 DEF Joins
<1>3. ASSUME NEW i \in 1 .. size PROVE u[i] = v[i]
  <2>1. CASE i \in 1 .. n
    <3>1. i \in 1 .. n + m
      BY <2>1
    <3>2. u[i] = x[i] /\ x[i] = a[i] /\ v[i] = a[i]
      BY <2>1, <3>1 DEF Joins
    <3>3. QED
      BY <3>2
  <2>2. CASE i \in n + 1 .. n + m
    <3> DEFINE j == i - n
    <3>1. j \in 1 .. m /\ j \in 1 .. m + k /\ i \in 1 .. n + m /\ n + j = i
      BY <2>2
    <3> HIDE DEF j
    <3>2. u[i] = x[i] /\ x[n + j] = b[j] /\ v[n + j] = y[j] /\ y[j] = b[j]
      BY <3>1 DEF Joins
    <3>3. QED
      BY <3>1, <3>2
  <2>3. CASE i \in n + m + 1 .. size
    <3> DEFINE j == i - (n + m)
               l == m + j
    <3>1. j \in 1 .. k /\ l \in 1 .. m + k /\ (n + m) + j = i /\ n + l = i
      BY <2>3
    <3>2. u[(n + m) + j] = c[j] /\ v[n + l] = y[l] /\ y[m + j] = c[j]
      <4> HIDE DEF j
      <4>1. QED
        BY <3>1 DEF Joins
    <3>3. QED
      BY <3>1, <3>2
  <2>4. QED
    BY <2>1, <2>2, <2>3
<1> HIDE DEF size
<1>4. QED
  BY <1>2, <1>3, SameRow

Regroups(a, b, c, d) == a \o b \o c \o d = a \o (b \o c \o d)

LEMMA Regrouped ==
    ASSUME NEW n, NEW a, IsRow(a, n), NEW m, NEW b, IsRow(b, m),
           NEW k, NEW c, IsRow(c, k), NEW l, NEW d, IsRow(d, l)
    PROVE  Regroups(a, b, c, d)
<1> DEFINE ab == a \o b
           bc == b \o c
           bcd == bc \o d
           left == ab \o c
           right == a \o bc
           w == left \o d
           v == a \o bcd
<1>0. n \in Nat /\ m \in Nat /\ k \in Nat /\ l \in Nat /\ m + k \in Nat
  BY DEF IsRow
<1>1. ab = a \o b /\ bc = b \o c /\ bcd = bc \o d
  OBVIOUS
<1>2. left = ab \o c /\ right = a \o bc /\ w = left \o d /\ v = a \o bcd
  OBVIOUS
<1> HIDE DEF ab, bc, bcd, left, right, w, v
<1>3. Joins(ab, n, a, m, b) /\ Joins(bc, m, b, k, c)
  BY <1>1, Joined
<1>4. IsRow(ab, n + m) /\ IsRow(bc, m + k)
  BY <1>3 DEF Joins
<1>5. Joins(left, n + m, ab, k, c) /\ Joins(right, n, a, m + k, bc)
  BY <1>2, <1>4, Joined
<1>6. left = right
  BY <1>0, <1>3, <1>5, JoinsAgree
<1>7. Joins(bcd, m + k, bc, l, d)
  BY <1>1, <1>4, Joined
<1>8. IsRow(right, n + (m + k)) /\ IsRow(bcd, m + k + l)
  BY <1>5, <1>7 DEF Joins
<1>9. Joins(w, n + (m + k), right, l, d)
  <2>1. w = right \o d
    BY <1>2, <1>6
  <2>2. QED
    BY <1>8, <2>1, Joined
<1>10. Joins(v, n, a, m + k + l, bcd)
  BY <1>2, <1>8, Joined
<1>11. w = v
  <2> DEFINE mk == m + k
  <2>1. /\ mk \in Nat /\ Joins(right, n, a, mk, bc) /\ Joins(bcd, mk, bc, l, d)
        /\ Joins(w, n + mk, right, l, d) /\ Joins(v, n, a, mk + l, bcd)
    BY <1>0, <1>5, <1>7, <1>9, <1>10
  <2> HIDE DEF mk
  <2>2. QED
    BY <1>0, <2>1, JoinsAgree
<1>12. QED
  BY <1>11 DEF w, v, left, ab, bc, bcd, Regroups

Reader(c, p) == [mode |-> c.mode, key |-> IF p.stale THEN c.key + 1 ELSE c.key]

LEMMA SealedCarries ==
    ASSUME NEW c, c.mode \in Modes, NEW p \in Incoming, NEW h, h = HeaderLen(p.kind),
           NEW k, k = ExtensionLen(p.entries) + p.len, NEW body, IsPlain(body, p.entries, p.missing, p.len)
    PROVE  \E whole : /\ Carries(Reader(c, p), whole, h, k, body) /\ whole[1] = Plain(11)
                      /\ IsCut(Sealed(c, p), whole, p.cut)
<1> DEFINE d == Reader(c, p)
           key == IF p.stale THEN c.key + 1 ELSE c.key
           header == [i \in 1 .. h |-> Plain(10 + i)]
           cells == NonceCells(c, header, 0)
           tail == IF c.mode = "Normal" THEN <<>> ELSE cells
           cipher == Ciphertext(key, Nonce(cells), body)
           one == <<Tag(key, Nonce(cells), cipher)>>
           whole == header \o one \o cipher \o tail
<1>1. p.entries \in NoExtension .. 1 /\ p.len \in Nat /\ h \in {1, 2}
  BY DEF Incoming, HeaderLen
<1>2. IsRow(body, k)
  <2> DEFINE ext == Extension(p.entries, p.missing)
             voice == Payload(0, p.len)
  <2>1. IsRow(ext, ExtensionLen(p.entries)) /\ IsRow(voice, p.len) /\ body = ext \o voice
    BY <1>1, ExtensionRow, PayloadRow DEF IsPlain
  <2> HIDE DEF ext, voice
  <2>2. Joins(body, ExtensionLen(p.entries), ext, p.len, voice)
    BY <2>1, Joined
  <2>3. QED
    BY <2>2 DEF Joins
<1>3. d.mode = c.mode /\ d.key = key
  BY DEF Reader
<1>4. IsRow(header, h) /\ header[1] = Plain(11)
  <2>1. h \in Nat /\ 1 \in 1 .. h /\ 10 + 1 = 11
    BY <1>1
  <2>2. QED
    BY <2>1 DEF IsRow
<1>5. Sealed(c, p) = SubSeq(whole, 1, Len(whole) - p.cut)
  BY DEF Sealed, IsPlain, Body
<1>6. tail = (IF c.mode = "Normal" THEN <<>> ELSE cells) /\ cells = NonceCells(c, header, 0)
  OBVIOUS
<1>7. cipher = Ciphertext(key, Nonce(cells), body) /\ one = <<Tag(key, Nonce(cells), cipher)>>
  OBVIOUS
<1>8. whole = header \o one \o cipher \o tail
  OBVIOUS
<1> HIDE DEF d, key, header, cells, tail, cipher, one, whole
<1>9. IsRow(tail, SuffixLen(c.mode)) /\ cells = IF c.mode = "Normal" THEN header ELSE tail
  BY <1>6, TailRow
<1>10. Fits(d, h, header, k, body, cells, tail)
  BY <1>2, <1>3, <1>4, <1>6, <1>9 DEF Fits
<1>11. whole = header \o (one \o cipher \o tail)
  <2>1. IsRow(cipher, k)
    BY <1>2, <1>7, CipherRow
  <2>2. IsRow(one, 1)
    BY <1>7 DEF IsRow
  <2>3. Regroups(header, one, cipher, tail)
    BY <1>4, <1>9, <2>1, <2>2, Regrouped
  <2>4. QED
    BY <1>8, <2>3 DEF Regroups
<1>12. whole = Whole(d, header, body, cells, tail)
  BY <1>3, <1>7, <1>11 DEF Whole
<1>13. Carries(d, whole, h, k, body) /\ Begins(whole, h, header)
  <2>1. h \in Nat \ {0}
    BY <1>1
  <2>2. QED
    BY <1>10, <1>12, <2>1, FittingCarries
<1>14. whole[1] = Plain(11)
  BY <1>1, <1>4, <1>13 DEF Begins
<1>15. IsCut(Sealed(c, p), whole, p.cut)
  BY <1>5 DEF IsCut
<1>16. QED
  BY <1>13, <1>14, <1>15 DEF d

Delivers(r, body, n) == /\ r = Good(r.packet, r.from, r.to) /\ IsBody(body, r)
                        /\ r.from \in Nat /\ r.to = r.from + n

\* What receive_packet makes of a packet that Discord sealed: of a whole one
\* under the present key its contents, of any other an error.
ReceivedAs(r, c, p, body) ==
    LET readable == c.key # 0 /\ ~p.stale /\ p.cut = 0
    IN  /\ ~readable => r = Error
        /\ (readable /\ p.kind = "Rtp") => Delivers(r, body, ExtensionLen(p.entries) + p.len)
        /\ (readable /\ p.kind = "Rtcp") => (r.ok /\ r.packet = <<Plain(11)>> \o body)

LEMMA ReceivedOrRefused ==
    ASSUME NEW c, c.mode \in Modes, c.key \in Nat, NEW p \in Incoming,
           NEW body, IsPlain(body, p.entries, p.missing, p.len), NEW r, r = ReceivePacket(c, p.kind, Sealed(c, p))
    PROVE  ReceivedAs(r, c, p, body)
<1> DEFINE h == HeaderLen(p.kind)
           e == ExtensionLen(p.entries)
           k == e + p.len
           packet == Sealed(c, p)
           opened == DecryptPacket(c, packet, h)
           rtcp == SubSeq(opened.packet, 1, h) \o SubSeq(opened.packet, opened.from + 1, opened.to)
           key == IF p.stale THEN c.key + 1 ELSE c.key
<1>1. h \in Nat \ {0} /\ p.cut \in Nat /\ p.len \in Nat /\ e \in Nat /\ p.stale \in BOOLEAN
  BY DEF Incoming, HeaderLen, ExtensionLen, NoExtension
<1>2. PICK whole : /\ Carries(Reader(c, p), whole, h, k, body) /\ whole[1] = Plain(11)
                   /\ IsCut(packet, whole, p.cut)
  BY SealedCarries
<1>3. Reader(c, p).mode = c.mode /\ (Reader(c, p).key = c.key <=> ~p.stale)
  <2>1. Reader(c, p).mode = c.mode /\ Reader(c, p).key = key
    BY DEF Reader
  <2>2. key = c.key <=> ~p.stale
    BY <1>1
  <2>3. QED
    BY <2>1, <2>2
<1>4. r = IF c.key = 0 \/ Len(packet) < h \/ ~opened.ok THEN Error
          ELSE IF p.kind = "Rtp" THEN opened
          ELSE Good(rtcp, 0, Len(rtcp))
  BY DEF ReceivePacket
<1>5. opened = DecryptPacket(c, packet, h) /\ rtcp = SubSeq(opened.packet, 1, h) \o SubSeq(opened.packet, opened.from + 1, opened.to)
  OBVIOUS
<1> HIDE DEF h, e, packet, opened, rtcp
<1>6. /\ (p.cut = 0 /\ Reader(c, p).key = c.key) => (packet = whole /\ Carries(c, packet, h, k, body))
      /\ (p.cut # 0 \/ Reader(c, p).key # c.key) => DecryptPacket(c, packet, h) = Error
  <2> HIDE DEF k
  <2>1. QED
    BY <1>1, <1>2, <1>3, SealedOpened
<1>7. ASSUME ~(c.key # 0 /\ ~p.stale /\ p.cut = 0) PROVE r = Error
  <2>1. CASE c.key = 0
    BY <1>4, <2>1
  <2>2. CASE c.key # 0
    <3>1. opened = Error
      BY <1>3, <1>5, <1>6, <1>7, <2>2
    <3>2. ~opened.ok
      BY <3>1 DEF Error
    <3>3. QED
      BY <1>4, <3>2
  <2>3. QED
    BY <2>1, <2>2
<1>8. ASSUME c.key # 0, ~p.stale, p.cut = 0
      PROVE  /\ p.kind = "Rtp"
                   => Delivers(r, body, k)
             /\ p.kind = "Rtcp" => (r.ok /\ r.packet = <<Plain(11)>> \o body)
  <2>1. packet = whole /\ Carries(c, packet, h, k, body)
    BY <1>3, <1>6, <1>8
  <2>2. /\ opened.ok /\ opened.from = h + TagLen /\ opened.to = h + TagLen + k
        /\ \A i \in 1 .. h : opened.packet[i] = packet[i]
        /\ SubSeq(opened.packet, opened.from + 1, opened.to) = body
    <3> HIDE DEF k
    <3>1. QED
      BY <1>1, <1>5, <2>1, CarriedIsRead
  <2>3. ~(Len(packet) < h)
    <3>1. IsRow(packet, h + TagLen + k + SuffixLen(c.mode))
      BY <2>1 DEF Carries
    <3>2. Len(packet) = h + TagLen + k + SuffixLen(c.mode)
      BY <3>1, Row
    <3>3. QED
      BY <1>1, <3>2, SuffixLens DEF TagLen
  <2>4. CASE p.kind = "Rtp"
    <3>1. r = opened
      BY <1>4, <1>8, <2>2, <2>3, <2>4
    <3>2. opened = Good(opened.packet, opened.from, opened.to)
      BY <1>5, <2>2 DEF DecryptPacket, Good, Error
    <3>3. opened.from \in Nat /\ opened.to = opened.from + k
      <4>1. h + TagLen \in Nat
        BY <1>1 DEF TagLen
      <4> HIDE DEF k
      <4>2. QED
        BY <2>2, <4>1
    <3>4. IsBody(body, r)
      BY <2>2, <3>1 DEF IsBody
    <3>5. QED
      BY <2>4, <3>1, <3>2, <3>3, <3>4 DEF Delivers
  <2>5. CASE p.kind # "Rtp"
    <3>1. r = Good(rtcp, 0, Len(rtcp))
      BY <1>4, <1>8, <2>2, <2>3, <2>5
    <3>2. h = 1
      BY <2>5 DEF h, HeaderLen
    <3> DEFINE head == SubSeq(opened.packet, 1, 1)
    <3>3. head = <<Plain(11)>>
      <4> DEFINE one == <<Plain(11)>>
                 from == opened.packet
      <4>1. 1 \in Int /\ 1 >= 1 - 1 /\ 1 = 1 - 1 + 1 /\ head = SubSeq(from, 1, 1)
        OBVIOUS
      <4>2. IsRow(one, 1) /\ one[1] = Plain(11)
        BY DEF IsRow
      <4>3. from[1] = Plain(11)
        BY <1>2, <2>1, <2>2, <3>2
      <4> HIDE DEF head, one, from
      <4>4. IsPart(head, from, 1, 1)
        BY <4>1, Part
      <4>5. IsRow(head, 1) /\ head[1] = from[1]
        <5>1. 1 \in 1 .. 1 /\ 1 + 1 - 1 = 1
          OBVIOUS
        <5>2. head[1] = from[1 + 1 - 1]
          BY <4>4, <5>1 DEF IsPart
        <5>3. QED
          BY <4>4, <5>1, <5>2 DEF IsPart
      <4>6. \A i \in 1 .. 1 : head[i] = one[i]
        BY <4>2, <4>3, <4>5
      <4>7. head = one
        BY <4>2, <4>5, <4>6, SameRow
      <4>8. QED
        BY <4>7 DEF one
    <3>4. rtcp = <<Plain(11)>> \o body
      BY <1>5, <2>2, <3>2, <3>3
    <3>5. r.ok /\ r.packet = rtcp
      <4> HIDE DEF rtcp
      <4>1. QED
        BY <3>1 DEF Good
    <3>6. QED
      BY <2>5, <3>4, <3>5
  <2>6. QED
    BY <2>4, <2>5
<1>9. QED
  BY <1>7, <1>8 DEF e, ReceivedAs

-----------------------------------------------------------------------------
(***************************************************************************)
(* Theorems.                                                               *)
(***************************************************************************)
PacketInv == Numbers /\ NoncesUsed /\ Layout

\* The inductive invariant: what timestamps, sequence numbers and counters are,
\* which nonces were used with them, and what lies in the buffer.
THEOREM Invariance == Spec => []PacketInv
<1>1. Init => PacketInv
  BY NumbersInit, NoncesInit, LayoutInit DEF PacketInv
<1>2. PacketInv /\ [Next]_vars => PacketInv'
  BY NumbersKept, NoncesKept, LayoutKept DEF PacketInv
<1>3. QED
  BY <1>1, <1>2, PTL DEF Spec

\* The variables keep their types, the send buffer its length, and no packet of
\* send_voice is longer than MAX_RTP_PACKET_SIZE.
THEOREM TypeCorrect == Spec => []TypeOK
<1>1. PacketInv => TypeOK
  <2> SUFFICES ASSUME PacketInv PROVE TypeOK
    OBVIOUS
  <2>1. TsMod \in Nat \ {0} /\ NumSamples \in Nat /\ frames \in Nat
    BY PacketAssumption DEF PacketInv, Numbers
  <2>2. timestamp \in 0 .. TsMod - 1
    BY <2>1 DEF PacketInv, Numbers, Stamp
  <2>3. DOMAIN buf = 1 .. BufLen
    BY Row DEF PacketInv, Layout
  <2>4. QED
    BY <2>2, <2>3 DEF PacketInv, Numbers, Layout, TypeOK
<1>2. QED
  BY <1>1, Invariance, PTL

\* A nonce of encrypt_packet comes back under its key only when the numbers it is
\* made from have gone around: in the normal mode after a multiple of SeqMod packets
\* over which the timestamp has come around as well, in the lite mode after one of
\* CounterMod packets, in the suffix mode never; for any number of frames.
THEOREM NoncesRepeatOnlyLate == Spec => []NoncesRepeatLate
<1>1. PacketInv => NoncesRepeatLate
  BY DEF PacketInv, NoncesUsed
<1>2. QED
  BY <1>1, Invariance, PTL

\* decrypt_packet gets from what send_voice sent exactly the frame that was
\* written, in each mode, although the buffer still holds earlier packets.
THEOREM SentIsRead == Spec => []SentIsReadable
<1>1. PacketInv => SentIsReadable
  <2> DEFINE opened == DecryptPacket(crypto, out.packet, 2)
  <2> SUFFICES ASSUME PacketInv, out # NoPacket, nonces[Len(nonces)].key = crypto.key
               PROVE  opened.ok /\ SubSeq(opened.packet, opened.from + 1, opened.to) = out.payload
    BY DEF SentIsReadable, HeaderLen
  <2>1. PICK n \in Nat : Carries(crypto, out.packet, 2, n, out.payload)
    BY DEF PacketInv, Layout
  <2>2. crypto.mode \in Modes
    BY DEF PacketInv, Numbers
  <2>3. QED
    BY <2>1, <2>2, CarriedIsRead
<1>2. QED
  BY <1>1, Invariance, PTL

\* receive_packet and skip_over_extensions hand the decoder exactly the voice of
\* a packet under the present key whose extension ends within it, and nothing of
\* one whose extension does not, of one under another key, or of a part of one.
THEOREM ReceivedIsTheVoice == Spec => []ReceivedIsSent
<1>1. Numbers => ReceivedIsSent
  <2> SUFFICES ASSUME Numbers, NEW p \in Incoming
               PROVE  LET r == ReceivePacket(crypto, p.kind, Sealed(crypto, p))
                          readable == crypto.key # 0 /\ ~p.stale /\ p.cut = 0
                          voice == SkipOverExtensions(r)
                      IN  IF p.kind = "Rtp"
                          THEN /\ voice.ok <=> readable /\ Body(p) # <<>>
                                               /\ (p.entries = NoExtension \/ p.missing = 0)
                               /\ voice.ok => SubSeq(voice.packet, voice.from + 1, voice.to)
                                                = Payload(0, p.len)
                          ELSE /\ r.ok = readable
                               /\ r.ok => r.packet = <<Plain(11)>> \o Body(p)
    BY DEF ReceivedIsSent
  <2> DEFINE r == ReceivePacket(crypto, p.kind, Sealed(crypto, p))
             readable == crypto.key # 0 /\ ~p.stale /\ p.cut = 0
             voice == SkipOverExtensions(r)
             body == Body(p)
             len == ExtensionLen(p.entries) + p.len
  <2>1. crypto.mode \in Modes /\ crypto.key \in Nat
    BY PacketAssumption DEF Numbers
  <2>2. /\ p.kind \in {"Rtp", "Rtcp"} /\ p.entries \in NoExtension .. 1
        /\ p.missing \in 0 .. 1 /\ p.len \in 0 .. 2
    BY DEF Incoming
  <2>3. IsPlain(body, p.entries, p.missing, p.len)
    BY DEF IsPlain, Body
  <2>4. r = ReceivePacket(crypto, p.kind, Sealed(crypto, p)) /\ voice = SkipOverExtensions(r)
    OBVIOUS
  <2>5. len = ExtensionLen(p.entries) + p.len /\ ExtensionLen(p.entries) \in Nat
    BY <2>2 DEF ExtensionLen, NoExtension
  <2>6. body = Body(p)
    OBVIOUS
  <2> HIDE DEF r, voice, body, len
  <2>7. /\ ~readable => r = Error
        /\ (readable /\ p.kind = "Rtp") => Delivers(r, body, len)
        /\ (readable /\ p.kind = "Rtcp") => (r.ok /\ r.packet = <<Plain(11)>> \o body)
    <3>1. ReceivedAs(r, crypto, p, body)
      BY <2>1, <2>3, <2>4, ReceivedOrRefused
    <3>2. QED
      BY <2>5, <3>1 DEF ReceivedAs
  <2>8. Error.ok = FALSE
    BY DEF Error
  <2>9. CASE p.kind = "Rtp"
    <3>1. CASE readable
      <4>1. Delivers(r, body, len)
        BY <2>7, <2>9, <3>1
      <4>2. Leaves(SkipOverExtensions(r), body, p.entries, p.missing, p.len)
        <5> DEFINE packet == r.packet
                   from == r.from
                   to == r.to
        <5>1. r = Good(packet, from, to) /\ IsBody(body, r) /\ from \in Nat /\ to = from + len
          BY <4>1 DEF Delivers
        <5> HIDE DEF packet, from, to
        <5>2. to = from + ExtensionLen(p.entries) + p.len
          BY <2>2, <2>5, <5>1
        <5>3. QED
          BY <2>2, <2>3, <5>1, <5>2, VoiceRemains
      <4>3. QED
        BY <2>4, <2>6, <2>9, <3>1, <4>2 DEF Leaves, r, voice
    <3>2. CASE ~readable
      <4>1. SkipOverExtensions(Error) = Error
        BY <2>8, Zenon DEF SkipOverExtensions
      <4>2. voice.ok = FALSE
        BY <2>4, <2>7, <2>8, <3>2, <4>1
      <4>3. QED
        BY <2>9, <3>2, <4>2 DEF r, voice
    <3>3. QED
      BY <3>1, <3>2
  <2>10. CASE p.kind = "Rtcp"
    <3>1. CASE readable
      <4>1. r.ok = TRUE /\ r.packet = <<Plain(11)>> \o Body(p)
        BY <2>6, <2>7, <2>10, <3>1
      <4>2. QED
        BY <2>10, <3>1, <4>1 DEF r
    <3>2. CASE ~readable
      <4>1. r.ok = FALSE
        BY <2>7, <2>8, <3>2
      <4>2. QED
        BY <2>10, <3>2, <4>1 DEF r
    <3>3. QED
      BY <3>1, <3>2
  <2>11. QED
    BY <2>2, <2>9, <2>10
<1>2. QED
  BY <1>1, Invariance, PTL DEF PacketInv
=============================================================================
