---------------------------- MODULE VoicePackets ----------------------------
(***************************************************************************)
(* The packets of the voice data channel: VoiceDataChannel (rtp.rs),       *)
(* VoiceEncryption and VoiceDecryption (crypto.rs), skip_over_extensions   *)
(* (utils/rtp.rs), and the timestamps CallHandle::write_frame gives them.  *)
(*                                                                         *)
(* A packet is a sequence of cells, each for a few bytes.  The header is   *)
(* two cells in RTP and one in RTCP.  A cell holds a plain value, one that *)
(* is encrypted, or a tag; nobody opens a cell without its key and nonce.  *)
(*                                                                         *)
(*      header | tag | ciphertext | what the nonce is made from            *)
(***************************************************************************)
EXTENDS Integers, Sequences

CONSTANTS MaxPacket,   \* MAX_RTP_PACKET_SIZE, in cells
          BufLen,      \* VOICE_PACKET_MAX, in cells
          SeqMod,      \* sequence numbers count modulo this, 2^16
          TsMod,       \* timestamps count modulo this, 2^32
          NumSamples,  \* NUM_SAMPLES
          CounterMod,  \* the counter of the lite mode counts modulo this, 2^32
          FrameCap,    \* bound on the frames that are written
          KeyCap       \* bound on the session descriptions

ASSUME PacketAssumption ==
    /\ MaxPacket \in Nat /\ BufLen \in Nat /\ BufLen >= MaxPacket
    /\ MaxPacket >= 6  \* the longest header, tag and nonce
    /\ {SeqMod, TsMod, CounterMod} \subseteq Nat \ {0}
    /\ {NumSamples, FrameCap, KeyCap} \subseteq Nat

VARIABLES timestamp,  \* of CallHandle
          sequence,   \* sequence_no
          crypto,     \* crypto: its mode, its key (0: None) and the lite mode's counter
          buf,        \* send_buf
          frames,     \* frames written so far
          out,        \* the last packet sent, and what is in it
          nonces      \* the nonces that were used, with key, mode and frame, in order

vars == <<timestamp, sequence, crypto, buf, frames, out, nonces>>

Modes == {"Normal", "Suffix", "Lite"}
TagLen == 1
NonceLen == 3
HeaderLen(kind) == IF kind = "Rtp" THEN 2 ELSE 1
SuffixLen(mode) == CASE mode = "Normal" -> 0 [] mode = "Suffix" -> NonceLen [] mode = "Lite" -> 1

\* If the longest frame only left room for the nonce of the lite mode.
BugRoomForLite == MaxPacket - HeaderLen("Rtp") - TagLen - SuffixLen("Lite")

\* MAX_OPUS_PAYLOAD_SIZE.
MaxOpus == MaxPacket - HeaderLen("Rtp") - TagLen - NonceLen

Plain(v) == <<"plain", v>>
Zero == Plain(0)
Payload(n, len) == [i \in 1 .. len |-> Plain(100 * n + i)]
NoPacket == [packet |-> <<>>, payload |-> <<>>]

Init == /\ timestamp = TsMod - 1
        /\ sequence = SeqMod - 1
        /\ crypto = [mode |-> "Normal", key |-> 0, counter |-> 0]
        /\ buf = [i \in 1 .. BufLen |-> Zero]
        /\ frames = 0
        /\ out = NoPacket
        /\ nonces = <<>>

-----------------------------------------------------------------------------
(***************************************************************************)
(* The cipher, and the encryption of packets.                              *)
(***************************************************************************)
Nonce(cells) == [i \in 1 .. NonceLen |-> IF i <= Len(cells) THEN cells[i] ELSE Zero]
Ciphertext(key, nonce, plain) == [i \in DOMAIN plain |-> <<"enc", plain[i], key, nonce>>]
Tag(key, nonce, cipher) == <<"tag", cipher, key, nonce>>
Plaintext(cipher) == [i \in DOMAIN cipher |-> cipher[i][2]]

\* b with cells from position at + 1 on.
Written(b, at, cells) ==
    [i \in DOMAIN b |-> IF i - at \in DOMAIN cells THEN cells[i - at] ELSE b[i]]

\* If the length of a packet did not count the nonce at its end.
BugForgetsSuffix(b, c, len, nonceCells) ==
    LET nonce == Nonce(nonceCells)
        body == HeaderLen("Rtp") + TagLen
        cipher == Ciphertext(c.key, nonce, SubSeq(b, body + 1, body + len))
        tail == IF c.mode = "Normal" THEN <<>> ELSE nonceCells
    IN  [buf |-> Written(b, HeaderLen("Rtp"), <<Tag(c.key, nonce, cipher)>> \o cipher \o tail),
         size |-> body + len]

\* encrypt_packet: b is encrypted in place, with a nonce made from nonceCells,
\* which the lite and suffix modes put behind the ciphertext.
EncryptPacket(b, c, len, nonceCells) ==
    LET nonce == Nonce(nonceCells)
        body == HeaderLen("Rtp") + TagLen
        cipher == Ciphertext(c.key, nonce, SubSeq(b, body + 1, body + len))
        tail == IF c.mode = "Normal" THEN <<>> ELSE nonceCells
    IN  [buf |-> Written(b, HeaderLen("Rtp"), <<Tag(c.key, nonce, cipher)>> \o cipher \o tail),
         size |-> body + len + SuffixLen(c.mode)]

\* What encrypt_packet makes the nonce of the n-th frame from.  Random nonces are
\* taken to be different.
NonceCells(c, header, n) ==
    CASE c.mode = "Normal" -> header
      [] c.mode = "Suffix" -> [i \in 1 .. NonceLen |-> <<"random", n, i>>]
      [] c.mode = "Lite"   -> <<<<"counter", c.counter>>>>

-----------------------------------------------------------------------------
(***************************************************************************)
(* Operations.                                                             *)
(***************************************************************************)

\* set_key, for each session description: Discord gives out keys once.
SetKey(mode, counter) ==
    /\ crypto.key < KeyCap
    /\ crypto' = [mode |-> mode, key |-> crypto.key + 1, counter |-> counter]
    /\ UNCHANGED <<timestamp, sequence, buf, frames, out, nonces>>

\* If frames of a call had one timestamp.
BugTimestampStays == /\ frames < FrameCap
                     /\ frames' = frames + 1
                     /\ UNCHANGED timestamp

\* write_frame takes the next timestamp, whatever becomes of the frame.
NextFrame == /\ frames < FrameCap
             /\ frames' = frames + 1
             /\ timestamp' = (timestamp + NumSamples) % TsMod

\* The frame is not encoded, or the call has no session yet.
FrameFails == /\ NextFrame
              /\ UNCHANGED <<sequence, crypto, buf, out, nonces>>

\* send_voice: header and payload are written over what the buffer held, and
\* the packet is encrypted and sent.  UDP may lose it.
SendVoice(len) ==
    /\ NextFrame
    /\ crypto.key # 0
    /\ LET header == <<Plain(sequence), Plain(timestamp)>>
           voice == Payload(frames, len)
           clear == Written(Written(buf, 0, header), HeaderLen("Rtp") + TagLen, voice)
           cells == NonceCells(crypto, header, frames)
           enc == EncryptPacket(clear, crypto, len, cells)
       IN  /\ buf' = enc.buf
           /\ out' = [packet |-> SubSeq(enc.buf, 1, enc.size), payload |-> voice]
           /\ nonces' = Append(nonces, [key |-> crypto.key, mode |-> crypto.mode,
                                        nonce |-> Nonce(cells), frame |-> frames])
    /\ sequence' = (sequence + 1) % SeqMod
    /\ crypto' = [crypto EXCEPT !.counter = IF crypto.mode = "Lite" THEN (@ + 1) % CounterMod ELSE @]

Next == \/ \E mode \in Modes, counter \in {0, CounterMod - 1} : SetKey(mode, counter)
        \/ FrameFails
        \/ \E len \in 0 .. MaxOpus : SendVoice(len)

Spec == Init /\ [][Next]_vars

-----------------------------------------------------------------------------
(***************************************************************************)
(* Received packets.  An operation that fails gives Error, and the call    *)
(* goes on.                                                                *)
(***************************************************************************)
Error == [ok |-> FALSE, packet |-> <<>>, from |-> 0, to |-> 0]
Good(packet, from, to) == [ok |-> TRUE, packet |-> packet, from |-> from, to |-> to]

\* decrypt_packet, with extract_nonce: the packet is decrypted in place, and the
\* range of its body is from + 1 .. to.
DecryptPacket(c, packet, headerLen) ==
    LET header == SubSeq(packet, 1, headerLen)
        end == Len(packet) - SuffixLen(c.mode)
        nonce == Nonce(IF c.mode = "Normal" THEN header ELSE SubSeq(packet, end + 1, Len(packet)))
        from == headerLen + TagLen
        cipher == SubSeq(packet, from + 1, end)
    IN  IF end < from \/ packet[from] # Tag(c.key, nonce, cipher)
        THEN Error
        ELSE Good(Written(packet, from, Plaintext(cipher)), from, end)

\* receive_packet, for a packet that demux_mut takes to be of this kind: RTP
\* keeps the buffer and a range, RTCP loses suffix and tag.
ReceivePacket(c, kind, packet) ==
    LET len == HeaderLen(kind)
        opened == DecryptPacket(c, packet, len)
        rtcp == SubSeq(opened.packet, 1, len) \o SubSeq(opened.packet, opened.from + 1, opened.to)
    IN  IF c.key = 0 \/ Len(packet) < len \/ ~opened.ok THEN Error
        ELSE IF kind = "Rtp" THEN opened
        ELSE Good(rtcp, 0, Len(rtcp))

BE == Plain(190)
DE == Plain(222)

\* If entries beyond the end of the packet were not noticed.
BugSkipsBeyond(r) ==
    LET body == SubSeq(r.packet, r.from + 1, r.to)
    IN  IF ~r.ok \/ body = <<>> THEN Error
        ELSE IF body[1] # BE THEN r
        ELSE [r EXCEPT !.from = @ + 4 + 4 * (256 * body[3][2] + body[4][2])]

\* skip_over_extensions: entries of four cells, if the body begins with a mark.
SkipOverExtensions(r) ==
    LET body == SubSeq(r.packet, r.from + 1, r.to)
        skipped == 4 + 4 * (256 * body[3][2] + body[4][2])
    IN  IF ~r.ok \/ body = <<>> THEN Error
        ELSE IF body[1] # BE THEN r
        ELSE IF Len(body) = 1 THEN Error
        ELSE IF body[2] # DE THEN r
        ELSE IF Len(body) < 4 \/ skipped > Len(body) THEN Error
        ELSE [r EXCEPT !.from = @ + skipped]

\* What receivers get: packets sealed with a key as decrypt_packet expects them,
\* with entries of an extension before the voice, perhaps fewer than it says there
\* are (missing), and perhaps cut off.
NoExtension == -1
Extension(entries, missing) ==
    IF entries = NoExtension THEN <<>>
    ELSE <<BE, DE, Plain(0), Plain(entries + missing)>> \o [i \in 1 .. 4 * entries |-> Plain(1)]
Incoming == [kind : {"Rtp", "Rtcp"}, stale : BOOLEAN, entries : NoExtension .. 1,
             missing : 0 .. 1, len : 0 .. 2, cut : 0 .. 4]
Body(p) == Extension(p.entries, p.missing) \o Payload(0, p.len)
Sealed(c, p) ==
    LET key == IF p.stale THEN c.key + 1 ELSE c.key
        header == [i \in 1 .. HeaderLen(p.kind) |-> Plain(10 + i)]
        cells == NonceCells(c, header, 0)
        cipher == Ciphertext(key, Nonce(cells), Body(p))
        whole == header \o <<Tag(key, Nonce(cells), cipher)>> \o cipher
                 \o (IF c.mode = "Normal" THEN <<>> ELSE cells)
    IN  SubSeq(whole, 1, Len(whole) - p.cut)
-----------------------------------------------------------------------------
(***************************************************************************)
(* Properties.                                                             *)
(***************************************************************************)

\* The variables have their types, and no packet is longer than it may be.
TypeOK == /\ timestamp \in 0 .. TsMod - 1
          /\ sequence \in 0 .. SeqMod - 1
          /\ crypto \in [mode : Modes, key : 0 .. KeyCap, counter : 0 .. CounterMod - 1]
          /\ DOMAIN buf = 1 .. BufLen
          /\ frames \in 0 .. FrameCap
          /\ Len(out.packet) <= MaxPacket

\* Who has the key reads from a packet exactly the frame that was written, in
\* every mode and whatever longer packets left in the buffer it was made in.
SentIsReadable ==
    LET opened == DecryptPacket(crypto, out.packet, HeaderLen("Rtp"))
    IN  out # NoPacket /\ nonces[Len(nonces)].key = crypto.key
            => opened.ok /\ SubSeq(opened.packet, opened.from + 1, opened.to) = out.payload

\* A nonce comes back with the same key only after the numbers it is made from have
\* gone around: in the normal mode both the sequence number, which goes on with
\* every packet, and the timestamp, which goes on with every frame, sent or not; in
\* the lite mode the counter, which goes on with every packet whatever it started
\* from; in the suffix mode never.
GoneAround(first, again, packets) ==
    CASE first.mode = "Normal" -> /\ packets % SeqMod = 0
                                  /\ ((again.frame - first.frame) * NumSamples) % TsMod = 0
      [] first.mode = "Lite"   -> packets % CounterMod = 0
      [] first.mode = "Suffix" -> FALSE
NoncesRepeatLate ==
    \A i, j \in DOMAIN nonces :
        i < j /\ nonces[i].key = nonces[j].key /\ nonces[i].nonce = nonces[j].nonce
            => GoneAround(nonces[i], nonces[j], j - i)

\* Of a packet under the present key the receiver gets the voice without the
\* extension, of any other, or of a part of one, nothing; neither of one that ends
\* before its extension, or is empty (handle_packet does not decode it then).
ReceivedIsSent ==
    \A p \in Incoming :
        LET r == ReceivePacket(crypto, p.kind, Sealed(crypto, p))
            readable == crypto.key # 0 /\ ~p.stale /\ p.cut = 0
            voice == SkipOverExtensions(r)
        IN  IF p.kind = "Rtp"
            THEN /\ voice.ok <=> readable /\ Body(p) # <<>>
                                 /\ (p.entries = NoExtension \/ p.missing = 0)
                 /\ voice.ok => SubSeq(voice.packet, voice.from + 1, voice.to) = Payload(0, p.len)
            ELSE /\ r.ok = readable
                 /\ r.ok => r.packet = <<Plain(11)>> \o Body(p)
=============================================================================
