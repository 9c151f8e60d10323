----------------------------- MODULE FrameCodec -----------------------------
(***************************************************************************)
(* FrameCodec (src/src/transport/framing.rs): messages with a header of a  *)
(* version byte and a big-endian length, over a stream of bytes that       *)
(* arrives in pieces.  The width of the length and the base of a byte are  *)
(* parameters, so that both ends of their range are within reach.          *)
(***************************************************************************)
EXTENDS Integers, Sequences, SequencesExt

CONSTANTS
    ByteBase, LengthBytes,      \* 256 and 4 in the code
    SendMax, ReceiveMax,        \* max_size of the two codecs
    Payloads,                   \* messages that are encoded
    PROTOCOL_VERSION,
    MaxSent                     \* bound: messages

ASSUME FrameAssumption ==
    /\ ByteBase \in Nat /\ ByteBase > 1 /\ LengthBytes \in Nat
    /\ SendMax \in Nat /\ ReceiveMax \in Nat /\ MaxSent \in Nat
    /\ PROTOCOL_VERSION \in 0 .. ByteBase - 1
    /\ Payloads \subseteq Seq(0 .. ByteBase - 1)

VARIABLES
    wire,             \* bytes encoded and not yet fed
    sent, refused,    \* messages encoded, and how many the encoder refused
    fbuf,             \* FrameCodec.read_buffer
    ferror,           \* history: the first error decode returned
    received          \* history: the messages it returned before that

frameVars == <<wire, sent, refused, fbuf, ferror, received>>

FRAME_HEADER_SIZE == 1 + LengthBytes

FrameInit == wire = <<>> /\ sent = <<>> /\ refused = 0 /\ fbuf = <<>> /\ received = <<>> /\ ferror = "none"

\* u32::MAX + 1: the lengths that the field can hold.
LengthSpace ==
    LET power[k \in 0 .. LengthBytes] == IF k = 0 THEN 1 ELSE ByteBase * power[k - 1]
    IN  power[LengthBytes]

\* put_u32 and from_be_bytes: the most significant byte first.
PutLength(n) ==
    LET rest[k \in 0 .. LengthBytes] == IF k = 0 THEN n ELSE rest[k - 1] \div ByteBase
    IN  [i \in 1 .. LengthBytes |-> rest[LengthBytes - i] % ByteBase]

\* Mutant: the bytes are read in the order of a little-endian machine.
GetLengthLittle(bytes) ==
    LET value[k \in 0 .. Len(bytes)] ==
            IF k = 0 THEN 0 ELSE ByteBase * value[k - 1] + bytes[Len(bytes) + 1 - k]
    IN  value[Len(bytes)]

GetLength(bytes) ==
    LET value[k \in 0 .. Len(bytes)] == IF k = 0 THEN 0 ELSE ByteBase * value[k - 1] + bytes[k]
    IN  value[Len(bytes)]

\* FrameHeader::decode
HeaderVersion(buf) == buf[1]
HeaderLength(buf)  == GetLength(SubSeq(buf, 2, FRAME_HEADER_SIZE))

FrameSize(buf) == FRAME_HEADER_SIZE + HeaderLength(buf)

\* encode: `msg.len() as u32` keeps the low bits.
LengthOf(msg) == Len(msg) % LengthSpace
Frame(msg)    == <<PROTOCOL_VERSION>> \o PutLength(LengthOf(msg)) \o msg

Encode(msg) ==
    /\ Len(sent) + refused < MaxSent
    /\ IF LengthOf(msg) > SendMax
       THEN refused' = refused + 1 /\ UNCHANGED <<wire, sent>>
       ELSE /\ wire' = wire \o Frame(msg)
            /\ sent' = Append(sent, msg)
            /\ UNCHANGED refused
    /\ UNCHANGED <<fbuf, received, ferror>>

\* feed: some more bytes have arrived.
Feed(n) ==
    /\ n <= Len(wire)
    /\ fbuf' = fbuf \o SubSeq(wire, 1, n)
    /\ wire' = SubSeq(wire, n + 1, Len(wire))
    /\ UNCHANGED <<sent, refused, received, ferror>>

\* has_complete_frame: decode has something to say.
HasCompleteFrame ==
    /\ Len(fbuf) >= FRAME_HEADER_SIZE
    /\ \/ HeaderVersion(fbuf) # PROTOCOL_VERSION
       \/ HeaderLength(fbuf) > ReceiveMax
       \/ Len(fbuf) >= FrameSize(fbuf)

\* What decode returned, for the history.
Returns(msg) == received' = (IF ferror = "none" THEN Append(received, msg) ELSE received)
                /\ UNCHANGED ferror
Fails(error) == ferror' = (IF ferror = "none" THEN error ELSE ferror)
                /\ UNCHANGED received

\* decode: an error clears the buffer, and the codec goes on with whatever is
\* fed to it next.
Decode ==
    /\ HasCompleteFrame
    /\ \/ /\ HeaderVersion(fbuf) # PROTOCOL_VERSION
          /\ Fails("InvalidVersion") /\ fbuf' = <<>>
       \/ /\ HeaderVersion(fbuf) = PROTOCOL_VERSION /\ HeaderLength(fbuf) > ReceiveMax
          /\ Fails("MessageTooLarge") /\ fbuf' = <<>>
       \/ /\ HeaderVersion(fbuf) = PROTOCOL_VERSION /\ HeaderLength(fbuf) <= ReceiveMax
          /\ Returns(SubSeq(fbuf, FRAME_HEADER_SIZE + 1, FrameSize(fbuf)))
          /\ fbuf' = SubSeq(fbuf, FrameSize(fbuf) + 1, Len(fbuf))
    /\ UNCHANGED <<wire, sent, refused>>

FrameNext ==
    \/ \E msg \in Payloads : Encode(msg)
    \/ \E n \in 1 .. Len(wire) : Feed(n)
    \/ Decode

AllFit == \A i \in DOMAIN sent : Len(sent[i]) < LengthSpace

\* However the bytes arrive, the messages come out as they went in up to the
\* first error of decode; without one nothing is left in between once all bytes
\* are fed and decoded; and the first error is about a message that is larger
\* than the receiver allows.  From there on the codec may cut frames out of
\* payloads, and nothing is promised.  This is so as long as no message is too
\* long for the length field: encode takes such a one for a short message,
\* whose length is the low bits, and writes all of it.
FramesIntact ==
    AllFit =>
        /\ IsPrefix(received, sent)
        /\ (wire = <<>> /\ fbuf = <<>> /\ ferror = "none") => received = sent
        /\ (wire = <<>> /\ ~HasCompleteFrame /\ ferror = "none") => fbuf = <<>>
        /\ ferror # "none" => /\ ferror = "MessageTooLarge"
                              /\ Len(sent[Len(received) + 1]) > ReceiveMax

FrameChannel == INSTANCE MessageChannel WITH
                    given  <- IF AllFit THEN sent ELSE <<>>,
                    taken  <- IF AllFit THEN received ELSE <<>>,
                    broken <- ~AllFit

\* Encoder, wire and decoder implement MessageChannel: bytes that are under way
\* in any pieces never show.  A message too long for the length field breaks
\* the channel; what comes out after decode's first error is not counted as
\* taken from it.
FramesAreChannel == FrameChannel!Spec
=============================================================================
