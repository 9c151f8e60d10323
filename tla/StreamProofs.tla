---------------------------- MODULE StreamProofs ----------------------------
(* Proofs about DcpStream, for every capacity, header size and set of       *)
(* payload lengths, any number of writers, chunks and resets.               *)
EXTENDS DcpStream, Lemmas

\* The mask keeps every position inside the buffer.
LEMMA SlotInRange == ASSUME NEW n \in Nat PROVE n % Capacity \in Slots
BY CapacityAssumption DEF Slots

\* What the consumer reads at its position is a byte of some chunk.
LEMMA AtIsByte ==
    ASSUME buffer \in [Slots -> Chunks \X Nat], read_pos \in Nat, NEW k \in Nat
    PROVE  At(k) \in Chunks \X Nat
<1>1. (read_pos + k) % Capacity \in Slots
  BY SlotInRange
<1> QED BY <1>1 DEF At

\* Whatever bytes are there, the parsed header is a chunk's.
LEMMA ParsedIsChunk ==
    ASSUME buffer \in [Slots -> Chunks \X Nat], read_pos \in Nat
    PROVE  Parsed \subseteq Chunks
<1>1. At(0) \in Chunks \X Nat
  BY AtIsByte
<1>2. At(0)[1] \in Chunks
  BY <1>1
<1>3. [seq : 0 .. MaxChunks, len : PayloadLens, last : BOOLEAN] \subseteq Chunks
  BY BoundsAssumption DEF Chunks
<1> QED BY <1>2, <1>3 DEF Parsed

\* The lengths a step computes are natural numbers.
LEMMA LengthsNat ==
    ASSUME TypeOK
    PROVE  /\ PartLen \in Nat /\ PartStart \in Nat
           /\ \A c \in Chunks : c.len \in Nat /\ TotalLen(c) \in Nat
<1>1. HeaderSize \in Nat
  BY CapacityAssumption
<1>2. ASSUME NEW c \in Chunks PROVE c.len \in Nat
  <2>1. c.len \in {0} \cup PayloadLens
    BY DEF Chunks
  <2>2. {0} \cup PayloadLens \subseteq Nat
    BY LensAssumption
  <2> QED BY <2>1, <2>2
<1>3. chunk.len \in Nat
  BY <1>2 DEF TypeOK
<1> QED BY <1>1, <1>2, <1>3 DEF PartLen, PartStart, TotalLen

\* Positions, counter, locals and histories keep their types, and the
\* backpressure counter never goes below zero.
THEOREM StreamTypeCorrect == Spec => [](TypeOK /\ PositionsOrdered)
<1> DEFINE Inv == /\ TypeOK /\ PositionsOrdered
                  /\ rpc = "advance" => rd.from + rd.n <= write_pos
                  /\ xpc = "store" => clr.to <= write_pos
<1>1. Init => Inv
  <2> SUFFICES ASSUME Init PROVE Inv
    OBVIOUS
  <2>1. NoChunk \in Chunks
    BY DEF NoChunk, Chunks
  <2>2. buffer \in [Slots -> Chunks \X Nat]
    BY <2>1 DEF Init, Byte
  <2>3. rd \in [head : Chunks, got : Seq(Chunks \X Nat), from : Nat, n : Nat]
    BY <2>1 DEF Init, NoRead
  <2>4. clr \in [to : Nat, n : Nat]
    BY DEF Init, NoClear
  <2>5. wpc \in WritePCs /\ part \in Parts /\ rpc \in ReadPCs /\ xpc \in ResetPCs
    BY DEF Init, WritePCs, Parts, ReadPCs, ResetPCs
  <2>6. complete \in BOOLEAN /\ torn \in BOOLEAN
    BY DEF Init
  <2>7. chunk \in Chunks
    BY <2>1 DEF Init
  <2>8. rpc # "advance" /\ xpc # "store"
    BY DEF Init
  <2>9. write_pos \in Nat /\ read_pos \in Nat /\ available \in Nat
        /\ send_seq \in Nat /\ next_seq \in Nat /\ resets \in Nat
    BY CapacityAssumption DEF Init
  <2>10. hashed \in Seq(Chunks) /\ lock \in Writers \cup {NoWriter}
         /\ delivered \in Seq([chunk : Chunks, bytes : Seq(Chunks \X Nat)])
    BY DEF Init
  <2>11. read_pos <= write_pos
    BY DEF Init
  <2> QED BY <2>2, <2>3, <2>4, <2>5, <2>6, <2>7, <2>8, <2>9, <2>10, <2>11
          DEF TypeOK, PositionsOrdered
<1>2. Inv /\ [Next]_vars => Inv'
  <2> SUFFICES ASSUME Inv, [Next]_vars PROVE Inv'
    OBVIOUS
  <2>0. /\ PartLen \in Nat /\ PartStart \in Nat
        /\ \A c \in Chunks : c.len \in Nat /\ TotalLen(c) \in Nat
    BY LengthsNat
  <2> USE DEF PositionsOrdered, TypeOK
  <2>1. ASSUME NEW w \in Writers, NEW n \in PayloadLens, NEW last \in BOOLEAN,
               WriteBegin(w, n, last)
        PROVE  Inv'
    BY <2>1 DEF WriteBegin, Chunks, WritePCs, consumerVars, resetVars
  <2>2. CASE WriteSpace
    <3>1. NoChunk \in Chunks
      BY DEF NoChunk, Chunks
    <3> QED BY <2>2, <3>1 DEF WriteSpace, Unlocked, WritePCs, Parts, consumerVars, resetVars
  <2>3. CASE WriteSeq
    <3>1. chunk' \in Chunks
      BY <2>3 DEF WriteSeq, Chunks
    <3> QED BY <2>3, <3>1 DEF WriteSeq, WritePCs, consumerVars, resetVars
  <2>4. CASE PushReserve
    <3>1. NoChunk \in Chunks
      BY DEF NoChunk, Chunks
    <3>2. chunk' \in Chunks /\ torn' \in BOOLEAN /\ lock' \in Writers \cup {NoWriter}
      BY <2>4, <3>1 DEF PushReserve, Unlocked
    <3>3. available' \in Nat
      BY <2>4, <2>0 DEF PushReserve
    <3>4. wpc' \in WritePCs /\ part' \in Parts
      BY <2>4 DEF PushReserve, Unlocked, WritePCs, Parts
    <3> QED BY <2>4, <3>2, <3>3, <3>4 DEF PushReserve, consumerVars, resetVars
  <2>5. CASE PushCopy
    <3>1. \A i \in Slots : Byte(chunk, PartStart + ((i + Capacity - (write_pos % Capacity)) % Capacity))
                             \in Chunks \X Nat
      <4> SUFFICES ASSUME NEW i \in Slots
                   PROVE  (i + Capacity - (write_pos % Capacity)) % Capacity \in Nat
        BY <2>0 DEF Byte
      <4>1. write_pos % Capacity \in Slots
        BY SlotInRange
      <4>2. i + Capacity - (write_pos % Capacity) \in Nat
        BY <4>1, CapacityAssumption DEF Slots
      <4> QED BY <4>2, SlotInRange, CapacityAssumption DEF Slots
    <3>2. buffer' \in [Slots -> Chunks \X Nat]
      BY <2>5, <3>1 DEF PushCopy
    <3> QED BY <2>5, <3>2 DEF PushCopy, WritePCs, consumerVars, resetVars
  <2>6. CASE PushPublish
    <3>1. write_pos' \in Nat /\ write_pos <= write_pos'
      BY <2>6, <2>0 DEF PushPublish
    <3>2. wpc' \in WritePCs /\ part' \in Parts
      BY <2>6 DEF PushPublish, WritePCs, Parts
    <3> QED BY <2>6, <3>1, <3>2 DEF PushPublish, consumerVars, resetVars
  <2>7. CASE WriteFinish
    <3>1. NoChunk \in Chunks
      BY DEF NoChunk, Chunks
    <3>2. complete' \in BOOLEAN
      BY <2>7 DEF WriteFinish
    <3> QED BY <2>7, <3>1, <3>2 DEF WriteFinish, Unlocked, WritePCs, Parts,
               consumerVars, resetVars
  <2>20. CASE WriteHash
    BY <2>20 DEF WriteHash, WritePCs, consumerVars, resetVars
  <2>8. CASE ReadHeader
    <3>1. rd' \in [head : Chunks, got : Seq(Chunks \X Nat), from : Nat, n : Nat]
      <4>1. PICK c \in Parsed : rd' = [NoRead EXCEPT !.head = c]
        BY <2>8 DEF ReadHeader
      <4>2. c \in Chunks
        BY ParsedIsChunk
      <4>3. NoRead \in [head : Chunks, got : Seq(Chunks \X Nat), from : Nat, n : Nat]
        BY DEF NoRead, NoChunk, Chunks
      <4> QED BY <4>1, <4>2, <4>3
    <3> QED BY <2>8, <3>1 DEF ReadHeader, ReadPCs, producerVars, resetVars
  <2>9. CASE ReadCheck
    BY <2>9 DEF ReadCheck, ReadPCs, producerVars, resetVars
  <2>10. CASE PopCopy
    <3> DEFINE n == IF write_pos - read_pos < TotalLen(rd.head)
                    THEN write_pos - read_pos ELSE TotalLen(rd.head)
    <3>1. n \in Nat /\ read_pos + n <= write_pos
      BY <2>0
    <3> DEFINE f == [k \in 1 .. n |-> At(k - 1)]
    <3>4. rd' = [rd EXCEPT !.got = f, !.from = read_pos, !.n = n]
      BY <2>10 DEF PopCopy
    <3>2. ASSUME NEW k \in 1 .. n PROVE At(k - 1) \in Chunks \X Nat
      <4>1. k - 1 \in Nat
        BY <3>1
      <4> QED BY <4>1, AtIsByte
    <3>6. f \in [1 .. n -> Chunks \X Nat]
      BY <3>2
    <3> HIDE DEF n, f
    <3>3. f \in Seq(Chunks \X Nat)
      BY <3>1, <3>6
    <3>5. /\ rd' \in [head : Chunks, got : Seq(Chunks \X Nat), from : Nat, n : Nat]
          /\ rd'.from + rd'.n <= write_pos
      BY <3>1, <3>3, <3>4
    <3> QED BY <2>10, <3>5 DEF PopCopy, ReadPCs, producerVars, resetVars
  <2>11. CASE PopAdvance
    BY <2>11 DEF PopAdvance, ReadPCs, producerVars, resetVars
  <2>12. CASE PopRelease
    BY <2>12 DEF PopRelease, ReadPCs, producerVars, resetVars
  <2>13. CASE ReadSeq
    <3>1. NoRead \in [head : Chunks, got : Seq(Chunks \X Nat), from : Nat, n : Nat]
      BY DEF NoRead, NoChunk, Chunks
    <3>2. next_seq' \in Nat
      BY <2>13 DEF ReadSeq, Chunks
    <3>3. delivered' \in Seq([chunk : Chunks, bytes : Seq(Chunks \X Nat)])
      BY <2>13 DEF ReadSeq
    <3> QED BY <2>13, <3>1, <3>2, <3>3 DEF ReadSeq, ReadPCs, producerVars, resetVars
  <2>14. CASE ResetLoad
    BY <2>14 DEF ResetLoad, ResetPCs, producerVars, consumerVars
  <2>15. CASE ResetStore
    BY <2>15 DEF ResetStore, ResetPCs, producerVars, consumerVars
  <2>16. CASE ResetRelease
    BY <2>16 DEF ResetRelease, ResetPCs, NoClear, producerVars, consumerVars
  <2>17. CASE ResetSeqs
    BY <2>17 DEF ResetSeqs, ResetPCs, producerVars, consumerVars
  <2>18. CASE ResetFlags
    <3>1. complete' \in BOOLEAN
      BY <2>18 DEF ResetFlags
    <3>2. xpc' \in ResetPCs /\ xpc' # "store"
      BY <2>18 DEF ResetFlags, ResetPCs
    <3>3. hashed' \in Seq(Chunks)
      <4>1. <<>> \in Seq(Chunks)
        OBVIOUS
      <4>2. hashed' = hashed \/ hashed' = <<>>
        BY <2>18 DEF ResetFlags
      <4> QED BY <4>1, <4>2
    <3> QED BY <2>18, <3>1, <3>2, <3>3 DEF ResetFlags, producerVars, consumerVars
  <2>19. CASE UNCHANGED vars
    BY <2>19 DEF vars, producerVars, consumerVars, resetVars
  <2> QED BY <2>1, <2>2, <2>3, <2>4, <2>5, <2>6, <2>7, <2>8, <2>9, <2>10, <2>11, <2>12,
             <2>13, <2>14, <2>15, <2>16, <2>17, <2>18, <2>19, <2>20
          DEF Next, WriterStep, ReaderStep, ResetStep
<1> QED BY <1>1, <1>2, PTL DEF Spec

\* The strengthening of SpaceAccounted: the consumer's two operations exclude
\* each other, so the position that pop or clear has loaded is still the read
\* position when it stores the next one.
SpaceInv ==
    /\ lock = NoWriter => wpc = "idle"
    /\ xpc # "idle" => rpc = "idle"
    /\ rpc = "advance" => rd.from = read_pos
    /\ xpc = "store" => clr.to = read_pos + clr.n
    /\ SpaceAccounted

\* The slots a push is about to fill hold no unread byte.
NoOverwrite == wpc = "copy" => write_pos + PartLen <= read_pos + Capacity

\* The ring's space is accounted for at every step of write_chunk, read_chunk
\* and reset, failed pushes included, and no push writes over a byte that the
\* consumer has not passed.
THEOREM SpaceIsAccounted == Spec => [](SpaceAccounted /\ NoOverwrite)
<1>1. Init => SpaceInv
  BY CapacityAssumption DEF Init, SpaceInv, SpaceAccounted, Reserved, Passed
<1>2. TypeOK /\ SpaceInv /\ [Next]_vars => SpaceInv'
  <2> SUFFICES ASSUME TypeOK, SpaceInv, [Next]_vars PROVE SpaceInv'
    OBVIOUS
  <2>0. /\ PartLen \in Nat /\ Capacity \in Nat
        /\ \A c \in Chunks : TotalLen(c) \in Nat
    BY LengthsNat, CapacityAssumption
  <2>a. /\ write_pos \in Nat /\ read_pos \in Nat /\ available \in Nat
        /\ rd.n \in Nat /\ rd.from \in Nat /\ clr.n \in Nat /\ clr.to \in Nat
    BY DEF TypeOK
  <2> USE DEF SpaceInv, SpaceAccounted, Reserved, Passed
  <2>1. ASSUME NEW w \in Writers, NEW n \in PayloadLens, NEW last \in BOOLEAN,
               WriteBegin(w, n, last)
        PROVE  SpaceInv'
    BY <2>1, <2>a, WritersAssumption DEF WriteBegin, consumerVars, resetVars
  <2>2. CASE WriteSpace
    BY <2>2, <2>a DEF WriteSpace, Unlocked, consumerVars, resetVars
  <2>3. CASE WriteSeq
    BY <2>3, <2>a DEF WriteSeq, consumerVars, resetVars
  <2>4. CASE PushReserve
    <3>1. CASE available < PartLen
      BY <2>4, <3>1, <2>a DEF PushReserve, Unlocked, consumerVars, resetVars
    <3>2. CASE ~(available < PartLen)
      <4>1. PartLen' = PartLen
        BY <2>4, <3>2 DEF PushReserve, PartLen
      <4> QED BY <2>4, <3>2, <4>1, <2>0, <2>a DEF PushReserve, consumerVars, resetVars
    <3> QED BY <3>1, <3>2
  <2>5. CASE PushCopy
    <3>1. PartLen' = PartLen
      BY <2>5 DEF PushCopy, PartLen
    <3> QED BY <2>5, <3>1, <2>0, <2>a DEF PushCopy, consumerVars, resetVars
  <2>6. CASE PushPublish
    BY <2>6, <2>0, <2>a DEF PushPublish, consumerVars, resetVars
  <2>7. CASE WriteFinish
    BY <2>7, <2>a DEF WriteFinish, Unlocked, consumerVars, resetVars
  <2>12. CASE WriteHash
    BY <2>12, <2>a DEF WriteHash, consumerVars, resetVars
  <2>8. ASSUME ReaderStep PROVE SpaceInv'
    <3>0. UNCHANGED producerVars => PartLen' = PartLen
      BY DEF producerVars, PartLen
    <3>1. CASE ReadHeader
      BY <3>1, <3>0, <2>0, <2>a DEF ReadHeader, producerVars, resetVars
    <3>2. CASE ReadCheck
      BY <3>2, <3>0, <2>0, <2>a DEF ReadCheck, producerVars, resetVars
    <3>3. CASE PopCopy
      <4>1. rd'.from = read_pos
        BY <3>3 DEF PopCopy, TypeOK
      <4> QED BY <3>3, <4>1, <3>0, <2>0, <2>a DEF PopCopy, producerVars, resetVars
    <3>4. CASE PopAdvance
      BY <3>4, <3>0, <2>0, <2>a DEF PopAdvance, producerVars, resetVars
    <3>5. CASE PopRelease
      BY <3>5, <3>0, <2>0, <2>a DEF PopRelease, producerVars, resetVars
    <3>6. CASE ReadSeq
      BY <3>6, <3>0, <2>0, <2>a DEF ReadSeq, producerVars, resetVars
    <3> QED BY <2>8, <3>1, <3>2, <3>3, <3>4, <3>5, <3>6 DEF ReaderStep
  <2>9. ASSUME ResetStep PROVE SpaceInv'
    <3>0. UNCHANGED producerVars => PartLen' = PartLen
      BY DEF producerVars, PartLen
    <3>1. CASE ResetLoad
      <4>1. clr' = [to |-> write_pos, n |-> write_pos - read_pos]
        BY <3>1 DEF ResetLoad
      <4>2. clr'.to = read_pos + clr'.n
        BY <4>1, <2>a
      <4> QED BY <3>1, <4>2, <3>0, <2>0, <2>a DEF ResetLoad, producerVars, consumerVars
    <3>2. CASE ResetStore
      BY <3>2, <3>0, <2>0, <2>a DEF ResetStore, producerVars, consumerVars
    <3>3. CASE ResetRelease
      BY <3>3, <3>0, <2>0, <2>a DEF ResetRelease, producerVars, consumerVars
    <3>4. CASE ResetSeqs
      BY <3>4, <3>0, <2>0, <2>a DEF ResetSeqs, producerVars, consumerVars
    <3>5. CASE ResetFlags
      BY <3>5, <3>0, <2>0, <2>a DEF ResetFlags, producerVars, consumerVars
    <3> QED BY <2>9, <3>1, <3>2, <3>3, <3>4, <3>5 DEF ResetStep
  <2>11. CASE UNCHANGED vars
    BY <2>11 DEF vars, producerVars, consumerVars, resetVars, PartLen
  <2> QED BY <2>1, <2>2, <2>3, <2>4, <2>5, <2>6, <2>7, <2>8, <2>9, <2>11, <2>12
          DEF Next, WriterStep
<1>3. TypeOK /\ PositionsOrdered /\ SpaceInv => SpaceAccounted /\ NoOverwrite
  <2> SUFFICES ASSUME TypeOK, PositionsOrdered, SpaceInv PROVE SpaceAccounted /\ NoOverwrite
    OBVIOUS
  <2>1. /\ PartLen \in Nat /\ Capacity \in Nat
        /\ write_pos \in Nat /\ read_pos \in Nat /\ available \in Nat /\ Passed \in Nat
    BY LengthsNat, CapacityAssumption DEF TypeOK, Passed
  <2>2. wpc = "copy" => Reserved = PartLen
    BY DEF Reserved
  <2> QED BY <2>1, <2>2 DEF SpaceInv, SpaceAccounted, NoOverwrite
<1> QED BY <1>1, <1>2, <1>3, StreamTypeCorrect, PTL DEF Spec

----------------------------------------------------------------------------
(* What the ring holds.  Every chunk that got a sequence number has a place  *)
(* in the stream of bytes; the ring holds the bytes between the positions,   *)
(* and the consumer stands at the start of the next chunk to deliver.  The   *)
(* places are those of a function S: chunk k of Begun starts at S[k].        *)

InPush == wpc \in {"reserve", "copy", "publish", "hash"}

\* The chunks with a sequence number, and how many of them are all in the ring.
Begun    == IF InPush THEN Append(hashed, chunk) ELSE hashed
Finished == IF wpc = "hash" THEN Len(hashed) + 1 ELSE Len(hashed)

\* How much of the current chunk is published, and up to where the ring is filled.
Offset   == IF wpc = "hash" THEN TotalLen(chunk) ELSE IF InPush THEN PartStart ELSE 0
Frontier == IF wpc = "publish" THEN write_pos + PartLen ELSE write_pos

\* The bytes of a whole chunk.
Whole(c) == [j \in 1 .. TotalLen(c) |-> Byte(c, j - 1)]

\* S lays the chunks of B end to end.
Chained(S, B) ==
    /\ S \in [Nat -> Nat] /\ \A k \in 1 .. Len(B) : S[k + 1] = S[k] + TotalLen(B[k])
    /\ \A i, k \in 1 .. Len(B) + 1 : i <= k => S[i] <= S[k]

\* The bytes from lo up to hi are in the buffer.
Holds(S, B, buf, lo, hi) ==
    \A k \in 1 .. Len(B) : \A j \in Nat :
        j < TotalLen(B[k]) /\ lo <= S[k] + j /\ S[k] + j < hi =>
            buf[(S[k] + j) % Capacity] = Byte(B[k], j)

WriterAt(S) ==
    /\ write_pos = S[Len(hashed) + 1] + Offset
    /\ wpc \in {"reserve", "copy", "publish"} /\ part = "payload" => chunk.len > 0

ReaderAt(S) ==
    LET d == Len(delivered)
    IN  /\ d <= Finished
        /\ rpc \in {"idle", "check", "copy", "advance"} => read_pos = S[d + 1]
        /\ rpc \in {"release", "seq"} => read_pos = S[d + 2]
        /\ rpc = "check" => d + 1 <= Len(Begun) /\ rd.head = Begun[d + 1]
        /\ rpc \in {"copy", "advance", "release", "seq"} =>
             d + 1 <= Finished /\ rd.head = Begun[d + 1]
        /\ rpc = "copy" => write_pos - read_pos >= TotalLen(rd.head)
        /\ rpc = "advance" => rd.from = read_pos /\ rd.n = TotalLen(rd.head)
        /\ rpc \in {"advance", "release", "seq"} => rd.got = Whole(rd.head)
        /\ \A k \in 1 .. d : delivered[k].chunk = Begun[k] /\ delivered[k].bytes = Whole(Begun[k])

Intact(S) ==
    /\ Chained(S, Begun)
    /\ Holds(S, Begun, buffer, read_pos, Frontier)
    /\ WriterAt(S) /\ ReaderAt(S)

Calm == ~torn /\ resets = 0

ContentInv ==
    /\ resets = 0 => xpc = "idle"
    /\ wpc \in {"idle", "space", "seq"} => part = "header"
    /\ lock = NoWriter => wpc = "idle"
    /\ Calm => \E S : Intact(S)

\* From position w on, the slot of position q is q - w slots away.
LEMMA RingDistance ==
    ASSUME NEW w \in Nat, NEW q \in Nat, w <= q, q < w + Capacity
    PROVE  ((q % Capacity) + Capacity - (w % Capacity)) % Capacity = q - w
<1>0. Capacity \in Nat /\ Capacity > 0
  BY CapacityAssumption
<1>1. PICK r \in 0 .. Capacity - 1 : r = w % Capacity
  BY <1>0, Division
<1>2. PICK p \in Int : w = Capacity * p + r
  BY <1>0, <1>1, Division
<1>3. PICK b \in Int : b = Capacity - r
  BY <1>0
<1>9. q \in Int /\ q - w \in Int /\ p + 1 \in Int
  OBVIOUS
<1>4. ((q % Capacity) + b) % Capacity = (q + b) % Capacity
  BY <1>0, <1>9, RemainderSum, Zenon
<1>5. q + b = (q - w) + Capacity * (p + 1)
  <2>1. Capacity * (p + 1) = Capacity * p + Capacity
    BY <1>0
  <2>2. PICK m \in Int : m = Capacity * p
    BY <1>0
  <2> QED BY <1>0, <1>2, <1>3, <2>1, <2>2
<1>6. (q + b) % Capacity = (q - w) % Capacity
  <2>1. ((q - w) + Capacity * (p + 1)) % Capacity = (q - w) % Capacity
    BY <1>0, <1>9, RemainderShift, Zenon
  <2> QED BY <1>5, <2>1
<1>7. (q - w) % Capacity = q - w
  <2>1. q - w \in 0 .. Capacity - 1
    BY <1>0
  <2>2. PICK x \in 0 .. Capacity - 1 : x = q - w
    BY <2>1
  <2>3. PICK y \in Int : x = Capacity * y + (x % Capacity)
    BY <1>0, Division
  <2>4. Capacity * 0 + x = Capacity * y + (x % Capacity)
    BY <1>0, <2>3
  <2>5. x % Capacity \in 0 .. Capacity - 1
    BY <1>0, Division
  <2>6. x % Capacity = x
    BY <1>0, <2>4, <2>5, RemainderUnique
  <2> QED BY <2>2, <2>6
<1>8. (q % Capacity) + Capacity - r = (q % Capacity) + b
  BY <1>0, <1>1, <1>3, Division
<1> QED BY <1>1, <1>4, <1>6, <1>7, <1>8

\* The slot of an earlier position that is still in the ring is out of reach of
\* n bytes from w on.
LEMMA RingApart ==
    ASSUME NEW w \in Nat, NEW p \in Nat, NEW n \in Nat, p < w, w + n <= p + Capacity
    PROVE  ~(((p % Capacity) + Capacity - (w % Capacity)) % Capacity < n)
<1>0. Capacity \in Nat /\ Capacity > 0
  BY CapacityAssumption
<1>1. PICK q \in Nat : q = p + Capacity
  BY <1>0
<1>2. q % Capacity = p % Capacity
  <2>1. q = p + Capacity * 1
    BY <1>0, <1>1
  <2>2. p \in Int /\ 1 \in Int
    OBVIOUS
  <2>3. (p + Capacity * 1) % Capacity = p % Capacity
    BY <1>0, <2>2, RemainderShift, Zenon
  <2> QED BY <2>1, <2>3
<1>3. ((q % Capacity) + Capacity - (w % Capacity)) % Capacity = q - w
  <2>1. w <= q /\ q < w + Capacity
    BY <1>0, <1>1
  <2> QED BY <2>1, RingDistance
<1> QED BY <1>0, <1>1, <1>2, <1>3

\* The chunks begun are those hashed and the one being pushed.
LEMMA BegunFacts ==
    ASSUME TypeOK
    PROVE  /\ Begun \in Seq(Chunks) /\ Len(Begun) \in Nat /\ Len(hashed) \in Nat
           /\ Finished \in Nat /\ Finished <= Len(Begun) /\ Len(Begun) <= Len(hashed) + 1
           /\ InPush => Len(Begun) = Len(hashed) + 1 /\ Begun[Len(hashed) + 1] = chunk
           /\ ~InPush => Begun = hashed /\ Finished = Len(hashed)
           /\ InPush /\ wpc # "hash" => Finished = Len(hashed)
           /\ wpc = "hash" => Finished = Len(hashed) + 1
           /\ \A k \in 1 .. Len(hashed) : Begun[k] = hashed[k]
           /\ \A k \in 1 .. Len(Begun) : Begun[k] \in Chunks /\ TotalLen(Begun[k]) \in Nat
                                         /\ TotalLen(Begun[k]) >= HeaderSize
<1>1. hashed \in Seq(Chunks) /\ chunk \in Chunks
  BY DEF TypeOK
<1>2. Append(hashed, chunk) \in Seq(Chunks) /\ Len(Append(hashed, chunk)) = Len(hashed) + 1
      /\ Append(hashed, chunk)[Len(hashed) + 1] = chunk
      /\ \A k \in 1 .. Len(hashed) : Append(hashed, chunk)[k] = hashed[k]
  BY <1>1
<1>3. Len(hashed) \in Nat
  BY <1>1
<1>4. Begun \in Seq(Chunks)
  BY <1>1, <1>2 DEF Begun
<1>5. \A c \in Chunks : TotalLen(c) \in Nat /\ TotalLen(c) >= HeaderSize
  BY LengthsNat, CapacityAssumption DEF TotalLen
<1>6. \A k \in 1 .. Len(Begun) : Begun[k] \in Chunks
  BY <1>4
<1>7. wpc = "hash" => InPush
  BY DEF InPush
<1> QED BY <1>1, <1>2, <1>3, <1>4, <1>5, <1>6, <1>7 DEF Begun, Finished

\* A step of the producer that only adds to the stream leaves the consumer where
\* it is.
LEMMA ReaderKeeps ==
    ASSUME TypeOK, TypeOK', NEW S, NEW T, Chained(S, Begun), ReaderAt(S), UNCHANGED <<rpc, rd, read_pos, delivered>>,
           Len(Begun) <= Len(Begun'), \A k \in 1 .. Len(Begun) : Begun'[k] = Begun[k],
           Finished <= Finished', write_pos <= write_pos',
           \A k \in 1 .. Len(Begun) + 1 : T[k] = S[k]
    PROVE  ReaderAt(T)'
<1>1. PICK d \in Nat : d = Len(delivered) /\ d = Len(delivered')
  BY DEF TypeOK
<1>2. /\ Finished \in Nat /\ Finished <= Len(Begun) /\ Len(Begun) \in Nat
      /\ Finished' \in Nat /\ Finished' <= Len(Begun') /\ Len(Begun') \in Nat
  <2>1. Finished' \in Nat /\ Finished' <= Len(Begun') /\ Len(Begun') \in Nat
    <3>1. hashed' \in Seq(Chunks) /\ chunk' \in Chunks
      BY DEF TypeOK
    <3>2. Len(hashed') \in Nat /\ Len(Append(hashed', chunk')) = Len(hashed') + 1
      BY <3>1
    <3> QED BY <3>2 DEF Finished, Begun, InPush
  <2> QED BY <2>1, BegunFacts
<1>3. d <= Finished /\ d <= Finished'
  BY <1>1, <1>2 DEF ReaderAt
<1>4. d + 1 <= Finished => d + 2 \in 1 .. Len(Begun) + 1 /\ d + 1 \in 1 .. Len(Begun)
                           /\ T[d + 2] = S[d + 2] /\ Begun'[d + 1] = Begun[d + 1]
                           /\ d + 1 <= Finished'
  BY <1>2
<1>5. d + 1 \in 1 .. Len(Begun) + 1 /\ T[d + 1] = S[d + 1]
  BY <1>2, <1>3
<1>6. d + 1 <= Len(Begun) => d + 1 <= Len(Begun') /\ Begun'[d + 1] = Begun[d + 1]
  BY <1>2
<1>7. /\ rpc \in {"idle", "check", "copy", "advance"} => read_pos = T[d + 1]
      /\ rpc \in {"release", "seq"} => read_pos = T[d + 2]
  BY <1>1, <1>4, <1>5 DEF ReaderAt
<1>8. /\ rpc = "check" => d + 1 <= Len(Begun') /\ rd.head = Begun'[d + 1]
      /\ rpc \in {"copy", "advance", "release", "seq"} =>
           d + 1 <= Finished' /\ rd.head = Begun'[d + 1]
  BY <1>1, <1>4, <1>6 DEF ReaderAt
<1>9. rpc = "copy" => write_pos' - read_pos >= TotalLen(rd.head)
  <2>1. /\ write_pos \in Nat /\ write_pos' \in Nat /\ read_pos \in Nat
        /\ TotalLen(rd.head) \in Nat
    BY LengthsNat DEF TypeOK
  <2> QED BY <2>1 DEF ReaderAt
<1>10. \A k \in 1 .. d : delivered[k].chunk = Begun'[k] /\ delivered[k].bytes = Whole(Begun'[k])
  <2> SUFFICES ASSUME NEW k \in 1 .. d
               PROVE  delivered[k].chunk = Begun'[k] /\ delivered[k].bytes = Whole(Begun'[k])
    OBVIOUS
  <2>1. k \in 1 .. Len(Begun)
    BY <1>2, <1>3
  <2> QED BY <1>1, <2>1 DEF ReaderAt
<1>11. UNCHANGED <<rpc, rd, read_pos, delivered>>
  OBVIOUS
<1>12. /\ rpc = "advance" => rd.from = read_pos /\ rd.n = TotalLen(rd.head)
       /\ rpc \in {"advance", "release", "seq"} => rd.got = Whole(rd.head)
  BY DEF ReaderAt
<1> QED BY <1>1, <1>3, <1>7, <1>8, <1>9, <1>10, <1>11, <1>12 DEF ReaderAt, TotalLen, Whole

\* The consumer may pass bytes.
LEMMA HoldsLess ==
    ASSUME NEW S, NEW B, NEW buf, NEW lo \in Nat, NEW hi \in Nat, NEW lo2 \in Nat, NEW hi2 \in Nat,
           Chained(S, B), Len(B) \in Nat, Holds(S, B, buf, lo, hi), lo <= lo2, hi2 <= hi
    PROVE  Holds(S, B, buf, lo2, hi2)
<1> SUFFICES ASSUME NEW k \in 1 .. Len(B), NEW j \in Nat,
                    j < TotalLen(B[k]), lo2 <= S[k] + j, S[k] + j < hi2
             PROVE  buf[(S[k] + j) % Capacity] = Byte(B[k], j)
  BY DEF Holds
<1>1. S[k] \in Nat
  BY DEF Chained
<1>2. lo <= S[k] + j /\ S[k] + j < hi
  BY <1>1
<1> QED BY <1>2 DEF Holds

\* Steps of the producer that move no byte: the call begins and ends, space is
\* checked and reserved, the chunk is fed to the hasher.
LEMMA WriterSteps ==
    ASSUME TypeOK, TypeOK', NEW S, Intact(S), Calm', lock = NoWriter => wpc = "idle",
           \/ \E w \in Writers, n \in PayloadLens, last \in BOOLEAN : WriteBegin(w, n, last)
           \/ WriteSpace \/ PushReserve \/ WriteHash \/ WriteFinish
    PROVE  Intact(S)'
<1>0. /\ UNCHANGED <<rpc, rd, read_pos, delivered, write_pos, buffer>>
      /\ wpc # "publish" /\ wpc' # "publish"
  BY DEF WriteBegin, WriteSpace, PushReserve, WriteHash, WriteFinish, Unlocked, consumerVars
<1>1. Begun' = Begun /\ Finished' = Finished
  <2>1. CASE WriteHash
    BY <2>1 DEF WriteHash, Begun, Finished, InPush, TypeOK
  <2>2. CASE PushReserve
    <3>1. wpc = "reserve" /\ wpc' = "copy" /\ UNCHANGED <<hashed, chunk>>
      BY <2>2 DEF PushReserve, Calm
    <3> QED BY <3>1 DEF Begun, Finished, InPush
  <2>3. CASE \/ \E w \in Writers, n \in PayloadLens, last \in BOOLEAN : WriteBegin(w, n, last)
             \/ WriteSpace \/ WriteFinish
    <3>1. hashed' = hashed /\ wpc \in {"idle", "space", "finish"} /\ wpc' \in {"idle", "space", "seq"}
      BY <2>3 DEF WriteBegin, WriteSpace, WriteFinish, Unlocked
    <3> QED BY <3>1 DEF Begun, Finished, InPush
  <2> QED BY <2>1, <2>2, <2>3
<1>2. Frontier = write_pos /\ Frontier' = write_pos
  BY <1>0 DEF Frontier
<1>3. WriterAt(S)'
  <2>1. CASE WriteHash
    <3>1. wpc = "hash" /\ wpc' = "finish" /\ hashed' = Append(hashed, chunk) /\ write_pos' = write_pos
      BY <2>1 DEF WriteHash
    <3>2. Len(hashed') = Len(hashed) + 1 /\ Len(hashed) \in Nat
      BY <3>1 DEF TypeOK
    <3>3. Len(Begun) = Len(hashed) + 1 /\ Begun[Len(hashed) + 1] = chunk
      BY <3>1, BegunFacts DEF InPush
    <3>4. S[Len(hashed) + 1 + 1] = S[Len(hashed) + 1] + TotalLen(chunk) /\ S[Len(hashed) + 1 + 1] \in Nat
      <4>1. PICK m \in Nat : m = Len(hashed) + 1
        BY <3>2
      <4>2. m \in 1 .. Len(Begun) /\ m + 1 \in Nat
        BY <3>2, <3>3, <4>1
      <4>3. S[m + 1] = S[m] + TotalLen(Begun[m]) /\ S[m + 1] \in Nat
        BY <4>2 DEF Intact, Chained
      <4> QED BY <3>3, <4>1, <4>3
    <3>5. Offset = TotalLen(chunk) /\ Offset' = 0
      BY <3>1 DEF Offset, InPush
    <3> QED BY <3>1, <3>2, <3>4, <3>5 DEF Intact, WriterAt
  <2>2. CASE PushReserve
    <3>1. wpc = "reserve" /\ wpc' = "copy" /\ UNCHANGED <<hashed, chunk, part, write_pos>>
      BY <2>2 DEF PushReserve, Calm
    <3>2. Offset' = Offset
      BY <3>1 DEF Offset, InPush, PartStart
    <3> QED BY <3>1, <3>2 DEF Intact, WriterAt
  <2>3. CASE \/ \E w \in Writers, n \in PayloadLens, last \in BOOLEAN : WriteBegin(w, n, last)
             \/ WriteSpace \/ WriteFinish
    <3>1. hashed' = hashed /\ wpc \in {"idle", "space", "finish"} /\ wpc' \in {"idle", "space", "seq"}
      BY <2>3 DEF WriteBegin, WriteSpace, WriteFinish, Unlocked
    <3>2. Offset = 0 /\ Offset' = 0
      BY <3>1 DEF Offset, InPush
    <3> QED BY <1>0, <3>1, <3>2 DEF Intact, WriterAt
  <2> QED BY <2>1, <2>2, <2>3
<1>4. ReaderAt(S)'
  <2>1. Len(Begun) \in Nat /\ Finished \in Nat /\ write_pos \in Nat
    BY BegunFacts DEF TypeOK
  <2>2. Len(Begun) <= Len(Begun') /\ Finished <= Finished' /\ write_pos <= write_pos'
    BY <1>0, <1>1, <2>1
  <2> QED BY <1>0, <1>1, <2>2, ReaderKeeps DEF Intact
<1> QED BY <1>0, <1>1, <1>2, <1>3, <1>4 DEF Intact, Chained, Holds, TotalLen, Byte

\* The sequence number is taken: the chunk gets its place behind the others.
LEMMA SeqStep ==
    ASSUME TypeOK, TypeOK', NEW S, Intact(S), part = "header", WriteSeq
    PROVE  \E T : Intact(T)'
<1>0. /\ UNCHANGED <<rpc, rd, read_pos, delivered, write_pos, buffer, hashed, part>>
      /\ wpc = "seq" /\ wpc' = "reserve"
  BY DEF WriteSeq, consumerVars
<1>1. PICK m \in Nat : m = Len(hashed)
  BY DEF TypeOK
<1>2. hashed \in Seq(Chunks) /\ chunk' \in Chunks /\ S \in [Nat -> Nat]
  BY DEF TypeOK, Intact, Chained
<1>3. Begun = hashed /\ Begun' = Append(hashed, chunk') /\ Finished = m /\ Finished' = m
  BY <1>0, <1>1 DEF Begun, Finished, InPush
<1>4. PICK L \in Nat : L = TotalLen(chunk')
  BY <1>2, LengthsNat
<1>5. Len(Begun) = m /\ Len(Begun') = m + 1 /\ Begun'[m + 1] = chunk'
      /\ \A k \in 1 .. m : Begun'[k] = Begun[k]
  BY <1>1, <1>2, <1>3
<1>6. PICK T : T = [S EXCEPT ![m + 2] = S[m + 1] + L]
  OBVIOUS
<1>7. T \in [Nat -> Nat] /\ T[m + 2] = T[m + 1] + L /\ \A k \in 1 .. m + 1 : T[k] = S[k]
  <2>1. m + 1 \in Nat /\ m + 2 \in Nat /\ S[m + 1] \in Nat
    BY <1>2
  <2>2. PICK v \in Nat : v = S[m + 1] + L
    BY <2>1
  <2>3. PICK n \in Nat : n = m + 2
    OBVIOUS
  <2>4. T = [S EXCEPT ![n] = v] /\ T \in [Nat -> Nat] /\ T[n] = v
    BY <1>2, <1>6, <2>2, <2>3
  <2>5. ASSUME NEW k \in 1 .. m + 1 PROVE T[k] = S[k]
    <3>1. k # n /\ k \in Nat
      BY <2>3
    <3> QED BY <1>2, <2>4, <3>1
  <2>6. T[m + 1] = S[m + 1]
    BY <2>5
  <2> QED BY <2>2, <2>3, <2>4, <2>5, <2>6
<1>8. Chained(T, Begun')
  <2>3. ASSUME NEW i \in 1 .. m + 2, NEW k \in 1 .. m + 2, i <= k PROVE T[i] <= T[k]
    <3>1. T[m + 1] <= T[m + 2] /\ \A x \in Nat : T[x] \in Nat
      BY <1>7
    <3>2. ASSUME NEW x \in 1 .. m + 1, NEW y \in 1 .. m + 1, x <= y PROVE T[x] <= T[y]
      BY <1>5, <1>7, <3>2 DEF Intact, Chained
    <3>3. CASE k \in 1 .. m + 1
      <4>1. i \in 1 .. m + 1
        BY <2>3, <3>3
      <4> QED BY <2>3, <3>2, <3>3, <4>1
    <3>4. CASE k = m + 2 /\ i # m + 2
      <4>1. i \in 1 .. m + 1 /\ m + 1 \in 1 .. m + 1 /\ i <= m + 1
        BY <2>3, <3>4
      <4>2. T[i] <= T[m + 1]
        BY <3>2, <4>1
      <4>3. T[i] \in Nat /\ T[m + 1] \in Nat /\ T[m + 2] \in Nat
        BY <3>1
      <4> QED BY <3>1, <3>4, <4>2, <4>3
    <3>5. CASE i = k
      BY <3>1, <3>5
    <3> QED BY <2>3, <3>3, <3>4, <3>5
  <2> SUFFICES ASSUME NEW k \in 1 .. m + 1 PROVE T[k + 1] = T[k] + TotalLen(Begun'[k])
    <3>1. Len(Begun') + 1 = m + 2
      BY <1>5
    <3> QED BY <1>5, <1>7, <2>3, <3>1 DEF Chained
  <2>1. CASE k = m + 1
    BY <1>4, <1>5, <1>7, <2>1
  <2>2. CASE k \in 1 .. m
    <3>1. k + 1 \in 1 .. m + 1 /\ k \in 1 .. m + 1
      BY <2>2
    <3>2. S[k + 1] = S[k] + TotalLen(Begun[k])
      BY <1>5, <2>2 DEF Intact, Chained
    <3> QED BY <1>5, <1>7, <2>2, <3>1, <3>2
  <2> QED BY <2>1, <2>2
<1>9. write_pos = T[m + 1] /\ Frontier = write_pos /\ Frontier' = write_pos
  <2>1. Offset = 0
    BY <1>0 DEF Offset, InPush
  <2>2. write_pos = S[m + 1] + 0
    BY <1>1, <2>1 DEF Intact, WriterAt
  <2>3. S[m + 1] \in Nat /\ m + 1 \in 1 .. m + 1
    BY <1>2
  <2> QED BY <1>0, <1>7, <2>2, <2>3 DEF Frontier
<1>10. Holds(T, Begun', buffer, read_pos, write_pos)
  <2> SUFFICES ASSUME NEW k \in 1 .. m + 1, NEW j \in Nat, j < TotalLen(Begun'[k]),
                      read_pos <= T[k] + j, T[k] + j < write_pos
               PROVE  buffer[(T[k] + j) % Capacity] = Byte(Begun'[k], j)
    BY <1>5 DEF Holds
  <2>1. k \in 1 .. m
    <3>1. T[m + 1] \in Nat
      BY <1>7
    <3> QED BY <1>9, <3>1
  <2>2. T[k] = S[k] /\ Begun'[k] = Begun[k]
    BY <1>5, <1>7, <2>1
  <2>3. Holds(S, Begun, buffer, read_pos, write_pos)
    BY <1>9 DEF Intact
  <2> QED BY <1>5, <2>1, <2>2, <2>3 DEF Holds
<1>11. WriterAt(T)'
  <2>1. Offset' = 0 /\ T[m + 1] \in Nat
    BY <1>0, <1>7 DEF Offset, InPush, PartStart
  <2>2. Len(hashed') = m /\ write_pos' = write_pos
    BY <1>0, <1>1
  <2> QED BY <1>0, <1>9, <2>1, <2>2 DEF WriterAt
<1>12. ReaderAt(T)'
  <2>1. Len(Begun) <= Len(Begun') /\ Finished <= Finished' /\ write_pos <= write_pos'
    BY <1>0, <1>3, <1>5 DEF TypeOK
  <2> QED BY <1>0, <1>5, <1>7, <2>1, ReaderKeeps DEF Intact
<1>13. Holds(T, Begun, buffer, read_pos, Frontier)'
  BY <1>0, <1>9, <1>10 DEF Holds, TotalLen, Byte
<1>14. Chained(T, Begun)'
  BY <1>8 DEF Chained, TotalLen
<1> QED BY <1>11, <1>12, <1>13, <1>14 DEF Intact

\* The part being pushed is copied behind the published bytes, and over no
\* unread one.
LEMMA CopyStep ==
    ASSUME TypeOK, TypeOK', NEW S, Intact(S), NoOverwrite, PositionsOrdered, PushCopy
    PROVE  Intact(S)'
<1>0. /\ UNCHANGED <<rpc, rd, read_pos, delivered, write_pos, hashed, part, chunk>>
      /\ wpc = "copy" /\ wpc' = "publish"
  BY DEF PushCopy, consumerVars
<1>1. Begun' = Begun /\ Finished' = Finished
  BY <1>0 DEF Begun, Finished, InPush
<1>2. PICK w \in Nat, lo \in Nat, n \in Nat, st \in Nat, m \in Nat :
        w = write_pos /\ lo = read_pos /\ n = PartLen /\ st = PartStart /\ m = Len(hashed)
  <2>1. PartLen \in Nat /\ PartStart \in Nat
    BY LengthsNat
  <2>2. write_pos \in Nat /\ read_pos \in Nat /\ Len(hashed) \in Nat
    BY DEF TypeOK
  <2> QED BY <2>1, <2>2
<1>3. lo <= w /\ w + n <= lo + Capacity /\ Capacity \in Nat
  BY <1>0, <1>2, CapacityAssumption DEF NoOverwrite, PositionsOrdered
<1>4. PICK B : B = Begun
  OBVIOUS
<1>5. /\ Len(B) = m + 1 /\ B[m + 1] = chunk
      /\ \A k \in 1 .. m + 1 : TotalLen(B[k]) \in Nat
  BY <1>0, <1>2, <1>4, BegunFacts DEF InPush
<1>6. /\ S \in [Nat -> Nat] /\ \A k \in 1 .. m + 1 : S[k + 1] = S[k] + TotalLen(B[k])
      /\ \A i, k \in 1 .. m + 2 : i <= k => S[i] <= S[k]
  <2>1. Len(B) + 1 = m + 2
    BY <1>5
  <2> QED BY <1>4, <1>5, <2>1 DEF Intact, Chained
<1>7. w = S[m + 1] + st
  BY <1>0, <1>2 DEF Intact, WriterAt, Offset, InPush
<1>8. Frontier = w /\ Frontier' = w + n
  BY <1>0, <1>2 DEF Frontier, PartLen
<1>9. Holds(S, B, buffer, lo, w)
  BY <1>2, <1>4, <1>8 DEF Intact
<1>10. ASSUME NEW i \in Slots, NEW x, x = (i + Capacity - (w % Capacity)) % Capacity
       PROVE  buffer'[i] = IF x < n THEN Byte(chunk, st + x) ELSE buffer[i]
  BY <1>2, <1>10 DEF PushCopy
<1>11. Holds(S, B, buffer', lo, w + n)
  <2> SUFFICES ASSUME NEW k \in 1 .. m + 1, NEW j \in Nat, j < TotalLen(B[k]),
                      lo <= S[k] + j, S[k] + j < w + n
               PROVE  buffer'[(S[k] + j) % Capacity] = Byte(B[k], j)
    BY <1>5 DEF Holds
  <2>1. PICK p \in Nat : p = S[k] + j
    <3>1. S[k] \in Nat
      BY <1>6
    <3> QED BY <3>1
  <2>2. PICK i \in Slots : i = p % Capacity
    BY SlotInRange
  <2>3. PICK x : x = (i + Capacity - (w % Capacity)) % Capacity
    OBVIOUS
  <2>4. CASE p < w
    <3>1. w + n <= p + Capacity
      BY <1>3, <2>1
    <3>2. ~(x < n)
      BY <2>2, <2>3, <2>4, <3>1, RingApart
    <3>3. buffer'[i] = buffer[i]
      BY <1>10, <2>3, <3>2
    <3>4. buffer[p % Capacity] = Byte(B[k], j)
      BY <1>5, <1>9, <2>1, <2>4 DEF Holds
    <3> QED BY <2>1, <2>2, <3>3, <3>4
  <2>5. CASE ~(p < w)
    <3>1. k = m + 1
      <4> SUFFICES ASSUME k # m + 1 PROVE FALSE
        OBVIOUS
      <4>1. k \in 1 .. m + 1 /\ k + 1 \in 1 .. m + 2 /\ m + 1 \in 1 .. m + 2 /\ k + 1 <= m + 1
        OBVIOUS
      <4>2. S[k + 1] <= S[m + 1] /\ S[k + 1] = S[k] + TotalLen(B[k])
        BY <1>6, <4>1
      <4>3. S[k] \in Nat /\ S[m + 1] \in Nat /\ TotalLen(B[k]) \in Nat
        BY <1>5, <1>6
      <4> QED BY <1>7, <2>1, <2>5, <4>2, <4>3
    <3>2. w <= p /\ p < w + Capacity
      BY <1>3, <2>1, <2>5
    <3>3. x = p - w
      BY <2>2, <2>3, <3>2, RingDistance
    <3>4. x < n /\ st + x = j
      <4>1. S[m + 1] \in Nat
        BY <1>6
      <4> QED BY <1>7, <2>1, <3>1, <3>2, <3>3, <4>1
    <3>5. buffer'[i] = Byte(chunk, j)
      BY <1>10, <2>3, <3>4
    <3> QED BY <1>5, <2>1, <2>2, <3>1, <3>5
  <2> QED BY <2>4, <2>5
<1>12. Holds(S, Begun, buffer, read_pos, Frontier)'
  BY <1>0, <1>1, <1>2, <1>4, <1>8, <1>11 DEF Holds, TotalLen, Byte
<1>13. WriterAt(S)'
  <2>1. Offset' = Offset
    BY <1>0 DEF Offset, InPush, PartStart
  <2> QED BY <1>0, <2>1 DEF Intact, WriterAt
<1>14. ReaderAt(S)'
  <2>1. Len(Begun) \in Nat /\ Finished \in Nat /\ write_pos \in Nat
    BY BegunFacts DEF TypeOK
  <2>2. Len(Begun) <= Len(Begun') /\ Finished <= Finished' /\ write_pos <= write_pos'
    BY <1>0, <1>1, <2>1
  <2> QED BY <1>0, <1>1, <2>2, ReaderKeeps DEF Intact
<1> QED BY <1>1, <1>12, <1>13, <1>14 DEF Intact, Chained, TotalLen

\* The part is published.
LEMMA PublishStep ==
    ASSUME TypeOK, TypeOK', NEW S, Intact(S), PushPublish
    PROVE  Intact(S)'
<1>0. /\ UNCHANGED <<rpc, rd, read_pos, delivered, buffer, hashed, chunk>>
      /\ wpc = "publish" /\ wpc' \in {"reserve", "hash"} /\ write_pos' = write_pos + PartLen
      /\ part' = "payload"
  BY DEF PushPublish, consumerVars
<1>1. Begun' = Begun
  BY <1>0 DEF Begun, InPush
<1>2. PartLen \in Nat /\ PartStart \in Nat /\ write_pos \in Nat /\ HeaderSize \in Nat /\ chunk.len \in Nat
  <2>1. PartLen \in Nat /\ PartStart \in Nat /\ \A c \in Chunks : c.len \in Nat
    BY LengthsNat
  <2>2. write_pos \in Nat /\ chunk \in Chunks
    BY DEF TypeOK
  <2> QED BY <2>1, <2>2, CapacityAssumption
<1>3. Frontier' = Frontier
  BY <1>0 DEF Frontier
<1>4. PICK a \in Nat : a = S[Len(hashed) + 1] /\ write_pos = a + PartStart
  <2>1. Offset = PartStart
    BY <1>0 DEF Offset, InPush
  <2>2. Len(hashed) \in Nat
    BY DEF TypeOK
  <2>3. S[Len(hashed) + 1] \in Nat
    BY <2>2 DEF Intact, Chained
  <2> QED BY <2>1, <2>3 DEF Intact, WriterAt
<1>5. Offset' = PartStart + PartLen /\ (wpc' = "reserve" => chunk.len > 0)
  <2>1. CASE part = "header" /\ chunk.len > 0
    <3>1. wpc' = "reserve"
      BY <2>1 DEF PushPublish
    <3>2. Offset' = HeaderSize
      BY <1>0, <3>1 DEF Offset, InPush, PartStart
    <3> QED BY <1>2, <2>1, <3>2 DEF PartStart, PartLen
  <2>2. CASE ~(part = "header" /\ chunk.len > 0)
    <3>1. wpc' = "hash"
      BY <2>2 DEF PushPublish
    <3>2. Offset' = HeaderSize + chunk.len
      BY <1>0, <3>1 DEF Offset, TotalLen
    <3>3. CASE part = "header"
      <4>1. chunk.len = 0
        BY <1>2, <2>2, <3>3
      <4> QED BY <1>2, <3>1, <3>2, <3>3, <4>1 DEF PartStart, PartLen
    <3>4. CASE part # "header"
      BY <1>2, <3>1, <3>2, <3>4 DEF PartStart, PartLen
    <3> QED BY <3>3, <3>4
  <2> QED BY <2>1, <2>2
<1>6. WriterAt(S)'
  <2>1. write_pos' = a + Offset' /\ Len(hashed') = Len(hashed)
    BY <1>0, <1>2, <1>4, <1>5
  <2> QED BY <1>0, <1>4, <1>5, <2>1 DEF WriterAt
<1>7. ReaderAt(S)'
  <2>1. Len(Begun) \in Nat /\ Finished \in Nat /\ Finished = Len(hashed) /\ Len(hashed) \in Nat
    BY <1>0, BegunFacts DEF InPush
  <2>2. Finished <= Finished'
    BY <1>0, <2>1 DEF Finished
  <2>3. Len(Begun) <= Len(Begun') /\ write_pos <= write_pos'
    BY <1>0, <1>1, <1>2, <2>1
  <2> QED BY <1>0, <1>1, <2>2, <2>3, ReaderKeeps DEF Intact
<1> QED BY <1>0, <1>1, <1>3, <1>6, <1>7 DEF Intact, Chained, Holds, TotalLen, Byte

\* The stream ends at the last chunk begun, and before its end while that one
\* is not all published.
LEMMA EndOfStream ==
    ASSUME TypeOK, NEW S, Intact(S)
    PROVE  /\ write_pos <= S[Len(Begun) + 1] /\ Len(Begun) <= Finished + 1
           /\ Finished < Len(Begun) => write_pos < S[Len(Begun) + 1]
<1>1. PICK m \in Nat : m = Len(hashed)
  BY DEF TypeOK
<1>2. S[m + 1] \in Nat /\ write_pos = S[m + 1] + Offset /\ write_pos \in Nat
  BY <1>1 DEF Intact, WriterAt, Chained, TypeOK
<1>3. HeaderSize \in Nat /\ HeaderSize > 0 /\ chunk.len \in Nat
  <2>1. \A c \in Chunks : c.len \in Nat
    BY LengthsNat
  <2>2. chunk \in Chunks
    BY DEF TypeOK
  <2> QED BY <2>1, <2>2, CapacityAssumption
<1>4. CASE ~InPush
  <2>1. Offset = 0
    BY <1>4 DEF Offset, InPush
  <2>2. Len(Begun) = m /\ Finished = m
    BY <1>1, <1>4, BegunFacts
  <2> QED BY <1>2, <2>1, <2>2
<1>5. CASE InPush
  <2>1. Len(Begun) = m + 1 /\ Begun[m + 1] = chunk
    BY <1>1, <1>5, BegunFacts
  <2>2. PICK k \in 1 .. Len(Begun) : k = m + 1
    BY <2>1
  <2>3. S[k + 1] = S[k] + TotalLen(Begun[k])
    BY DEF Intact, Chained
  <2>4. S[Len(Begun) + 1] = S[m + 1] + (HeaderSize + chunk.len)
    BY <2>1, <2>2, <2>3 DEF TotalLen
  <2>5. CASE wpc = "hash"
    <3>1. Offset = HeaderSize + chunk.len
      BY <2>5 DEF Offset, TotalLen
    <3>2. Finished = m + 1
      BY <1>1, <2>5, BegunFacts
    <3> QED BY <1>2, <1>3, <2>1, <2>4, <3>1, <3>2
  <2>6. CASE wpc # "hash"
    <3>1. Finished = m
      BY <1>1, <1>5, <2>6, BegunFacts
    <3>2. Offset < HeaderSize + chunk.len /\ Offset \in Nat
      <4>1. Offset = PartStart
        BY <1>5, <2>6 DEF Offset
      <4>2. part # "header" => chunk.len > 0
        BY <1>5, <2>6 DEF Intact, WriterAt, InPush, TypeOK, Parts
      <4> QED BY <1>3, <4>1, <4>2 DEF PartStart
    <3> QED BY <1>2, <1>3, <2>1, <2>4, <3>1, <3>2
  <2> QED BY <2>5, <2>6
<1> QED BY <1>4, <1>5

\* A step of the consumer leaves the producer's side as it is.
LEMMA ReaderFrame ==
    ASSUME TypeOK, TypeOK', NEW S, Intact(S), UNCHANGED <<buffer, write_pos, producerVars, hashed>>,
           read_pos <= read_pos'
    PROVE  /\ Begun' = Begun /\ Finished' = Finished
           /\ ReaderAt(S)' => Intact(S)'
<1>1. UNCHANGED <<wpc, part, chunk, hashed, buffer, write_pos>>
  BY DEF producerVars
<1>2. Begun' = Begun /\ Finished' = Finished /\ Frontier' = Frontier /\ Offset' = Offset
  BY <1>1 DEF Begun, Finished, Frontier, Offset, InPush, PartLen, PartStart, TotalLen
<1>3. Chained(S, Begun)'
  BY <1>2 DEF Intact, Chained, TotalLen
<1>4. Holds(S, Begun, buffer, read_pos', Frontier)
  <2>1. read_pos \in Nat /\ read_pos' \in Nat
    BY DEF TypeOK
  <2>2. Frontier \in Nat /\ Len(Begun) \in Nat
    <3>1. PartLen \in Nat
      BY LengthsNat
    <3>2. write_pos \in Nat
      BY DEF TypeOK
    <3> QED BY <3>1, <3>2, BegunFacts DEF Frontier
  <2>3. Frontier <= Frontier
    BY <2>2
  <2>4. Chained(S, Begun) /\ Holds(S, Begun, buffer, read_pos, Frontier)
    BY DEF Intact
  <2>8. PICK B : B = Begun
    OBVIOUS
  <2>5. PICK f \in Nat, lo \in Nat, lo2 \in Nat : f = Frontier /\ lo = read_pos /\ lo2 = read_pos'
    BY <2>1, <2>2
  <2>7. /\ Chained(S, B) /\ Holds(S, B, buffer, lo, f) /\ Len(B) \in Nat
        /\ lo <= lo2 /\ f <= f
    BY <2>2, <2>3, <2>4, <2>5, <2>8
  <2>6. Holds(S, B, buffer, lo2, f)
    BY <2>7, HoldsLess
  <2> QED BY <2>5, <2>6, <2>8
<1>5. Holds(S, Begun, buffer, read_pos, Frontier)'
  BY <1>1, <1>2, <1>4 DEF Holds, TotalLen, Byte
<1>6. WriterAt(S)'
  BY <1>1, <1>2 DEF Intact, WriterAt
<1> QED BY <1>2, <1>3, <1>5, <1>6 DEF Intact

\* The bytes at the read position are those of the next chunk to deliver.
LEMMA NextChunkBytes ==
    ASSUME TypeOK, NEW S, Intact(S), NEW e \in 1 .. Len(Begun), read_pos = S[e],
           NEW k \in Nat, k < TotalLen(Begun[e]), read_pos + k < write_pos
    PROVE  At(k) = Byte(Begun[e], k)
<1>1. read_pos \in Nat /\ write_pos \in Nat
  BY DEF TypeOK
<1>2. PartLen \in Nat
  BY LengthsNat
<1>3. write_pos <= Frontier /\ Frontier \in Nat
  BY <1>1, <1>2 DEF Frontier
<1>4. read_pos <= S[e] + k /\ S[e] + k < Frontier
  BY <1>1, <1>3
<1>5. buffer[(S[e] + k) % Capacity] = Byte(Begun[e], k)
  BY <1>4 DEF Intact, Holds
<1> QED BY <1>5 DEF At

\* read_chunk finds the header of the next chunk.
LEMMA HeaderStep ==
    ASSUME TypeOK, TypeOK', NEW S, Intact(S), ReadHeader
    PROVE  Intact(S)'
<1>0. /\ UNCHANGED <<buffer, write_pos, producerVars, hashed>> /\ UNCHANGED <<read_pos, delivered>>
      /\ rpc = "idle" /\ rpc' = "check" /\ write_pos - read_pos >= HeaderSize
  BY DEF ReadHeader
<1>1. PICK d \in Nat : d = Len(delivered)
  BY DEF TypeOK
<1>2. read_pos \in Nat /\ write_pos \in Nat /\ HeaderSize \in Nat /\ HeaderSize > 0
  BY CapacityAssumption DEF TypeOK
<1>3. Begun' = Begun /\ Finished' = Finished /\ (ReaderAt(S)' => Intact(S)')
  <2>1. read_pos <= read_pos'
    BY <1>0, <1>2
  <2> QED BY <1>0, <2>1, ReaderFrame
<1>4. read_pos = S[d + 1] /\ d <= Finished
  BY <1>0, <1>1 DEF Intact, ReaderAt
<1>5. d + 1 \in 1 .. Len(Begun)
  <2>1. Finished \in Nat /\ Len(Begun) \in Nat /\ Finished <= Len(Begun)
    BY BegunFacts
  <2>2. write_pos <= S[Len(Begun) + 1]
    BY EndOfStream
  <2>3. d # Len(Begun)
    BY <1>0, <1>2, <1>4, <2>2
  <2> QED BY <1>4, <2>1, <2>3
<1>6. PICK e \in 1 .. Len(Begun) : e = d + 1
  BY <1>5
<1>7. ASSUME NEW k \in 0 .. HeaderSize - 1 PROVE At(k) = Byte(Begun[e], k)
  <2>1. TotalLen(Begun[e]) \in Nat /\ TotalLen(Begun[e]) >= HeaderSize
    BY BegunFacts
  <2>2. k \in Nat /\ k < TotalLen(Begun[e]) /\ read_pos + k < write_pos
    BY <1>0, <1>2, <2>1
  <2> QED BY <1>4, <1>6, <2>2, NextChunkBytes
<1>8. Parsed = {Begun[e]}
  <2>1. At(0) = Byte(Begun[e], 0)
    BY <1>2, <1>7
  <2>2. At(0)[1] = Begun[e]
    BY <2>1 DEF Byte
  <2> QED BY <1>7, <2>2 DEF Parsed
<1>9. rd'.head = Begun[e]
  <2>1. rd' = [NoRead EXCEPT !.head = Begun[e]]
    BY <1>8 DEF ReadHeader
  <2> QED BY <2>1 DEF NoRead
<1>10. ReaderAt(S)'
  <2>1. Len(delivered') = d /\ delivered' = delivered
    BY <1>0, <1>1
  <2>2. \A k \in 1 .. d : delivered[k].chunk = Begun[k] /\ delivered[k].bytes = Whole(Begun[k])
    BY <1>1 DEF Intact, ReaderAt
  <2> QED BY <1>0, <1>3, <1>4, <1>5, <1>6, <1>9, <2>1, <2>2 DEF ReaderAt, Whole, TotalLen, Byte
<1> QED BY <1>3, <1>10

\* The whole chunk is there, or read_chunk returns without it.
LEMMA CheckStep ==
    ASSUME TypeOK, TypeOK', NEW S, Intact(S), ReadCheck
    PROVE  Intact(S)'
<1>0. /\ UNCHANGED <<buffer, write_pos, producerVars, hashed>> /\ UNCHANGED <<read_pos, delivered, rd>>
      /\ rpc = "check" /\ rpc' \in {"idle", "copy"}
      /\ rpc' = "copy" => ~(write_pos - read_pos < TotalLen(rd.head))
  BY DEF ReadCheck
<1>1. PICK d \in Nat : d = Len(delivered)
  BY DEF TypeOK
<1>2. read_pos \in Nat /\ write_pos \in Nat
  BY DEF TypeOK
<1>3. Begun' = Begun /\ Finished' = Finished /\ (ReaderAt(S)' => Intact(S)')
  <2>1. read_pos <= read_pos'
    BY <1>0, <1>2
  <2> QED BY <1>0, <2>1, ReaderFrame
<1>4. /\ read_pos = S[d + 1] /\ d <= Finished /\ d + 1 <= Len(Begun) /\ rd.head = Begun[d + 1]
      /\ \A k \in 1 .. d : delivered[k].chunk = Begun[k] /\ delivered[k].bytes = Whole(Begun[k])
  BY <1>0, <1>1 DEF Intact, ReaderAt
<1>5. Finished \in Nat /\ Len(Begun) \in Nat /\ Finished <= Len(Begun)
  BY BegunFacts
<1>6. PICK e \in 1 .. Len(Begun) : e = d + 1
  BY <1>4, <1>5
<1>7. PICK L \in Nat : L = TotalLen(Begun[e])
  BY BegunFacts
<1>8. S[e + 1] = S[e] + L
  BY <1>7 DEF Intact, Chained
<1>9. rpc' = "copy" => write_pos - read_pos >= L /\ d + 1 <= Finished
  <2> SUFFICES ASSUME rpc' = "copy" PROVE write_pos - read_pos >= L /\ d + 1 <= Finished
    OBVIOUS
  <2>1. write_pos - read_pos >= L
    BY <1>0, <1>2, <1>4, <1>6, <1>7
  <2>2. CASE Finished < Len(Begun)
    <3>1. Len(Begun) <= Finished + 1 /\ write_pos < S[Len(Begun) + 1]
      BY <2>2, EndOfStream
    <3>2. e # Len(Begun)
      BY <1>2, <1>4, <1>6, <1>7, <1>8, <2>1, <3>1
    <3> QED BY <1>4, <1>5, <1>6, <2>1, <3>1, <3>2
  <2>3. CASE ~(Finished < Len(Begun))
    BY <1>4, <1>5, <2>1, <2>3
  <2> QED BY <2>2, <2>3
<1>10. ReaderAt(S)'
  <2>1. Len(delivered') = d /\ delivered' = delivered
    BY <1>0, <1>1
  <2> QED BY <1>0, <1>3, <1>4, <1>6, <1>7, <1>9, <2>1 DEF ReaderAt, Whole, TotalLen, Byte
<1> QED BY <1>3, <1>10

\* pop copies the whole chunk.
LEMMA PopCopyStep ==
    ASSUME TypeOK, TypeOK', NEW S, Intact(S), PopCopy
    PROVE  Intact(S)'
<1>0. /\ UNCHANGED <<buffer, write_pos, producerVars, hashed>> /\ UNCHANGED <<read_pos, delivered>>
      /\ rpc = "copy"
  BY DEF PopCopy
<1>1. PICK d \in Nat : d = Len(delivered)
  BY DEF TypeOK
<1>2. read_pos \in Nat /\ write_pos \in Nat
  BY DEF TypeOK
<1>3. Begun' = Begun /\ Finished' = Finished /\ (ReaderAt(S)' => Intact(S)')
  <2>1. read_pos <= read_pos'
    BY <1>0, <1>2
  <2> QED BY <1>0, <2>1, ReaderFrame
<1>4. /\ read_pos = S[d + 1] /\ d <= Finished /\ d + 1 <= Finished /\ rd.head = Begun[d + 1]
      /\ \A k \in 1 .. d : delivered[k].chunk = Begun[k] /\ delivered[k].bytes = Whole(Begun[k])
      /\ write_pos - read_pos >= TotalLen(rd.head)
  BY <1>0, <1>1 DEF Intact, ReaderAt
<1>5. Finished \in Nat /\ Len(Begun) \in Nat /\ Finished <= Len(Begun)
  BY BegunFacts
<1>6. PICK e \in 1 .. Len(Begun) : e = d + 1
  BY <1>4, <1>5
<1>7. PICK L \in Nat : L = TotalLen(Begun[e]) /\ L > 0
  <2>1. TotalLen(Begun[e]) \in Nat /\ TotalLen(Begun[e]) >= HeaderSize
    BY BegunFacts
  <2> QED BY <2>1, CapacityAssumption
<1>8. ~(write_pos - read_pos < L) /\ rd.head = Begun[e]
  BY <1>2, <1>4, <1>6, <1>7
<1>9. rd' = [rd EXCEPT !.got = [k \in 1 .. L |-> At(k - 1)], !.from = read_pos, !.n = L] /\ rpc' = "advance"
  BY <1>7, <1>8 DEF PopCopy
<1>10. [k \in 1 .. L |-> At(k - 1)] = Whole(Begun[e])
  <2>1. ASSUME NEW k \in 1 .. L PROVE At(k - 1) = Byte(Begun[e], k - 1)
    <3>1. k - 1 \in Nat /\ k - 1 < TotalLen(Begun[e]) /\ read_pos + (k - 1) < write_pos
      BY <1>2, <1>7, <1>8
    <3> QED BY <1>4, <1>6, <3>1, NextChunkBytes
  <2> QED BY <1>7, <2>1 DEF Whole
<1>11. rd'.got = Whole(Begun[e]) /\ rd'.from = read_pos /\ rd'.n = L /\ rd'.head = Begun[e]
  <2>1. PICK g : g = [k \in 1 .. L |-> At(k - 1)]
    OBVIOUS
  <2>2. rd' = [rd EXCEPT !.got = g, !.from = read_pos, !.n = L]
    BY <1>9, <2>1
  <2>3. rd'.got = g /\ rd'.from = read_pos /\ rd'.n = L /\ rd'.head = rd.head
    BY <2>2 DEF TypeOK
  <2> QED BY <1>8, <1>10, <2>1, <2>3
<1>12. ReaderAt(S)'
  <2>1. Len(delivered') = d /\ delivered' = delivered
    BY <1>0, <1>1
  <2> QED BY <1>0, <1>3, <1>4, <1>6, <1>7, <1>9, <1>11, <2>1 DEF ReaderAt, Whole, TotalLen, Byte
<1> QED BY <1>3, <1>12

\* The consumer passes the chunk and gives its bytes back.
LEMMA PassStep ==
    ASSUME TypeOK, TypeOK', NEW S, Intact(S), PopAdvance \/ PopRelease
    PROVE  Intact(S)'
<1>0. /\ UNCHANGED <<buffer, write_pos, producerVars, hashed>> /\ UNCHANGED <<rd, delivered>>
      /\ \/ rpc = "advance" /\ rpc' = "release" /\ read_pos' = rd.from + rd.n
         \/ rpc = "release" /\ rpc' = "seq" /\ read_pos' = read_pos
  BY DEF PopAdvance, PopRelease
<1>1. PICK d \in Nat : d = Len(delivered)
  BY DEF TypeOK
<1>2. read_pos \in Nat /\ read_pos' \in Nat
  BY DEF TypeOK
<1>4. /\ d <= Finished /\ d + 1 <= Finished /\ rd.head = Begun[d + 1] /\ rd.got = Whole(rd.head)
      /\ \A k \in 1 .. d : delivered[k].chunk = Begun[k] /\ delivered[k].bytes = Whole(Begun[k])
      /\ rpc = "advance" => read_pos = S[d + 1] /\ rd.from = read_pos /\ rd.n = TotalLen(rd.head)
      /\ rpc = "release" => read_pos = S[d + 2]
  BY <1>0, <1>1 DEF Intact, ReaderAt
<1>5. Finished \in Nat /\ Len(Begun) \in Nat /\ Finished <= Len(Begun)
  BY BegunFacts
<1>6. PICK e \in 1 .. Len(Begun) : e = d + 1
  BY <1>4, <1>5
<1>7. PICK L \in Nat : L = TotalLen(Begun[e])
  BY BegunFacts
<1>8. S[e + 1] = S[e] + L /\ e + 1 = d + 2
  BY <1>6, <1>7 DEF Intact, Chained
<1>9. read_pos' = S[d + 2] /\ read_pos <= read_pos'
  <2>1. CASE rpc = "advance"
    <3>1. read_pos' = read_pos + L
      BY <1>0, <1>4, <1>6, <1>7, <2>1
    <3> QED BY <1>2, <1>4, <1>6, <1>8, <2>1, <3>1
  <2>2. CASE rpc = "release"
    BY <1>0, <1>2, <1>4, <2>2
  <2> QED BY <1>0, <2>1, <2>2
<1>3. Begun' = Begun /\ Finished' = Finished /\ (ReaderAt(S)' => Intact(S)')
  BY <1>0, <1>9, ReaderFrame
<1>10. ReaderAt(S)'
  <2>1. Len(delivered') = d /\ delivered' = delivered /\ rd' = rd /\ rpc' \in {"release", "seq"}
    BY <1>0, <1>1
  <2>2. /\ d + 1 <= Finished' /\ rd'.head = Begun'[d + 1] /\ rd'.got = Whole(rd'.head) /\ d <= Finished'
        /\ \A k \in 1 .. d : delivered'[k].chunk = Begun'[k] /\ delivered'[k].bytes = Whole(Begun'[k])
    BY <1>3, <1>4, <2>1
  <2> QED BY <1>9, <2>1, <2>2 DEF ReaderAt, Whole, TotalLen, Byte
<1> QED BY <1>3, <1>10

\* read_chunk returns the chunk.
LEMMA ReturnStep ==
    ASSUME TypeOK, TypeOK', NEW S, Intact(S), ReadSeq
    PROVE  Intact(S)'
<1>0. /\ UNCHANGED <<buffer, write_pos, producerVars, hashed>> /\ UNCHANGED read_pos
      /\ rpc = "seq" /\ rpc' = "idle"
      /\ delivered' = Append(delivered, [chunk |-> rd.head, bytes |-> rd.got])
  BY DEF ReadSeq
<1>1. PICK d \in Nat : d = Len(delivered)
  BY DEF TypeOK
<1>2. read_pos \in Nat
  BY DEF TypeOK
<1>3. Begun' = Begun /\ Finished' = Finished /\ (ReaderAt(S)' => Intact(S)')
  <2>1. read_pos <= read_pos'
    BY <1>0, <1>2
  <2> QED BY <1>0, <2>1, ReaderFrame
<1>4. /\ d + 1 <= Finished /\ rd.head = Begun[d + 1] /\ rd.got = Whole(rd.head)
      /\ \A k \in 1 .. d : delivered[k].chunk = Begun[k] /\ delivered[k].bytes = Whole(Begun[k])
      /\ read_pos = S[d + 2]
  BY <1>0, <1>1 DEF Intact, ReaderAt
<1>5. PICK r : r = [chunk |-> rd.head, bytes |-> rd.got]
  OBVIOUS
<1>6. r.chunk = Begun[d + 1] /\ r.bytes = Whole(Begun[d + 1])
  BY <1>4, <1>5
<1>7. /\ Len(delivered') = d + 1 /\ delivered'[d + 1] = r
      /\ \A k \in 1 .. d : delivered'[k] = delivered[k]
  <2>1. PICK D : delivered \in Seq(D)
    BY DEF TypeOK
  <2> QED BY <1>0, <1>1, <1>5, <2>1, AppendProperties
<1>8. \A k \in 1 .. d + 1 : delivered'[k].chunk = Begun[k] /\ delivered'[k].bytes = Whole(Begun[k])
  <2> SUFFICES ASSUME NEW k \in 1 .. d + 1
               PROVE  delivered'[k].chunk = Begun[k] /\ delivered'[k].bytes = Whole(Begun[k])
    OBVIOUS
  <2>1. CASE k = d + 1
    BY <1>6, <1>7, <2>1
  <2>2. CASE k \in 1 .. d
    BY <1>4, <1>7, <2>2
  <2> QED BY <2>1, <2>2
<1>9. PICK e \in Nat : e = d + 1 /\ e + 1 = d + 2
  OBVIOUS
<1>10. ReaderAt(S)'
  <2>1. Len(delivered') = e /\ e <= Finished' /\ read_pos' = S[e + 1]
    BY <1>0, <1>3, <1>4, <1>7, <1>9
  <2>2. \A k \in 1 .. e : delivered'[k].chunk = Begun'[k] /\ delivered'[k].bytes = Whole(Begun'[k])
    BY <1>3, <1>8, <1>9
  <2> QED BY <1>0, <2>1, <2>2 DEF ReaderAt, Whole, TotalLen, Byte
<1> QED BY <1>3, <1>10

\* The chunks and their bytes, through every step of write_chunk and read_chunk.
LEMMA ContentStep ==
    ASSUME TypeOK, TypeOK', PositionsOrdered, NoOverwrite, ContentInv, [Next]_vars
    PROVE  ContentInv'
<1>1. resets' = 0 => resets = 0 /\ xpc = "idle"
  <2>1. resets \in Nat
    BY DEF TypeOK
  <2>2. resets' = resets \/ resets' = resets + 1
    BY DEF Next, WriterStep, ReaderStep, ResetStep, WriteBegin, WriteSpace, WriteSeq, PushReserve,
           PushCopy, PushPublish, WriteHash, WriteFinish, ReadHeader, ReadCheck, PopCopy, PopAdvance,
           PopRelease, ReadSeq, ResetLoad, ResetStore, ResetRelease, ResetSeqs, ResetFlags,
           vars, resetVars
  <2>3. resets' = 0 => resets = 0
    BY <2>1, <2>2
  <2> QED BY <2>3 DEF ContentInv
<1>2. ~torn' => ~torn
  BY DEF Next, WriterStep, ReaderStep, ResetStep, WriteBegin, WriteSpace, WriteSeq, PushReserve,
         PushCopy, PushPublish, WriteHash, WriteFinish, ReadHeader, ReadCheck, PopCopy, PopAdvance,
         PopRelease, ReadSeq, ResetLoad, ResetStore, ResetRelease, ResetSeqs, ResetFlags, vars
<1>3. resets' = 0 => xpc' = "idle"
  <2> SUFFICES ASSUME resets' = 0 PROVE xpc' = "idle"
    OBVIOUS
  <2>1. resets = 0 /\ xpc = "idle"
    BY <1>1
  <2>2. ~ResetStep
    BY <2>1 DEF ResetStep, ResetLoad, ResetStore, ResetRelease, ResetSeqs, ResetFlags
  <2> QED BY <2>1, <2>2
          DEF Next, WriterStep, ReaderStep, WriteBegin, WriteSpace, WriteSeq, PushReserve,
              PushCopy, PushPublish, WriteHash, WriteFinish, ReadHeader, ReadCheck, PopCopy,
              PopAdvance, PopRelease, ReadSeq, vars, resetVars
<1>4. /\ wpc' \in {"idle", "space", "seq"} => part' = "header"
      /\ lock' = NoWriter => wpc' = "idle"
  <2>1. wpc \in {"idle", "space", "seq"} => part = "header"
    BY DEF ContentInv
  <2>2. lock = NoWriter => wpc = "idle"
    BY DEF ContentInv
  <2>3. CASE WriterStep
    BY <2>1, <2>2, <2>3 DEF WriterStep, WriteSpace, WriteSeq, PushReserve, PushCopy, PushPublish,
                      WriteHash, WriteFinish, Unlocked
  <2>4. CASE \E w \in Writers, n \in PayloadLens, last \in BOOLEAN : WriteBegin(w, n, last)
    BY <2>1, <2>2, <2>4, WritersAssumption DEF WriteBegin
  <2>5. CASE ReaderStep \/ ResetStep \/ UNCHANGED vars
    <3>1. UNCHANGED <<lock, wpc, part>>
      BY <2>5 DEF ReaderStep, ResetStep, ReadHeader, ReadCheck, PopCopy, PopAdvance, PopRelease,
                  ReadSeq, ResetLoad, ResetStore, ResetRelease, ResetSeqs, ResetFlags, vars, producerVars
    <3> QED BY <2>1, <2>2, <3>1
  <2> QED BY <2>3, <2>4, <2>5 DEF Next
<1>5. Calm' => \E S : Intact(S)'
  <2> SUFFICES ASSUME Calm' PROVE \E S : Intact(S)'
    OBVIOUS
  <2>1. Calm /\ xpc = "idle"
    BY <1>1, <1>2 DEF Calm
  <2>2. PICK S : Intact(S)
    BY <2>1 DEF ContentInv
  <2>3. CASE \/ \E w \in Writers, n \in PayloadLens, last \in BOOLEAN : WriteBegin(w, n, last)
             \/ WriteSpace \/ PushReserve \/ WriteHash \/ WriteFinish
    <3>2. lock = NoWriter => wpc = "idle"
      BY DEF ContentInv
    <3>1. Intact(S)'
      BY <2>2, <2>3, <3>2, WriterSteps
    <3> QED BY <3>1
  <2>4. CASE WriteSeq
    <3>1. part = "header"
      BY <2>4 DEF WriteSeq, ContentInv
    <3> QED BY <2>2, <2>4, <3>1, SeqStep
  <2>5. CASE PushCopy
    BY <2>2, <2>5, CopyStep
  <2>6. CASE PushPublish
    BY <2>2, <2>6, PublishStep
  <2>7. CASE ReadHeader
    BY <2>2, <2>7, HeaderStep
  <2>8. CASE ReadCheck
    BY <2>2, <2>8, CheckStep
  <2>9. CASE PopCopy
    BY <2>2, <2>9, PopCopyStep
  <2>10. CASE PopAdvance \/ PopRelease
    BY <2>2, <2>10, PassStep
  <2>11. CASE ReadSeq
    BY <2>2, <2>11, ReturnStep
  <2>12. ~ResetStep
    <3>1. ~ResetLoad
      <4>1. resets \in Nat
        BY DEF TypeOK
      <4>2. resets' = 0
        BY DEF Calm
      <4> QED BY <4>1, <4>2 DEF ResetLoad
    <3> QED BY <2>1, <3>1 DEF ResetStep, ResetStore, ResetRelease, ResetSeqs, ResetFlags
  <2>13. CASE UNCHANGED vars
    <3>1. UNCHANGED <<wpc, part, chunk, hashed, buffer, write_pos, read_pos, delivered, rpc, rd>>
      BY <2>13 DEF vars, producerVars, consumerVars
    <3>2. Begun' = Begun /\ Finished' = Finished /\ Frontier' = Frontier /\ Offset' = Offset
      BY <3>1 DEF Begun, Finished, Frontier, Offset, InPush, PartLen, PartStart, TotalLen
    <3>3. Intact(S)'
      BY <2>2, <3>1, <3>2 DEF Intact, Chained, Holds, WriterAt, ReaderAt, TotalLen, Byte, Whole
    <3> QED BY <3>3
  <2> QED BY <2>3, <2>4, <2>5, <2>6, <2>7, <2>8, <2>9, <2>10, <2>11, <2>12, <2>13
          DEF Next, WriterStep, ReaderStep
<1> QED BY <1>3, <1>4, <1>5 DEF ContentInv

\* The inductive invariant of the contents.
LEMMA ContentHolds == Spec => []ContentInv
<1>1. Init => ContentInv
  <2> SUFFICES ASSUME Init PROVE ContentInv
    OBVIOUS
  <2>1. /\ wpc = "idle" /\ part = "header" /\ xpc = "idle" /\ lock = NoWriter /\ hashed = <<>> /\ delivered = <<>>
        /\ read_pos = 0 /\ write_pos = 0 /\ rpc = "idle"
    BY DEF Init
  <2>2. Begun = <<>> /\ Finished = 0 /\ Offset = 0 /\ Frontier = 0
    BY <2>1 DEF Begun, Finished, Offset, Frontier, InPush
  <2>3. PICK S : S = [i \in Nat |-> 0]
    OBVIOUS
  <2>4. Chained(S, Begun) /\ Holds(S, Begun, buffer, read_pos, Frontier)
    BY <2>2, <2>3 DEF Chained, Holds
  <2>5. WriterAt(S)
    BY <2>1, <2>2, <2>3 DEF WriterAt
  <2>6. ReaderAt(S)
    BY <2>1, <2>2, <2>3 DEF ReaderAt
  <2> QED BY <2>1, <2>4, <2>5, <2>6 DEF ContentInv, Intact
<1>2. TypeOK /\ TypeOK' /\ PositionsOrdered /\ NoOverwrite /\ ContentInv /\ [Next]_vars => ContentInv'
  BY ContentStep
<1> QED BY <1>1, <1>2, StreamTypeCorrect, SpaceIsAccounted, PTL DEF Spec

\* write_chunk and read_chunk: as long as no push failed half way and the stream
\* was not reset, the chunks come out in the order they went in, each whole and
\* with its own bytes, and checksum() covers exactly these; for every capacity,
\* header size and payload length, any number of writers, and every wrap of the
\* ring.
THEOREM ChunksStayIntact == Spec => []IntactChunks
<1>1. TypeOK /\ ContentInv => IntactChunks
  <2> SUFFICES ASSUME TypeOK, ContentInv, Calm PROVE IntactChunks
    BY DEF IntactChunks, Calm
  <2>1. PICK S : Intact(S)
    BY DEF ContentInv
  <2>2. PICK d \in Nat : d = Len(delivered)
    BY DEF TypeOK
  <2>3. /\ d <= Finished
        /\ \A k \in 1 .. d : delivered[k].chunk = Begun[k] /\ delivered[k].bytes = Whole(Begun[k])
    BY <2>1, <2>2 DEF Intact, ReaderAt
  <2>4. hashed \in Seq(Chunks) /\ chunk \in Chunks
    BY DEF TypeOK
  <2>5. Len(Written) = Finished /\ \A k \in 1 .. Finished : Written[k] = Begun[k]
    <3>1. CASE wpc = "hash"
      <4>1. Written = hashed \o <<chunk>> /\ Begun = Append(hashed, chunk) /\ Finished = Len(hashed) + 1
        BY <3>1 DEF Written, Begun, Finished, InPush
      <4>2. hashed \o <<chunk>> = Append(hashed, chunk)
        BY <2>4
      <4> QED BY <2>4, <4>1, <4>2
    <3>2. CASE wpc # "hash"
      <4>1. Written = hashed \o <<>> /\ Finished = Len(hashed)
        BY <3>2 DEF Written, Finished
      <4>2. Written = hashed
        BY <2>4, <4>1
      <4> QED BY <4>1, <4>2, BegunFacts
    <3> QED BY <3>1, <3>2
  <2>6. ASSUME NEW k \in 1 .. d PROVE k \in 1 .. Finished
    BY <2>3, BegunFacts
  <2>7. \A k \in 1 .. d : delivered[k].chunk = Written[k] /\ delivered[k].bytes = Whole(Written[k])
    BY <2>3, <2>5, <2>6
  <2> QED BY <2>2, <2>3, <2>5, <2>7 DEF IntactChunks, Whole
<1> QED BY <1>1, StreamTypeCorrect, ContentHolds, PTL

----------------------------------------------------------------------------
(* The stream is a channel of messages *)

\* What the writers have published grows by one chunk at the end, or not at all.
LEMMA WrittenGrows ==
    ASSUME TypeOK, TypeOK', ContentInv, ~ResetStep, [Next]_vars
    PROVE  \/ UNCHANGED Written
           \/ Written' = Append(Written, chunk) /\ delivered' = delivered
<1>1. hashed \in Seq(Chunks) /\ chunk \in Chunks
  BY DEF TypeOK
<1>2. hashed \o <<>> = hashed /\ hashed \o <<chunk>> = Append(hashed, chunk)
  BY <1>1
<1>3. CASE WriteHash
  <2>1. wpc = "hash" /\ wpc' = "finish" /\ hashed' = Append(hashed, chunk)
    BY <1>3 DEF WriteHash
  <2>2. Append(hashed, chunk) \o <<>> = Append(hashed, chunk)
    BY <1>1
  <2> QED BY <1>2, <2>1, <2>2 DEF Written
<1>4. CASE PushPublish
  <2>1. wpc = "publish" /\ hashed' = hashed /\ chunk' = chunk /\ delivered' = delivered
    BY <1>4 DEF PushPublish
  <2>2. Written = hashed
    BY <1>2, <2>1 DEF Written
  <2> QED BY <1>2, <2>1, <2>2 DEF Written
<1>5. CASE \/ \E w \in Writers, n \in PayloadLens, last \in BOOLEAN : WriteBegin(w, n, last)
           \/ WriteSpace \/ WriteSeq \/ PushReserve \/ PushCopy \/ WriteFinish
  <2>1. hashed' = hashed /\ wpc # "hash" /\ wpc' # "hash"
    <3>1. lock = NoWriter => wpc = "idle"
      BY DEF ContentInv
    <3> QED BY <1>5, <3>1 DEF WriteBegin, WriteSpace, WriteSeq, PushReserve, PushCopy, WriteFinish, Unlocked
  <2> QED BY <2>1 DEF Written
<1>6. CASE ReaderStep \/ UNCHANGED vars
  <2>1. hashed' = hashed /\ wpc' = wpc /\ chunk' = chunk
    BY <1>6 DEF ReaderStep, ReadHeader, ReadCheck, PopCopy, PopAdvance, PopRelease, ReadSeq,
                vars, producerVars
  <2> QED BY <2>1 DEF Written
<1> QED BY <1>3, <1>4, <1>5, <1>6 DEF Next, WriterStep

\* What the reader has returned grows by one chunk at the end, or not at all.
LEMMA DeliveredGrows ==
    ASSUME [Next]_vars
    PROVE  \/ delivered' = delivered
           \/ delivered' = Append(delivered, [chunk |-> rd.head, bytes |-> rd.got])
BY DEF Next, WriterStep, ReaderStep, ResetStep, WriteBegin, WriteSpace, WriteSeq, PushReserve,
       PushCopy, PushPublish, WriteHash, WriteFinish, ReadHeader, ReadCheck, PopCopy, PopAdvance,
       PopRelease, ReadSeq, ResetLoad, ResetStore, ResetRelease, ResetSeqs, ResetFlags, vars

\* A stream that was torn or reset remains so.
LEMMA CalmBefore ==
    ASSUME TypeOK, ContentInv, [Next]_vars, ~Disturbed'
    PROVE  ~Disturbed /\ ~ResetStep
<1>1. resets \in Nat /\ (resets = 0 => xpc = "idle")
  BY DEF TypeOK, ContentInv
<1>2. resets' = resets \/ (ResetLoad /\ resets' = resets + 1)
  BY DEF Next, WriterStep, ReaderStep, ResetStep, WriteBegin, WriteSpace, WriteSeq, PushReserve,
         PushCopy, PushPublish, WriteHash, WriteFinish, ReadHeader, ReadCheck, PopCopy, PopAdvance,
         PopRelease, ReadSeq, ResetLoad, ResetStore, ResetRelease, ResetSeqs, ResetFlags,
         vars, resetVars
<1>3. (torn' = torn) \/ torn'
  BY DEF Next, WriterStep, ReaderStep, ResetStep, WriteBegin, WriteSpace, WriteSeq, PushReserve,
         PushCopy, PushPublish, WriteHash, WriteFinish, ReadHeader, ReadCheck, PopCopy, PopAdvance,
         PopRelease, ReadSeq, ResetLoad, ResetStore, ResetRelease, ResetSeqs, ResetFlags, vars
<1>4. ~(resets' > 0)
  BY DEF Disturbed
<1>5. resets' = resets /\ resets = 0
  BY <1>1, <1>2, <1>4
<1>6. ~ResetLoad
  <2>1. ResetLoad => resets' = resets + 1
    BY DEF ResetLoad
  <2> QED BY <1>1, <1>5, <2>1
<1>7. ~ResetStep
  BY <1>1, <1>5, <1>6 DEF ResetStep, ResetStore, ResetRelease, ResetSeqs, ResetFlags
<1>8. ~torn
  BY <1>3 DEF Disturbed
<1>9. ~(resets > 0)
  BY <1>5
<1> QED BY <1>7, <1>8, <1>9 DEF Disturbed

\* A message for each chunk.
LEMMA MessageEach ==
    ASSUME NEW w \in Seq(Chunks), NEW m, m = [k \in DOMAIN w |-> Message(w[k])]
    PROVE  /\ m \in Seq({Message(c) : c \in Chunks}) /\ Len(m) = Len(w)
           /\ \A k \in 1 .. Len(w) : m[k] = Message(w[k])
<1>1. PICK n \in Nat : n = Len(w)
  OBVIOUS
<1>2. m = [k \in 1 .. n |-> Message(w[k])]
  BY <1>1
<1>3. \A k \in 1 .. n : w[k] \in Chunks
  BY <1>1
<1>4. m \in [1 .. n -> {Message(c) : c \in Chunks}]
  BY <1>2, <1>3
<1> QED BY <1>1, <1>2, <1>4

\* One step of the threads is one of the channel or none.
LEMMA ChannelStep ==
    ASSUME TypeOK, TypeOK', ContentInv, IntactChunks, IntactChunks', [Next]_vars
    PROVE  [Channel!Next]_(Channel!channelVars)
<1>1. CASE Disturbed /\ Disturbed'
  BY <1>1 DEF Channel!channelVars
<1>2. CASE ~Disturbed /\ Disturbed'
  BY <1>2 DEF Channel!Next, Channel!Break
<1>3. CASE ~Disturbed'
  <2>0. ~Disturbed /\ ~ResetStep
    BY <1>3, CalmBefore
  <2>calm. Disturbed = FALSE /\ Disturbed' = FALSE
    BY <1>3, <2>0 DEF Disturbed
  <2>1. hashed \in Seq(Chunks) /\ chunk \in Chunks
    BY DEF TypeOK
  <2>2. Written \in Seq(Chunks)
    <3>1. hashed \o <<>> \in Seq(Chunks) /\ hashed \o <<chunk>> \in Seq(Chunks)
      BY <2>1
    <3> QED BY <3>1 DEF Written
  <2>3. PICK n \in Nat : n = Len(Written)
    BY <2>2
  <2>4. /\ Published \in Seq({Message(c) : c \in Chunks}) /\ Len(Published) = n
        /\ \A k \in 1 .. n : Published[k] = Message(Written[k])
    BY <2>2, <2>3, MessageEach DEF Published
  <2>5. CASE Written' = Append(Written, chunk) /\ delivered' = delivered
    <3>1. /\ Written' \in Seq(Chunks) /\ Len(Written') = n + 1 /\ Written'[n + 1] = chunk
          /\ \A k \in 1 .. n : Written'[k] = Written[k]
      BY <2>1, <2>2, <2>3, <2>5
    <3>2. /\ Published' \in Seq({Message(c) : c \in Chunks}) /\ Len(Published') = n + 1
          /\ \A k \in 1 .. n + 1 : Published'[k] = Message(Written'[k])
      BY <3>1, MessageEach DEF Published
    <3>3. Published'[n + 1] = Message(chunk) /\ \A k \in 1 .. n : Published'[k] = Published[k]
      BY <2>4, <3>1, <3>2
    <3>4. Published' = Append(Published, Message(chunk))
      <4>1. Message(chunk) \in {Message(c) : c \in Chunks}
        BY <2>1
      <4>2. /\ Append(Published, Message(chunk)) \in Seq({Message(c) : c \in Chunks})
            /\ Len(Append(Published, Message(chunk))) = n + 1
            /\ Append(Published, Message(chunk))[n + 1] = Message(chunk)
            /\ \A k \in 1 .. n : Append(Published, Message(chunk))[k] = Published[k]
        BY <2>4, <4>1, AppendProperties
      <4>3. \A k \in 1 .. n + 1 : Published'[k] = Append(Published, Message(chunk))[k]
        BY <3>3, <4>2
      <4> QED BY <3>2, <4>2, <4>3, SeqEqual
    <3>5. Channel!Give
      BY <2>calm, <2>4, <2>5, <3>2, <3>3, <3>4 DEF Channel!Give
    <3> QED BY <3>5 DEF Channel!Next
  <2>6. CASE Written' = Written /\ delivered' = delivered
    <3>1. Published' = Published
      BY <2>6 DEF Published, Message, TotalLen, Byte
    <3> QED BY <2>calm, <2>6, <3>1 DEF Channel!channelVars
  <2>7. CASE Written' = Written /\ delivered' = Append(delivered, [chunk |-> rd.head, bytes |-> rd.got])
    <3>1. PICK d \in Nat : d = Len(delivered)
      BY DEF TypeOK
    <3>2. Len(delivered') = d + 1 /\ delivered'[d + 1] = [chunk |-> rd.head, bytes |-> rd.got]
      <4>1. delivered \in Seq([chunk : Chunks, bytes : Seq(Chunks \X Nat)])
        BY DEF TypeOK
      <4>2. rd.head \in Chunks /\ rd.got \in Seq(Chunks \X Nat)
        BY DEF TypeOK
      <4> QED BY <2>7, <3>1, <4>1, <4>2
    <3>3. d < n /\ delivered'[d + 1].chunk = Written[d + 1] /\ delivered'[d + 1].bytes = Message(Written[d + 1]).bytes
      <4>1. ~torn' /\ resets' = 0
        <5>1. resets' \in Nat
          BY DEF TypeOK
        <5> QED BY <1>3, <5>1 DEF Disturbed
      <4>2. /\ Len(delivered') <= Len(Written')
            /\ \A k \in 1 .. Len(delivered') :
                  /\ delivered'[k].chunk = Written'[k]
                  /\ delivered'[k].bytes = [j \in 1 .. TotalLen(Written'[k]) |-> Byte(Written'[k], j - 1)]
        BY <4>1 DEF IntactChunks, TotalLen, Byte
      <4>3. d + 1 \in 1 .. Len(delivered') /\ d < n
        BY <2>3, <2>7, <3>1, <3>2, <4>2
      <4>4. /\ delivered'[d + 1].chunk = Written'[d + 1]
            /\ delivered'[d + 1].bytes = [j \in 1 .. TotalLen(Written'[d + 1]) |-> Byte(Written'[d + 1], j - 1)]
        BY <4>2, <4>3, Zenon
      <4> QED BY <2>7, <4>3, <4>4 DEF Message
    <3>4. [chunk |-> rd.head, bytes |-> rd.got] = Published[d + 1]
      <4>1. rd.head = Written[d + 1] /\ rd.got = Message(Written[d + 1]).bytes
        BY <3>2, <3>3
      <4>2. Message(Written[d + 1]) = [chunk |-> rd.head, bytes |-> rd.got]
        BY <4>1 DEF Message
      <4>3. d + 1 \in 1 .. n
        BY <3>3
      <4> QED BY <2>4, <4>2, <4>3
    <3>5. Published' = Published
      BY <2>7 DEF Published, Message, TotalLen, Byte
    <3>6. Channel!Take
      BY <2>calm, <2>4, <2>7, <3>1, <3>3, <3>4, <3>5 DEF Channel!Take
    <3> QED BY <3>6 DEF Channel!Next
  <2>8. (Written' = Written \/ (Written' = Append(Written, chunk) /\ delivered' = delivered))
    BY <2>0, WrittenGrows
  <2> QED BY <2>5, <2>6, <2>7, <2>8, DeliveredGrows
<1> QED BY <1>1, <1>2, <1>3, CalmBefore

\* write_chunk and read_chunk implement MessageChannel for every capacity, header
\* size and payload length and any number of writers: the bytes, positions and
\* counter never show more than a queue of whole chunks would, until a push fails
\* half way or reset() is called.
THEOREM StreamImplementsChannel == Spec => StreamIsChannel
<1>1. Init => Channel!Init
  <2>1. ASSUME Init PROVE Written = <<>> /\ delivered = <<>> /\ ~Disturbed
    BY <2>1 DEF Init, Written, Disturbed
  <2>2. ASSUME Written = <<>> PROVE Published = <<>>
    BY <2>2 DEF Published
  <2> QED BY <2>1, <2>2 DEF Channel!Init
<1>2. TypeOK /\ TypeOK' /\ ContentInv /\ IntactChunks /\ IntactChunks' /\ [Next]_vars
          => [Channel!Next]_(Channel!channelVars)
  BY ChannelStep
<1> QED BY <1>1, <1>2, StreamTypeCorrect, ChunksStayIntact, ContentHolds, PTL DEF Spec, StreamIsChannel, Channel!Spec
=============================================================================
