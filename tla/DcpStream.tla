----------------------------- MODULE DcpStream -----------------------------
(***************************************************************************)
(* DcpStream over StreamRingBuffer (src/src/stream/dcp_stream.rs,          *)
(* ring_buffer.rs): producers that share a write lock push chunks, one     *)
(* consumer pops them and may call reset() between two reads, as the ring  *)
(* buffer's single-producer single-consumer contract allows (clear moves   *)
(* the consumer's position).  Positions, the backpressure counter and the  *)
(* sequence numbers are separate atomics; each access that the other side  *)
(* can see in between is a step.                                           *)
(*                                                                         *)
(* A byte is the chunk it belongs to and its place in it, header first;    *)
(* its value says whether the right byte is read.  len() is one step: of   *)
(* its two loads only one is of a position that the other side moves.      *)
(***************************************************************************)
EXTENDS Naturals, Sequences

CONSTANTS
    Writers,      \* threads that call write_chunk
    Capacity,     \* capacity of the ring buffer
    HeaderSize,   \* StreamChunk::SIZE
    PayloadLens,  \* lengths of the payloads written
    MaxChunks,    \* bound: calls of write_chunk that get as far as a sequence number
    MaxResets     \* bound: calls of reset()

ASSUME CapacityAssumption == Capacity \in Nat \ {0} /\ HeaderSize \in 1 .. Capacity
ASSUME LensAssumption == PayloadLens \subseteq Nat
ASSUME BoundsAssumption == MaxChunks \in Nat /\ MaxResets \in Nat

VARIABLES
    buffer,       \* slot -> byte
    write_pos, read_pos,
    available,    \* Backpressure.available
    send_seq, next_seq,
    complete,
    lock,         \* holder of write_lock
    wpc, part,    \* progress of the lock's holder, the part it pushes
    chunk,        \* and its chunk
    rpc, rd,      \* progress and locals of read_chunk and pop
    xpc, clr,     \* progress and locals of reset and clear
    resets,       \* calls of reset() so far
    hashed,       \* chunks fed to the hasher
    delivered,    \* history: results of read_chunk, header and payload bytes
    torn          \* history: push failed inside write_chunk

producerVars == <<lock, wpc, part, chunk>>
consumerVars == <<rpc, rd>>
resetVars    == <<xpc, clr, resets>>
vars == <<buffer, write_pos, read_pos, available, send_seq, next_seq, complete,
          producerVars, consumerVars, resetVars, hashed, delivered, torn>>

NoWriter == "none"
ASSUME WritersAssumption == NoWriter \notin Writers

Slots    == 0 .. (Capacity - 1)
Chunks   == [seq : Nat, len : {0} \cup PayloadLens, last : BOOLEAN]
NoChunk  == [seq |-> 0, len |-> 0, last |-> FALSE]

TotalLen(c) == HeaderSize + c.len
Byte(c, k)  == <<c, k>>

\* Where the part being pushed starts in the chunk, and its length.
PartStart   == IF part = "header" THEN 0 ELSE HeaderSize
PartLen     == IF part = "header" THEN HeaderSize ELSE chunk.len

Parts    == {"header", "payload"}
WritePCs == {"idle", "space", "seq", "reserve", "copy", "publish", "hash", "finish"}
ReadPCs  == {"idle", "check", "copy", "advance", "release", "seq"}
ResetPCs == {"idle", "store", "release", "next", "send", "complete", "hash"}

\* Locals of read_chunk and pop: the header, the bytes copied, the position
\* they came from and their number.  Locals of clear: write_pos and the number
\* of bytes it found.
NoRead  == [head |-> NoChunk, got |-> <<>>, from |-> 0, n |-> 0]
NoClear == [to |-> 0, n |-> 0]

Init ==
    /\ buffer = [i \in Slots |-> Byte(NoChunk, 0)]
    /\ write_pos = 0 /\ read_pos = 0
    /\ available = Capacity
    /\ send_seq = 0 /\ next_seq = 0
    /\ complete = FALSE
    /\ lock = NoWriter /\ wpc = "idle" /\ part = "header" /\ chunk = NoChunk
    /\ rpc = "idle" /\ rd = NoRead
    /\ xpc = "idle" /\ clr = NoClear /\ resets = 0
    /\ hashed = <<>> /\ delivered = <<>>
    /\ torn = FALSE

----------------------------------------------------------------------------
(* write_chunk and StreamRingBuffer::push *)

Unlocked == lock' = NoWriter /\ wpc' = "idle" /\ part' = "header" /\ chunk' = NoChunk

WriteBegin(w, n, last) ==
    /\ lock = NoWriter
    /\ ~complete
    /\ send_seq < MaxChunks
    /\ lock' = w
    /\ wpc' = "space"
    /\ UNCHANGED part
    /\ chunk' = [seq |-> 0, len |-> n, last |-> last]
    /\ UNCHANGED <<buffer, write_pos, read_pos, available, send_seq, next_seq, complete,
                   consumerVars, resetVars, hashed, delivered, torn>>

\* available_space() is computed from the positions, not from "available".
WriteSpace ==
    /\ wpc = "space"
    /\ IF Capacity - (write_pos - read_pos) < TotalLen(chunk)
       THEN Unlocked
       ELSE wpc' = "seq" /\ UNCHANGED <<lock, part, chunk>>
    /\ UNCHANGED <<buffer, write_pos, read_pos, available, send_seq, next_seq, complete,
                   consumerVars, resetVars, hashed, delivered, torn>>

WriteSeq ==
    /\ wpc = "seq"
    /\ send_seq' = send_seq + 1
    /\ chunk' = [chunk EXCEPT !.seq = send_seq]
    /\ wpc' = "reserve"
    /\ UNCHANGED <<buffer, write_pos, read_pos, available, next_seq, complete, lock, part,
                   consumerVars, resetVars, hashed, delivered, torn>>

\* try_reserve: the one place where "available" decides.
PushReserve ==
    /\ wpc = "reserve"
    /\ IF available < PartLen
       THEN Unlocked /\ torn' = TRUE /\ UNCHANGED available
       ELSE /\ available' = available - PartLen
            /\ wpc' = "copy"
            /\ UNCHANGED <<lock, part, chunk, torn>>
    /\ UNCHANGED <<buffer, write_pos, read_pos, send_seq, next_seq, complete,
                   consumerVars, resetVars, hashed, delivered>>

\* Mutant: the part behind the end of the buffer is dropped.
PushCopyUnwrapped ==
    /\ wpc = "copy"
    /\ buffer' = [i \in Slots |->
         LET k == (i + Capacity - (write_pos % Capacity)) % Capacity
         IN  IF k < PartLen /\ (write_pos % Capacity) + k < Capacity
             THEN Byte(chunk, PartStart + k) ELSE buffer[i]]
    /\ wpc' = "publish"
    /\ UNCHANGED <<write_pos, read_pos, available, send_seq, next_seq, complete, lock,
                   part, chunk, consumerVars, resetVars, hashed, delivered, torn>>

\* The bytes go to write_pos & mask and on, around the end of the buffer.
PushCopy ==
    /\ wpc = "copy"
    /\ buffer' = [i \in Slots |->
         LET k == (i + Capacity - (write_pos % Capacity)) % Capacity
         IN  IF k < PartLen THEN Byte(chunk, PartStart + k) ELSE buffer[i]]
    /\ wpc' = "publish"
    /\ UNCHANGED <<write_pos, read_pos, available, send_seq, next_seq, complete, lock,
                   part, chunk, consumerVars, resetVars, hashed, delivered, torn>>

\* An empty payload is not pushed.
PushPublish ==
    /\ wpc = "publish"
    /\ write_pos' = write_pos + PartLen
    /\ wpc' = IF part = "header" /\ chunk.len > 0 THEN "reserve" ELSE "hash"
    /\ part' = "payload"
    /\ UNCHANGED <<buffer, read_pos, available, send_seq, next_seq, complete, lock, chunk,
                   consumerVars, resetVars, hashed, delivered, torn>>

WriteHash ==
    /\ wpc = "hash"
    /\ hashed' = Append(hashed, chunk)
    /\ wpc' = "finish"
    /\ UNCHANGED <<buffer, write_pos, read_pos, available, send_seq, next_seq, complete,
                   lock, part, chunk, consumerVars, resetVars, delivered, torn>>

\* The complete flag and the end of the guard's scope.
WriteFinish ==
    /\ wpc = "finish"
    /\ complete' = (complete \/ chunk.last)
    /\ Unlocked
    /\ UNCHANGED <<buffer, write_pos, read_pos, available, send_seq, next_seq,
                   consumerVars, resetVars, hashed, delivered, torn>>

----------------------------------------------------------------------------
(* read_chunk and StreamRingBuffer::peek, pop *)

At(k) == buffer[(read_pos + k) % Capacity]

\* StreamChunk::from_bytes.  Bytes that are not the header of one chunk are
\* refused or make any header (bounded by MaxChunks).
Parsed ==
    LET c == At(0)[1]
    IN  IF \A k \in 0 .. (HeaderSize - 1) : At(k) = Byte(c, k)
        THEN {c}
        ELSE [seq : 0 .. MaxChunks, len : PayloadLens, last : BOOLEAN]

ReadHeader ==
    /\ rpc = "idle" /\ xpc = "idle"
    /\ write_pos - read_pos >= HeaderSize
    /\ \E c \in Parsed : rd' = [NoRead EXCEPT !.head = c]
    /\ rpc' = "check"
    /\ UNCHANGED <<buffer, write_pos, read_pos, available, send_seq, next_seq, complete,
                   producerVars, resetVars, hashed, delivered, torn>>

\* The whole chunk must be there, with the expected sequence number.
ReadCheck ==
    /\ rpc = "check"
    /\ rpc' = IF write_pos - read_pos < TotalLen(rd.head) \/ rd.head.seq # next_seq
              THEN "idle" ELSE "copy"
    /\ UNCHANGED <<buffer, write_pos, read_pos, available, send_seq, next_seq, complete,
                   producerVars, rd, resetVars, hashed, delivered, torn>>

\* pop: whatever is there now, up to the length asked for.
PopCopy ==
    /\ rpc = "copy"
    /\ LET n == IF write_pos - read_pos < TotalLen(rd.head)
                THEN write_pos - read_pos ELSE TotalLen(rd.head)
       IN  /\ rd' = [rd EXCEPT !.got = [k \in 1 .. n |-> At(k - 1)],
                               !.from = read_pos, !.n = n]
           /\ rpc' = IF n = 0 THEN "seq" ELSE "advance"
    /\ UNCHANGED <<buffer, write_pos, read_pos, available, send_seq, next_seq, complete,
                   producerVars, resetVars, hashed, delivered, torn>>

PopAdvance ==
    /\ rpc = "advance"
    /\ read_pos' = rd.from + rd.n
    /\ rpc' = "release"
    /\ UNCHANGED <<buffer, write_pos, available, send_seq, next_seq, complete,
                   producerVars, rd, resetVars, hashed, delivered, torn>>

\* Mutant: only the payload is given back.
PopReleasePayload ==
    /\ rpc = "release"
    /\ available' = available + rd.head.len
    /\ rpc' = "seq"
    /\ UNCHANGED <<buffer, write_pos, read_pos, send_seq, next_seq, complete,
                   producerVars, rd, resetVars, hashed, delivered, torn>>

PopRelease ==
    /\ rpc = "release"
    /\ available' = available + rd.n
    /\ rpc' = "seq"
    /\ UNCHANGED <<buffer, write_pos, read_pos, send_seq, next_seq, complete,
                   producerVars, rd, resetVars, hashed, delivered, torn>>

\* Mutant: the expected sequence number stays.
ReadSeqStays ==
    /\ rpc = "seq"
    /\ delivered' = Append(delivered, [chunk |-> rd.head, bytes |-> rd.got])
    /\ rd' = NoRead
    /\ rpc' = "idle"
    /\ UNCHANGED <<buffer, write_pos, read_pos, available, send_seq, next_seq, complete,
                   producerVars, resetVars, hashed, torn>>

\* next_seq.store(expected_seq + 1); expected_seq equals the header's.
ReadSeq ==
    /\ rpc = "seq"
    /\ next_seq' = rd.head.seq + 1
    /\ delivered' = Append(delivered, [chunk |-> rd.head, bytes |-> rd.got])
    /\ rd' = NoRead
    /\ rpc' = "idle"
    /\ UNCHANGED <<buffer, write_pos, read_pos, available, send_seq, complete,
                   producerVars, resetVars, hashed, torn>>

----------------------------------------------------------------------------
(* reset() and StreamRingBuffer::clear: the write lock is not taken *)

ResetLoad ==
    /\ xpc = "idle" /\ rpc = "idle" /\ resets < MaxResets
    /\ resets' = resets + 1
    /\ clr' = [to |-> write_pos, n |-> write_pos - read_pos]
    /\ xpc' = "store"
    /\ UNCHANGED <<buffer, write_pos, read_pos, available, send_seq, next_seq, complete,
                   producerVars, consumerVars, hashed, delivered, torn>>

ResetStore ==
    /\ xpc = "store"
    /\ read_pos' = clr.to
    /\ xpc' = "release"
    /\ UNCHANGED <<buffer, write_pos, available, send_seq, next_seq, complete,
                   producerVars, consumerVars, clr, resets, hashed, delivered, torn>>

ResetRelease ==
    /\ xpc = "release"
    /\ available' = available + clr.n
    /\ clr' = NoClear
    /\ xpc' = "next"
    /\ UNCHANGED <<buffer, write_pos, read_pos, send_seq, next_seq, complete,
                   producerVars, consumerVars, resets, hashed, delivered, torn>>

ResetSeqs ==
    /\ \/ xpc = "next" /\ next_seq' = 0 /\ xpc' = "send" /\ UNCHANGED send_seq
       \/ xpc = "send" /\ send_seq' = 0 /\ xpc' = "complete" /\ UNCHANGED next_seq
    /\ UNCHANGED <<buffer, write_pos, read_pos, available, complete,
                   producerVars, consumerVars, clr, resets, hashed, delivered, torn>>

ResetFlags ==
    /\ \/ xpc = "complete" /\ complete' = FALSE /\ xpc' = "hash" /\ UNCHANGED hashed
       \/ xpc = "hash" /\ hashed' = <<>> /\ xpc' = "idle" /\ UNCHANGED complete
    /\ UNCHANGED <<buffer, write_pos, read_pos, available, send_seq, next_seq,
                   producerVars, consumerVars, clr, resets, delivered, torn>>

----------------------------------------------------------------------------

WriterStep ==
    \/ WriteSpace \/ WriteSeq \/ PushReserve \/ PushCopy \/ PushPublish \/ WriteHash
    \/ WriteFinish

ReaderStep == ReadHeader \/ ReadCheck \/ PopCopy \/ PopAdvance \/ PopRelease \/ ReadSeq

ResetStep == ResetLoad \/ ResetStore \/ ResetRelease \/ ResetSeqs \/ ResetFlags

Next ==
    \/ \E w \in Writers, n \in PayloadLens, last \in BOOLEAN : WriteBegin(w, n, last)
    \/ WriterStep
    \/ ReaderStep
    \/ ResetStep

Spec == Init /\ [][Next]_vars

\* A thread inside write_chunk or read_chunk runs on, and the consumer keeps
\* calling read_chunk.
FairSpec == Spec /\ WF_vars(WriterStep) /\ WF_vars(ReaderStep)

----------------------------------------------------------------------------
(* Properties *)

TypeOK ==
    /\ buffer \in [Slots -> Chunks \X Nat]
    /\ write_pos \in Nat /\ read_pos \in Nat /\ available \in Nat
    /\ send_seq \in Nat /\ next_seq \in Nat
    /\ complete \in BOOLEAN
    /\ lock \in Writers \cup {NoWriter}
    /\ wpc \in WritePCs /\ part \in Parts /\ chunk \in Chunks
    /\ rpc \in ReadPCs
    /\ rd \in [head : Chunks, got : Seq(Chunks \X Nat), from : Nat, n : Nat]
    /\ xpc \in ResetPCs /\ clr \in [to : Nat, n : Nat] /\ resets \in Nat
    /\ hashed \in Seq(Chunks)
    /\ delivered \in Seq([chunk : Chunks, bytes : Seq(Chunks \X Nat)])
    /\ torn \in BOOLEAN

\* Bytes reserved by the producer and not yet published; bytes passed by the
\* consumer and not yet given back.
Reserved == IF wpc \in {"copy", "publish"} THEN PartLen ELSE 0
Passed   == IF rpc = "release" THEN rd.n ELSE IF xpc = "release" THEN clr.n ELSE 0

\* Every byte of the ring is free, reserved, readable or about to be given
\* back, through failed pushes, resets and at every point between the two
\* positions and the counter; so the producer never writes over an unread byte.
SpaceAccounted ==
    available + Reserved + (write_pos - read_pos) + Passed = Capacity

\* No race of read_chunk, write_chunk and reset takes the read position past
\* the write position, where len() would underflow.
PositionsOrdered == read_pos <= write_pos

Written == hashed \o (IF wpc = "hash" THEN <<chunk>> ELSE <<>>)

\* While no push has failed inside write_chunk, read_chunk returns the chunks
\* in the order of writing, each whole and with its own bytes, across the
\* wrap of the ring; checksum() covers exactly these.
IntactChunks ==
    ~torn /\ resets = 0 =>
        /\ Len(delivered) <= Len(Written)
        /\ \A k \in 1 .. Len(delivered) :
              /\ delivered[k].chunk = Written[k]
              /\ delivered[k].bytes =
                   [j \in 1 .. TotalLen(Written[k]) |-> Byte(Written[k], j - 1)]

Message(c) == [chunk |-> c, bytes |-> [j \in 1 .. TotalLen(c) |-> Byte(c, j - 1)]]

\* The chunks whose last byte is published, as the reader is to return them.
Published == [k \in DOMAIN Written |-> Message(Written[k])]

Disturbed == torn \/ resets > 0

Channel == INSTANCE MessageChannel WITH
               given  <- IF Disturbed THEN <<>> ELSE Published,
               taken  <- IF Disturbed THEN <<>> ELSE delivered,
               broken <- Disturbed

\* The ring, its two positions, the counter and the sequence numbers implement
\* MessageChannel: a chunk is given to it at once, when its last byte is
\* published, and taken at once, when read_chunk returns it, whatever the two
\* sides do in between; a torn push or a reset breaks the channel.
StreamIsChannel == Channel!Spec

\* A consumer that keeps reading gets every chunk: once the writers have
\* stopped nothing stays unread, unless a push failed or the stream was reset.
ChunksArrive == <>[](Len(delivered) >= Len(hashed) \/ torn \/ resets > 0)

\* README: "stream chunk writes reject over-capacity chunks without advancing
\* sequence numbers or leaving partial buffers".
WriteAtomic == lock = NoWriter => send_seq = Len(hashed)
=============================================================================
