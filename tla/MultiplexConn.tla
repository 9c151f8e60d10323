--------------------------- MODULE MultiplexConn ---------------------------
(***************************************************************************)
(* MultiplexedConnection (src/src/multiplex/connection.rs, header.rs):     *)
(* streams over one connection, shared by concurrent tasks through an Arc. *)
(*                                                                         *)
(* A task inside a method is at a program counter pc[t]; a step is one     *)
(* atomic operation or one critical section, so the methods interleave at  *)
(* every point where the code loads an atomic or awaits a lock.  The locks *)
(* that are held across such a point are explicit: the map's RwLock        *)
(* (writer, readers) and the stream's Mutex (held).                        *)
(*                                                                         *)
(* Abstractions: a received payload is its length; an entry of             *)
(* StreamState.send_buffer is the task whose send() pushed it; the byte    *)
(* counters, the window size and the error text are left out.  A method's  *)
(* result is not recorded: returning an error is returning.                *)
(***************************************************************************)
EXTENDS Naturals, Sequences, FiniteSets, Queues

CONSTANTS
    Tasks,               \* tasks that share the connection
    IdSpace,             \* number of u16 values: stream ids and counters wrap
    MAX_STREAMS,
    MaxSendQueueLen,     \* max_send_queue_len
    MaxRecvBufferBytes,  \* max_recv_buffer_bytes
    PayloadLens,         \* lengths of non-empty payloads
    Ops,                 \* the methods the tasks call
    Inbound,             \* the frames handed to process_frame
    MaxOpens,            \* bound: calls of open_stream and accept_stream
    MaxSendBuffer        \* bound: a task sends on a stream that buffers fewer

ASSUME TasksAssumption == IsFiniteSet(Tasks)
ASSUME IdSpaceAssumption == IdSpace \in Nat /\ IdSpace > 1
ASSUME LimitsAssumption ==
    MAX_STREAMS \in Nat /\ MaxSendQueueLen \in Nat /\ MaxRecvBufferBytes \in Nat
ASSUME PayloadAssumption == PayloadLens \subseteq Nat \ {0}
ASSUME BoundsAssumption == MaxOpens \in Nat /\ MaxSendBuffer \in Nat

VARIABLES
    closed,          \* MultiplexedConnection.closed
    next_stream_id,
    stream_count,
    send_queue,      \* frames [id, kind, len], oldest first
    streams,         \* stream id -> object registered under it, 0 for none
    obj,             \* object -> StreamState
    writer, readers, \* holders of the lock of the streams map
    held,            \* object -> task that holds its Mutex
    pc, loc,         \* progress and locals of each task
    opens,           \* objects handed out so far
    late             \* history: error paths that found their id removed already

vars == <<closed, next_stream_id, stream_count, send_queue, streams, obj,
          writer, readers, held, pc, loc, opens, late>>

connVars == <<closed, next_stream_id, stream_count, send_queue>>
mapVars  == <<streams, obj, writer, readers, held>>

NoTask  == "none"
Ids     == 0 .. (IdSpace - 1)
CONTROL_STREAM == 0
Objects == 1 .. MaxOpens

----------------------------------------------------------------------------
(* StreamStatus and StreamState *)

CanSend(st)    == st \in {"Open", "HalfClosedRemote"}
CanReceive(st) == st \in {"Open", "HalfClosedLocal"}
IsClosed(st)   == st \in {"Closed", "Reset"}

CloseLocalStatus(st) ==
    CASE st = "Open" -> "HalfClosedLocal"
      [] st = "HalfClosedRemote" -> "Closed"
      [] OTHER -> st

\* Mutant: a FIN on a finished stream reopens half of it.
CloseRemoteReopens(st) == IF st = "HalfClosedLocal" THEN "Closed" ELSE "HalfClosedRemote"

CloseRemoteStatus(st) ==
    CASE st = "Open" -> "HalfClosedRemote"
      [] st = "HalfClosedLocal" -> "Closed"
      [] OTHER -> st

\* StreamState, and as history the sends whose DATA frames entered the send
\* queue.
NewStream(i) == [id |-> i, status |-> "Open", recv |-> <<>>, bytes |-> 0,
                 sendbuf |-> <<>>, data |-> <<>>]

ResetStream(s) == [s EXCEPT !.status = "Reset", !.sendbuf = <<>>]

----------------------------------------------------------------------------
(* Frames: StreamHeader, StreamFlags and validate_frame_shape *)

Flags == {"FIN", "RST", "ACK", "SYN"}

\* "ok" says that the declared length is the payload's, the reserved byte is
\* zero and no unknown flag bit is set.
Headers == [id : Ids, flags : SUBSET Flags, len : {0} \cup PayloadLens, ok : BOOLEAN]

ASSUME InboundAssumption == Inbound \subseteq Headers

ValidFrame(h) ==
    /\ h.ok
    /\ h.id = CONTROL_STREAM => h.flags = {} /\ h.len = 0
    /\ "SYN" \in h.flags => h.flags = {"SYN"} /\ h.len = 0
    /\ ~ {"FIN", "RST"} \subseteq h.flags
    /\ h.len # 0 => h.flags = {}

\* What process_frame does with a frame on an existing stream.
FrameOp(h) ==
    CASE "RST" \in h.flags -> "in_rst"
      [] "RST" \notin h.flags /\ "FIN" \in h.flags -> "in_fin"
      [] OTHER -> "in_data"

InOps  == {"in_rst", "in_fin", "in_data"}
OutOps == {"open", "accept", "send", "close_stream", "reset_stream", "unknown"}

\* The frame a method queues.
KindOf == [open |-> "SYN", accept |-> "ACK", send |-> "DATA", close_stream |-> "FIN",
           reset_stream |-> "RST", unknown |-> "RST"]

----------------------------------------------------------------------------
(* Tasks *)

PCs  == {"idle", "accept", "limit", "alloc", "realloc", "register", "count",
                   "frame", "push", "popback", "unregister", "uncount", "lookup", "apply",
                   "locked", "remove", "clear", "lockmap", "resetting"}

Local(op, i, o, n) == [op |-> op, id |-> i, ob |-> o, len |-> n, rest |-> {}]
NoLoc == Local("none", 0, 0, 0)

GoTo(t, l)     == pc' = [pc EXCEPT ![t] = l] /\ UNCHANGED loc
Enter(t, l, v) == pc' = [pc EXCEPT ![t] = l] /\ loc' = [loc EXCEPT ![t] = v]
Return(t)      == Enter(t, "idle", NoLoc)

MapWritable == writer = NoTask /\ readers = {}
MapReadable == writer = NoTask
Free(o)     == held[o] = NoTask
Registered  == {streams[i] : i \in Ids} \ {0}

Init ==
    /\ closed = FALSE
    /\ next_stream_id = 1
    /\ stream_count = 0
    /\ send_queue = <<>>
    /\ streams = [i \in Ids |-> 0]
    /\ obj = [o \in Objects |-> NewStream(0)]
    /\ writer = NoTask
    /\ readers = {}
    /\ held = [o \in Objects |-> NoTask]
    /\ pc = [t \in Tasks |-> "idle"]
    /\ loc = [t \in Tasks |-> NoLoc]
    /\ opens = 0
    /\ late = 0

----------------------------------------------------------------------------
(* open_stream and accept_stream *)

OpenStream(t) ==
    /\ pc[t] = "idle" /\ "open" \in Ops /\ opens < MaxOpens
    /\ IF closed
       THEN Return(t) /\ UNCHANGED opens
       ELSE /\ opens' = opens + 1
            /\ Enter(t, "limit", Local("open", 0, opens + 1, 0))
    /\ UNCHANGED <<connVars, mapVars, late>>

\* accept_stream called directly or by process_frame for a SYN.
AcceptStream(t, i) ==
    /\ opens < MaxOpens
    /\ opens' = opens + 1
    /\ Enter(t, "accept", Local("accept", i, opens + 1, 0))
    /\ UNCHANGED <<connVars, mapVars, late>>

AcceptCheck(t) ==
    /\ pc[t] = "accept"
    /\ IF closed \/ loc[t].id = CONTROL_STREAM THEN Return(t) ELSE GoTo(t, "limit")
    /\ UNCHANGED <<connVars, mapVars, opens, late>>

CheckLimit(t) ==
    /\ pc[t] = "limit"
    /\ IF stream_count >= MAX_STREAMS THEN Return(t)
       ELSE GoTo(t, IF loc[t].op = "open" THEN "alloc" ELSE "register")
    /\ UNCHANGED <<connVars, mapVars, opens, late>>

\* next_stream_id.fetch_add(1): id 0 is skipped once, a second 0 is an error.
AllocId(t) ==
    /\ pc[t] \in {"alloc", "realloc"}
    /\ next_stream_id' = (next_stream_id + 1) % IdSpace
    /\ \/ /\ next_stream_id # CONTROL_STREAM
          /\ Enter(t, "register", [loc[t] EXCEPT !.id = next_stream_id])
       \/ /\ next_stream_id = CONTROL_STREAM /\ pc[t] = "alloc"
          /\ GoTo(t, "realloc")
       \/ /\ next_stream_id = CONTROL_STREAM /\ pc[t] = "realloc"
          /\ Return(t)
    /\ UNCHANGED <<closed, stream_count, send_queue, mapVars, opens, late>>

Register(t) ==
    /\ pc[t] = "register"
    /\ MapWritable
    /\ LET i == loc[t].id
           o == loc[t].ob
       IN  IF streams[i] # 0
           THEN Return(t) /\ UNCHANGED <<streams, obj>>
           ELSE /\ streams' = [streams EXCEPT ![i] = o]
                /\ obj' = [obj EXCEPT ![o] = NewStream(i)]
                /\ GoTo(t, "count")
    /\ UNCHANGED <<connVars, writer, readers, held, opens, late>>

CountUp(t) ==
    /\ pc[t] = "count"
    /\ stream_count' = (stream_count + 1) % IdSpace
    /\ GoTo(t, "frame")
    /\ UNCHANGED <<closed, next_stream_id, send_queue, mapVars, opens, late>>

\* The error path removes whatever is registered under the id by now, if
\* anything, and counts down in any case.
Unregister(t) ==
    /\ pc[t] = "unregister"
    /\ MapWritable
    /\ streams' = [streams EXCEPT ![loc[t].id] = 0]
    /\ late' = IF streams[loc[t].id] = 0 THEN late + 1 ELSE late
    /\ GoTo(t, "uncount")
    /\ UNCHANGED <<connVars, obj, writer, readers, held, opens>>

CountDown(t) ==
    /\ pc[t] = "uncount"
    /\ stream_count' = (stream_count + IdSpace - 1) % IdSpace
    /\ Return(t)
    /\ UNCHANGED <<closed, next_stream_id, send_queue, mapVars, opens, late>>

----------------------------------------------------------------------------
(* queue_frame: the closed flag is read before the queue is locked *)

\* Mutant: send does not take its data back.
QueueFailedKeepsData(t) ==
    IF loc[t].op \in {"open", "accept"} THEN GoTo(t, "unregister") ELSE Return(t)

QueueFailed(t) ==
    CASE loc[t].op \in {"open", "accept"} -> GoTo(t, "unregister")
      [] loc[t].op = "send" -> GoTo(t, "popback")
      [] OTHER -> Return(t)

\* Mutant: the closed flag is not read again.
QueueCheckSkipsClosed(t) ==
    /\ pc[t] = "frame"
    /\ GoTo(t, "push")
    /\ UNCHANGED <<connVars, mapVars, opens, late>>

QueueCheck(t) ==
    /\ pc[t] = "frame"
    /\ IF closed THEN QueueFailed(t) ELSE GoTo(t, "push")
    /\ UNCHANGED <<connVars, mapVars, opens, late>>

QueuePush(t) ==
    /\ pc[t] = "push"
    /\ LET l == loc[t]
       IN  IF Len(send_queue) >= MaxSendQueueLen
           THEN QueueFailed(t) /\ UNCHANGED <<send_queue, obj>>
           ELSE /\ send_queue' = Append(send_queue,
                                   [id |-> l.id, kind |-> KindOf[l.op], len |-> l.len])
                /\ obj' = IF l.op = "send" THEN [obj EXCEPT ![l.ob].data = Append(@, t)] ELSE obj
                /\ Return(t)
    /\ UNCHANGED <<closed, next_stream_id, stream_count, streams, writer, readers,
                   held, opens, late>>

\* take_frame, called by the task that writes to the socket.
TakeFrame ==
    /\ send_queue # <<>>
    /\ send_queue' = Tail(send_queue)
    /\ UNCHANGED <<closed, next_stream_id, stream_count, mapVars, pc, loc, opens,
                   late>>

----------------------------------------------------------------------------
(* send, recv, close_stream, reset_stream, stream_status *)

\* Only send and recv look at the closed flag first.
CallOnStream(t, op, i, n) ==
    /\ pc[t] = "idle" /\ op \in Ops
    /\ op # "send" => n = 0
    /\ op = "send" /\ streams[i] # 0 => Len(obj[streams[i]].sendbuf) < MaxSendBuffer
    /\ IF closed /\ op \in {"send", "recv"} THEN Return(t)
       ELSE Enter(t, "lookup", Local(op, i, 0, n))
    /\ UNCHANGED <<connVars, mapVars, opens, late>>

\* streams.read().get(id): the Arc outlives the lock, except in stream_status,
\* which keeps the read guard while it waits for the stream's lock.
Lookup(t) ==
    /\ pc[t] = "lookup"
    /\ MapReadable
    /\ LET l == loc[t]
           o == streams[l.id]
       IN  IF o # 0
           THEN /\ Enter(t, "apply", [l EXCEPT !.ob = o])
                /\ readers' = IF l.op = "status" THEN readers \cup {t} ELSE readers
           ELSE /\ IF l.op \in InOps
                   THEN Enter(t, "frame", Local("unknown", l.id, 0, 0))
                   ELSE Return(t)
                /\ UNCHANGED readers
    /\ UNCHANGED <<connVars, streams, obj, writer, held, opens, late>>

\* queue_send: data of a stream that can no longer send is refused.
SendApply(t) ==
    /\ pc[t] = "apply" /\ loc[t].op = "send"
    /\ LET o == loc[t].ob
       IN  /\ Free(o)
           /\ \/ /\ CanSend(obj[o].status)
                 /\ obj' = [obj EXCEPT ![o].sendbuf = Append(@, t)]
                 /\ GoTo(t, "frame")
              \/ /\ ~CanSend(obj[o].status)
                 /\ Return(t) /\ UNCHANGED obj
    /\ UNCHANGED <<connVars, streams, writer, readers, held, opens, late>>

\* VecDeque::pop_back, which may find nothing.
PopBack(q) == IF q = <<>> THEN <<>> ELSE SubSeq(q, 1, Len(q) - 1)

\* The frame was refused: the last entry goes, whichever send pushed it.
SendPopBack(t) ==
    /\ pc[t] = "popback"
    /\ LET o == loc[t].ob
       IN  /\ Free(o)
           /\ obj' = [obj EXCEPT ![o].sendbuf = PopBack(@)]
    /\ Return(t)
    /\ UNCHANGED <<connVars, streams, writer, readers, held, opens, late>>

\* Mutant: the byte count is not reduced.
RecvKeepsBytes(t) ==
    /\ pc[t] = "apply" /\ loc[t].op = "recv"
    /\ LET o == loc[t].ob
           s == obj[o]
       IN  /\ Free(o)
           /\ s.recv # <<>>
           /\ obj' = [obj EXCEPT ![o].recv = Tail(s.recv)]
    /\ Return(t)
    /\ UNCHANGED <<connVars, streams, writer, readers, held, opens, late>>

\* take_recv, unless the stream was reset.
RecvApply(t) ==
    /\ pc[t] = "apply" /\ loc[t].op = "recv"
    /\ LET o == loc[t].ob
           s == obj[o]
       IN  /\ Free(o)
           /\ \/ /\ s.status = "Reset" /\ Return(t) /\ UNCHANGED obj
              \/ /\ s.status # "Reset" /\ s.recv = <<>> /\ Return(t) /\ UNCHANGED obj
              \/ /\ s.status # "Reset" /\ s.recv # <<>> /\ Return(t)
                 /\ obj' = [obj EXCEPT ![o].recv = Tail(s.recv),
                                       ![o].bytes = s.bytes - Head(s.recv)]
    /\ UNCHANGED <<connVars, streams, writer, readers, held, opens, late>>

CloseLocal(t) ==
    /\ pc[t] = "apply" /\ loc[t].op = "close_stream"
    /\ Free(loc[t].ob)
    /\ obj' = [obj EXCEPT ![loc[t].ob].status = CloseLocalStatus(@)]
    /\ GoTo(t, "frame")
    /\ UNCHANGED <<connVars, streams, writer, readers, held, opens, late>>

ResetLocal(t) ==
    /\ pc[t] = "apply" /\ loc[t].op = "reset_stream"
    /\ Free(loc[t].ob)
    /\ obj' = [obj EXCEPT ![loc[t].ob] = ResetStream(@)]
    /\ GoTo(t, "frame")
    /\ UNCHANGED <<connVars, streams, writer, readers, held, opens, late>>

StreamStatus(t) ==
    /\ pc[t] = "apply" /\ loc[t].op = "status"
    /\ Free(loc[t].ob)
    /\ readers' = readers \ {t}
    /\ Return(t)
    /\ UNCHANGED <<connVars, streams, obj, writer, held, opens, late>>

----------------------------------------------------------------------------
(* process_frame *)

ProcessFrame(t, h) ==
    /\ pc[t] = "idle" /\ "frame" \in Ops
    /\ \/ /\ closed \/ ~ValidFrame(h)
          /\ Return(t)
          /\ UNCHANGED <<connVars, mapVars, opens, late>>
       \/ /\ ~closed /\ ValidFrame(h) /\ h.id = CONTROL_STREAM
          /\ Return(t)
          /\ UNCHANGED <<connVars, mapVars, opens, late>>
       \/ /\ ~closed /\ ValidFrame(h) /\ h.id # CONTROL_STREAM /\ "SYN" \in h.flags
          /\ AcceptStream(t, h.id)
       \/ /\ ~closed /\ ValidFrame(h) /\ h.id # CONTROL_STREAM /\ "SYN" \notin h.flags
          /\ Enter(t, "lookup", Local(FrameOp(h), h.id, 0, h.len))
          /\ UNCHANGED <<connVars, mapVars, opens, late>>

FrameLock(t) ==
    /\ pc[t] = "apply" /\ loc[t].op \in InOps
    /\ Free(loc[t].ob)
    /\ held' = [held EXCEPT ![loc[t].ob] = t]
    /\ GoTo(t, "locked")
    /\ UNCHANGED <<connVars, streams, obj, writer, readers, opens, late>>

Unlock(t) == held' = [o \in Objects |-> IF held[o] = t THEN NoTask ELSE held[o]]

RemoteReset(t) ==
    /\ pc[t] = "locked" /\ loc[t].op = "in_rst"
    /\ obj' = [obj EXCEPT ![loc[t].ob] = ResetStream(@)]
    /\ Unlock(t)
    /\ Return(t)
    /\ UNCHANGED <<connVars, streams, writer, readers, opens, late>>

\* Mutant: the stream stays locked while remove_stream waits for the map.
RemoteFinKeepsLock(t) ==
    /\ pc[t] = "locked" /\ loc[t].op = "in_fin"
    /\ LET o  == loc[t].ob
           st == CloseRemoteStatus(obj[o].status)
       IN  /\ obj' = [obj EXCEPT ![o].status = st]
           /\ IF IsClosed(st) THEN GoTo(t, "remove") /\ UNCHANGED held
              ELSE Return(t) /\ Unlock(t)
    /\ UNCHANGED <<connVars, streams, writer, readers, opens, late>>

\* The guard is dropped before remove_stream takes the map's lock.
RemoteFin(t) ==
    /\ pc[t] = "locked" /\ loc[t].op = "in_fin"
    /\ LET o  == loc[t].ob
           st == CloseRemoteStatus(obj[o].status)
       IN  /\ obj' = [obj EXCEPT ![o].status = st]
           /\ IF IsClosed(st) THEN GoTo(t, "remove") ELSE Return(t)
    /\ Unlock(t)
    /\ UNCHANGED <<connVars, streams, writer, readers, opens, late>>

\* queue_recv: an overflow resets the stream.
RemoteData(t) ==
    /\ pc[t] = "locked" /\ loc[t].op = "in_data"
    /\ LET o == loc[t].ob
           s == obj[o]
           n == loc[t].len
       IN  \/ /\ n = 0
              /\ Return(t) /\ UNCHANGED obj
           \/ /\ n # 0 /\ ~CanReceive(s.status)
              /\ Return(t) /\ UNCHANGED obj
           \/ /\ n # 0 /\ CanReceive(s.status) /\ s.bytes + n > MaxRecvBufferBytes
              /\ obj' = [obj EXCEPT ![o] = ResetStream(@)]
              /\ Return(t)
           \/ /\ n # 0 /\ CanReceive(s.status) /\ s.bytes + n <= MaxRecvBufferBytes
              /\ obj' = [obj EXCEPT ![o].recv = Append(s.recv, n), ![o].bytes = s.bytes + n]
              /\ Return(t)
    /\ Unlock(t)
    /\ UNCHANGED <<connVars, streams, writer, readers, opens, late>>

\* Mutant: the count goes down even when nothing was removed.
RemoveAlwaysCounts(t) ==
    /\ pc[t] = "remove"
    /\ MapWritable
    /\ streams' = [streams EXCEPT ![loc[t].id] = 0]
    /\ stream_count' = (stream_count + IdSpace - 1) % IdSpace
    /\ Unlock(t)
    /\ Return(t)
    /\ UNCHANGED <<closed, next_stream_id, send_queue, obj, writer, readers, opens,
                   late>>

\* The count changes under the map's lock, so one step shows no less.
RemoveStream(t) ==
    /\ pc[t] = "remove"
    /\ MapWritable
    /\ LET i == loc[t].id
       IN  /\ streams' = [streams EXCEPT ![i] = 0]
           /\ stream_count' = IF streams[i] = 0 THEN stream_count
                              ELSE (stream_count + IdSpace - 1) % IdSpace
    /\ Unlock(t)
    /\ Return(t)
    /\ UNCHANGED <<closed, next_stream_id, send_queue, obj, writer, readers, opens,
                   late>>

----------------------------------------------------------------------------
(* close *)

Close(t) ==
    /\ pc[t] = "idle" /\ "close" \in Ops
    /\ closed' = TRUE
    /\ Enter(t, "clear", Local("close", 0, 0, 0))
    /\ UNCHANGED <<next_stream_id, stream_count, send_queue, mapVars, opens, late>>

CloseClearQueue(t) ==
    /\ pc[t] = "clear"
    /\ send_queue' = <<>>
    /\ GoTo(t, "lockmap")
    /\ UNCHANGED <<closed, next_stream_id, stream_count, mapVars, opens, late>>

CloseLockMap(t) ==
    /\ pc[t] = "lockmap"
    /\ MapWritable
    /\ writer' = t
    /\ Enter(t, "resetting", [loc[t] EXCEPT !.rest = Registered])
    /\ UNCHANGED <<connVars, streams, obj, readers, held, opens, late>>

\* Each stream is locked and reset while the map stays locked.
CloseReset(t) ==
    /\ pc[t] = "resetting"
    /\ \E o \in loc[t].rest :
          /\ Free(o)
          /\ obj' = [obj EXCEPT ![o] = ResetStream(@)]
          /\ loc' = [loc EXCEPT ![t].rest = @ \ {o}]
    /\ UNCHANGED <<connVars, streams, writer, readers, held, pc, opens, late>>

CloseFinish(t) ==
    /\ pc[t] = "resetting"
    /\ loc[t].rest = {}
    /\ streams' = [i \in Ids |-> 0]
    /\ stream_count' = 0
    /\ writer' = NoTask
    /\ Return(t)
    /\ UNCHANGED <<closed, next_stream_id, send_queue, obj, readers, held, opens, late>>

----------------------------------------------------------------------------

StreamOps == {"send", "recv", "close_stream", "reset_stream", "status"}

Call(t) ==
    \/ OpenStream(t)
    \/ \E i \in Ids : pc[t] = "idle" /\ "accept" \in Ops /\ AcceptStream(t, i)
    \/ \E op \in StreamOps, i \in Ids, n \in {0} \cup PayloadLens : CallOnStream(t, op, i, n)
    \/ \E h \in Inbound : ProcessFrame(t, h)
    \/ Close(t)

Step(t) ==
    \/ AcceptCheck(t) \/ CheckLimit(t) \/ AllocId(t) \/ Register(t) \/ CountUp(t)
    \/ Unregister(t) \/ CountDown(t)
    \/ QueueCheck(t) \/ QueuePush(t)
    \/ Lookup(t) \/ SendApply(t) \/ SendPopBack(t) \/ RecvApply(t) \/ CloseLocal(t) \/ ResetLocal(t)
    \/ StreamStatus(t)
    \/ FrameLock(t) \/ RemoteReset(t) \/ RemoteFin(t) \/ RemoteData(t) \/ RemoveStream(t)
    \/ CloseClearQueue(t) \/ CloseLockMap(t) \/ CloseReset(t) \/ CloseFinish(t)

Next == (\E t \in Tasks : Call(t) \/ Step(t)) \/ TakeFrame

Spec == Init /\ [][Next]_vars

(***************************************************************************)
(* Fairness: the runtime keeps polling a task that is inside a method, and *)
(* tokio's Mutex and RwLock serve their waiters in order, so a task whose  *)
(* lock is free again and again gets it (strong fairness).  No task has to *)
(* call anything and the socket writer need not take frames.               *)
(***************************************************************************)
FairSpec == Spec /\ \A t \in Tasks : SF_vars(Step(t))

----------------------------------------------------------------------------
(* Properties *)

Quiet == \A t \in Tasks : pc[t] = "idle"

\* A stream never regains a direction it gave up, whichever of close_stream,
\* reset_stream, remote FIN, RST, overflow and close() come in which order,
\* and a reset stream stays reset.
StatusMonotone ==
    [][\A o \in Objects :
         LET old == obj[o].status
             new == obj'[o].status
         IN  /\ CanSend(new) => CanSend(old)
             /\ CanReceive(new) => CanReceive(old)
             /\ old = "Reset" => new = "Reset"]_vars

AtPC(l)  == {t \in Tasks : pc[t] = l}

\* Until close() forgets the count, stream_count accounts for every registered
\* stream, in every interleaving of opens, accepts, FINs and error paths, but
\* for the opens that have registered and not counted yet, the error paths
\* that have removed and not uncounted yet, and one too few for each error
\* path that came late: a FIN had removed and uncounted its stream, or its id
\* was freed by another error path.  Nothing else moves the count, and no
\* other path loses or adds one.  Modulo u16 wrap.  README: locally opened
\* streams "skip control stream id 0 after stream-id wrap": no stream is ever
\* under the control id.
CountExact ==
    /\ streams[CONTROL_STREAM] = 0
    /\ ~closed => (stream_count + Cardinality(AtPC("count")) + late) % IdSpace
                     = (Cardinality(Registered) + Cardinality(AtPC("uncount"))) % IdSpace

\* connection.rs: "Get current stream count": between calls the count is the
\* number of streams.  The code breaks it: an error path counts down a stream
\* that a FIN has already removed and counted.
CountIsCurrent == ~closed /\ Quiet => stream_count = Cardinality(Registered)

Sending(o) == {t \in Tasks : /\ loc[t].op = "send" /\ loc[t].ob = o
                             /\ pc[t] \in {"frame", "push", "popback"}}

\* README: "unread multiplex receive buffers are bounded".  The byte count of
\* queue_recv and take_recv is the length of what is buffered, through any
\* mixture of frames, reads, resets and overflows, and within the limit.
RecvAccounting ==
    \A o \in Objects :
        obj[o].bytes = Total(obj[o].recv) /\ obj[o].bytes <= MaxRecvBufferBytes

\* However sends on a stream overlap, are refused and race with a reset, its
\* send buffer holds as many entries as DATA frames were queued and sends are
\* under way, and none once it is reset.  Numbers only: whose entry a refused
\* send takes back is the question of BufferHoldsQueued.
SendBufferExact ==
    \A o \in Objects :
        Len(obj[o].sendbuf) = IF obj[o].status = "Reset" THEN 0
                              ELSE Len(obj[o].data) + Cardinality(Sending(o))

EntriesOf(t, q) == Cardinality({i \in DOMAIN q : q[i] = t})

\* connection.rs: queue_send says "Queue data for sending": between calls the
\* buffer of an open stream holds, for each task, the sends whose frames were
\* queued.  The code breaks it: a refused send takes back the last entry,
\* which may be that of another send.
BufferHoldsQueued ==
    Quiet => \A o \in Objects, t \in Tasks :
                 obj[o].status # "Reset"
                     => EntriesOf(t, obj[o].sendbuf) = EntriesOf(t, obj[o].data)

\* No two methods wait for each other's lock: every call returns, with
\* stream_status and close() holding the map while they wait for a stream.
OpsReturn == \A t \in Tasks : (pc[t] # "idle") ~> (pc[t] = "idle")

\* No stream outlives close(): whichever opens and accepts passed the closed
\* check before it and registered after it emptied the map, each finds the flag
\* when it queues its frame and removes the stream again.
CloseEmptiesMap == closed /\ Quiet => Registered = {}

\* README: "close clears queued frames".  The code breaks it: a method that
\* read the closed flag before close() queues its frame after it.
CloseClears == closed /\ Quiet => send_queue = <<>>
=============================================================================
