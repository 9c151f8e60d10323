-------------------------- MODULE PipelinedClient --------------------------
(***************************************************************************)
(* PipelinedClient (src/src/multiplex/pipeline.rs): requests pipelined over *)
(* a multiplexed connection, one stream each, with a table of the pending  *)
(* requests and a counter of the requests in flight.                       *)
(*                                                                         *)
(* The connection is taken at the level of its methods: open_stream, send, *)
(* close_stream and rollback_stream_open (MultiplexConn has their inner    *)
(* steps).  The n-th stream opened carries the n-th request, so one number *)
(* is stream id and request.  The peer is external: it resets streams it   *)
(* has seen a SYN of and answers requests whose DATA it has received.      *)
(***************************************************************************)
EXTENDS Naturals, Sequences, FiniteSets, Queues

CONSTANTS
    ClientTasks,    \* tasks that share the client
    MaxInFlight,    \* max_in_flight
    MaxQueue,       \* the connection's max_send_queue_len
    MaxSends,       \* bound: streams opened
    CountSpace,     \* number of usize values: in_flight wraps
    Ops             \* the methods used, of {"response", "error", "cancel"}

ASSUME ClientAssumption ==
    /\ MaxInFlight \in Nat /\ MaxQueue \in Nat /\ MaxSends \in Nat
    /\ CountSpace \in Nat /\ CountSpace > MaxSends
    /\ IsFiniteSet(ClientTasks) /\ "none" \notin ClientTasks

VARIABLES
    in_flight,   \* PipelinedClient.in_flight
    pending,     \* PipelinedClient.pending: requests that await a response
    nextId,      \* the connection's next stream id
    stream,      \* status of the stream of each request
    queue,       \* the connection's send queue: frames <<id, kind>>
    wire,        \* frames the peer has received
    canceller,   \* task that holds the lock of pending inside cancel_all
    outcome,     \* what each request's send returned
    answered,    \* requests whose oneshot channel got a value
    disturbed,   \* history: one request was taken off the counter twice
    ppc, cur      \* progress of each task and the request it works on

pipeVars == <<in_flight, pending, nextId, stream, queue, wire, canceller, outcome,
          answered, disturbed, ppc, cur>>

Requests  == 1 .. MaxSends
NoTask    == "none"
Frame(r, kind) == <<r, kind>>
Kinds     == {"SYN", "DATA", "FIN"}

PipePCs == {"idle", "open", "register", "count", "send", "forget", "uncount",
        "remove", "retain", "answer", "close", "fin", "fail", "store"}

PipeInit ==
    /\ in_flight = 0
    /\ pending = {}
    /\ nextId = 1
    /\ stream = [r \in Requests |-> "none"]
    /\ queue = <<>>
    /\ wire = {}
    /\ canceller = NoTask
    /\ outcome = [r \in Requests |-> "none"]
    /\ answered = {}
    /\ disturbed = FALSE
    /\ ppc = [t \in ClientTasks |-> "idle"]
    /\ cur = [t \in ClientTasks |-> 0]

GoTo(t, l)     == ppc' = [ppc EXCEPT ![t] = l] /\ UNCHANGED cur
PipeEnter(t, l, r) == ppc' = [ppc EXCEPT ![t] = l] /\ cur' = [cur EXCEPT ![t] = r]
PipeReturn(t)      == PipeEnter(t, "idle", 0)

PendingFree == canceller = NoTask
AtPC(S)     == {t \in ClientTasks : ppc[t] \in S}

\* fetch_sub(1) on an AtomicUsize.
Dec(n) == (n + CountSpace - 1) % CountSpace

----------------------------------------------------------------------------
(* send *)

\* can_send() is read once, long before the counter is incremented.
SendCheck(t) ==
    /\ ppc[t] = "idle"
    /\ in_flight < MaxInFlight
    /\ GoTo(t, "open")
    /\ UNCHANGED <<in_flight, pending, nextId, stream, queue, wire, canceller,
                   outcome, answered, disturbed>>

\* open_stream: refused when ids or queue slots have run out.
SendOpen(t) ==
    /\ ppc[t] = "open"
    /\ \/ /\ nextId > MaxSends \/ Len(queue) >= MaxQueue
          /\ PipeReturn(t)
          /\ UNCHANGED <<nextId, stream, queue>>
       \/ /\ nextId <= MaxSends /\ Len(queue) < MaxQueue
          /\ nextId' = nextId + 1
          /\ stream' = [stream EXCEPT ![nextId] = "open"]
          /\ queue' = Append(queue, Frame(nextId, "SYN"))
          /\ PipeEnter(t, "register", nextId)
    /\ UNCHANGED <<in_flight, pending, wire, canceller, outcome, answered, disturbed>>

SendRegister(t) ==
    /\ ppc[t] = "register"
    /\ PendingFree
    /\ pending' = pending \cup {cur[t]}
    /\ GoTo(t, "count")
    /\ UNCHANGED <<in_flight, nextId, stream, queue, wire, canceller, outcome, answered, disturbed>>

SendCount(t) ==
    /\ ppc[t] = "count"
    /\ in_flight' = (in_flight + 1) % CountSpace
    /\ GoTo(t, "send")
    /\ UNCHANGED <<pending, nextId, stream, queue, wire, canceller, outcome, answered, disturbed>>

\* connection.send: refused when the stream cannot send or the queue is full.
SendData(t) ==
    /\ ppc[t] = "send"
    /\ LET r == cur[t]
       IN  \/ /\ stream[r] = "open" /\ Len(queue) < MaxQueue
              /\ queue' = Append(queue, Frame(r, "DATA"))
              /\ outcome' = [outcome EXCEPT ![r] = "ok"]
              /\ PipeReturn(t)
           \/ /\ stream[r] # "open" \/ Len(queue) >= MaxQueue
              /\ GoTo(t, "forget")
              /\ UNCHANGED <<queue, outcome>>
    /\ UNCHANGED <<in_flight, pending, nextId, stream, wire, canceller, answered, disturbed>>

\* The error path: pending, in_flight, then rollback_stream_open.
SendForget(t) ==
    /\ ppc[t] = "forget"
    /\ PendingFree
    /\ pending' = pending \ {cur[t]}
    /\ disturbed' = (disturbed \/ cur[t] \notin pending)
    /\ GoTo(t, "uncount")
    /\ UNCHANGED <<in_flight, nextId, stream, queue, wire, canceller, outcome, answered>>

\* Mutant: the error path leaves the counter alone.
SendUncountMissing(t) ==
    /\ ppc[t] = "uncount"
    /\ GoTo(t, "remove")
    /\ UNCHANGED <<in_flight, pending, nextId, stream, queue, wire, canceller, outcome,
                   answered, disturbed>>

SendUncount(t) ==
    /\ ppc[t] = "uncount"
    /\ in_flight' = Dec(in_flight)
    /\ GoTo(t, "remove")
    /\ UNCHANGED <<pending, nextId, stream, queue, wire, canceller, outcome, answered, disturbed>>

RollbackRemove(t) ==
    /\ ppc[t] = "remove"
    /\ stream' = [stream EXCEPT ![cur[t]] = "none"]
    /\ GoTo(t, "retain")
    /\ UNCHANGED <<in_flight, pending, nextId, queue, wire, canceller, outcome, answered, disturbed>>

\* Mutant: the queued SYN stays.
RollbackKeepsFrames(t) ==
    /\ ppc[t] = "retain"
    /\ outcome' = [outcome EXCEPT ![cur[t]] = "err"]
    /\ PipeReturn(t)
    /\ UNCHANGED <<in_flight, pending, nextId, stream, queue, wire, canceller, answered, disturbed>>

RollbackRetain(t) ==
    /\ ppc[t] = "retain"
    /\ queue' = Without(queue, {cur[t]} \X Kinds)
    /\ outcome' = [outcome EXCEPT ![cur[t]] = "err"]
    /\ PipeReturn(t)
    /\ UNCHANGED <<in_flight, pending, nextId, stream, wire, canceller, answered, disturbed>>

----------------------------------------------------------------------------
(* process_response and process_error *)

\* The entry of the stream is taken out under the lock; no entry, no effect.
TakePending(t, r, l) ==
    /\ ppc[t] = "idle"
    /\ PendingFree
    /\ r \in pending
    /\ pending' = pending \ {r}
    /\ PipeEnter(t, l, r)
    /\ UNCHANGED <<in_flight, nextId, stream, queue, wire, canceller, outcome, answered, disturbed>>

ProcessResponse(t, r) ==
    "response" \in Ops /\ Frame(r, "DATA") \in wire /\ TakePending(t, r, "answer")

ProcessError(t, r) ==
    "error" \in Ops /\ stream[r] = "reset" /\ TakePending(t, r, "fail")

\* The counter is decremented, then the value goes into the oneshot channel.
Deliver(t) ==
    /\ ppc[t] \in {"answer", "fail"}
    /\ in_flight' = Dec(in_flight)
    /\ answered' = answered \cup {cur[t]}
    /\ IF ppc[t] = "answer" THEN GoTo(t, "close") ELSE PipeReturn(t)
    /\ UNCHANGED <<pending, nextId, stream, queue, wire, canceller, outcome, disturbed>>

\* close_stream: the status first, then the FIN if the queue has room.
ResponseClose(t) ==
    /\ ppc[t] = "close"
    /\ LET r == cur[t]
       IN  IF stream[r] = "none"
           THEN PipeReturn(t) /\ UNCHANGED stream
           ELSE /\ stream' = [stream EXCEPT ![r] = IF @ = "open" THEN "local" ELSE @]
                /\ GoTo(t, "fin")
    /\ UNCHANGED <<in_flight, pending, nextId, queue, wire, canceller, outcome, answered, disturbed>>

ResponseFin(t) ==
    /\ ppc[t] = "fin"
    /\ queue' = IF Len(queue) < MaxQueue THEN Append(queue, Frame(cur[t], "FIN")) ELSE queue
    /\ PipeReturn(t)
    /\ UNCHANGED <<in_flight, pending, nextId, stream, wire, canceller, outcome, answered, disturbed>>

----------------------------------------------------------------------------
(* cancel_all: pending stays locked until the counter is stored *)

CancelDrain(t) ==
    /\ ppc[t] = "idle" /\ "cancel" \in Ops
    /\ PendingFree
    /\ canceller' = t
    /\ answered' = answered \cup pending
    /\ pending' = {}
    /\ disturbed' = (disturbed \/ AtPC({"count", "uncount", "answer", "fail"}) # {})
    /\ GoTo(t, "store")
    /\ UNCHANGED <<in_flight, nextId, stream, queue, wire, outcome>>

CancelStore(t) ==
    /\ ppc[t] = "store"
    /\ in_flight' = 0
    /\ canceller' = NoTask
    /\ PipeReturn(t)
    /\ UNCHANGED <<pending, nextId, stream, queue, wire, outcome, answered, disturbed>>

----------------------------------------------------------------------------
(* The connection's writer and reader *)

TakeFrame ==
    /\ queue # <<>>
    /\ queue' = Tail(queue)
    /\ wire' = wire \cup {Head(queue)}
    /\ UNCHANGED <<in_flight, pending, nextId, stream, canceller, outcome, answered, disturbed, ppc, cur>>

\* The peer's RST arrives for a stream it knows.
PeerReset(r) ==
    /\ "error" \in Ops
    /\ Frame(r, "SYN") \in wire
    /\ stream[r] \in {"open", "local"}
    /\ stream' = [stream EXCEPT ![r] = "reset"]
    /\ UNCHANGED <<in_flight, pending, nextId, queue, wire, canceller, outcome, answered, disturbed,
                   ppc, cur>>

----------------------------------------------------------------------------

SendStep(t) ==
    \/ SendCheck(t) \/ SendOpen(t) \/ SendRegister(t) \/ SendCount(t) \/ SendData(t)
    \/ SendForget(t) \/ SendUncount(t) \/ RollbackRemove(t) \/ RollbackRetain(t)

ReaderStep(t) ==
    \/ \E r \in Requests : ProcessResponse(t, r) \/ ProcessError(t, r)
    \/ Deliver(t) \/ ResponseClose(t) \/ ResponseFin(t)

PipeNext ==
    \/ \E t \in ClientTasks : SendStep(t) \/ ReaderStep(t) \/ CancelDrain(t) \/ CancelStore(t)
    \/ TakeFrame
    \/ \E r \in Requests : PeerReset(r)

PipeSpec == PipeInit /\ [][PipeNext]_pipeVars

----------------------------------------------------------------------------
(* Properties *)

Quiet == AtPC(PipePCs \ {"idle"}) = {}

\* A request whose send returned a receiver is never forgotten: it is in the
\* table, or its channel has got a value, or a task is about to send it one.
\* README: "pipelined send failures roll back pending request, in-flight,
\* stream, and queued SYN state": nothing of a failed request is left, and
\* nothing comes back later.
RequestsAccounted ==
    \A r \in Requests :
        /\ outcome[r] = "ok" =>
             \/ r \in pending \/ r \in answered
             \/ \E t \in AtPC({"answer", "fail"}) : cur[t] = r
        /\ outcome[r] = "err" =>
             /\ r \notin pending
             /\ stream[r] = "none"
             /\ \A n \in 1 .. Len(queue) : queue[n][1] # r

\* As long as no request has been taken off the counter twice (by the error
\* path of a send whose table entry was already taken, or by the store(0) of a
\* cancel_all), the counter agrees with the table, modulo its width and up to
\* the tasks between changing one and changing the other.
InFlightExact ==
    ~disturbed /\ PendingFree =>
        (in_flight + Cardinality(AtPC({"count"}))) % CountSpace
            = (Cardinality(pending) + Cardinality(AtPC({"uncount", "answer", "fail"})))
                  % CountSpace

\* "Get current in-flight request count": between calls in_flight is the
\* number of requests that await a response.
InFlightMatches == Quiet => in_flight = Cardinality(pending)
=============================================================================
