-------------------------- MODULE MultiplexProofs --------------------------
(***************************************************************************)
(* StatusMonotone, SendBufferExact, RecvAccounting, CountExact and         *)
(* CloseEmptiesMap of MultiplexConn for any finite set of tasks and any    *)
(* number of streams and ids.                                              *)
(*                                                                         *)
(* All rest on MuxInv: between the moment a task makes the state of        *)
(* a new stream and the moment it registers it, nobody else knows that     *)
(* state (StartingOwns).  Every other step works on streams that are       *)
(* registered or were (SharedStep).                                        *)
(***************************************************************************)
EXTENDS MultiplexConn, Lemmas

Statuses == {"Open", "HalfClosedLocal", "HalfClosedRemote", "Closed", "Reset"}
StreamStates == [id : Ids, status : Statuses, recv : Seq(Nat), bytes : Int,
                 sendbuf : Seq(Tasks), data : Seq(Tasks)]
OpNames == StreamOps \cup InOps \cup {"open", "accept", "unknown", "close", "none"}
Locals == [op : OpNames, id : Ids, ob : 0 .. MaxOpens, len : Nat, rest : SUBSET Objects]

MuxTypeOK ==
    /\ closed \in BOOLEAN
    /\ next_stream_id \in Ids
    /\ opens \in 0 .. MaxOpens
    /\ streams \in [Ids -> 0 .. MaxOpens]
    /\ obj \in [Objects -> StreamStates]
    /\ pc \in [Tasks -> PCs]
    /\ loc \in [Tasks -> Locals]

\* The task holds an object that it has not registered yet.
Starting(t) == pc[t] \in {"accept", "limit", "alloc", "realloc", "register"}

Untouched(o) ==
    /\ obj[o].status = "Open" /\ obj[o].sendbuf = <<>> /\ obj[o].data = <<>>
    /\ \A i \in Ids : streams[i] # o

\* Nothing refers to an object that was not handed out.
HandedOut ==
    /\ \A t \in Tasks : loc[t].ob <= opens /\ \A o \in loc[t].rest : o <= opens
    /\ \A i \in Ids : streams[i] <= opens
    /\ \A o \in Objects : o > opens => Untouched(o)

\* An object that is not registered yet is known to its task alone.
StartingOwns ==
    \A t \in Tasks : Starting(t) =>
        /\ loc[t].op \in {"open", "accept"}
        /\ loc[t].ob \in Objects
        /\ Untouched(loc[t].ob)
        /\ \A s \in Tasks : /\ s # t => loc[s].ob # loc[t].ob
                            /\ loc[t].ob \notin loc[s].rest

\* No stream is, or is about to be, under the control id.
ControlFree ==
    /\ streams[CONTROL_STREAM] = 0
    /\ \A t \in Tasks :
          pc[t] = "register" \/ (pc[t] = "limit" /\ loc[t].op = "accept")
              => loc[t].id # CONTROL_STREAM

\* A task that works on a stream has found an object, and only open_stream and
\* accept_stream count.
HasObject ==
    \A t \in Tasks :
        /\ pc[t] \in {"apply", "locked", "popback", "count", "unregister"} => loc[t].ob \in Objects
        /\ pc[t] \in {"frame", "push"} /\ loc[t].op \in {"open", "accept", "send"}
              => loc[t].ob \in Objects
        /\ pc[t] = "count" => loc[t].op \in {"open", "accept"}
        /\ pc[t] = "popback" => loc[t].op = "send"

MuxInv == MuxTypeOK /\ HandedOut /\ StartingOwns /\ ControlFree /\ HasObject

\* What the proofs use of the constants: id 0 exists, and is no object.
LEMMA ConstantsOK ==
    /\ CONTROL_STREAM = 0 /\ 0 \in Ids
    /\ MaxOpens \in Nat
    /\ \A o : o \in Objects <=> o \in 0 .. MaxOpens /\ o # 0
BY IdSpaceAssumption, BoundsAssumption DEF Ids, CONTROL_STREAM, Objects

\* fetch_add(1) on next_stream_id yields an id again.
LEMMA NextIdType == \A i \in Ids : (i + 1) % IdSpace \in Ids
BY IdSpaceAssumption DEF Ids

\* An inbound frame names an id, a length and something to do.
LEMMA FrameTypes ==
    \A h \in Inbound : h.id \in Ids /\ h.len \in Nat /\ FrameOp(h) \in InOps
BY InboundAssumption, PayloadAssumption DEF Headers, FrameOp, InOps

\* The locals a method starts with are well formed.
LEMMA LocalType ==
    ASSUME NEW op \in OpNames, NEW i \in Ids, NEW o \in 0 .. MaxOpens, NEW n \in Nat
    PROVE  Local(op, i, o, n) \in Locals
BY DEF Local, Locals

\* So are those of a task outside of every method.
LEMMA NoLocType == NoLoc \in Locals
<1>1. "none" \in OpNames /\ 0 \in 0 .. MaxOpens /\ 0 \in Nat /\ 0 \in Ids
  BY ConstantsOK DEF OpNames
<1> QED BY <1>1, LocalType DEF NoLoc

\* StreamState::new yields a stream state.
LEMMA NewStreamType == ASSUME NEW i \in Ids PROVE NewStream(i) \in StreamStates
<1>1. <<>> \in Seq(Nat)
  OBVIOUS
<1> QED BY <1>1 DEF NewStream, StreamStates, Statuses

\* The invariant holds of a new connection.
LEMMA InitInv == Init => MuxInv
<1> SUFFICES ASSUME Init PROVE MuxInv
  OBVIOUS
<1>1. MuxTypeOK
  <2>1. loc \in [Tasks -> Locals]
    BY NoLocType DEF Init
  <2>2. obj \in [Objects -> StreamStates]
    BY NewStreamType, ConstantsOK DEF Init
  <2>3. 1 \in Ids
    BY IdSpaceAssumption DEF Ids
  <2>4. pc \in [Tasks -> PCs]
    BY DEF Init, PCs
  <2>5. opens \in 0 .. MaxOpens /\ streams \in [Ids -> 0 .. MaxOpens]
    BY ConstantsOK DEF Init
  <2> QED BY <2>1, <2>2, <2>3, <2>4, <2>5 DEF Init, MuxTypeOK
<1>2. \A o \in Objects : Untouched(o)
  BY ConstantsOK DEF Init, Untouched, NewStream
<1>3. HandedOut /\ StartingOwns /\ ControlFree /\ HasObject
  BY <1>2, ConstantsOK DEF Init, HandedOut, StartingOwns, ControlFree, HasObject, Starting, NoLoc, Local
<1> QED BY <1>1, <1>3 DEF MuxInv

\* An object that is no starting task's own.
Shared(o) == o <= opens /\ \A s \in Tasks : Starting(s) => loc[s].ob # o

\* Whatever is in the map, was looked up or is being reset by close() is no
\* starting task's own.
LEMMA SharedObjects ==
    ASSUME MuxInv
    PROVE  /\ Shared(0)
           /\ \A i \in Ids : Shared(streams[i])
           /\ \A t \in Tasks : /\ ~Starting(t) => Shared(loc[t].ob)
                               /\ \A o \in loc[t].rest : Shared(o)
BY ConstantsOK DEF MuxInv, MuxTypeOK, HandedOut, StartingOwns, Untouched, Shared

\* What a stream's status may do.
Forward(o) ==
    LET old == obj[o].status
        new == obj'[o].status
    IN  /\ CanSend(new) => CanSend(old)
        /\ CanReceive(new) => CanReceive(old)
        /\ old = "Reset" => new = "Reset"

\* What the steps of registered streams do to the shared state.
SharedStep ==
    /\ closed' \in BOOLEAN
    /\ next_stream_id' \in Ids
    /\ opens' = opens
    /\ streams' \in [Ids -> 0 .. MaxOpens]
    /\ \A i \in Ids : streams'[i] = streams[i] \/ streams'[i] = 0
    /\ obj' \in [Objects -> StreamStates]
    /\ \A o \in Objects : obj'[o] = obj[o] \/ (Shared(o) /\ Forward(o))

\* A task goes on to point l with locals v, and touches only streams that are
\* not being started: the invariant is kept.
LEMMA MovePreserves ==
    ASSUME MuxInv, NEW t \in Tasks, NEW l \in PCs, NEW v \in Locals,
           pc' = [pc EXCEPT ![t] = l], loc' = [loc EXCEPT ![t] = v],
           SharedStep,
           Shared(v.ob) \/ (Starting(t) /\ v.ob = loc[t].ob),
           \A o \in v.rest : Shared(o),
           l \in {"accept", "limit", "alloc", "realloc", "register"}
               => Starting(t) /\ v.op = loc[t].op /\ v.ob = loc[t].ob,
           l = "register" \/ (l = "limit" /\ v.op = "accept") => v.id # CONTROL_STREAM,
           l # "count", l = "popback" => v.op = "send",
           l \in {"apply", "locked", "popback", "unregister"} => v.ob \in Objects,
           l \in {"frame", "push"} /\ v.op \in {"open", "accept", "send"} => v.ob \in Objects
    PROVE  MuxInv'
<1> USE ConstantsOK DEF MuxInv, SharedStep
<1>1. MuxTypeOK'
  BY DEF MuxTypeOK
<1>2. \A s \in Tasks : /\ pc'[s] = IF s = t THEN l ELSE pc[s]
                       /\ loc'[s] = IF s = t THEN v ELSE loc[s]
  BY DEF MuxTypeOK
<1>3. \A o \in Objects : Untouched(o) /\ ~Shared(o) => Untouched(o)'
  BY DEF Untouched, MuxTypeOK
<1>4. \A o \in Objects : o > opens => ~Shared(o)
  BY DEF Shared, MuxTypeOK
<1>5. \A s \in Tasks : Starting(s) => ~Shared(loc[s].ob)
  BY DEF Shared
<1>6. HandedOut'
  <2>1. \A s \in Tasks : loc'[s].ob <= opens /\ \A o \in loc'[s].rest : o <= opens
    BY <1>2 DEF HandedOut, Shared
  <2>2. \A i \in Ids : streams'[i] <= opens
    <3>1. 0 <= opens /\ \A i \in Ids : streams[i] <= opens
      BY DEF HandedOut, MuxTypeOK
    <3> QED BY <3>1
  <2>3. \A o \in Objects : o > opens => Untouched(o)'
    BY <1>3, <1>4 DEF HandedOut
  <2> QED BY <2>1, <2>2, <2>3 DEF HandedOut
<1>7. StartingOwns'
  <2> SUFFICES ASSUME NEW s \in Tasks, Starting(s)'
               PROVE  /\ loc'[s].op \in {"open", "accept"}
                      /\ loc'[s].ob \in Objects
                      /\ Untouched(loc[s].ob)'
                      /\ \A x \in Tasks : /\ x # s => loc'[x].ob # loc'[s].ob
                                          /\ loc'[s].ob \notin loc'[x].rest
    BY DEF StartingOwns
  <2>1. Starting(s) /\ loc'[s].op = loc[s].op /\ loc'[s].ob = loc[s].ob
    BY <1>2 DEF Starting
  <2>2. loc[s].ob \in Objects /\ Untouched(loc[s].ob) /\ ~Shared(loc[s].ob)
    BY <2>1, <1>5 DEF StartingOwns
  <2>3. Untouched(loc[s].ob)'
    <3> DEFINE o == loc[s].ob
    <3>1. o \in Objects /\ Untouched(o) /\ ~Shared(o)
      BY <2>2
    <3>2. obj'[o] = obj[o] /\ \A i \in Ids : streams'[i] # o
      <4>1. obj'[o] = obj[o]
        BY <3>1
      <4>2. o # 0 /\ \A i \in Ids : streams[i] # o
        BY <3>1 DEF Untouched
      <4> QED BY <4>1, <4>2
    <3> QED BY <3>1, <3>2, <2>1 DEF Untouched
  <2>4. \A x \in Tasks : /\ x # s => loc'[x].ob # loc[s].ob
                         /\ loc[s].ob \notin loc'[x].rest
    BY <1>2, <2>1, <2>2 DEF StartingOwns
  <2> QED BY <2>1, <2>2, <2>3, <2>4 DEF StartingOwns
<1>8. ControlFree'
  BY <1>2 DEF ControlFree, MuxTypeOK
<1>9. HasObject'
  BY <1>2 DEF HasObject
<1> QED BY <1>1, <1>6, <1>7, <1>8, <1>9


\* open_stream and accept_stream hand out the next object.
LEMMA HandOutPreserves ==
    ASSUME MuxInv, NEW t \in Tasks, NEW l \in {"accept", "limit"}, NEW op \in {"open", "accept"},
           NEW i \in Ids, l = "limit" => op = "open",
           opens < MaxOpens, opens' = opens + 1,
           Enter(t, l, Local(op, i, opens + 1, 0)), UNCHANGED <<connVars, mapVars>>
    PROVE  MuxInv'
<1> USE ConstantsOK DEF MuxInv
<1> DEFINE v == Local(op, i, opens + 1, 0)
<1>1. v \in Locals /\ v.op = op /\ v.ob = opens + 1 /\ v.rest = {} /\ v.id = i
  <2>1. opens + 1 \in 0 .. MaxOpens /\ op \in OpNames
    BY DEF MuxTypeOK, OpNames
  <2>2. v \in Locals
    BY <2>1, LocalType
  <2> QED BY <2>2 DEF Local
<1>2. \A s \in Tasks : /\ pc'[s] = IF s = t THEN l ELSE pc[s]
                       /\ loc'[s] = IF s = t THEN v ELSE loc[s]
  BY DEF MuxTypeOK, Enter
<1> HIDE DEF v
<1>3. MuxTypeOK'
  BY <1>1 DEF MuxTypeOK, Enter, PCs, connVars, mapVars, v
<1>4. \A o \in Objects : Untouched(o)' <=> Untouched(o)
  BY DEF Untouched, mapVars
<1>5. HandedOut'
  <2>1. opens \in Nat /\ opens' = opens + 1
    BY DEF MuxTypeOK
  <2>2. \A s \in Tasks : loc[s].ob \in Nat /\ \A o \in loc[s].rest : o \in Nat
    BY DEF MuxTypeOK, Locals
  <2>3. \A s \in Tasks : loc'[s].ob <= opens' /\ \A o \in loc'[s].rest : o <= opens'
    BY <1>1, <1>2, <2>1, <2>2 DEF HandedOut
  <2>4. \A j \in Ids : streams'[j] <= opens'
    BY <2>1 DEF HandedOut, MuxTypeOK, mapVars
  <2>5. \A o \in Objects : o > opens' => Untouched(o)'
    BY <2>1, <1>4 DEF HandedOut
  <2> QED BY <2>3, <2>4, <2>5 DEF HandedOut
<1>6. StartingOwns'
  <2> SUFFICES ASSUME NEW s \in Tasks, Starting(s)'
               PROVE  /\ loc'[s].op \in {"open", "accept"}
                      /\ loc'[s].ob \in Objects
                      /\ Untouched(loc[s].ob)'
                      /\ \A x \in Tasks : /\ x # s => loc'[x].ob # loc'[s].ob
                                          /\ loc'[s].ob \notin loc'[x].rest
    BY DEF StartingOwns
  <2>1. CASE s = t
    <3>1. opens + 1 \in Objects /\ opens + 1 > opens
      BY DEF MuxTypeOK
    <3>2. \A o \in Objects : o = opens + 1 => Untouched(o)'
      BY <3>1, <1>4 DEF HandedOut
    <3>3. loc'[s].ob = opens + 1
      BY <2>1, <1>1, <1>2
    <3>4. Untouched(loc[s].ob)'
      <4>1. PICK o \in Objects : o = loc'[s].ob /\ Untouched(o)'
        BY <3>1, <3>2, <3>3
      <4> QED BY <4>1 DEF Untouched
    <3>5. \A x \in Tasks : x # s => loc'[x].ob <= opens /\ loc'[x].ob \in 0 .. MaxOpens
      BY <2>1, <1>2 DEF HandedOut, MuxTypeOK, Locals
    <3>6. \A x \in Tasks : opens + 1 \notin loc'[x].rest
      BY <1>1, <1>2 DEF HandedOut, MuxTypeOK
    <3> QED BY <2>1, <1>1, <1>2, <3>1, <3>3, <3>4, <3>5, <3>6 DEF MuxTypeOK
  <2>2. CASE s # t
    <3>1. Starting(s) /\ loc'[s] = loc[s]
      BY <2>2, <1>2 DEF Starting
    <3>2. loc[s].ob \in Objects /\ loc[s].ob <= opens
      BY <3>1 DEF StartingOwns, HandedOut
    <3>3. Untouched(loc[s].ob)'
      <4>1. Untouched(loc[s].ob)
        BY <3>1 DEF StartingOwns
      <4> QED BY <4>1, <3>1 DEF Untouched, mapVars
    <3> QED BY <3>1, <3>2, <3>3, <1>1, <1>2 DEF StartingOwns, MuxTypeOK
  <2> QED BY <2>1, <2>2
<1>7. ControlFree'
  BY <1>1, <1>2 DEF ControlFree, mapVars
<1>8. HasObject'
  BY <1>1, <1>2 DEF HasObject
<1> QED BY <1>3, <1>5, <1>6, <1>7, <1>8

----------------------------------------------------------------------------
\* The same for a method that returns ...
LEMMA ReturnPreserves ==
    ASSUME MuxInv, NEW t \in Tasks, Return(t), SharedStep
    PROVE  MuxInv'
<1>1. Shared(NoLoc.ob) /\ NoLoc.rest = {}
  BY SharedObjects DEF NoLoc, Local
<1>2. "idle" \in PCs
  BY DEF PCs
<1> QED BY <1>1, <1>2, NoLocType, MovePreserves DEF Return, Enter

\* ... and for one that goes on with its locals as they are.
LEMMA GoToPreserves ==
    ASSUME MuxInv, NEW t \in Tasks, NEW l \in PCs, GoTo(t, l), SharedStep,
           l \notin {"accept", "limit", "alloc", "realloc", "register", "count"},
           l = "popback" => loc[t].op = "send",
           l \in {"apply", "locked", "popback", "unregister"} => loc[t].ob \in Objects,
           l \in {"frame", "push"} /\ loc[t].op \in {"open", "accept", "send"} => loc[t].ob \in Objects
    PROVE  MuxInv'
<1>1. loc[t] \in Locals /\ loc' = [loc EXCEPT ![t] = loc[t]] /\ pc' = [pc EXCEPT ![t] = l]
  BY DEF MuxInv, MuxTypeOK, GoTo
<1>2. /\ Shared(loc[t].ob) \/ (Starting(t) /\ loc[t].ob = loc[t].ob)
      /\ \A o \in loc[t].rest : Shared(o)
  BY SharedObjects
<1> QED BY <1>1, <1>2, MovePreserves

\* A step that touches no stream.
LEMMA NoStreamTouched ==
    ASSUME MuxInv, closed' \in BOOLEAN, next_stream_id' \in Ids, UNCHANGED <<opens, streams, obj>>
    PROVE  SharedStep
BY DEF MuxInv, MuxTypeOK, SharedStep

\* A step that changes one stream that is not being started.
LEMMA OneStreamTouched ==
    ASSUME MuxInv, UNCHANGED <<closed, next_stream_id, opens, streams>>,
           NEW o \in Objects, NEW s \in StreamStates, Shared(o),
           obj' = [obj EXCEPT ![o] = s],
           /\ CanSend(s.status) => CanSend(obj[o].status)
           /\ CanReceive(s.status) => CanReceive(obj[o].status)
           /\ obj[o].status = "Reset" => s.status = "Reset"
    PROVE  SharedStep
<1>1. obj' \in [Objects -> StreamStates] /\ obj'[o] = s /\ \A x \in Objects : x # o => obj'[x] = obj[x]
  BY DEF MuxInv, MuxTypeOK
<1>2. Forward(o)
  BY <1>1 DEF Forward
<1>3. \A x \in Objects : obj'[x] = obj[x] \/ (Shared(x) /\ Forward(x))
  BY <1>1, <1>2
<1> QED BY <1>1, <1>3 DEF MuxInv, MuxTypeOK, SharedStep

\* A step that only takes entries out of the map.
LEMMA MapShrinks ==
    ASSUME MuxInv, UNCHANGED <<closed, next_stream_id, opens, obj>>,
           streams' \in [Ids -> 0 .. MaxOpens],
           \A i \in Ids : streams'[i] = streams[i] \/ streams'[i] = 0
    PROVE  SharedStep
BY DEF MuxInv, MuxTypeOK, SharedStep

\* open_stream and accept_stream up to the registration.
LEMMA OpenSteps ==
    ASSUME MuxInv, NEW t \in Tasks,
           \/ OpenStream(t) \/ \E i \in Ids : AcceptStream(t, i)
           \/ AcceptCheck(t) \/ CheckLimit(t) \/ AllocId(t)
    PROVE  MuxInv' /\ \A o \in Objects : Forward(o)
<1>1. UNCHANGED obj
  BY DEF OpenStream, AcceptStream, AcceptCheck, CheckLimit, AllocId, mapVars
<1>2. \A o \in Objects : Forward(o)
  BY <1>1 DEF Forward
<1>3. /\ loc[t] \in Locals /\ closed \in BOOLEAN /\ next_stream_id \in Ids /\ opens \in 0 .. MaxOpens
  BY DEF MuxInv, MuxTypeOK
<1>4. /\ Shared(loc[t].ob) \/ (Starting(t) /\ loc[t].ob = loc[t].ob)
      /\ \A o \in loc[t].rest : Shared(o)
  BY SharedObjects
<1>5. CASE OpenStream(t)
  <2>1. CASE closed
    BY <1>5, <2>1, <1>3, NoStreamTouched, ReturnPreserves, <1>2 DEF OpenStream, connVars, mapVars
  <2>2. CASE ~closed
    BY <1>5, <2>2, <1>2, ConstantsOK, HandOutPreserves DEF OpenStream
  <2> QED BY <2>1, <2>2
<1>6. ASSUME NEW i \in Ids, AcceptStream(t, i) PROVE MuxInv'
  BY <1>6, HandOutPreserves DEF AcceptStream
<1>7. CASE AcceptCheck(t)
  <2>0. SharedStep
    BY <1>7, <1>3, NoStreamTouched DEF AcceptCheck, connVars, mapVars
  <2>1. CASE closed \/ loc[t].id = CONTROL_STREAM
    BY <1>7, <2>0, <2>1, ReturnPreserves, <1>2 DEF AcceptCheck
  <2>2. CASE ~(closed \/ loc[t].id = CONTROL_STREAM)
    <3>1. pc' = [pc EXCEPT ![t] = "limit"] /\ loc' = [loc EXCEPT ![t] = loc[t]] /\ Starting(t)
      BY <1>7, <2>2 DEF AcceptCheck, GoTo, Starting, MuxInv, MuxTypeOK
    <3>2. "limit" \in PCs
      BY DEF PCs
    <3> QED BY <3>1, <3>2, <2>0, <2>2, <1>2, <1>3, <1>4, MovePreserves
  <2> QED BY <2>1, <2>2
<1>8. CASE CheckLimit(t)
  <2>0. SharedStep
    BY <1>8, <1>3, NoStreamTouched DEF CheckLimit, connVars, mapVars
  <2>1. CASE stream_count >= MAX_STREAMS
    BY <1>8, <2>0, <2>1, ReturnPreserves, <1>2 DEF CheckLimit
  <2>2. CASE ~(stream_count >= MAX_STREAMS)
    <3> DEFINE l == IF loc[t].op = "open" THEN "alloc" ELSE "register"
    <3>1. pc' = [pc EXCEPT ![t] = l] /\ loc' = [loc EXCEPT ![t] = loc[t]] /\ Starting(t)
      BY <1>8, <2>2 DEF CheckLimit, GoTo, Starting, MuxInv, MuxTypeOK
    <3>2. l \in PCs
      BY DEF PCs
    <3>3. l = "register" => loc[t].id # CONTROL_STREAM
      BY <1>8, <3>1 DEF CheckLimit, MuxInv, ControlFree, StartingOwns
    <3>4. l \in {"alloc", "register"}
      OBVIOUS
    <3> HIDE DEF l
    <3> QED BY <3>1, <3>2, <3>3, <3>4, <2>0, <1>2, <1>3, <1>4, MovePreserves
  <2> QED BY <2>1, <2>2
<1>9. CASE AllocId(t)
  <2>0. SharedStep
    BY <1>9, <1>3, NextIdType, NoStreamTouched DEF AllocId, mapVars
  <2>1. Starting(t)
    BY <1>9 DEF AllocId, Starting
  <2>2. CASE next_stream_id # CONTROL_STREAM
    <3> DEFINE v == [loc[t] EXCEPT !.id = next_stream_id]
    <3>1. pc' = [pc EXCEPT ![t] = "register"] /\ loc' = [loc EXCEPT ![t] = v]
      BY <1>9, <2>2 DEF AllocId, Enter
    <3>2. /\ v \in Locals /\ v.op = loc[t].op /\ v.ob = loc[t].ob /\ v.rest = loc[t].rest
          /\ v.id = next_stream_id
      BY <1>3 DEF Locals
    <3>3. "register" \in PCs
      BY DEF PCs
    <3> HIDE DEF v
    <3> QED BY <3>1, <3>2, <3>3, <2>0, <2>1, <2>2, <1>2, <1>4, MovePreserves
  <2>3. CASE next_stream_id = CONTROL_STREAM /\ pc[t] = "alloc"
    <3>1. pc' = [pc EXCEPT ![t] = "realloc"] /\ loc' = [loc EXCEPT ![t] = loc[t]]
      BY <1>9, <2>3 DEF AllocId, GoTo, MuxInv, MuxTypeOK
    <3>2. "realloc" \in PCs
      BY DEF PCs
    <3> QED BY <3>1, <3>2, <2>0, <2>1, <1>2, <1>3, <1>4, MovePreserves
  <2>4. CASE next_stream_id = CONTROL_STREAM /\ pc[t] = "realloc"
    BY <1>9, <2>4, <2>0, ReturnPreserves, <1>2 DEF AllocId
  <2> QED BY <1>9, <2>2, <2>3, <2>4 DEF AllocId
<1> QED BY <1>2, <1>5, <1>6, <1>7, <1>8, <1>9

\* The object of a starting task is registered as it is: new.
LEMMA RegisterStep ==
    ASSUME MuxInv, NEW t \in Tasks, Register(t)
    PROVE  MuxInv' /\ \A o \in Objects : Forward(o)
<1> DEFINE i == loc[t].id
           o == loc[t].ob
<1>1. CASE streams[i] # 0
  <2>1. SharedStep
    BY <1>1, NoStreamTouched DEF Register, connVars, MuxInv, MuxTypeOK
  <2>2. MuxInv'
    BY <1>1, <2>1, ReturnPreserves DEF Register
  <2> QED BY <1>1, <2>2 DEF Register, Forward
<1>2. CASE streams[i] = 0
  <2>1. /\ pc' = [pc EXCEPT ![t] = "count"] /\ UNCHANGED <<closed, next_stream_id, opens, loc>>
        /\ streams' = [streams EXCEPT ![i] = o] /\ obj' = [obj EXCEPT ![o] = NewStream(i)]
        /\ pc[t] = "register"
    BY <1>2 DEF Register, GoTo, connVars
  <2>2. i \in Ids /\ i # CONTROL_STREAM /\ o \in Objects /\ Untouched(o) /\ Starting(t)
    BY <2>1 DEF MuxInv, MuxTypeOK, Locals, ControlFree, StartingOwns, Starting
  <2>3. obj'[o] = NewStream(i) /\ \A x \in Objects : x # o => obj'[x] = obj[x]
    BY <2>1, <2>2 DEF MuxInv, MuxTypeOK
  <2>4. streams'[i] = o /\ \A j \in Ids : j # i => streams'[j] = streams[j]
    BY <2>1, <2>2 DEF MuxInv, MuxTypeOK
  <2>5. \A s \in Tasks : pc'[s] = IF s = t THEN "count" ELSE pc[s]
    BY <2>1 DEF MuxInv, MuxTypeOK
  <2>6. MuxTypeOK'
    <3>1. NewStream(i) \in StreamStates /\ o \in 0 .. MaxOpens
      BY <2>2, NewStreamType, ConstantsOK
    <3> QED BY <3>1, <2>1 DEF MuxInv, MuxTypeOK, PCs
  <2>7. \A x \in Objects : x # o /\ Untouched(x) => Untouched(x)'
    BY <2>2, <2>3, <2>4 DEF Untouched
  <2>8. o <= opens
    BY DEF MuxInv, HandedOut
  <2>9. HandedOut'
    BY <2>1, <2>2, <2>4, <2>7, <2>8, ConstantsOK DEF MuxInv, MuxTypeOK, HandedOut
  <2>10. StartingOwns'
    <3> SUFFICES ASSUME NEW s \in Tasks, Starting(s)'
                 PROVE  /\ loc'[s].op \in {"open", "accept"}
                        /\ loc'[s].ob \in Objects
                        /\ Untouched(loc[s].ob)'
                        /\ \A x \in Tasks : /\ x # s => loc'[x].ob # loc'[s].ob
                                            /\ loc'[s].ob \notin loc'[x].rest
      BY DEF StartingOwns
    <3>1. s # t /\ Starting(s)
      BY <2>5 DEF Starting
    <3>2. loc[s].ob \in Objects /\ loc[s].ob # o /\ Untouched(loc[s].ob)
      BY <3>1 DEF MuxInv, StartingOwns
    <3>3. PICK x \in Objects : x = loc'[s].ob /\ Untouched(x)'
      BY <3>2, <2>7, <2>1
    <3>4. Untouched(loc[s].ob)'
      BY <3>3 DEF Untouched
    <3> QED BY <3>1, <3>2, <3>4, <2>1 DEF MuxInv, StartingOwns
  <2>11. ControlFree'
    BY <2>1, <2>2, <2>4, <2>5, ConstantsOK DEF MuxInv, ControlFree
  <2>12. HasObject'
    BY <2>1, <2>2, <2>5 DEF MuxInv, HasObject, StartingOwns
  <2>13. \A x \in Objects : Forward(x)
    BY <2>2, <2>3 DEF Forward, Untouched, NewStream, CanSend, CanReceive
  <2> QED BY <2>6, <2>9, <2>10, <2>11, <2>12, <2>13 DEF MuxInv
<1> QED BY <1>1, <1>2

\* The caller of queue_frame rolls back what it has done.
LEMMA QueueFailedPreserves ==
    ASSUME MuxInv, NEW t \in Tasks, QueueFailed(t), SharedStep,
           loc[t].op \in {"open", "accept", "send"} => loc[t].ob \in Objects
    PROVE  MuxInv'
<1>1. CASE loc[t].op \in {"open", "accept"}
  BY <1>1, GoToPreserves DEF QueueFailed, PCs
<1>2. CASE loc[t].op = "send"
  BY <1>2, GoToPreserves DEF QueueFailed, PCs
<1>3. CASE loc[t].op \notin {"open", "accept", "send"}
  BY <1>3, ReturnPreserves DEF QueueFailed
<1> QED BY <1>1, <1>2, <1>3

\* The methods after registration, where they change no stream.
LEMMA PlainSteps ==
    ASSUME MuxInv, NEW t \in Tasks,
           \/ CountUp(t) \/ CountDown(t) \/ QueueCheck(t) \/ StreamStatus(t) \/ FrameLock(t)
           \/ Close(t) \/ CloseClearQueue(t) \/ CloseLockMap(t) \/ Lookup(t)
    PROVE  MuxInv' /\ \A o \in Objects : Forward(o)
<1>1. UNCHANGED <<next_stream_id, opens, streams, obj>> /\ closed' \in BOOLEAN
  BY DEF CountUp, CountDown, QueueCheck, StreamStatus, FrameLock, Close, CloseClearQueue,
         CloseLockMap, Lookup, connVars, mapVars, MuxInv, MuxTypeOK
<1>2. SharedStep
  BY <1>1, NoStreamTouched DEF MuxInv, MuxTypeOK
<1>3. \A o \in Objects : Forward(o)
  BY <1>1 DEF Forward
<1>4. ASSUME Return(t) PROVE MuxInv'
  BY <1>2, <1>4, ReturnPreserves
<1>5. CASE CountUp(t)
  <2>1. GoTo(t, "frame") /\ "frame" \in PCs /\ loc[t].ob \in Objects
    BY <1>5 DEF CountUp, PCs, MuxInv, HasObject
  <2> QED BY <1>2, <1>3, <2>1, GoToPreserves
<1>6. CASE QueueCheck(t)
  <2>1. CASE closed
    <3>1. QueueFailed(t) /\ (loc[t].op \in {"open", "accept", "send"} => loc[t].ob \in Objects)
      BY <1>6, <2>1 DEF QueueCheck, MuxInv, HasObject
    <3> QED BY <1>2, <1>3, <3>1, QueueFailedPreserves
  <2>2. CASE ~closed
    <3>1. GoTo(t, "push") /\ "push" \in PCs /\ (loc[t].op \in {"open", "accept", "send"} => loc[t].ob \in Objects)
      BY <1>6, <2>2 DEF QueueCheck, PCs, MuxInv, HasObject
    <3> QED BY <1>2, <1>3, <3>1, GoToPreserves
  <2> QED BY <2>1, <2>2
<1>7. CASE FrameLock(t)
  <2>1. GoTo(t, "locked") /\ "locked" \in PCs /\ loc[t].ob \in Objects
    BY <1>7 DEF FrameLock, PCs, MuxInv, HasObject
  <2> QED BY <1>2, <1>3, <2>1, GoToPreserves
<1>8. CASE Close(t)
  <2> DEFINE v == Local("close", 0, 0, 0)
  <2>1. "close" \in OpNames /\ 0 \in Ids /\ 0 \in 0 .. MaxOpens
    BY ConstantsOK DEF OpNames
  <2>2. v \in Locals
    BY <2>1, LocalType
  <2>3. v.ob = 0 /\ v.rest = {} /\ v.op = "close"
    BY DEF Local
  <2>4. pc' = [pc EXCEPT ![t] = "clear"] /\ loc' = [loc EXCEPT ![t] = v] /\ "clear" \in PCs
    BY <1>8 DEF Close, Enter, PCs
  <2> HIDE DEF v
  <2> QED BY <1>2, <1>3, <2>2, <2>3, <2>4, SharedObjects, MovePreserves
<1>9. CASE CloseClearQueue(t)
  <2>1. GoTo(t, "lockmap") /\ "lockmap" \in PCs
    BY <1>9 DEF CloseClearQueue, PCs
  <2> QED BY <1>2, <1>3, <2>1, GoToPreserves
<1>10. CASE CloseLockMap(t)
  <2> DEFINE v == [loc[t] EXCEPT !.rest = Registered]
  <2>1. Registered \subseteq Objects /\ \A o \in Registered : Shared(o)
    BY SharedObjects, ConstantsOK DEF Registered, MuxInv, MuxTypeOK
  <2>2. v \in Locals /\ v.ob = loc[t].ob /\ v.rest = Registered /\ v.op = loc[t].op
    BY <2>1 DEF Locals, MuxInv, MuxTypeOK
  <2>3. pc' = [pc EXCEPT ![t] = "resetting"] /\ loc' = [loc EXCEPT ![t] = v] /\ "resetting" \in PCs
    BY <1>10 DEF CloseLockMap, Enter, PCs
  <2> HIDE DEF v
  <2> QED BY <1>2, <1>3, <2>1, <2>2, <2>3, SharedObjects, MovePreserves
<1>11. CASE Lookup(t)
  <2> DEFINE o == streams[loc[t].id]
  <2>1. loc[t] \in Locals /\ loc[t].id \in Ids /\ o \in 0 .. MaxOpens /\ Shared(o)
    BY SharedObjects DEF MuxInv, MuxTypeOK, Locals
  <2>2. CASE o # 0
    <3> DEFINE v == [loc[t] EXCEPT !.ob = o]
    <3>1. v \in Locals /\ v.ob = o /\ v.rest = loc[t].rest
      BY <2>1 DEF Locals
    <3>2. pc' = [pc EXCEPT ![t] = "apply"] /\ loc' = [loc EXCEPT ![t] = v] /\ "apply" \in PCs
      BY <1>11, <2>2 DEF Lookup, Enter, PCs
    <3>3. o \in Objects
      BY <2>1, <2>2, ConstantsOK
    <3> HIDE DEF v
    <3> QED BY <1>2, <1>3, <2>1, <3>1, <3>2, <3>3, SharedObjects, MovePreserves
  <2>3. CASE o = 0 /\ loc[t].op \in InOps
    <3> DEFINE v == Local("unknown", loc[t].id, 0, 0)
    <3>1. "unknown" \in OpNames /\ 0 \in 0 .. MaxOpens
      BY ConstantsOK DEF OpNames
    <3>2. v \in Locals
      BY <2>1, <3>1, LocalType
    <3>3. v.ob = 0 /\ v.rest = {} /\ v.op = "unknown"
      BY DEF Local
    <3>4. pc' = [pc EXCEPT ![t] = "frame"] /\ loc' = [loc EXCEPT ![t] = v] /\ "frame" \in PCs
      BY <1>11, <2>3 DEF Lookup, Enter, PCs
    <3> HIDE DEF v
    <3> QED BY <1>2, <1>3, <3>2, <3>3, <3>4, SharedObjects, MovePreserves
  <2>4. CASE o = 0 /\ loc[t].op \notin InOps
    BY <1>3, <1>4, <1>11, <2>4 DEF Lookup
  <2> QED BY <2>2, <2>3, <2>4
<1>12. CASE CountDown(t) \/ StreamStatus(t)
  BY <1>3, <1>4, <1>12 DEF CountDown, StreamStatus
<1> QED BY <1>5, <1>6, <1>7, <1>8, <1>9, <1>10, <1>11, <1>12

\* Calls that start on a stream, and frames that come in.
LEMMA CallSteps ==
    ASSUME MuxInv, NEW t \in Tasks,
           \/ \E op \in StreamOps, i \in Ids, n \in {0} \cup PayloadLens : CallOnStream(t, op, i, n)
           \/ \E h \in Inbound : ProcessFrame(t, h)
    PROVE  MuxInv' /\ \A o \in Objects : Forward(o)
<1>1. ASSUME UNCHANGED <<connVars, mapVars, opens>>
      PROVE  SharedStep /\ \A o \in Objects : Forward(o)
  <2>1. SharedStep
    BY <1>1, NoStreamTouched DEF connVars, mapVars, MuxInv, MuxTypeOK
  <2> QED BY <1>1, <2>1 DEF Forward, mapVars
<1>2. ASSUME NEW op \in OpNames, NEW i \in Ids, NEW n \in Nat,
             Enter(t, "lookup", Local(op, i, 0, n)), UNCHANGED <<connVars, mapVars, opens>>
      PROVE  MuxInv' /\ \A o \in Objects : Forward(o)
  <2> DEFINE v == Local(op, i, 0, n)
  <2>1. 0 \in 0 .. MaxOpens
    BY ConstantsOK
  <2>2. v \in Locals
    BY <2>1, LocalType
  <2>3. v.ob = 0 /\ v.rest = {}
    BY DEF Local
  <2>4. pc' = [pc EXCEPT ![t] = "lookup"] /\ loc' = [loc EXCEPT ![t] = v] /\ "lookup" \in PCs
    BY <1>2 DEF Enter, PCs
  <2> HIDE DEF v
  <2> QED BY <1>1, <1>2, <2>2, <2>3, <2>4, SharedObjects, MovePreserves
<1>3. ASSUME NEW op \in StreamOps, NEW i \in Ids, NEW n \in {0} \cup PayloadLens,
             CallOnStream(t, op, i, n)
      PROVE  MuxInv' /\ \A o \in Objects : Forward(o)
  <2>1. op \in OpNames /\ n \in Nat /\ UNCHANGED <<connVars, mapVars, opens>>
    BY <1>3, PayloadAssumption DEF OpNames, CallOnStream
  <2>2. CASE Return(t)
    BY <1>1, <2>1, <2>2, ReturnPreserves
  <2>3. CASE Enter(t, "lookup", Local(op, i, 0, n))
    BY <1>2, <2>1, <2>3
  <2> QED BY <1>3, <2>2, <2>3 DEF CallOnStream
<1>4. ASSUME NEW h \in Inbound, ProcessFrame(t, h)
      PROVE  MuxInv' /\ \A o \in Objects : Forward(o)
  <2>1. h.id \in Ids /\ h.len \in Nat /\ FrameOp(h) \in OpNames
    BY FrameTypes DEF OpNames
  <2>2. CASE Return(t) /\ UNCHANGED <<connVars, mapVars, opens>>
    BY <1>1, <2>2, ReturnPreserves
  <2>3. CASE AcceptStream(t, h.id)
    BY <2>1, <2>3, OpenSteps
  <2>4. CASE Enter(t, "lookup", Local(FrameOp(h), h.id, 0, h.len)) /\ UNCHANGED <<connVars, mapVars, opens>>
    BY <1>2, <2>1, <2>4
  <2> QED BY <1>4, <2>2, <2>3, <2>4 DEF ProcessFrame
<1> QED BY <1>3, <1>4

\* Buffering an entry and taking the last one back.
LEMMA BufferEnds ==
    ASSUME NEW q \in Seq(Tasks), NEW t \in Tasks
    PROVE  /\ Len(q) \in Nat
           /\ Append(q, t) \in Seq(Tasks) /\ Len(Append(q, t)) = Len(q) + 1
           /\ PopBack(q) \in Seq(Tasks)
           /\ Len(PopBack(q)) = IF Len(q) = 0 THEN 0 ELSE Len(q) - 1
<1>1. CASE q = <<>>
  BY <1>1 DEF PopBack
<1>2. CASE q # <<>>
  <2>1. Len(q) \in Nat /\ Len(q) > 0
    BY <1>2
  <2>2. PopBack(q) = SubSeq(q, 1, Len(q) - 1)
    BY <1>2 DEF PopBack
  <2> QED BY <2>1, <2>2
<1> QED BY <1>1, <1>2

\* What the methods of StreamState leave behind.
LEMMA StreamUpdates ==
    ASSUME NEW s \in StreamStates
    PROVE  /\ ResetStream(s) \in StreamStates /\ ResetStream(s).status = "Reset"
           /\ ResetStream(s).sendbuf = <<>>
           /\ \A n \in Seq(Tasks) : /\ [s EXCEPT !.sendbuf = n] \in StreamStates
                                    /\ [s EXCEPT !.data = n] \in StreamStates
           /\ \A st \in Statuses : [s EXCEPT !.status = st] \in StreamStates
           /\ \A r \in Seq(Nat), b \in Int : [s EXCEPT !.recv = r, !.bytes = b] \in StreamStates
           /\ CloseLocalStatus(s.status) \in Statuses /\ CloseRemoteStatus(s.status) \in Statuses
<1>1. /\ ResetStream(s) \in StreamStates /\ ResetStream(s).status = "Reset"
      /\ ResetStream(s).sendbuf = <<>>
  <2>1. <<>> \in Seq(Tasks) /\ "Reset" \in Statuses
    BY DEF Statuses
  <2> QED BY <2>1 DEF StreamStates, ResetStream
<1>2. \A n \in Seq(Tasks) : /\ [s EXCEPT !.sendbuf = n] \in StreamStates
                            /\ [s EXCEPT !.data = n] \in StreamStates
  BY DEF StreamStates
<1>3. /\ \A st \in Statuses : [s EXCEPT !.status = st] \in StreamStates
      /\ \A r \in Seq(Nat), b \in Int : [s EXCEPT !.recv = r, !.bytes = b] \in StreamStates
  BY DEF StreamStates
<1>4. CloseLocalStatus(s.status) \in Statuses /\ CloseRemoteStatus(s.status) \in Statuses
  BY DEF StreamStates, Statuses, CloseLocalStatus, CloseRemoteStatus
<1> QED BY <1>1, <1>2, <1>3, <1>4

\* close_local and close_remote give up a direction and give back none.
LEMMA StatusUpdates ==
    ASSUME NEW st \in Statuses
    PROVE  /\ CanSend(CloseLocalStatus(st)) => CanSend(st)
           /\ CanReceive(CloseLocalStatus(st)) => CanReceive(st)
           /\ CanSend(CloseRemoteStatus(st)) => CanSend(st)
           /\ CanReceive(CloseRemoteStatus(st)) => CanReceive(st)
           /\ (CloseLocalStatus(st) = "Reset") <=> (st = "Reset")
           /\ (CloseRemoteStatus(st) = "Reset") <=> (st = "Reset")
           /\ ~CanSend("Reset") /\ ~CanReceive("Reset")
BY DEF Statuses, CloseLocalStatus, CloseRemoteStatus, CanSend, CanReceive

\* reset() on a stream that is not being started.
LEMMA StreamReset ==
    ASSUME MuxInv, UNCHANGED <<closed, next_stream_id, opens, streams>>,
           NEW o \in Objects, Shared(o), obj' = [obj EXCEPT ![o] = ResetStream(@)]
    PROVE  SharedStep
<1>1. obj[o] \in StreamStates
  BY DEF MuxInv, MuxTypeOK
<1> DEFINE s == ResetStream(obj[o])
<1>2. s \in StreamStates /\ s.status = "Reset" /\ obj' = [obj EXCEPT ![o] = s]
  BY <1>1, StreamUpdates
<1>3. ~CanSend("Reset") /\ ~CanReceive("Reset")
  BY DEF CanSend, CanReceive
<1> HIDE DEF s
<1> QED BY <1>2, <1>3, OneStreamTouched

\* A step on registered streams moves their statuses forward.
LEMMA SharedStepForward == ASSUME SharedStep PROVE \A o \in Objects : Forward(o)
BY DEF SharedStep, Forward

\* The methods that change a stream they have looked up.
LEMMA StreamSteps ==
    ASSUME MuxInv, NEW t \in Tasks,
           \/ SendApply(t) \/ SendPopBack(t) \/ RecvApply(t) \/ CloseLocal(t) \/ ResetLocal(t)
           \/ RemoteReset(t) \/ RemoteFin(t) \/ RemoteData(t) \/ QueuePush(t)
    PROVE  MuxInv' /\ SharedStep
<1> DEFINE o == loc[t].ob
           s == obj[o]
<1>1. UNCHANGED <<closed, next_stream_id, opens, streams>>
  BY DEF SendApply, SendPopBack, RecvApply, CloseLocal, ResetLocal, RemoteReset, RemoteFin,
         RemoteData, QueuePush, connVars
<1>2. pc[t] \in {"apply", "locked", "popback", "push"} /\ Shared(o)
  <2>1. pc[t] \in {"apply", "locked", "popback", "push"}
    BY DEF SendApply, SendPopBack, RecvApply, CloseLocal, ResetLocal, RemoteReset, RemoteFin,
           RemoteData, QueuePush
  <2> QED BY <2>1, SharedObjects DEF Starting
<1>3. ASSUME UNCHANGED obj PROVE SharedStep
  BY <1>1, <1>3, NoStreamTouched DEF MuxInv, MuxTypeOK
<1>4. ASSUME Return(t), SharedStep PROVE MuxInv' /\ SharedStep
  BY <1>4, ReturnPreserves
<1>5. ASSUME o \in Objects
      PROVE  /\ s \in StreamStates /\ s.status \in Statuses /\ s.sendbuf \in Seq(Tasks) /\ s.data \in Seq(Tasks)
             /\ s.recv \in Seq(Nat) /\ s.bytes \in Int
  BY <1>5 DEF MuxInv, MuxTypeOK, StreamStates
<1>6. ASSUME o \in Objects, NEW v \in StreamStates, obj' = [obj EXCEPT ![o] = v],
             v.status = s.status
      PROVE  SharedStep
  BY <1>1, <1>2, <1>6, OneStreamTouched
<1>7. ASSUME o \in Objects, obj' = [obj EXCEPT ![o] = ResetStream(@)]
      PROVE  SharedStep
  BY <1>1, <1>2, <1>7, StreamReset
<1>8. CASE SendApply(t)
  <2>1. o \in Objects
    BY <1>8 DEF SendApply, MuxInv, HasObject
  <2>2. CASE GoTo(t, "frame") /\ obj' = [obj EXCEPT ![o].sendbuf = Append(@, t)]
    <3> DEFINE q == Append(s.sendbuf, t)
    <3>0. q \in Seq(Tasks)
      BY <1>5, <2>1, BufferEnds
    <3> HIDE DEF q
    <3>1. [s EXCEPT !.sendbuf = q] \in StreamStates
      BY <1>5, <2>1, <3>0, StreamUpdates
    <3>2. [s EXCEPT !.sendbuf = q].status = s.status
      BY <1>5, <2>1 DEF StreamStates
    <3>4. obj' = [obj EXCEPT ![o] = [s EXCEPT !.sendbuf = q]]
      BY <2>2 DEF q
    <3>3. SharedStep
      BY <1>6, <2>1, <3>1, <3>2, <3>4
    <3> QED BY <2>1, <2>2, <3>3, GoToPreserves DEF PCs
  <2>3. CASE Return(t) /\ UNCHANGED obj
    BY <1>3, <1>4, <2>3
  <2> QED BY <1>8, <2>2, <2>3 DEF SendApply
<1>9. CASE SendPopBack(t)
  <2>1. o \in Objects /\ Return(t)
        /\ obj' = [obj EXCEPT ![o].sendbuf = PopBack(@)]
    BY <1>9 DEF SendPopBack, MuxInv, HasObject
  <2> DEFINE n == PopBack(s.sendbuf)
  <2>2. n \in Seq(Tasks)
    BY <1>5, <2>1, BufferEnds
  <2>3. [s EXCEPT !.sendbuf = n] \in StreamStates /\ [s EXCEPT !.sendbuf = n].status = s.status
    BY <1>5, <2>1, <2>2, StreamUpdates DEF StreamStates
  <2>4. obj' = [obj EXCEPT ![o] = [s EXCEPT !.sendbuf = n]]
    BY <2>1
  <2> QED BY <1>4, <1>6, <2>1, <2>3, <2>4
<1>10. CASE RecvApply(t)
  <2>1. o \in Objects
    BY <1>10 DEF RecvApply, MuxInv, HasObject
  <2>2. CASE UNCHANGED obj /\ Return(t)
    BY <1>3, <1>4, <2>2
  <2>3. CASE /\ s.recv # <<>> /\ Return(t)
             /\ obj' = [obj EXCEPT ![o].recv = Tail(s.recv), ![o].bytes = s.bytes - Head(s.recv)]
    <3>1. Tail(s.recv) \in Seq(Nat) /\ s.bytes - Head(s.recv) \in Int
      BY <1>5, <2>1, <2>3
    <3> DEFINE v == [s EXCEPT !.recv = Tail(s.recv), !.bytes = s.bytes - Head(s.recv)]
    <3>2. v \in StreamStates /\ v.status = s.status
      BY <1>5, <2>1, <3>1, StreamUpdates DEF StreamStates
    <3>3. obj' = [obj EXCEPT ![o] = v]
      BY <2>1, <2>3 DEF MuxInv, MuxTypeOK
    <3> QED BY <1>4, <1>6, <2>1, <2>3, <3>2, <3>3
  <2> QED BY <1>10, <2>2, <2>3 DEF RecvApply
<1>11. CASE CloseLocal(t)
  <2>1. o \in Objects /\ GoTo(t, "frame") /\ obj' = [obj EXCEPT ![o].status = CloseLocalStatus(@)]
    BY <1>11 DEF CloseLocal, MuxInv, HasObject
  <2> DEFINE v == [s EXCEPT !.status = CloseLocalStatus(s.status)]
  <2>2. v \in StreamStates /\ v.status = CloseLocalStatus(s.status) /\ obj' = [obj EXCEPT ![o] = v]
    BY <1>5, <2>1, StreamUpdates DEF StreamStates
  <2>3. /\ CanSend(v.status) => CanSend(s.status)
        /\ CanReceive(v.status) => CanReceive(s.status)
        /\ s.status = "Reset" => v.status = "Reset"
    BY <1>5, <2>1, <2>2, StatusUpdates
  <2> HIDE DEF v
  <2>4. SharedStep
    BY <1>1, <1>2, <2>1, <2>2, <2>3, OneStreamTouched
  <2> QED BY <2>1, <2>4, GoToPreserves DEF PCs
<1>12. CASE ResetLocal(t)
  <2>1. o \in Objects /\ GoTo(t, "frame") /\ obj' = [obj EXCEPT ![o] = ResetStream(@)]
    BY <1>12 DEF ResetLocal, MuxInv, HasObject
  <2> QED BY <1>7, <2>1, GoToPreserves DEF PCs
<1>13. CASE RemoteReset(t)
  BY <1>4, <1>7, <1>13 DEF RemoteReset, MuxInv, HasObject
<1>14. CASE RemoteFin(t)
  <2> DEFINE st == CloseRemoteStatus(s.status)
             v  == [s EXCEPT !.status = st]
  <2>1. o \in Objects /\ obj' = [obj EXCEPT ![o].status = st] /\ (GoTo(t, "remove") \/ Return(t))
    BY <1>14 DEF RemoteFin, MuxInv, HasObject
  <2>2. v \in StreamStates /\ v.status = st /\ obj' = [obj EXCEPT ![o] = v]
    BY <1>5, <2>1, StreamUpdates DEF StreamStates
  <2>3. /\ CanSend(v.status) => CanSend(s.status)
        /\ CanReceive(v.status) => CanReceive(s.status)
        /\ s.status = "Reset" => v.status = "Reset"
    BY <1>5, <2>1, <2>2, StatusUpdates
  <2> HIDE DEF v
  <2>4. SharedStep
    BY <1>1, <1>2, <2>1, <2>2, <2>3, OneStreamTouched
  <2> QED BY <1>4, <2>1, <2>4, GoToPreserves DEF PCs
<1>15. CASE RemoteData(t)
  <2>1. o \in Objects /\ loc[t].len \in Nat /\ Return(t)
    BY <1>15 DEF RemoteData, MuxInv, HasObject, MuxTypeOK, Locals
  <2>2. CASE UNCHANGED obj
    BY <1>3, <1>4, <2>1, <2>2
  <2>3. CASE obj' = [obj EXCEPT ![o] = ResetStream(@)]
    BY <1>4, <1>7, <2>1, <2>3
  <2>4. CASE obj' = [obj EXCEPT ![o].recv = Append(s.recv, loc[t].len), ![o].bytes = s.bytes + loc[t].len]
    <3>1. Append(s.recv, loc[t].len) \in Seq(Nat) /\ s.bytes + loc[t].len \in Int
      BY <1>5, <2>1
    <3> DEFINE v == [s EXCEPT !.recv = Append(s.recv, loc[t].len), !.bytes = s.bytes + loc[t].len]
    <3>2. v \in StreamStates /\ v.status = s.status
      BY <1>5, <2>1, <3>1, StreamUpdates DEF StreamStates
    <3>3. obj' = [obj EXCEPT ![o] = v]
      BY <2>1, <2>4 DEF MuxInv, MuxTypeOK
    <3> QED BY <1>4, <1>6, <2>1, <3>2, <3>3
  <2> QED BY <1>15, <2>2, <2>3, <2>4 DEF RemoteData
<1>16. CASE QueuePush(t)
  <2>1. CASE QueueFailed(t) /\ UNCHANGED obj
    <3>1. loc[t].op \in {"open", "accept", "send"} => o \in Objects
      BY <1>16 DEF QueuePush, MuxInv, HasObject
    <3> QED BY <1>3, <2>1, <3>1, QueueFailedPreserves
  <2>2. CASE Return(t) /\ loc[t].op = "send" /\ obj' = [obj EXCEPT ![o].data = Append(@, t)]
    <3>1. o \in Objects
      BY <1>16, <2>2 DEF QueuePush, MuxInv, HasObject
    <3> DEFINE q == Append(s.data, t)
    <3>2. q \in Seq(Tasks)
      BY <1>5, <3>1, BufferEnds
    <3>3. obj' = [obj EXCEPT ![o] = [s EXCEPT !.data = q]]
      BY <2>2
    <3> HIDE DEF q
    <3>4. [s EXCEPT !.data = q] \in StreamStates /\ [s EXCEPT !.data = q].status = s.status
      BY <1>5, <3>1, <3>2, StreamUpdates DEF StreamStates
    <3> QED BY <1>4, <1>6, <2>2, <3>1, <3>3, <3>4
  <2>3. CASE Return(t) /\ UNCHANGED obj
    BY <1>3, <1>4, <2>3
  <2> QED BY <1>16, <2>1, <2>2, <2>3 DEF QueuePush
<1> QED BY <1>8, <1>9, <1>10, <1>11, <1>12, <1>13, <1>14, <1>15, <1>16

\* The methods that take entries out of the map, and close().
LEMMA MapSteps ==
    ASSUME MuxInv, NEW t \in Tasks,
           Unregister(t) \/ RemoveStream(t) \/ CloseReset(t) \/ CloseFinish(t)
    PROVE  MuxInv' /\ SharedStep
<1>1. CASE Unregister(t) \/ RemoveStream(t) \/ CloseFinish(t)
  <2>1. UNCHANGED <<closed, next_stream_id, opens, obj>>
    BY <1>1 DEF Unregister, RemoveStream, CloseFinish, connVars
  <2>2. /\ streams' \in [Ids -> 0 .. MaxOpens]
        /\ \A i \in Ids : streams'[i] = streams[i] \/ streams'[i] = 0
    <3>1. streams \in [Ids -> 0 .. MaxOpens] /\ 0 \in 0 .. MaxOpens
      BY ConstantsOK DEF MuxInv, MuxTypeOK
    <3>2. \/ streams' = [streams EXCEPT ![loc[t].id] = 0]
          \/ streams' = [i \in Ids |-> 0]
      BY <1>1 DEF Unregister, RemoveStream, CloseFinish
    <3> QED BY <3>1, <3>2
  <2>3. SharedStep
    BY <2>1, <2>2, MapShrinks
  <2>4. GoTo(t, "uncount") \/ Return(t)
    BY <1>1 DEF Unregister, RemoveStream, CloseFinish
  <2> QED BY <2>3, <2>4, GoToPreserves, ReturnPreserves DEF PCs
<1>2. CASE CloseReset(t)
  <2>1. PICK o \in loc[t].rest : /\ obj' = [obj EXCEPT ![o] = ResetStream(@)]
                                 /\ loc' = [loc EXCEPT ![t].rest = @ \ {o}]
    BY <1>2 DEF CloseReset
  <2>2. /\ o \in Objects /\ Shared(o) /\ obj[o] \in StreamStates /\ obj[o].status \in Statuses
        /\ loc[t] \in Locals /\ pc[t] \in PCs
    BY SharedObjects DEF MuxInv, MuxTypeOK, Locals, StreamStates
  <2>3. SharedStep
    BY <1>2, <2>1, <2>2, StreamReset DEF CloseReset, connVars
  <2> DEFINE v == [loc[t] EXCEPT !.rest = @ \ {o}]
  <2>4. v \in Locals /\ v.rest \subseteq loc[t].rest /\ v.ob = loc[t].ob /\ v.op = loc[t].op
    BY <2>2 DEF Locals
  <2>5. loc' = [loc EXCEPT ![t] = v] /\ pc' = [pc EXCEPT ![t] = "resetting"] /\ "resetting" \in PCs
    BY <1>2, <2>1, <2>2 DEF CloseReset, MuxInv, MuxTypeOK, PCs
  <2> HIDE DEF v
  <2> QED BY <2>3, <2>4, <2>5, SharedObjects, MovePreserves
<1> QED BY <1>1, <1>2

\* Every step keeps the invariant and moves statuses forward.
LEMMA NextInv ==
    ASSUME MuxInv, [Next]_vars
    PROVE  MuxInv' /\ \A o \in Objects : Forward(o)
<1>1. CASE TakeFrame \/ UNCHANGED vars
  <2>1. UNCHANGED <<closed, next_stream_id, opens, streams, obj, pc, loc>>
    BY <1>1 DEF TakeFrame, vars, mapVars
  <2> QED BY <2>1 DEF MuxInv, MuxTypeOK, HandedOut, StartingOwns, Starting, Untouched, ControlFree,
                      HasObject, Forward
<1>2. ASSUME NEW t \in Tasks, Call(t)
      PROVE  MuxInv' /\ \A o \in Objects : Forward(o)
  BY <1>2, OpenSteps, PlainSteps, CallSteps DEF Call
<1>3. ASSUME NEW t \in Tasks, Step(t)
      PROVE  MuxInv' /\ \A o \in Objects : Forward(o)
  BY <1>3, OpenSteps, RegisterStep, PlainSteps, StreamSteps, MapSteps, SharedStepForward DEF Step
<1> QED BY <1>1, <1>2, <1>3 DEF Next

\* The invariant holds in every state of the connection.
LEMMA MuxInvariant == Spec => []MuxInv
BY InitInv, NextInv, PTL DEF Spec

\* For any number of tasks, streams and ids, in whatever order close_stream,
\* reset_stream, remote FINs and resets, overflows and close() reach a stream:
\* it never regains a direction it gave up, and stays reset once reset.
THEOREM StatusesMoveForward == Spec => StatusMonotone
<1>1. MuxInv /\ [Next]_vars =>
        [\A o \in Objects :
           LET old == obj[o].status
               new == obj'[o].status
           IN  /\ CanSend(new) => CanSend(old)
               /\ CanReceive(new) => CanReceive(old)
               /\ old = "Reset" => new = "Reset"]_vars
  BY NextInv DEF Forward
<1> QED BY <1>1, MuxInvariant, PTL DEF Spec, StatusMonotone

----------------------------------------------------------------------------
(* The send buffers *)

\* The task has buffered data and its frame is neither queued nor refused.
InSend(t) == loc[t].op = "send" /\ pc[t] \in {"frame", "push", "popback"}

\* The task stays outside of send, or goes on in it with the same stream.
SendUnmoved(t) ==
    /\ \A s \in Tasks : s # t => pc'[s] = pc[s] /\ loc'[s] = loc[s]
    /\ InSend(t)' <=> InSend(t)
    /\ InSend(t) => loc'[t].ob = loc[t].ob

\* The account of a stream does not change, or the stream is reset.
AccountKept(o) ==
    \/ obj'[o].status = "Reset" /\ obj'[o].sendbuf = <<>>
    \/ /\ (obj'[o].status = "Reset") <=> (obj[o].status = "Reset")
       /\ obj'[o].sendbuf = obj[o].sendbuf /\ obj'[o].data = obj[o].data

\* A step outside of send that keeps every account keeps SendBufferExact.
LEMMA AccountsKept ==
    ASSUME SendBufferExact, NEW t \in Tasks, SendUnmoved(t),
           \A o \in Objects : AccountKept(o)
    PROVE  SendBufferExact'
<1>1. \A o \in Objects : Sending(o)' = Sending(o)
  BY DEF Sending, SendUnmoved, InSend
<1> QED BY <1>1 DEF SendBufferExact, AccountKept

\* The send of one task begins or ends.
LEMMA SendingChanges ==
    ASSUME NEW t \in Tasks, NEW o \in Objects,
           \A s \in Tasks : s # t => pc'[s] = pc[s] /\ loc'[s] = loc[s]
    PROVE  /\ IsFiniteSet(Sending(o)) /\ Cardinality(Sending(o)) \in Nat
           /\ t \notin Sending(o) /\ InSend(t)' /\ loc'[t].ob = o
                 => Cardinality(Sending(o)') = Cardinality(Sending(o)) + 1
           /\ t \in Sending(o) /\ ~InSend(t)'
                 => Cardinality(Sending(o)') = Cardinality(Sending(o)) - 1
           /\ (t \in Sending(o) <=> InSend(t)' /\ loc'[t].ob = o)
                 => Sending(o)' = Sending(o)
<1>1. IsFiniteSet(Sending(o)) /\ Cardinality(Sending(o)) \in Nat
  <2>1. Sending(o) \subseteq Tasks
    BY DEF Sending
  <2> QED BY <2>1, TasksAssumption, FS_Subset, FS_CardinalityType
<1>2. ASSUME t \notin Sending(o), InSend(t)', loc'[t].ob = o
      PROVE  Cardinality(Sending(o)') = Cardinality(Sending(o)) + 1
  <2>1. Sending(o)' = Sending(o) \cup {t}
    BY <1>2 DEF Sending, InSend
  <2> QED BY <1>1, <1>2, <2>1, FS_AddElement
<1>3. ASSUME t \in Sending(o), ~InSend(t)'
      PROVE  Cardinality(Sending(o)') = Cardinality(Sending(o)) - 1
  <2>1. Sending(o)' = Sending(o) \ {t}
    BY <1>3 DEF Sending, InSend
  <2> QED BY <1>1, <1>3, <2>1, FS_RemoveElement
<1>4. ASSUME t \in Sending(o) <=> InSend(t)' /\ loc'[t].ob = o
      PROVE  Sending(o)' = Sending(o)
  BY <1>4 DEF Sending, InSend
<1> QED BY <1>1, <1>2, <1>3, <1>4

\* The methods outside of send that change no stream.
LEMMA OtherStepsKeep ==
    ASSUME MuxInv, SendBufferExact, NEW t \in Tasks,
           \/ Call(t)
           \/ AcceptCheck(t) \/ CheckLimit(t) \/ AllocId(t) \/ CountUp(t) \/ Unregister(t)
           \/ CountDown(t) \/ QueueCheck(t) \/ Lookup(t) \/ StreamStatus(t) \/ FrameLock(t)
           \/ RemoveStream(t) \/ CloseClearQueue(t) \/ CloseLockMap(t) \/ CloseFinish(t)
    PROVE  SendBufferExact'
<1>1. pc \in [Tasks -> PCs] /\ loc \in [Tasks -> Locals]
  BY DEF MuxInv, MuxTypeOK
<1>2. UNCHANGED obj
  BY DEF Call, OpenStream, AcceptStream, CallOnStream, ProcessFrame, Close, AcceptCheck, CheckLimit,
         AllocId, CountUp, Unregister, CountDown, QueueCheck, Lookup, StreamStatus, FrameLock,
         RemoveStream, CloseClearQueue, CloseLockMap, CloseFinish, mapVars
<1>3. \A o \in Objects : AccountKept(o)
  BY <1>2 DEF AccountKept
<1>4. ASSUME NEW l, NEW v, pc' = [pc EXCEPT ![t] = l], loc' = [loc EXCEPT ![t] = v],
             ~InSend(t), l \notin {"frame", "push", "popback"} \/ v.op # "send"
      PROVE  SendUnmoved(t)
  BY <1>1, <1>4 DEF SendUnmoved, InSend
<1>5. ASSUME Return(t), ~InSend(t) PROVE SendUnmoved(t)
  BY <1>4, <1>5 DEF Return, Enter
<1>6. ASSUME NEW l, GoTo(t, l), ~InSend(t), l \notin {"frame", "push", "popback"} \/ loc[t].op # "send"
      PROVE  SendUnmoved(t)
  BY <1>1, <1>6 DEF SendUnmoved, InSend, GoTo
<1>7. CASE Call(t)
  <2>1. pc[t] = "idle"
    BY <1>7 DEF Call, OpenStream, CallOnStream, ProcessFrame, Close
  <2>2. ~InSend(t)
    BY <2>1 DEF InSend
  <2>3. \/ Return(t)
        \/ \E v : Enter(t, "limit", v) \/ Enter(t, "accept", v) \/ Enter(t, "lookup", v) \/ Enter(t, "clear", v)
    BY <1>7 DEF Call, OpenStream, AcceptStream, CallOnStream, ProcessFrame, Close
  <2>4. SendUnmoved(t)
    BY <1>4, <1>5, <2>2, <2>3 DEF Enter
  <2> QED BY <1>3, <2>4, AccountsKept
<1>8. CASE QueueCheck(t)
  <2>1. \/ loc[t].op # "send" /\ Return(t)
        \/ loc[t].op # "send" /\ GoTo(t, "unregister")
        \/ GoTo(t, "push")
        \/ loc[t].op = "send" /\ GoTo(t, "popback")
    BY <1>8 DEF QueueCheck, QueueFailed
  <2>2. SendUnmoved(t)
    BY <1>1, <1>8, <2>1 DEF QueueCheck, SendUnmoved, InSend, Return, Enter, GoTo, NoLoc, Local
  <2> QED BY <1>3, <2>2, AccountsKept
<1>9. CASE AcceptCheck(t) \/ CheckLimit(t) \/ AllocId(t)
  <2>1. ~InSend(t)
    BY <1>9 DEF AcceptCheck, CheckLimit, AllocId, InSend
  <2>2. \/ Return(t)
        \/ \E l \in {"limit", "alloc", "register", "realloc"} : GoTo(t, l)
        \/ \E v : Enter(t, "register", v)
    BY <1>9 DEF AcceptCheck, CheckLimit, AllocId
  <2>3. SendUnmoved(t)
    BY <1>4, <1>5, <1>6, <2>1, <2>2 DEF Enter
  <2> QED BY <1>3, <2>3, AccountsKept
<1>10. CASE CountUp(t)
  <2>1. ~InSend(t) /\ GoTo(t, "frame") /\ loc[t].op # "send"
    BY <1>10 DEF CountUp, InSend, MuxInv, HasObject
  <2> QED BY <1>3, <1>6, <2>1, AccountsKept
<1>11. CASE Unregister(t) \/ FrameLock(t) \/ CloseClearQueue(t)
  <2>1. ~InSend(t) /\ \E l \in {"uncount", "locked", "lockmap"} : GoTo(t, l)
    BY <1>11 DEF Unregister, FrameLock, CloseClearQueue, InSend
  <2> QED BY <1>3, <1>6, <2>1, AccountsKept
<1>12. CASE CountDown(t) \/ StreamStatus(t) \/ RemoveStream(t) \/ CloseFinish(t)
  <2>1. ~InSend(t) /\ Return(t)
    BY <1>12 DEF CountDown, StreamStatus, RemoveStream, CloseFinish, InSend
  <2> QED BY <1>3, <1>5, <2>1, AccountsKept
<1>13. CASE Lookup(t) \/ CloseLockMap(t)
  <2>1. ~InSend(t)
    BY <1>13 DEF Lookup, CloseLockMap, InSend
  <2>2. \/ Return(t)
        \/ \E v : Enter(t, "apply", v) \/ Enter(t, "resetting", v)
        \/ Enter(t, "frame", Local("unknown", loc[t].id, 0, 0))
    BY <1>13 DEF Lookup, CloseLockMap
  <2>3. Local("unknown", loc[t].id, 0, 0).op # "send"
    BY DEF Local
  <2>4. SendUnmoved(t)
    BY <1>4, <1>5, <2>1, <2>2, <2>3 DEF Enter
  <2> QED BY <1>3, <2>4, AccountsKept
<1> QED BY <1>7, <1>8, <1>9, <1>10, <1>11, <1>12, <1>13

\* The methods outside of send that change a stream: they reset it, or leave
\* its account alone.
LEMMA StreamStepsKeep ==
    ASSUME MuxInv, SendBufferExact, NEW t \in Tasks,
           \/ Register(t) \/ RecvApply(t) \/ CloseLocal(t) \/ ResetLocal(t)
           \/ RemoteReset(t) \/ RemoteFin(t) \/ RemoteData(t) \/ CloseReset(t)
    PROVE  SendBufferExact'
<1>1. pc \in [Tasks -> PCs] /\ loc \in [Tasks -> Locals] /\ obj \in [Objects -> StreamStates]
  BY DEF MuxInv, MuxTypeOK
<1>2. SendUnmoved(t)
  <2>1. pc[t] \notin {"frame", "push", "popback"}
    BY DEF Register, RecvApply, CloseLocal, ResetLocal, RemoteReset, RemoteFin, RemoteData, CloseReset
  <2>2. CASE Return(t)
    BY <1>1, <2>1, <2>2 DEF SendUnmoved, InSend, Return, Enter, NoLoc, Local
  <2>3. CASE GoTo(t, "count") \/ GoTo(t, "remove")
    BY <1>1, <2>1, <2>3 DEF SendUnmoved, InSend, GoTo
  <2>4. CASE GoTo(t, "frame") /\ loc[t].op # "send"
    BY <1>1, <2>1, <2>4 DEF SendUnmoved, InSend, GoTo
  <2>5. CASE UNCHANGED pc /\ \E o \in loc[t].rest : loc' = [loc EXCEPT ![t].rest = @ \ {o}]
    BY <1>1, <2>1, <2>5 DEF SendUnmoved, InSend, Locals
  <2> QED BY <2>2, <2>3, <2>4, <2>5
          DEF Register, RecvApply, CloseLocal, ResetLocal, RemoteReset, RemoteFin, RemoteData, CloseReset
<1>3. ASSUME NEW o \in Objects, NEW s, obj' = [obj EXCEPT ![o] = s],
             \/ s.status = "Reset" /\ s.sendbuf = <<>>
             \/ /\ (s.status = "Reset") <=> (obj[o].status = "Reset")
                /\ s.sendbuf = obj[o].sendbuf /\ s.data = obj[o].data
      PROVE  \A x \in Objects : AccountKept(x)
  BY <1>1, <1>3 DEF AccountKept
<1>4. ASSUME UNCHANGED obj PROVE \A x \in Objects : AccountKept(x)
  BY <1>4 DEF AccountKept
<1>5. ASSUME NEW o \in Objects, obj' = [obj EXCEPT ![o] = ResetStream(@)]
      PROVE  \A x \in Objects : AccountKept(x)
  BY <1>1, <1>3, <1>5, StreamUpdates
<1>6. pc[t] \in {"apply", "locked"} => loc[t].ob \in Objects /\ obj[loc[t].ob] \in StreamStates
  BY <1>1 DEF MuxInv, HasObject
<1>7. \A x \in Objects : AccountKept(x)
  <2> DEFINE o == loc[t].ob
             s == obj[o]
  <2>1. CASE Register(t)
    <3>1. Starting(t) /\ o \in Objects /\ Untouched(o)
      BY <2>1 DEF Register, Starting, MuxInv, StartingOwns
    <3>2. UNCHANGED obj \/ obj' = [obj EXCEPT ![o] = NewStream(loc[t].id)]
      BY <2>1 DEF Register
    <3> QED BY <1>1, <3>1, <3>2 DEF AccountKept, Untouched, NewStream
  <2>2. CASE RecvApply(t)
    <3>1. \/ UNCHANGED obj
          \/ obj' = [obj EXCEPT ![o].recv = Tail(s.recv), ![o].bytes = s.bytes - Head(s.recv)]
      BY <2>2 DEF RecvApply
    <3>2. o \in Objects
      BY <1>6, <2>2 DEF RecvApply
    <3>3. CASE obj' = [obj EXCEPT ![o].recv = Tail(s.recv), ![o].bytes = s.bytes - Head(s.recv)]
      BY <1>1, <3>2, <3>3 DEF AccountKept, StreamStates
    <3> QED BY <1>4, <3>1, <3>3
  <2>3. CASE CloseLocal(t)
    <3>1. obj' = [obj EXCEPT ![o].status = CloseLocalStatus(@)] /\ o \in Objects
      BY <1>6, <2>3 DEF CloseLocal
    <3>2. (CloseLocalStatus(s.status) = "Reset") <=> (s.status = "Reset")
      BY DEF CloseLocalStatus
    <3> QED BY <1>1, <3>1, <3>2 DEF AccountKept, StreamStates
  <2>4. CASE ResetLocal(t) \/ RemoteReset(t)
    BY <1>5, <1>6, <2>4 DEF ResetLocal, RemoteReset
  <2>5. CASE RemoteFin(t)
    <3>1. obj' = [obj EXCEPT ![o].status = CloseRemoteStatus(s.status)] /\ o \in Objects
      BY <1>6, <2>5 DEF RemoteFin
    <3>2. (CloseRemoteStatus(s.status) = "Reset") <=> (s.status = "Reset")
      BY DEF CloseRemoteStatus
    <3> QED BY <1>1, <3>1, <3>2 DEF AccountKept, StreamStates
  <2>6. CASE RemoteData(t)
    <3>1. \/ UNCHANGED obj
          \/ obj' = [obj EXCEPT ![o] = ResetStream(@)]
          \/ obj' = [obj EXCEPT ![o].recv = Append(s.recv, loc[t].len), ![o].bytes = s.bytes + loc[t].len]
      BY <2>6 DEF RemoteData
    <3>2. o \in Objects
      BY <1>6, <2>6 DEF RemoteData
    <3>3. CASE obj' = [obj EXCEPT ![o].recv = Append(s.recv, loc[t].len), ![o].bytes = s.bytes + loc[t].len]
      BY <1>1, <3>2, <3>3 DEF AccountKept, StreamStates
    <3> QED BY <1>4, <1>5, <3>1, <3>2, <3>3
  <2>7. CASE CloseReset(t)
    <3>1. loc[t].rest \subseteq Objects
      BY <1>1 DEF Locals
    <3> QED BY <1>5, <2>7, <3>1 DEF CloseReset
  <2> QED BY <2>1, <2>2, <2>3, <2>4, <2>5, <2>6, <2>7
<1> QED BY <1>2, <1>7, AccountsKept

\* A send begins, or becomes a queued frame.
LEMMA OneMoveOnly ==
    ASSUME NEW d \in Nat, NEW c \in Nat
    PROVE  (d + c) + 1 = d + (c + 1) /\ d + c = (d + 1) + (c - 1)
OBVIOUS

\* send: data is buffered, then its frame is queued or an entry taken back.
LEMMA SendStepsKeep ==
    ASSUME MuxInv, SendBufferExact, NEW t \in Tasks,
           SendApply(t) \/ QueuePush(t) \/ SendPopBack(t)
    PROVE  SendBufferExact'
<1>0. PICK o : o = loc[t].ob
  OBVIOUS
<1> USE <1>0
<1> DEFINE s == obj[o]
<1>1. pc \in [Tasks -> PCs] /\ loc \in [Tasks -> Locals] /\ obj \in [Objects -> StreamStates]
  BY DEF MuxInv, MuxTypeOK
<1>2. \A x \in Tasks : x # t => pc'[x] = pc[x] /\ loc'[x] = loc[x]
  BY <1>1 DEF SendApply, QueuePush, QueueFailed, SendPopBack, Return, Enter, GoTo
<1>3. ASSUME SendUnmoved(t), UNCHANGED obj PROVE SendBufferExact'
  BY <1>3, AccountsKept DEF AccountKept
<1>4. ASSUME Return(t) PROVE ~InSend(t)'
  BY <1>1, <1>4 DEF Return, Enter, InSend, NoLoc, Local
<1>5. ASSUME o \in Objects
      PROVE  /\ s \in StreamStates /\ s.sendbuf \in Seq(Tasks) /\ s.data \in Seq(Tasks)
             /\ Len(s.sendbuf) \in Nat /\ Len(s.data) \in Nat
             /\ Cardinality(Sending(o)) \in Nat
             /\ Len(s.sendbuf) = IF s.status = "Reset" THEN 0
                                 ELSE Len(s.data) + Cardinality(Sending(o))
  <2>1. s \in StreamStates /\ s.sendbuf \in Seq(Tasks) /\ s.data \in Seq(Tasks)
    BY <1>1, <1>5 DEF StreamStates
  <2>2. Len(s.sendbuf) \in Nat /\ Len(s.data) \in Nat
    BY <2>1
  <2>3. Cardinality(Sending(o)) \in Nat
    BY <1>2, <1>5, SendingChanges
  <2>4. Len(s.sendbuf) = IF s.status = "Reset" THEN 0
                         ELSE Len(s.data) + Cardinality(Sending(o))
    BY <1>5, Zenon DEF SendBufferExact
  <2> QED BY <2>1, <2>2, <2>3, <2>4
<1>6. ASSUME o \in Objects, NEW v, obj' = [obj EXCEPT ![o] = v],
             Len(v.sendbuf) = IF v.status = "Reset" THEN 0
                              ELSE Len(v.data) + Cardinality(Sending(o)'),
             \A x \in Objects : x # o => Sending(x)' = Sending(x)
      PROVE  SendBufferExact'
  <2>1. ASSUME NEW x \in Objects
        PROVE  Len(obj'[x].sendbuf) = IF obj'[x].status = "Reset" THEN 0
                                      ELSE Len(obj'[x].data) + Cardinality(Sending(x)')
    <3>1. CASE x = o
      <4>1. obj'[x] = v
        BY <1>1, <1>6, <3>1
      <4> QED BY <1>6, <3>1, <4>1, Zenon
    <3>2. CASE x # o
      <4>1. obj'[x] = obj[x] /\ Sending(x)' = Sending(x)
        BY <1>1, <1>6, <3>2
      <4>2. Len(obj[x].sendbuf) = IF obj[x].status = "Reset" THEN 0
                                  ELSE Len(obj[x].data) + Cardinality(Sending(x))
        BY Zenon DEF SendBufferExact
      <4> QED BY <4>1, <4>2, Zenon
    <3> QED BY <3>1, <3>2
  <2> QED BY <2>1 DEF SendBufferExact
<1>d. ASSUME o \in Objects, NEW v, v.status = s.status,
             s.status # "Reset" => Len(v.sendbuf) = Len(v.data) + Cardinality(Sending(o)'),
             s.status = "Reset" => Len(v.sendbuf) = 0
      PROVE  Len(v.sendbuf) = IF v.status = "Reset" THEN 0
                              ELSE Len(v.data) + Cardinality(Sending(o)')
  BY <1>d, Zenon
<1>7. CASE SendApply(t)
  <2>1. o \in Objects /\ pc[t] = "apply" /\ loc[t].op = "send" /\ ~InSend(t)
    BY <1>7 DEF SendApply, MuxInv, HasObject, InSend
  <2>2. CASE Return(t) /\ UNCHANGED obj
    BY <1>2, <1>3, <1>4, <2>1, <2>2 DEF SendUnmoved
  <2>3. CASE /\ CanSend(s.status) /\ obj' = [obj EXCEPT ![o].sendbuf = Append(@, t)] /\ GoTo(t, "frame")
    <3>1. InSend(t)' /\ loc'[t].ob = o /\ \A x \in Objects : t \notin Sending(x)
      BY <1>1, <2>1, <2>3 DEF GoTo, InSend, Sending
    <3>2. Cardinality(Sending(o)') = Cardinality(Sending(o)) + 1
      BY <1>2, <2>1, <3>1, SendingChanges
    <3>3. \A x \in Objects : x # o => Sending(x)' = Sending(x)
      BY <1>2, <3>1, SendingChanges
    <3>4. s.status # "Reset"
      BY <2>3 DEF CanSend
    <3> DEFINE v == [s EXCEPT !.sendbuf = Append(@, t)]
    <3>5. v.sendbuf = Append(s.sendbuf, t) /\ v.status = s.status /\ v.data = s.data
      BY <1>5, <2>1 DEF StreamStates
    <3>6. Len(v.sendbuf) = Len(s.sendbuf) + 1 /\ Len(v.data) = Len(s.data)
      BY <1>5, <2>1, <3>5, BufferEnds
    <3>7. obj' = [obj EXCEPT ![o] = v]
      BY <2>3
    <3> HIDE DEF v
    <3>8. Len(v.sendbuf) = IF v.status = "Reset" THEN 0
                           ELSE Len(v.data) + Cardinality(Sending(o)')
      <4>1. /\ Len(s.data) \in Nat /\ Cardinality(Sending(o)) \in Nat
            /\ Len(s.sendbuf) = Len(s.data) + Cardinality(Sending(o))
        BY <1>5, <2>1, <3>4, Zenon
      <4>2. Len(v.sendbuf) = Len(v.data) + Cardinality(Sending(o)')
        BY <3>2, <3>6, <4>1, OneMoveOnly, Zenon
      <4> QED BY <1>d, <2>1, <3>4, <3>5, <4>2, Zenon
    <3> QED BY <1>6, <2>1, <3>3, <3>7, <3>8
  <2> QED BY <1>7, <2>2, <2>3 DEF SendApply
<1>8. CASE SendPopBack(t)
  <2>1. o \in Objects /\ InSend(t) /\ t \in Sending(o) /\ Return(t)
    BY <1>8 DEF SendPopBack, MuxInv, HasObject, InSend, Sending
  <2>2. Cardinality(Sending(o)') = Cardinality(Sending(o)) - 1
    BY <1>2, <1>4, <2>1, SendingChanges
  <2>3. \A x \in Objects : x # o => Sending(x)' = Sending(x)
    <3>1. \A x \in Objects : x # o => t \notin Sending(x)
      BY DEF Sending
    <3> QED BY <1>2, <1>4, <2>1, <3>1, SendingChanges
  <2>4. Cardinality(Sending(o)) >= 1
    <3>1. Cardinality(Sending(o)') \in Nat
      <4>1. IsFiniteSet(Sending(o)')
        <5>1. Sending(o)' \subseteq Tasks
          BY DEF Sending
        <5> QED BY <5>1, TasksAssumption, FS_Subset
      <4> QED BY <4>1, FS_CardinalityType
    <3> QED BY <1>5, <2>1, <2>2, <3>1
  <2> DEFINE v == [s EXCEPT !.sendbuf = PopBack(@)]
  <2>5. v.sendbuf = PopBack(s.sendbuf) /\ v.status = s.status /\ v.data = s.data
    BY <1>5, <2>1 DEF StreamStates
  <2>6. /\ Len(v.sendbuf) = IF Len(s.sendbuf) = 0 THEN 0 ELSE Len(s.sendbuf) - 1
        /\ Len(v.data) = Len(s.data)
    BY <1>5, <2>1, <2>5, BufferEnds
  <2>7. obj' = [obj EXCEPT ![o] = v]
    BY <1>8 DEF SendPopBack
  <2> HIDE DEF v
  <2>8. Len(v.sendbuf) = IF v.status = "Reset" THEN 0 ELSE Len(v.data) + Cardinality(Sending(o)')
    <3>1. Len(s.data) \in Nat /\ Len(s.sendbuf) \in Nat /\ Cardinality(Sending(o)) \in Nat
      BY <1>5, <2>1, Zenon
    <3>2. ASSUME s.status # "Reset" PROVE Len(v.sendbuf) = Len(v.data) + Cardinality(Sending(o)')
      <4>1. Len(s.sendbuf) = Len(s.data) + Cardinality(Sending(o))
        BY <1>5, <2>1, <3>2, Zenon
      <4> QED BY <2>2, <2>4, <2>6, <3>1, <4>1
    <3>3. ASSUME s.status = "Reset" PROVE Len(v.sendbuf) = 0
      <4>1. Len(s.sendbuf) = 0
        BY <1>5, <2>1, <3>3, Zenon
      <4> QED BY <2>6, <4>1
    <3> QED BY <1>d, <2>1, <2>5, <3>2, <3>3, Zenon
  <2> QED BY <1>6, <2>1, <2>3, <2>7, <2>8
<1>9. CASE QueuePush(t)
  <2>1. CASE QueueFailed(t) /\ UNCHANGED obj
    <3>1. SendUnmoved(t)
      BY <1>1, <1>2, <1>9, <2>1 DEF QueuePush, QueueFailed, SendUnmoved, InSend, Return, Enter, GoTo, NoLoc, Local
    <3> QED BY <1>3, <2>1, <3>1
  <2>2. CASE loc[t].op # "send" /\ Return(t) /\ UNCHANGED obj
    <3>1. SendUnmoved(t)
      BY <1>2, <1>4, <2>2 DEF SendUnmoved, InSend
    <3> QED BY <1>3, <2>2, <3>1
  <2>3. CASE loc[t].op = "send" /\ Return(t) /\ obj' = [obj EXCEPT ![o].data = Append(@, t)]
    <3>1. o \in Objects /\ InSend(t) /\ t \in Sending(o)
      BY <1>9, <2>3 DEF QueuePush, MuxInv, HasObject, InSend, Sending
    <3>2. Cardinality(Sending(o)') = Cardinality(Sending(o)) - 1
      BY <1>2, <1>4, <2>3, <3>1, SendingChanges
    <3>3. \A x \in Objects : x # o => Sending(x)' = Sending(x)
      <4>1. \A x \in Objects : x # o => t \notin Sending(x)
        BY DEF Sending
      <4> QED BY <1>2, <1>4, <2>3, <4>1, SendingChanges
    <3> DEFINE v == [s EXCEPT !.data = Append(@, t)]
    <3>4. v.data = Append(s.data, t) /\ v.status = s.status /\ v.sendbuf = s.sendbuf
      BY <1>5, <3>1 DEF StreamStates
    <3>5. Len(v.data) = Len(s.data) + 1 /\ Len(v.sendbuf) = Len(s.sendbuf)
      BY <1>5, <3>1, <3>4, BufferEnds
    <3>6. obj' = [obj EXCEPT ![o] = v]
      BY <2>3
    <3> HIDE DEF v
    <3>7. Len(v.sendbuf) = IF v.status = "Reset" THEN 0
                           ELSE Len(v.data) + Cardinality(Sending(o)')
      <4>1. Len(s.data) \in Nat /\ Cardinality(Sending(o)) \in Nat
        BY <1>5, <3>1, Zenon
      <4>2. ASSUME s.status # "Reset" PROVE Len(v.sendbuf) = Len(v.data) + Cardinality(Sending(o)')
        <5>1. Len(s.sendbuf) = Len(s.data) + Cardinality(Sending(o))
          BY <1>5, <3>1, <4>2, Zenon
        <5> QED BY <3>2, <3>5, <4>1, <5>1, OneMoveOnly, Zenon
      <4>3. ASSUME s.status = "Reset" PROVE Len(v.sendbuf) = 0
        <5>1. Len(s.sendbuf) = 0
          BY <1>5, <3>1, <4>3, Zenon
        <5> QED BY <3>5, <5>1
      <4> QED BY <1>d, <3>1, <3>4, <4>2, <4>3, Zenon
    <3> QED BY <1>6, <3>1, <3>3, <3>6, <3>7
  <2> QED BY <1>9, <2>1, <2>2, <2>3 DEF QueuePush
<1> QED BY <1>7, <1>8, <1>9

\* For any number of tasks and streams: the send buffer of a stream holds as
\* many entries as DATA frames were queued and sends are under way, and none
\* after a reset, whatever other tasks do to the stream while send() is between
\* its locks.  It does not say whose entries they are.
THEOREM SendBufferIsExact == Spec => []SendBufferExact
<1>1. Init => SendBufferExact
  <2> SUFFICES ASSUME Init PROVE SendBufferExact
    OBVIOUS
  <2>1. ASSUME NEW o \in Objects PROVE Sending(o) = {}
    BY DEF Init, Sending
  <2>2. ASSUME NEW o \in Objects PROVE obj[o].sendbuf = <<>> /\ obj[o].data = <<>> /\ obj[o].status = "Open"
    BY DEF Init, NewStream
  <2> QED BY <2>1, <2>2, FS_EmptySet DEF SendBufferExact
<1>2. MuxInv /\ SendBufferExact /\ [Next]_vars => SendBufferExact'
  <2> SUFFICES ASSUME MuxInv, SendBufferExact, [Next]_vars PROVE SendBufferExact'
    OBVIOUS
  <2>1. CASE TakeFrame \/ UNCHANGED vars
    <3>1. UNCHANGED <<obj, pc, loc>>
      BY <2>1 DEF TakeFrame, vars, mapVars
    <3> QED BY <3>1 DEF SendBufferExact, Sending
  <2>2. ASSUME NEW t \in Tasks, Call(t) \/ Step(t) PROVE SendBufferExact'
    BY <2>2, OtherStepsKeep, StreamStepsKeep, SendStepsKeep DEF Step
  <2> QED BY <2>1, <2>2 DEF Next
<1> QED BY <1>1, <1>2, MuxInvariant, PTL DEF Spec

----------------------------------------------------------------------------
(* The receive buffers *)

RecvFits(s) == s.bytes = Total(s.recv) /\ s.bytes <= MaxRecvBufferBytes

\* Every method that changes a stream leaves the count of its bytes exact.
LEMMA RecvStepsKeep ==
    ASSUME MuxInv, RecvAccounting, NEW t \in Tasks, Call(t) \/ Step(t)
    PROVE  RecvAccounting'
<1>0. PICK o : o = loc[t].ob
  OBVIOUS
<1>1. loc \in [Tasks -> Locals] /\ obj \in [Objects -> StreamStates]
  BY DEF MuxInv, MuxTypeOK
<1>2. pc[t] \in {"apply", "locked", "popback"} \/ (pc[t] = "push" /\ loc[t].op = "send") => o \in Objects
  BY <1>0 DEF MuxInv, HasObject
<1>3. ASSUME UNCHANGED obj PROVE RecvAccounting'
  BY <1>3 DEF RecvAccounting
<1>4. ASSUME NEW x \in Objects, NEW v, obj' = [obj EXCEPT ![x] = v], RecvFits(v)
      PROVE  RecvAccounting'
  BY <1>1, <1>4 DEF RecvAccounting, RecvFits
<1>5. ASSUME NEW x \in Objects
      PROVE  RecvFits(obj[x]) /\ obj[x] \in StreamStates /\ obj[x].recv \in Seq(Nat) /\ obj[x].bytes \in Int
  BY <1>1 DEF RecvAccounting, RecvFits, StreamStates
<1>6. ASSUME NEW x \in Objects, NEW st PROVE RecvFits([obj[x] EXCEPT !.status = st])
  BY <1>5 DEF RecvFits, StreamStates
<1>7. ASSUME NEW x \in Objects PROVE RecvFits(ResetStream(obj[x]))
  BY <1>5 DEF RecvFits, StreamStates, ResetStream
<1>8. ASSUME NEW x \in Objects, NEW n
      PROVE  RecvFits([obj[x] EXCEPT !.sendbuf = n]) /\ RecvFits([obj[x] EXCEPT !.data = n])
  BY <1>5 DEF RecvFits, StreamStates
<1>9. CASE Call(t)
  BY <1>3, <1>9 DEF Call, OpenStream, AcceptStream, CallOnStream, ProcessFrame, Close, mapVars
<1>10. CASE \/ AcceptCheck(t) \/ CheckLimit(t) \/ AllocId(t) \/ CountUp(t) \/ Unregister(t)
            \/ CountDown(t) \/ QueueCheck(t) \/ Lookup(t) \/ StreamStatus(t) \/ FrameLock(t)
            \/ RemoveStream(t) \/ CloseClearQueue(t) \/ CloseLockMap(t) \/ CloseFinish(t)
  BY <1>3, <1>10
     DEF AcceptCheck, CheckLimit, AllocId, CountUp, Unregister, CountDown, QueueCheck, Lookup,
         StreamStatus, FrameLock, RemoveStream, CloseClearQueue, CloseLockMap, CloseFinish, mapVars
<1>11. CASE Register(t)
  <2>1. o \in Objects
    BY <1>0, <1>11 DEF Register, Starting, MuxInv, StartingOwns
  <2>2. UNCHANGED obj \/ obj' = [obj EXCEPT ![o] = NewStream(loc[t].id)]
    BY <1>0, <1>11 DEF Register
  <2>3. RecvFits(NewStream(loc[t].id))
    BY TotalProperties, LimitsAssumption DEF RecvFits, NewStream
  <2> QED BY <1>3, <1>4, <2>1, <2>2, <2>3
<1>12. CASE SendApply(t) \/ SendPopBack(t) \/ QueuePush(t)
  <2>1. \/ UNCHANGED obj
        \/ o \in Objects /\ \E n : \/ obj' = [obj EXCEPT ![o] = [obj[o] EXCEPT !.sendbuf = n]]
                                   \/ obj' = [obj EXCEPT ![o] = [obj[o] EXCEPT !.data = n]]
    <3>1. CASE SendApply(t)
      BY <1>0, <1>2, <3>1 DEF SendApply
    <3>2. CASE SendPopBack(t)
      BY <1>0, <1>2, <3>2 DEF SendPopBack
    <3>3. CASE QueuePush(t)
      BY <1>0, <1>2, <3>3 DEF QueuePush
    <3> QED BY <1>12, <3>1, <3>2, <3>3
  <2> QED BY <1>3, <1>4, <1>8, <2>1
<1>13. CASE RecvApply(t)
  <2>1. o \in Objects
    BY <1>2, <1>13 DEF RecvApply
  <2>2. PICK s : s = obj[o]
    OBVIOUS
  <2>3. CASE /\ s.recv # <<>>
             /\ obj' = [obj EXCEPT ![o].recv = Tail(s.recv), ![o].bytes = s.bytes - Head(s.recv)]
    <3>1. PICK v : v = [s EXCEPT !.recv = Tail(s.recv), !.bytes = s.bytes - Head(s.recv)]
      OBVIOUS
    <3>2. s \in StreamStates /\ RecvFits(s) /\ s.recv \in Seq(Nat)
      BY <1>5, <2>1, <2>2
    <3>3. v.recv = Tail(s.recv) /\ v.bytes = s.bytes - Head(s.recv)
      BY <3>1, <3>2 DEF StreamStates
    <3>4. Total(Tail(s.recv)) + Head(s.recv) = Total(s.recv)
      BY <2>3, <3>2, TotalProperties
    <3>5. Head(s.recv) \in Nat /\ Tail(s.recv) \in Seq(Nat)
      BY <2>3, <3>2, HeadTailProperties
    <3>6. Total(Tail(s.recv)) \in Nat
      BY <3>5, TotalProperties
    <3>7. RecvFits(v)
      <4>1. PICK a \in Nat, b \in Nat : a = Total(Tail(s.recv)) /\ b = Head(s.recv)
        BY <3>5, <3>6
      <4>2. s.bytes = a + b /\ s.bytes <= MaxRecvBufferBytes
        BY <3>2, <3>4, <4>1 DEF RecvFits
      <4>3. s.bytes - b = a /\ a <= MaxRecvBufferBytes
        <5>1. PICK c \in Nat : c = a + b
          OBVIOUS
        <5>2. c - b = a /\ a <= c
          BY <5>1
        <5>3. s.bytes = c
          BY <4>2, <5>1
        <5> QED BY <4>2, <5>1, <5>2, <5>3, LimitsAssumption
      <4> QED BY <3>3, <4>1, <4>3 DEF RecvFits
    <3>8. obj' = [obj EXCEPT ![o] = v]
      BY <2>2, <2>3, <3>1
    <3> QED BY <1>4, <2>1, <3>7, <3>8
  <2> QED BY <1>0, <1>3, <1>13, <2>2, <2>3 DEF RecvApply
<1>14. CASE CloseLocal(t) \/ RemoteFin(t)
  <2>1. o \in Objects /\ \E st : obj' = [obj EXCEPT ![o] = [obj[o] EXCEPT !.status = st]]
    BY <1>0, <1>2, <1>14 DEF CloseLocal, RemoteFin
  <2> QED BY <1>4, <1>6, <2>1
<1>15. CASE ResetLocal(t) \/ RemoteReset(t)
  <2>1. o \in Objects /\ obj' = [obj EXCEPT ![o] = ResetStream(obj[o])]
    BY <1>0, <1>2, <1>15 DEF ResetLocal, RemoteReset
  <2> QED BY <1>4, <1>7, <2>1
<1>16. CASE RemoteData(t)
  <2>1. o \in Objects
    BY <1>2, <1>16 DEF RemoteData
  <2>2. PICK s : s = obj[o]
    OBVIOUS
  <2>3. PICK n \in Nat : n = loc[t].len
    BY <1>1 DEF Locals
  <2>4. CASE /\ s.bytes + n <= MaxRecvBufferBytes
             /\ obj' = [obj EXCEPT ![o].recv = Append(s.recv, n), ![o].bytes = s.bytes + n]
    <3>1. PICK v : v = [s EXCEPT !.recv = Append(s.recv, n), !.bytes = s.bytes + n]
      OBVIOUS
    <3>2. s \in StreamStates /\ RecvFits(s) /\ s.recv \in Seq(Nat)
      BY <1>5, <2>1, <2>2
    <3>3. v.recv = Append(s.recv, n) /\ v.bytes = s.bytes + n
      BY <3>1, <3>2 DEF StreamStates
    <3>4. Total(Append(s.recv, n)) = Total(s.recv) + n
      BY <3>2, TotalProperties
    <3>5. RecvFits(v)
      BY <2>4, <3>2, <3>3, <3>4 DEF RecvFits
    <3>6. obj' = [obj EXCEPT ![o] = v]
      BY <2>2, <2>4, <3>1
    <3> QED BY <1>4, <2>1, <3>5, <3>6
  <2>5. CASE obj' = [obj EXCEPT ![o] = ResetStream(obj[o])]
    BY <1>4, <1>7, <2>1, <2>5
  <2> QED BY <1>0, <1>3, <1>16, <2>2, <2>3, <2>4, <2>5 DEF RemoteData
<1>17. CASE CloseReset(t)
  <2>1. \E x \in loc[t].rest : obj' = [obj EXCEPT ![x] = ResetStream(obj[x])]
    BY <1>17 DEF CloseReset
  <2>2. loc[t].rest \subseteq Objects
    BY <1>1 DEF Locals
  <2> QED BY <1>4, <1>7, <2>1, <2>2
<1> QED BY <1>9, <1>10, <1>11, <1>12, <1>13, <1>14, <1>15, <1>16, <1>17 DEF Step

\* StreamState::queue_recv and take_recv: the byte count of every stream is what
\* its unread data adds up to, and within the limit, for any tasks, streams,
\* payloads and limit.
THEOREM RecvBytesAreExact == Spec => []RecvAccounting
<1>1. Init => RecvAccounting
  <2> SUFFICES ASSUME Init PROVE RecvAccounting
    OBVIOUS
  <2>1. ASSUME NEW o \in Objects PROVE obj[o].recv = <<>> /\ obj[o].bytes = 0
    BY DEF Init, NewStream
  <2> QED BY <2>1, TotalProperties, LimitsAssumption DEF RecvAccounting
<1>2. MuxInv /\ RecvAccounting /\ [Next]_vars => RecvAccounting'
  <2> SUFFICES ASSUME MuxInv, RecvAccounting, [Next]_vars PROVE RecvAccounting'
    OBVIOUS
  <2>1. CASE TakeFrame \/ UNCHANGED vars
    <3>1. UNCHANGED obj
      BY <2>1 DEF TakeFrame, vars, mapVars
    <3> QED BY <3>1 DEF RecvAccounting
  <2>2. ASSUME NEW t \in Tasks, Call(t) \/ Step(t) PROVE RecvAccounting'
    BY <2>2, RecvStepsKeep
  <2> QED BY <2>1, <2>2 DEF Next
<1> QED BY <1>1, <1>2, MuxInvariant, PTL DEF Spec

----------------------------------------------------------------------------
(* The stream count *)

\* No object is under two ids; once close() has begun the flag is set.
CountTypes ==
    /\ stream_count \in Nat /\ late \in Nat
    /\ \A i, j \in Ids : streams[i] = streams[j] /\ streams[i] # 0 => i = j
    /\ \A t \in Tasks : pc[t] \in {"clear", "lockmap", "resetting"} => closed

\* What stream_count stands for.
CountTotal ==
    (stream_count + (Cardinality(AtPC("count")) + late)) % IdSpace
        = (Cardinality(Registered) + Cardinality(AtPC("uncount"))) % IdSpace

CountInv == CountTypes /\ (~closed => CountTotal)

\* The sets that CountExact counts are finite.
LEMMA CountSets ==
    ASSUME MuxInv
    PROVE  /\ \A l \in PCs : IsFiniteSet(AtPC(l)) /\ Cardinality(AtPC(l)) \in Nat
           /\ IsFiniteSet(Registered) /\ Cardinality(Registered) \in Nat
<1>1. \A l \in PCs : IsFiniteSet(AtPC(l))
  <2>1. \A l \in PCs : AtPC(l) \subseteq Tasks
    BY DEF AtPC
  <2> QED BY <2>1, TasksAssumption, FS_Subset
<1>2. IsFiniteSet(Registered)
  <2>1. Registered \subseteq 1 .. MaxOpens
    BY ConstantsOK DEF Registered, MuxInv, MuxTypeOK
  <2>2. IsFiniteSet(1 .. MaxOpens)
    BY ConstantsOK, FS_Interval
  <2> QED BY <2>1, <2>2, FS_Subset
<1> QED BY <1>1, <1>2, FS_CardinalityType

\* A task arrives at a point, leaves it, or is not there before and after.
LEMMA AtPCChanges ==
    ASSUME MuxInv, NEW t \in Tasks, NEW k \in PCs, pc' = [pc EXCEPT ![t] = k], NEW l \in PCs
    PROVE  /\ pc[t] # l /\ k # l => AtPC(l)' = AtPC(l)
           /\ pc[t] # l /\ k = l => Cardinality(AtPC(l)') = Cardinality(AtPC(l)) + 1
           /\ pc[t] = l /\ k # l => Cardinality(AtPC(l)') = Cardinality(AtPC(l)) - 1
<1>1. \A s \in Tasks : pc'[s] = IF s = t THEN k ELSE pc[s]
  BY DEF MuxInv, MuxTypeOK
<1>2. IsFiniteSet(AtPC(l)) /\ Cardinality(AtPC(l)) \in Nat
  BY CountSets
<1>3. ASSUME pc[t] # l, k # l PROVE AtPC(l)' = AtPC(l)
  BY <1>1, <1>3 DEF AtPC
<1>4. ASSUME pc[t] # l, k = l PROVE Cardinality(AtPC(l)') = Cardinality(AtPC(l)) + 1
  <2>1. AtPC(l)' = AtPC(l) \cup {t} /\ t \notin AtPC(l)
    BY <1>1, <1>4 DEF AtPC
  <2> QED BY <1>2, <2>1, FS_AddElement
<1>5. ASSUME pc[t] = l, k # l PROVE Cardinality(AtPC(l)') = Cardinality(AtPC(l)) - 1
  <2>1. AtPC(l)' = AtPC(l) \ {t} /\ t \in AtPC(l)
    BY <1>1, <1>5 DEF AtPC
  <2> QED BY <1>2, <2>1, FS_RemoveElement
<1> QED BY <1>3, <1>4, <1>5

\* An entry leaves the map.
LEMMA EntryLeaves ==
    ASSUME MuxInv, CountTypes, NEW i \in Ids, streams' = [streams EXCEPT ![i] = 0]
    PROVE  /\ streams[i] = 0 => Registered' = Registered
           /\ streams[i] # 0 => Cardinality(Registered') = Cardinality(Registered) - 1
           /\ \A j, k \in Ids : streams'[j] = streams'[k] /\ streams'[j] # 0 => j = k
<1>1. streams \in [Ids -> 0 .. MaxOpens]
  BY DEF MuxInv, MuxTypeOK
<1>2. \A j \in Ids : streams'[j] = IF j = i THEN 0 ELSE streams[j]
  BY <1>1
<1>3. ASSUME streams[i] = 0 PROVE Registered' = Registered
  <2>1. streams' = streams
    BY <1>1, <1>3
  <2> QED BY <2>1 DEF Registered
<1>4. ASSUME streams[i] # 0 PROVE Cardinality(Registered') = Cardinality(Registered) - 1
  <2>1. streams[i] \in Registered
    BY <1>4 DEF Registered
  <2>2. Registered' = Registered \ {streams[i]}
    BY <1>2, <1>4 DEF Registered, CountTypes
  <2> QED BY <2>1, <2>2, CountSets, FS_RemoveElement
<1>5. \A j, k \in Ids : streams'[j] = streams'[k] /\ streams'[j] # 0 => j = k
  BY <1>2 DEF CountTypes
<1> QED BY <1>3, <1>4, <1>5

\* The steps that neither count nor change the map.
LEMMA CountUntouched ==
    ASSUME MuxInv, CountInv, NEW t \in Tasks, NEW k \in PCs, pc' = [pc EXCEPT ![t] = k],
           UNCHANGED <<stream_count, streams, late>>,
           pc[t] \notin {"count", "uncount"}, k \notin {"count", "uncount"},
           closed => closed', k \in {"clear", "lockmap", "resetting"} => closed'
    PROVE  CountInv'
<1>1. "count" \in PCs /\ "uncount" \in PCs
  BY DEF PCs
<1>2. AtPC("count")' = AtPC("count") /\ AtPC("uncount")' = AtPC("uncount")
  BY <1>1, AtPCChanges
<1>3. Registered' = Registered
  BY DEF Registered
<1>4. CountTypes'
  BY DEF CountInv, CountTypes, MuxInv, MuxTypeOK
<1>5. CountTotal => CountTotal'
  BY <1>2, <1>3 DEF CountTotal
<1> QED BY <1>4, <1>5 DEF CountInv

\* fetch_sub(1) on the counter, which wraps.
LEMMA DownByOne ==
    ASSUME NEW n \in Nat, n > 1, NEW a \in Nat, NEW c \in Nat
    PROVE  (((a + n - 1) % n) + c) % n = ((a + c) + (-1)) % n
<1>0. /\ a + n - 1 \in Int /\ c \in Int /\ (a + c) + (-1) \in Int /\ 1 \in Int
      /\ n \in Nat /\ n > 0
  OBVIOUS
<1>1. (((a + n - 1) % n) + c) % n = ((a + n - 1) + c) % n
  BY <1>0, RemainderSum, Zenon
<1>2. (a + n - 1) + c = ((a + c) + (-1)) + n * 1
  OBVIOUS
<1>3. (((a + c) + (-1)) + n * 1) % n = ((a + c) + (-1)) % n
  BY <1>0, RemainderShift, Zenon
<1> QED BY <1>1, <1>2, <1>3, Zenon

\* The steps that change the map or the count.
LEMMA CountSteps ==
    ASSUME MuxInv, CountInv, NEW t \in Tasks,
           CountUp(t) \/ CountDown(t) \/ Register(t) \/ Unregister(t) \/ RemoveStream(t)
    PROVE  CountInv'
<1> DEFINE N == IdSpace
           K == Cardinality(AtPC("count"))
           C == K + late
           U == Cardinality(AtPC("uncount"))
           R == Cardinality(Registered)
<1>1. "count" \in PCs /\ "uncount" \in PCs /\ "frame" \in PCs /\ "idle" \in PCs
  BY DEF PCs
<1>2. /\ K \in Nat /\ late \in Nat /\ C \in Nat /\ U \in Nat /\ R \in Nat
      /\ stream_count \in Nat /\ N \in Nat /\ N > 1
  BY <1>1, CountSets, IdSpaceAssumption DEF CountInv, CountTypes
<1>a. /\ stream_count + C \in Int /\ R + U \in Int /\ 1 \in Int /\ -1 \in Int
      /\ IdSpace \in Nat /\ IdSpace > 0
  BY <1>2
<1>b. ASSUME CountTotal
      PROVE  /\ ((stream_count + C) + 1) % N = ((R + U) + 1) % N
             /\ ((stream_count + C) + (-1)) % N = ((R + U) + (-1)) % N
  BY <1>a, <1>b, RemainderAdd, Zenon DEF CountTotal
<1>3. CASE CountUp(t)
  <2>1. pc' = [pc EXCEPT ![t] = "frame"] /\ pc[t] = "count"
        /\ stream_count' = (stream_count + 1) % N /\ UNCHANGED <<streams, late, closed>>
    BY <1>3 DEF CountUp, GoTo, mapVars
  <2>2. Cardinality(AtPC("count")') = K - 1 /\ AtPC("uncount")' = AtPC("uncount")
    BY <1>1, <2>1, AtPCChanges
  <2>a. (K - 1) + late = C - 1
    BY <1>2
  <2>3. Registered' = Registered
    BY <2>1 DEF Registered
  <2>4. CountTypes'
    BY <1>2, <2>1 DEF CountInv, CountTypes, MuxInv, MuxTypeOK
  <2>5. (((stream_count + 1) % N) + (C - 1)) % N = (stream_count + C) % N
    <3>1. (((stream_count + 1) % N) + (C - 1)) % N = ((stream_count + 1) + (C - 1)) % N
      <4>1. stream_count + 1 \in Int /\ C - 1 \in Int /\ N \in Nat /\ N > 0
        BY <1>2
      <4> QED BY <4>1, RemainderSum, Zenon
    <3>2. (stream_count + 1) + (C - 1) = stream_count + C
      BY <1>2
    <3> QED BY <3>1, <3>2
  <2>6. CountTotal => CountTotal'
    BY <2>1, <2>2, <2>3, <2>5, <2>a DEF CountTotal
  <2> QED BY <2>1, <2>4, <2>6 DEF CountInv
<1>4. CASE CountDown(t)
  <2>1. pc' = [pc EXCEPT ![t] = "idle"] /\ pc[t] = "uncount"
        /\ stream_count' = (stream_count + N - 1) % N /\ UNCHANGED <<streams, late, closed>>
    BY <1>4 DEF CountDown, Return, Enter, mapVars
  <2>2. Cardinality(AtPC("uncount")') = U - 1 /\ AtPC("count")' = AtPC("count")
    BY <1>1, <2>1, AtPCChanges
  <2>3. Registered' = Registered
    BY <2>1 DEF Registered
  <2>4. CountTypes'
    BY <1>2, <2>1 DEF CountInv, CountTypes, MuxInv, MuxTypeOK
  <2>5. (stream_count' + C) % N = ((stream_count + C) + (-1)) % N
    BY <1>2, <2>1, DownByOne
  <2>6. CountTotal => CountTotal'
    <3> SUFFICES ASSUME CountTotal PROVE CountTotal'
      OBVIOUS
    <3>1. ((stream_count + C) + (-1)) % N = ((R + U) + (-1)) % N
      BY <1>b
    <3>2. (R + U) + (-1) = R + (U - 1)
      BY <1>2
    <3> QED BY <2>1, <2>2, <2>3, <2>5, <3>1, <3>2 DEF CountTotal
  <2> QED BY <2>1, <2>4, <2>6 DEF CountInv
<1>5. CASE Register(t)
  <2> DEFINE i == loc[t].id
             o == loc[t].ob
  <2>1. i \in Ids /\ o \in Objects /\ (\A j \in Ids : streams[j] # o) /\ pc[t] = "register"
        /\ UNCHANGED <<stream_count, late, closed>>
    BY <1>5 DEF Register, connVars, MuxInv, MuxTypeOK, Locals, StartingOwns, Starting, Untouched
  <2>2. CASE streams[i] # 0
    <3>1. pc' = [pc EXCEPT ![t] = "idle"] /\ UNCHANGED streams
      BY <1>5, <2>2 DEF Register, Return, Enter
    <3> QED BY <1>1, <2>1, <3>1, CountUntouched
  <2>3. CASE streams[i] = 0
    <3>1. pc' = [pc EXCEPT ![t] = "count"] /\ streams' = [streams EXCEPT ![i] = o]
      BY <1>5, <2>3 DEF Register, GoTo
    <3>2. Cardinality(AtPC("count")') = K + 1 /\ AtPC("uncount")' = AtPC("uncount")
      BY <1>1, <2>1, <3>1, AtPCChanges
    <3>3. \A j \in Ids : streams'[j] = IF j = i THEN o ELSE streams[j]
      BY <3>1 DEF MuxInv, MuxTypeOK
    <3>4. Registered' = Registered \cup {o} /\ o \notin Registered
      <4>1. o # 0
        BY <2>1, ConstantsOK
      <4> QED BY <2>1, <2>3, <3>3, <4>1 DEF Registered
    <3>5. Cardinality(Registered') = R + 1
      BY <3>4, CountSets, FS_AddElement
    <3>6. CountTypes'
      <4>1. \A j, k \in Ids : streams'[j] = streams'[k] /\ streams'[j] # 0 => j = k
        BY <2>1, <3>3 DEF CountInv, CountTypes
      <4> QED BY <2>1, <3>1, <4>1 DEF CountInv, CountTypes, MuxInv, MuxTypeOK
    <3>7. CountTotal => CountTotal'
      <4> SUFFICES ASSUME CountTotal PROVE CountTotal'
        OBVIOUS
      <4>1. ((stream_count + C) + 1) % N = ((R + U) + 1) % N
        BY <1>b
      <4>2. (stream_count + C) + 1 = stream_count + ((K + 1) + late) /\ (R + U) + 1 = (R + 1) + U
        BY <1>2
      <4> QED BY <2>1, <3>2, <3>5, <4>1, <4>2 DEF CountTotal
    <3> QED BY <2>1, <3>6, <3>7 DEF CountInv
  <2> QED BY <2>2, <2>3
<1>6. CASE Unregister(t)
  <2> DEFINE i == loc[t].id
  <2>1. /\ i \in Ids /\ pc[t] = "unregister"
        /\ UNCHANGED <<stream_count, closed>> /\ pc' = [pc EXCEPT ![t] = "uncount"]
        /\ streams' = [streams EXCEPT ![i] = 0]
        /\ late' = IF streams[i] = 0 THEN late + 1 ELSE late
    BY <1>6 DEF Unregister, GoTo, connVars, MuxInv, MuxTypeOK, Locals
  <2>2. Cardinality(AtPC("uncount")') = U + 1 /\ AtPC("count")' = AtPC("count")
    BY <1>1, <2>1, AtPCChanges
  <2>3. late' \in Nat
    BY <1>2, <2>1
  <2>4. CountTypes'
    <3>1. \A j, k \in Ids : streams'[j] = streams'[k] /\ streams'[j] # 0 => j = k
      BY <2>1, EntryLeaves DEF CountInv
    <3> QED BY <2>1, <2>3, <3>1 DEF CountInv, CountTypes, MuxInv, MuxTypeOK
  <2>5. ASSUME CountTotal PROVE CountTotal'
    <3>1. CASE streams[i] = 0
      <4>1. Registered' = Registered /\ late' = late + 1
        BY <2>1, <3>1, EntryLeaves DEF CountInv
      <4>2. ((stream_count + C) + 1) % N = ((R + U) + 1) % N
        BY <1>b, <2>5
      <4>3. (stream_count + C) + 1 = stream_count + (K + (late + 1)) /\ (R + U) + 1 = R + (U + 1)
        BY <1>2
      <4> QED BY <2>1, <2>2, <4>1, <4>2, <4>3 DEF CountTotal
    <3>2. CASE streams[i] # 0
      <4>1. Cardinality(Registered') = R - 1 /\ late' = late
        BY <2>1, <3>2, EntryLeaves DEF CountInv
      <4>2. (R - 1) + (U + 1) = R + U
        BY <1>2
      <4> QED BY <2>1, <2>2, <2>5, <4>1, <4>2 DEF CountTotal
    <3> QED BY <3>1, <3>2
  <2> QED BY <2>1, <2>4, <2>5 DEF CountInv
<1>7. CASE RemoveStream(t)
  <2> DEFINE i == loc[t].id
  <2>1. /\ i \in Ids /\ pc[t] = "remove" /\ UNCHANGED <<late, closed>>
        /\ pc' = [pc EXCEPT ![t] = "idle"] /\ streams' = [streams EXCEPT ![i] = 0]
        /\ stream_count' = IF streams[i] = 0 THEN stream_count ELSE (stream_count + N - 1) % N
    BY <1>7 DEF RemoveStream, Return, Enter, MuxInv, MuxTypeOK, Locals
  <2>2. CASE streams[i] = 0
    <3>1. UNCHANGED streams
      BY <2>1, <2>2 DEF MuxInv, MuxTypeOK
    <3> QED BY <1>1, <2>1, <2>2, <3>1, CountUntouched
  <2>3. CASE streams[i] # 0
    <3>1. AtPC("count")' = AtPC("count") /\ AtPC("uncount")' = AtPC("uncount")
      BY <1>1, <2>1, AtPCChanges
    <3>2. Cardinality(Registered') = R - 1
      BY <2>1, <2>3, EntryLeaves DEF CountInv
    <3>3. CountTypes'
      <4>1. \A j, k \in Ids : streams'[j] = streams'[k] /\ streams'[j] # 0 => j = k
        BY <2>1, EntryLeaves DEF CountInv
      <4>2. stream_count' \in Nat
        BY <1>2, <2>1
      <4> QED BY <2>1, <4>1, <4>2 DEF CountInv, CountTypes, MuxInv, MuxTypeOK
    <3>4. CountTotal => CountTotal'
      <4> SUFFICES ASSUME CountTotal PROVE CountTotal'
        OBVIOUS
      <4>1. (stream_count' + C) % N = ((stream_count + C) + (-1)) % N
        BY <1>2, <2>1, <2>3, DownByOne
      <4>2. ((stream_count + C) + (-1)) % N = ((R + U) + (-1)) % N
        BY <1>b
      <4>3. (R + U) + (-1) = (R - 1) + U /\ late' = late
        BY <1>2, <2>1
      <4> QED BY <3>1, <3>2, <4>1, <4>2, <4>3 DEF CountTotal
    <3> QED BY <2>1, <3>3, <3>4 DEF CountInv
  <2> QED BY <2>2, <2>3
<1> QED BY <1>3, <1>4, <1>5, <1>6, <1>7

\* A task moves between points outside of counting.
LEMMA UncountedMove ==
    ASSUME MuxInv, CountInv, NEW t \in Tasks, UNCHANGED <<stream_count, streams, late>>,
           pc[t] \notin {"count", "uncount"}, closed => closed',
           \/ Return(t)
           \/ \E k \in PCs \ {"count", "uncount"} :
                 /\ GoTo(t, k) \/ \E v : Enter(t, k, v)
                 /\ k \in {"clear", "lockmap", "resetting"} => closed'
    PROVE  CountInv'
<1>1. "idle" \in PCs
  BY DEF PCs
<1>2. CASE Return(t)
  BY <1>1, <1>2, CountUntouched DEF Return, Enter
<1>3. ASSUME NEW k \in PCs, k \notin {"count", "uncount"}, GoTo(t, k) \/ \E v : Enter(t, k, v),
             k \in {"clear", "lockmap", "resetting"} => closed'
      PROVE  CountInv'
  BY <1>3, CountUntouched DEF GoTo, Enter
<1> QED BY <1>2, <1>3

\* The steps that change neither.
LEMMA OtherCountSteps ==
    ASSUME MuxInv, CountInv, NEW t \in Tasks,
           \/ Call(t)
           \/ AcceptCheck(t) \/ CheckLimit(t) \/ AllocId(t) \/ QueueCheck(t) \/ QueuePush(t)
           \/ Lookup(t) \/ SendApply(t) \/ SendPopBack(t) \/ RecvApply(t) \/ CloseLocal(t)
           \/ ResetLocal(t) \/ StreamStatus(t) \/ FrameLock(t) \/ RemoteReset(t) \/ RemoteFin(t)
           \/ RemoteData(t)
    PROVE  CountInv'
<1>1. CASE Call(t)
  <2>1. pc[t] = "idle" /\ UNCHANGED <<stream_count, streams, late>> /\ (closed => closed')
    BY <1>1 DEF Call, OpenStream, AcceptStream, CallOnStream, ProcessFrame, Close, connVars, mapVars
  <2>2. \/ Return(t)
        \/ \E v : Enter(t, "limit", v) \/ Enter(t, "accept", v) \/ Enter(t, "lookup", v)
        \/ closed' /\ \E v : Enter(t, "clear", v)
    BY <1>1 DEF Call, OpenStream, AcceptStream, CallOnStream, ProcessFrame, Close
  <2>3. {"limit", "accept", "lookup", "clear"} \subseteq PCs \ {"count", "uncount"}
    BY DEF PCs
  <2> QED BY <2>1, <2>2, <2>3, UncountedMove
<1>2. CASE AcceptCheck(t) \/ CheckLimit(t) \/ AllocId(t)
  <2>1. /\ pc[t] \in {"accept", "limit", "alloc", "realloc"}
        /\ UNCHANGED <<stream_count, streams, late, closed>>
    BY <1>2 DEF AcceptCheck, CheckLimit, AllocId, connVars, mapVars
  <2>2. \/ Return(t)
        \/ \E k \in {"limit", "alloc", "register", "realloc"} : GoTo(t, k) \/ \E v : Enter(t, k, v)
    BY <1>2 DEF AcceptCheck, CheckLimit, AllocId
  <2>3. {"limit", "alloc", "register", "realloc"} \subseteq PCs \ {"count", "uncount"}
    BY DEF PCs
  <2> QED BY <2>1, <2>2, <2>3, UncountedMove
<1>3. CASE QueueCheck(t) \/ QueuePush(t)
  <2>1. pc[t] \in {"frame", "push"} /\ UNCHANGED <<stream_count, streams, late, closed>>
    BY <1>3 DEF QueueCheck, QueuePush, connVars, mapVars
  <2>2. Return(t) \/ \E k \in {"push", "unregister", "popback"} : GoTo(t, k)
    BY <1>3 DEF QueueCheck, QueuePush, QueueFailed
  <2>3. {"push", "unregister", "popback"} \subseteq PCs \ {"count", "uncount"}
    BY DEF PCs
  <2> QED BY <2>1, <2>2, <2>3, UncountedMove
<1>4. CASE \/ Lookup(t) \/ SendApply(t) \/ SendPopBack(t) \/ RecvApply(t) \/ CloseLocal(t)
           \/ ResetLocal(t) \/ StreamStatus(t) \/ FrameLock(t) \/ RemoteReset(t) \/ RemoteFin(t)
           \/ RemoteData(t)
  <2>1. /\ pc[t] \in {"lookup", "apply", "popback", "locked"}
        /\ UNCHANGED <<stream_count, streams, late, closed>>
    BY <1>4 DEF Lookup, SendApply, SendPopBack, RecvApply, CloseLocal, ResetLocal, StreamStatus,
                FrameLock, RemoteReset, RemoteFin, RemoteData, connVars
  <2>2. \/ Return(t)
        \/ \E k \in {"apply", "frame", "locked", "remove"} : GoTo(t, k) \/ \E v : Enter(t, k, v)
    BY <1>4 DEF Lookup, SendApply, SendPopBack, RecvApply, CloseLocal, ResetLocal, StreamStatus,
                FrameLock, RemoteReset, RemoteFin, RemoteData
  <2>3. {"apply", "frame", "locked", "remove"} \subseteq PCs \ {"count", "uncount"}
    BY DEF PCs
  <2> QED BY <2>1, <2>2, <2>3, UncountedMove
<1> QED BY <1>1, <1>2, <1>3, <1>4

\* Once close() has set the flag nothing is claimed about the count.
LEMMA CloseCountSteps ==
    ASSUME MuxInv, CountInv, NEW t \in Tasks,
           CloseClearQueue(t) \/ CloseLockMap(t) \/ CloseReset(t) \/ CloseFinish(t)
    PROVE  CountInv'
<1>1. closed /\ closed'
  BY DEF CountInv, CountTypes, CloseClearQueue, CloseLockMap, CloseReset, CloseFinish, connVars
<1>2. UNCHANGED late /\ stream_count' \in Nat
  BY DEF CountInv, CountTypes, CloseClearQueue, CloseLockMap, CloseReset, CloseFinish, connVars
<1>3. UNCHANGED streams \/ streams' = [i \in Ids |-> 0]
  BY DEF CloseClearQueue, CloseLockMap, CloseReset, CloseFinish, mapVars
<1>4. \A i, j \in Ids : streams'[i] = streams'[j] /\ streams'[i] # 0 => i = j
  BY <1>3 DEF CountInv, CountTypes
<1> QED BY <1>1, <1>2, <1>4 DEF CountInv, CountTypes

\* For any number of tasks and streams and any width of the ids: until close()
\* is called, stream_count is the number of registered streams up to the opens
\* and roll-backs under way, less one for each error path that found its stream
\* removed already; and, closed or not, no stream is under the control id.
THEOREM CountIsExact == Spec => []CountExact
<1>1. Init => CountInv
  <2> SUFFICES ASSUME Init PROVE CountInv
    OBVIOUS
  <2>1. Registered = {}
    BY ConstantsOK DEF Init, Registered
  <2>2. AtPC("count") = {} /\ AtPC("uncount") = {}
    BY DEF Init, AtPC
  <2>3. CountTotal
    <3>1. Cardinality(Registered) = 0 /\ Cardinality(AtPC("count")) = 0
          /\ Cardinality(AtPC("uncount")) = 0 /\ stream_count = 0 /\ late = 0
      BY <2>1, <2>2, FS_EmptySet DEF Init
    <3>2. stream_count + (Cardinality(AtPC("count")) + late)
              = Cardinality(Registered) + Cardinality(AtPC("uncount"))
      BY <3>1
    <3> QED BY <3>2, Zenon DEF CountTotal
  <2>4. CountTypes
    BY DEF Init, CountTypes
  <2> QED BY <2>3, <2>4 DEF CountInv
<1>2. MuxInv /\ CountInv /\ [Next]_vars => CountInv'
  <2> SUFFICES ASSUME MuxInv, CountInv, [Next]_vars PROVE CountInv'
    OBVIOUS
  <2>1. CASE TakeFrame \/ UNCHANGED vars
    <3>1. UNCHANGED <<stream_count, streams, late, closed, pc>>
      BY <2>1 DEF TakeFrame, vars, mapVars
    <3> QED BY <3>1 DEF CountInv, CountTypes, CountTotal, AtPC, Registered
  <2>2. ASSUME NEW t \in Tasks, Call(t) \/ Step(t) PROVE CountInv'
    BY <2>2, CountSteps, OtherCountSteps, CloseCountSteps DEF Step
  <2> QED BY <2>1, <2>2 DEF Next
<1>3. MuxInv /\ CountInv => CountExact
  <2> SUFFICES ASSUME MuxInv, CountInv PROVE CountExact
    OBVIOUS
  <2>1. Cardinality(AtPC("count")) \in Nat
    BY CountSets DEF PCs
  <2>2. stream_count + (Cardinality(AtPC("count")) + late)
            = stream_count + Cardinality(AtPC("count")) + late
    BY <2>1 DEF CountInv, CountTypes
  <2> QED BY <2>2 DEF MuxInv, ControlFree, CountInv, CountTotal, CountExact
<1> QED BY <1>1, <1>2, <1>3, MuxInvariant, PTL DEF Spec

----------------------------------------------------------------------------
(* close() and the opens and accepts it races with *)

Closing(t) == pc[t] \in {"clear", "lockmap", "resetting"}

\* The task has registered a stream and will find the closed flag.
Opening(t) == pc[t] \in {"count", "frame", "unregister"} /\ loc[t].op \in {"open", "accept"}

\* Once a close() has emptied the map, every stream in it has a task that will
\* remove it.
CloseInv ==
    closed /\ (\A t \in Tasks : ~Closing(t)) =>
        \A i \in Ids : streams[i] # 0 => \E t \in Tasks : Opening(t) /\ loc[t].id = i

\* A step of a task that is not closing and registers nothing.
LEMMA CloseKept ==
    ASSUME CloseInv, closed, NEW t \in Tasks, ~Closing(t),
           \A s \in Tasks : s # t => pc'[s] = pc[s] /\ loc'[s] = loc[s],
           \A i \in Ids : streams'[i] # 0 => streams[i] # 0,
           Opening(t) => \/ Opening(t)' /\ loc'[t].id = loc[t].id
                         \/ streams'[loc[t].id] = 0
    PROVE  CloseInv'
<1> SUFFICES ASSUME \A s \in Tasks : ~Closing(s)', NEW i \in Ids, streams'[i] # 0
             PROVE  \E s \in Tasks : Opening(s)' /\ loc'[s].id = i
  BY DEF CloseInv
<1>1. \A s \in Tasks : ~Closing(s)
  BY DEF Closing
<1>2. PICK s \in Tasks : Opening(s) /\ loc[s].id = i
  BY <1>1 DEF CloseInv
<1>3. CASE s = t
  BY <1>2, <1>3
<1>4. CASE s # t
  BY <1>2, <1>4 DEF Opening
<1> QED BY <1>3, <1>4

\* The steps from a point where the task has registered nothing.
LEMMA CloseKeptElsewhere ==
    ASSUME MuxInv, CloseInv, NEW t \in Tasks,
           \/ Call(t)
           \/ AcceptCheck(t) \/ CheckLimit(t) \/ AllocId(t) \/ CountDown(t) \/ QueuePush(t)
           \/ Lookup(t) \/ SendApply(t) \/ SendPopBack(t) \/ RecvApply(t) \/ CloseLocal(t)
           \/ ResetLocal(t) \/ StreamStatus(t) \/ FrameLock(t) \/ RemoteReset(t) \/ RemoteFin(t)
           \/ RemoteData(t) \/ RemoveStream(t)
    PROVE  CloseInv'
<1>1. pc \in [Tasks -> PCs] /\ loc \in [Tasks -> Locals] /\ streams \in [Ids -> 0 .. MaxOpens]
  BY DEF MuxInv, MuxTypeOK
<1>2. CASE Close(t)
  <2>1. Closing(t)'
    BY <1>1, <1>2 DEF Close, Enter, Closing
  <2> QED BY <2>1 DEF CloseInv
<1>3. CASE ~Close(t)
  <2>1. /\ pc[t] \in {"idle", "accept", "limit", "alloc", "realloc", "uncount", "push", "lookup",
                       "apply", "popback", "locked", "remove"}
        /\ UNCHANGED closed
    BY <1>3 DEF Call, OpenStream, AcceptStream, CallOnStream, ProcessFrame,
           AcceptCheck, CheckLimit, AllocId, CountDown, QueuePush, Lookup, SendApply, SendPopBack,
           RecvApply, CloseLocal, ResetLocal, StreamStatus, FrameLock, RemoteReset, RemoteFin,
           RemoteData, RemoveStream, connVars
  <2>2. \A s \in Tasks : s # t => pc'[s] = pc[s] /\ loc'[s] = loc[s]
    BY <1>1, <1>3 DEF Call, OpenStream, AcceptStream, CallOnStream, ProcessFrame,
           AcceptCheck, CheckLimit, AllocId, CountDown, QueuePush, QueueFailed, Lookup, SendApply,
           SendPopBack, RecvApply, CloseLocal, ResetLocal, StreamStatus, FrameLock, RemoteReset,
           RemoteFin, RemoteData, RemoveStream, Return, Enter, GoTo
  <2>3. \A i \in Ids : streams'[i] # 0 => streams[i] # 0
    <3>1. UNCHANGED streams \/ streams' = [streams EXCEPT ![loc[t].id] = 0]
      BY <1>3 DEF Call, OpenStream, AcceptStream, CallOnStream, ProcessFrame,
           AcceptCheck, CheckLimit, AllocId, CountDown, QueuePush, Lookup, SendApply, SendPopBack,
           RecvApply, CloseLocal, ResetLocal, StreamStatus, FrameLock, RemoteReset, RemoteFin,
           RemoteData, RemoveStream, mapVars
    <3> QED BY <1>1, <3>1
  <2>4. CASE ~closed
    BY <2>1, <2>4 DEF CloseInv
  <2>5. CASE closed
    <3>1. ~Closing(t) /\ ~Opening(t)
      BY <2>1 DEF Closing, Opening
    <3> QED BY <2>2, <2>3, <2>5, <3>1, CloseKept
  <2> QED BY <2>4, <2>5
<1> QED BY <1>2, <1>3

\* An open or accept from its registration to its roll-back.
LEMMA CloseKeptOpening ==
    ASSUME MuxInv, CloseInv, NEW t \in Tasks,
           Register(t) \/ CountUp(t) \/ QueueCheck(t) \/ Unregister(t)
    PROVE  CloseInv'
<1>1. pc \in [Tasks -> PCs] /\ loc \in [Tasks -> Locals] /\ streams \in [Ids -> 0 .. MaxOpens]
  BY DEF MuxInv, MuxTypeOK
<1>2. UNCHANGED closed /\ pc[t] \in {"register", "count", "frame", "unregister"}
  BY DEF Register, CountUp, QueueCheck, Unregister, connVars
<1>3. CASE ~closed
  BY <1>2, <1>3 DEF CloseInv
<1>4. CASE closed
  <2>1. ~Closing(t) /\ loc[t].id \in Ids
    BY <1>1, <1>2 DEF Closing, Locals
  <2>2. \A s \in Tasks : s # t => pc'[s] = pc[s] /\ loc'[s] = loc[s]
    BY <1>1 DEF Register, CountUp, QueueCheck, QueueFailed, Unregister, Return, Enter, GoTo
  <2>3. CASE Register(t)
    <3>1. loc[t].op \in {"open", "accept"} /\ ~Opening(t)
      BY <2>3 DEF Register, MuxInv, StartingOwns, Starting, Opening
    <3>2. CASE UNCHANGED streams
      BY <1>4, <2>1, <2>2, <3>1, <3>2, CloseKept
    <3>3. CASE streams' = [streams EXCEPT ![loc[t].id] = loc[t].ob] /\ GoTo(t, "count")
      <4>1. Opening(t)' /\ loc'[t].id = loc[t].id
        BY <1>1, <3>1, <3>3 DEF GoTo, Opening
      <4> SUFFICES ASSUME \A s \in Tasks : ~Closing(s)', NEW i \in Ids, streams'[i] # 0
                   PROVE  \E s \in Tasks : Opening(s)' /\ loc'[s].id = i
        BY DEF CloseInv
      <4>2. CASE i = loc[t].id
        BY <4>1, <4>2
      <4>3. CASE i # loc[t].id
        <5>1. streams[i] # 0 /\ \A s \in Tasks : ~Closing(s)
          BY <1>1, <2>1, <2>2, <3>3, <4>3 DEF Closing
        <5>2. PICK s \in Tasks : Opening(s) /\ loc[s].id = i
          BY <1>4, <5>1 DEF CloseInv
        <5> QED BY <2>2, <3>1, <5>2 DEF Opening
      <4> QED BY <4>2, <4>3
    <3> QED BY <2>3, <3>2, <3>3 DEF Register
  <2>4. CASE CountUp(t) \/ QueueCheck(t)
    <3>1. UNCHANGED streams
      BY <2>4 DEF CountUp, QueueCheck, mapVars
    <3>2. Opening(t) => Opening(t)' /\ loc'[t].id = loc[t].id
      BY <1>1, <1>4, <2>4 DEF CountUp, QueueCheck, QueueFailed, GoTo, Opening
    <3> QED BY <1>4, <2>1, <2>2, <3>1, <3>2, CloseKept
  <2>5. CASE Unregister(t)
    <3>1. streams' = [streams EXCEPT ![loc[t].id] = 0]
      BY <2>5 DEF Unregister
    <3>2. streams'[loc[t].id] = 0 /\ \A i \in Ids : streams'[i] # 0 => streams[i] # 0
      BY <1>1, <2>1, <3>1
    <3> QED BY <1>4, <2>1, <2>2, <3>2, CloseKept
  <2> QED BY <2>3, <2>4, <2>5
<1> QED BY <1>3, <1>4

\* close() itself: until it is done nothing is claimed, and then the map is empty.
LEMMA CloseKeptClosing ==
    ASSUME MuxInv, NEW t \in Tasks,
           CloseClearQueue(t) \/ CloseLockMap(t) \/ CloseReset(t) \/ CloseFinish(t)
    PROVE  CloseInv'
<1>1. pc \in [Tasks -> PCs]
  BY DEF MuxInv, MuxTypeOK
<1>2. CASE CloseFinish(t)
  <2>1. \A i \in Ids : streams'[i] = 0
    BY <1>2 DEF CloseFinish
  <2> QED BY <2>1 DEF CloseInv
<1>3. CASE CloseClearQueue(t) \/ CloseLockMap(t) \/ CloseReset(t)
  <2>1. Closing(t)'
    BY <1>1, <1>3 DEF CloseClearQueue, CloseLockMap, CloseReset, GoTo, Enter, Closing
  <2> QED BY <2>1 DEF CloseInv
<1> QED BY <1>2, <1>3

\* For any number of tasks and streams: when every call has returned and one of
\* them was close(), no stream is registered, whichever opens and accepts had
\* passed the closed check before it.
THEOREM NoStreamOutlivesClose == Spec => []CloseEmptiesMap
<1>1. Init => CloseInv
  BY DEF Init, CloseInv
<1>2. MuxInv /\ CloseInv /\ [Next]_vars => CloseInv'
  <2> SUFFICES ASSUME MuxInv, CloseInv, [Next]_vars PROVE CloseInv'
    OBVIOUS
  <2>1. CASE TakeFrame \/ UNCHANGED vars
    <3>1. UNCHANGED <<closed, streams, pc, loc>>
      BY <2>1 DEF TakeFrame, vars, mapVars
    <3> QED BY <3>1 DEF CloseInv, Closing, Opening
  <2>2. ASSUME NEW t \in Tasks, Call(t) \/ Step(t) PROVE CloseInv'
    BY <2>2, CloseKeptElsewhere, CloseKeptOpening, CloseKeptClosing DEF Step
  <2> QED BY <2>1, <2>2 DEF Next
<1>3. CloseInv => CloseEmptiesMap
  BY DEF CloseInv, CloseEmptiesMap, Quiet, Closing, Opening, Registered
<1> QED BY <1>1, <1>2, <1>3, MuxInvariant, PTL DEF Spec
=============================================================================
