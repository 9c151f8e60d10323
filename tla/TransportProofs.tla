-------------------------- MODULE TransportProofs --------------------------
(***************************************************************************)
(* What the transports promise, from the socket to the message:            *)
(*   - TcpServer for any limit, any number of clients and any set of       *)
(*     callers of shutdown(): the semaphore, the map and the drain;        *)
(*   - FrameCodec for any messages, any base and any cut into reads;       *)
(*   - JsonRpc for any set of texts;                                       *)
(*   - StdioServer for any stream, any size limit and any cut into reads.  *)
(***************************************************************************)
EXTENDS TcpServer, FrameCodec, StdioServer, Lemmas

----------------------------------------------------------------------------
(* TcpServer.  PermitsExact alone is inductive only together with the shape *)
(* of the id counter: the task spawned next must not be one that is counted *)
(* already.                                                                 *)

\* The types, without the upper bounds that rest on the other conjuncts.
Typed ==
    /\ running \in BOOLEAN
    /\ permits \in Nat
    /\ connections \subseteq ConnIds
    /\ next_id \in Nat \ {0}
    /\ loop \in LoopStates
    /\ signalled \in BOOLEAN
    /\ attempts \in 0 .. MaxAttempts
    /\ task \in [ConnIds -> TaskStates]
    /\ stop \in [Stoppers -> StopStates]
    /\ overdue \subseteq Stoppers
    /\ before \in [Stoppers -> SUBSET ConnIds]
    /\ cleared \in BOOLEAN

\* Every id handed out belongs to one accepted client, and ids not handed out
\* have no task.
IdsFresh ==
    /\ next_id + Registering <= attempts + 1
    /\ \A c \in ConnIds : c >= next_id => task[c] = "none"

\* The connections a shutdown() call found had been started.
BeforeStarted == \A s \in Stoppers : \A c \in before[s] : task[c] # "none"

IndInv == Typed /\ IdsFresh /\ PermitsExact /\ MapExact /\ BeforeStarted /\ DrainedBefore

\* There are finitely many live tasks.
LEMMA LiveFinite == IsFiniteSet(Live) /\ Cardinality(Live) \in Nat
<1>1. IsFiniteSet(ConnIds)
  BY FS_Interval, ServerAssumption DEF ConnIds
<1>2. IsFiniteSet(Live)
  BY <1>1, FS_Subset DEF Live
<1> QED BY <1>2, FS_CardinalityType

\* The inductive invariant gives the type invariant with its upper bounds.
LEMMA IndInvTyped == IndInv => TcpTypeOK
<1> SUFFICES ASSUME IndInv PROVE TcpTypeOK
  OBVIOUS
<1>1. Registering \in {0, 1}
  BY DEF Registering
<1>2. Cardinality(Live) \in Nat
  BY LiveFinite
<1>3. permits \in 0 .. MaxConnections
  BY <1>1, <1>2, ServerAssumption DEF IndInv, Typed, PermitsExact
<1>4. next_id \in 1 .. (MaxAttempts + 1)
  BY <1>1, ServerAssumption DEF IndInv, Typed, IdsFresh
<1> QED BY <1>3, <1>4 DEF IndInv, Typed, TcpTypeOK

\* A task that starts or ends changes the set of live tasks by itself alone.
LEMMA LiveStep ==
  ASSUME Typed, NEW c \in ConnIds
  PROVE  /\ IsFiniteSet(Live) /\ Cardinality(Live) \in Nat
         /\ (c \notin Live /\ Live' = Live \cup {c})
               => Cardinality(Live') = Cardinality(Live) + 1
         /\ (c \in Live /\ Live' = Live \ {c})
               => Cardinality(Live') = Cardinality(Live) - 1
<1>1. IsFiniteSet(Live) /\ Cardinality(Live) \in Nat
  BY LiveFinite
<1>3. ASSUME c \notin Live PROVE Cardinality(Live \cup {c}) = Cardinality(Live) + 1
  BY <1>1, <1>3, FS_AddElement
<1>4. ASSUME c \in Live PROVE Cardinality(Live \ {c}) = Cardinality(Live) - 1
  BY <1>1, <1>4, FS_RemoveElement
<1> QED BY <1>1, <1>3, <1>4

\* An initialised server satisfies the invariant.
LEMMA IndInvInit == TcpInit => IndInv
<1> SUFFICES ASSUME TcpInit PROVE IndInv
  OBVIOUS
<1>1. Typed
  <2>1. running \in BOOLEAN /\ signalled \in BOOLEAN /\ cleared \in BOOLEAN
    BY DEF TcpInit
  <2>2. /\ permits \in Nat /\ next_id \in Nat \ {0} /\ attempts \in 0 .. MaxAttempts
        /\ connections \subseteq ConnIds /\ overdue \subseteq Stoppers
    BY ServerAssumption DEF TcpInit
  <2>3. /\ loop \in LoopStates /\ task \in [ConnIds -> TaskStates]
        /\ stop \in [Stoppers -> StopStates] /\ before \in [Stoppers -> SUBSET ConnIds]
    BY DEF TcpInit, LoopStates, TaskStates, StopStates
  <2> QED BY <2>1, <2>2, <2>3 DEF Typed
<1>2. Live = {} /\ InMap = {} /\ Registering = 0
  BY DEF TcpInit, Live, InMap, Registering
<1>3. Cardinality(Live) = 0
  BY <1>2, FS_EmptySet
<1> QED BY <1>1, <1>2, <1>3, ServerAssumption
        DEF TcpInit, IndInv, IdsFresh, PermitsExact, MapExact, BeforeStarted, DrainedBefore

\* Every step of run() keeps the invariant.
LEMMA LoopKeeps == IndInv /\ LoopStep => IndInv'
<1> SUFFICES ASSUME IndInv, LoopStep PROVE IndInv'
  OBVIOUS
<1> USE ServerAssumption
<1>1. CASE RunRegister
  <2>1. next_id \in ConnIds /\ next_id \in Nat /\ next_id <= attempts /\ task[next_id] = "none"
    BY <1>1 DEF RunRegister, IndInv, Typed, IdsFresh, Registering, ConnIds
  <2>2. Typed'
    BY <1>1, <2>1 DEF RunRegister, IndInv, Typed, LoopStates, TaskStates, stopVars
  <2>3. \A c \in ConnIds : task'[c] = IF c = next_id THEN "reading" ELSE task[c]
    BY <1>1, <2>1 DEF RunRegister, IndInv, Typed
  <2>4. Live' = Live \cup {next_id} /\ next_id \notin Live
    BY <2>1, <2>3 DEF Live
  <2>5. InMap' = InMap \cup {next_id}
    BY <2>1, <2>3 DEF InMap
  <2>6. Cardinality(Live') = Cardinality(Live) + 1 /\ Cardinality(Live) \in Nat
    BY <2>1, <2>4, LiveStep DEF IndInv
  <2>7. PermitsExact'
    BY <1>1, <2>6 DEF RunRegister, IndInv, Typed, PermitsExact, Registering
  <2>8. IdsFresh'
    BY <1>1, <2>1, <2>3 DEF RunRegister, IndInv, Typed, IdsFresh, Registering, ConnIds
  <2>9. MapExact'
    BY <1>1, <2>5 DEF RunRegister, IndInv, MapExact, stopVars
  <2>10. BeforeStarted' /\ DrainedBefore'
    BY <1>1, <2>1, <2>3 DEF RunRegister, IndInv, Typed, BeforeStarted, DrainedBefore, stopVars
  <2> QED BY <2>2, <2>7, <2>8, <2>9, <2>10 DEF IndInv
<1>2. CASE LoopStep /\ ~RunRegister
  <2>1. /\ task' = task /\ connections' = connections /\ next_id' = next_id
        /\ stop' = stop /\ overdue' = overdue /\ before' = before /\ cleared' = cleared
    BY <1>2 DEF LoopStep, RunBind, RunSubscribe, RunAccept, RunBreak, RunReturn, stopVars
  <2>2. Live' = Live /\ InMap' = InMap
    BY <2>1 DEF Live, InMap
  <2>3. Cardinality(Live) \in Nat
    BY LiveFinite
  <2>4. Typed'
    <3>1. running' \in BOOLEAN /\ signalled' \in BOOLEAN
      BY <1>2 DEF IndInv, Typed, LoopStep, RunBind, RunSubscribe, RunAccept, RunBreak,
                  RunReturn
    <3>2. permits' \in Nat /\ attempts' \in 0 .. MaxAttempts /\ loop' \in LoopStates
      BY <1>2 DEF IndInv, Typed, LoopStep, RunBind, RunSubscribe, RunAccept, RunBreak,
                  RunReturn, LoopStates
    <3> QED BY <2>1, <3>1, <3>2 DEF IndInv, Typed
  <2>5. PermitsExact' /\ IdsFresh'
    BY <1>2, <2>1, <2>2, <2>3 DEF IndInv, Typed, PermitsExact, IdsFresh, Registering, LoopStep,
          RunBind, RunSubscribe, RunAccept, RunBreak, RunReturn
  <2>6. MapExact' /\ BeforeStarted' /\ DrainedBefore'
    BY <2>1, <2>2 DEF IndInv, MapExact, BeforeStarted, DrainedBefore
  <2> QED BY <2>4, <2>5, <2>6 DEF IndInv
<1> QED BY <1>1, <1>2

\* Every step of a connection's task keeps the invariant.
LEMMA TaskKeeps == ASSUME NEW c \in ConnIds PROVE IndInv /\ ConnectionStep(c) => IndInv'
<1> SUFFICES ASSUME IndInv, ConnectionStep(c) PROVE IndInv'
  OBVIOUS
<1>0. /\ loop' = loop /\ next_id' = next_id /\ attempts' = attempts
      /\ running' = running /\ signalled' = signalled
      /\ stop' = stop /\ overdue' = overdue /\ before' = before /\ cleared' = cleared
      /\ task[c] # "none" /\ task' = [task EXCEPT ![c] = task'[c]] /\ task'[c] \in TaskStates
      /\ task'[c] # "none"
      /\ task[c] \in {"release", "done"} => task'[c] \in {"release", "done"}
  BY DEF ConnectionStep, TaskFirstRead, TaskHandled, TaskRemove, TaskRelease, Task, loopVars,
         stopVars, TaskStates, IndInv, Typed
<1>1. \A d \in ConnIds : task'[d] = IF d = c THEN task'[c] ELSE task[d]
  BY <1>0 DEF IndInv, Typed
<1>2. Registering' = Registering
  BY <1>0 DEF Registering
<1>3. IdsFresh' /\ BeforeStarted' /\ DrainedBefore'
  BY <1>0, <1>1, <1>2 DEF IndInv, Typed, IdsFresh, BeforeStarted, DrainedBefore
<1>4. CASE TaskRelease(c)
  <2>1. /\ task[c] = "release" /\ task'[c] = "done"
        /\ permits' = permits + 1 /\ connections' = connections
    BY <1>4 DEF TaskRelease, Task, IndInv, Typed
  <2>2. Live' = Live \ {c} /\ c \in Live /\ InMap' = InMap
    BY <1>1, <2>1 DEF Live, InMap
  <2>3. Cardinality(Live') = Cardinality(Live) - 1 /\ Cardinality(Live) \in Nat
    BY <2>2, LiveStep DEF IndInv
  <2>4. PermitsExact'
    BY <1>2, <2>1, <2>3 DEF IndInv, Typed, PermitsExact, Registering
  <2>5. MapExact'
    BY <1>0, <2>1, <2>2 DEF IndInv, MapExact
  <2>6. Typed'
    BY <1>0, <2>1 DEF IndInv, Typed
  <2> QED BY <1>3, <2>4, <2>5, <2>6 DEF IndInv
<1>5. CASE TaskRemove(c)
  <2>1. /\ task[c] = "remove" /\ task'[c] = "release"
        /\ permits' = permits /\ connections' = connections \ {c}
    BY <1>5 DEF TaskRemove, Task, IndInv, Typed
  <2>2. Live' = Live /\ InMap' = InMap \ {c}
    BY <1>1, <2>1 DEF Live, InMap
  <2>3. PermitsExact' /\ MapExact'
    BY <1>0, <1>2, <2>1, <2>2 DEF IndInv, PermitsExact, MapExact
  <2>4. Typed'
    BY <1>0, <2>1 DEF IndInv, Typed
  <2> QED BY <1>3, <2>3, <2>4 DEF IndInv
<1>6. CASE TaskFirstRead(c) \/ TaskHandled(c)
  <2>1. /\ task[c] \in {"reading", "handling"} /\ task'[c] \in {"handling", "remove"}
        /\ permits' = permits /\ connections' = connections
    BY <1>6 DEF TaskFirstRead, TaskHandled, Task, IndInv, Typed
  <2>2. Live' = Live /\ InMap' = InMap
    BY <1>1, <2>1 DEF Live, InMap
  <2>3. PermitsExact' /\ MapExact'
    BY <1>0, <1>2, <2>1, <2>2 DEF IndInv, PermitsExact, MapExact
  <2>4. Typed'
    BY <1>0, <2>1 DEF IndInv, Typed
  <2> QED BY <1>3, <2>3, <2>4 DEF IndInv
<1> QED BY <1>4, <1>5, <1>6 DEF ConnectionStep

\* Every step of shutdown() keeps the invariant.
LEMMA StopKeeps == ASSUME NEW s \in Stoppers PROVE IndInv /\ StopStep(s) => IndInv'
<1> SUFFICES ASSUME IndInv, StopStep(s) PROVE IndInv'
  OBVIOUS
<1>0. /\ loop' = loop /\ next_id' = next_id /\ attempts' = attempts
      /\ running' = running /\ permits' = permits /\ task' = task
  BY DEF StopStep, StopSend, StopPoll, StopClear, StopDeadline, loopVars
<1>1. Live' = Live /\ InMap' = InMap /\ Registering' = Registering
  BY <1>0 DEF Live, InMap, Registering
<1>2. PermitsExact' /\ IdsFresh'
  BY <1>0, <1>1 DEF IndInv, PermitsExact, IdsFresh
<1>3. CASE StopSend(s)
  <2>1. signalled' \in BOOLEAN
    BY <1>3 DEF StopSend
  <2>2. Typed'
    BY <1>0, <1>3, <2>1 DEF StopSend, IndInv, Typed, StopStates
  <2>3. MapExact'
    BY <1>1, <1>3 DEF StopSend, IndInv, MapExact
  <2>4. \A x \in Stoppers : before'[x] = IF x = s THEN connections ELSE before[x]
    BY <1>3 DEF StopSend, IndInv, Typed
  <2>5. BeforeStarted'
    BY <1>0, <2>4 DEF IndInv, MapExact, InMap, BeforeStarted
  <2>6. DrainedBefore'
    BY <1>0, <1>3, <2>4 DEF StopSend, IndInv, Typed, DrainedBefore
  <2> QED BY <1>2, <2>2, <2>3, <2>5, <2>6 DEF IndInv
<1>4. CASE StopPoll(s)
  <2>1. Typed' /\ MapExact' /\ BeforeStarted'
    BY <1>0, <1>1, <1>4 DEF StopPoll, loopVars, IndInv, Typed, MapExact, BeforeStarted, StopStates
  <2>2. DrainedBefore'
    <3>1. ASSUME connections = {}, ~cleared, NEW c \in before[s]
          PROVE  task[c] \in {"release", "done"}
      BY <3>1 DEF IndInv, Typed, MapExact, InMap, BeforeStarted, TaskStates
    <3>2. ASSUME NEW x \in Stoppers, stop'[x] = "drained"
          PROVE  stop[x] = "drained" \/ (x = s /\ connections = {})
      BY <1>4, <3>2 DEF StopPoll, IndInv, Typed
    <3>3. before' = before /\ cleared' = cleared
      BY <1>4 DEF StopPoll
    <3> QED BY <1>0, <3>1, <3>2, <3>3 DEF IndInv, DrainedBefore
  <2> QED BY <1>2, <2>1, <2>2 DEF IndInv
<1>5. CASE StopClear(s)
  <2>1. Typed'
    BY <1>0, <1>5 DEF StopClear, loopVars, IndInv, Typed, StopStates
  <2>2. MapExact'
    BY <1>1, <1>5 DEF StopClear, MapExact
  <2>3. BeforeStarted' /\ DrainedBefore'
    BY <1>0, <1>5 DEF StopClear, IndInv, BeforeStarted, DrainedBefore
  <2> QED BY <1>2, <2>1, <2>2, <2>3 DEF IndInv
<1>6. CASE StopDeadline(s)
  BY <1>0, <1>1, <1>2, <1>6
     DEF StopDeadline, loopVars, IndInv, Typed, MapExact, BeforeStarted, DrainedBefore
<1> QED BY <1>3, <1>4, <1>5, <1>6 DEF StopStep

\* The inductive invariant holds of every behaviour.
LEMMA IndInvHolds == TcpSpec => []IndInv
<1>1. IndInv /\ UNCHANGED tcpVars => IndInv'
  BY DEF tcpVars, IndInv, Typed, IdsFresh, PermitsExact, MapExact, BeforeStarted, DrainedBefore,
         Live, InMap, Registering
<1>2. IndInv /\ [TcpNext]_tcpVars => IndInv'
  BY <1>1, LoopKeeps, TaskKeeps, StopKeeps DEF TcpNext
<1> QED BY <1>2, IndInvInit, PTL DEF TcpSpec

\* The server keeps its types: in particular the semaphore never holds more
\* permits than max_connections, and ids are handed out once.
THEOREM TcpTypeCorrect == TcpSpec => []TcpTypeOK
BY IndInvHolds, IndInvTyped, PTL

\* No slot leaks and none is given back twice, for any limit and however many
\* clients come, go and are refused around any number of shutdown() calls.
THEOREM SlotsAreExact == TcpSpec => [](PermitsExact /\ MapExact)
<1>1. IndInv => PermitsExact /\ MapExact
  BY DEF IndInv
<1> QED BY <1>1, IndInvHolds, PTL

\* shutdown() that returns without force has seen every connection it found
\* served to its end.
THEOREM ShutdownDrains == TcpSpec => []DrainedBefore
<1>1. IndInv => DrainedBefore
  BY DEF IndInv
<1> QED BY <1>1, IndInvHolds, PTL

-----------------------------------------------------------------------------
(* FrameCodec: numbers and their bytes *)

Bytes == 0 .. ByteBase - 1

\* A number is its quotient and its remainder; a quotient is as much smaller as
\* the number is.
LEMMA ByteDivision ==
    ASSUME NEW n \in Nat
    PROVE  /\ n \div ByteBase \in Nat /\ n % ByteBase \in Bytes
           /\ n = ByteBase * (n \div ByteBase) + (n % ByteBase)
BY FrameAssumption DEF Bytes

\* A quotient is as much smaller as the number is.
LEMMA ByteQuotient ==
    ASSUME NEW n \in Nat, NEW c \in Nat, n < ByteBase * c
    PROVE  n \div ByteBase < c
<1>1. PICK b \in Nat : b = ByteBase /\ b > 1
  BY FrameAssumption
<1>2. PICK q \in Nat : q = n \div ByteBase
  BY ByteDivision
<1>3. b * q <= n
  <2>1. n = b * q + (n % b) /\ n % b >= 0
    BY <1>1, <1>2, ByteDivision DEF Bytes
  <2>2. b * q \in Nat /\ n % b \in Int
    BY <1>1
  <2> QED BY <2>1, <2>2
<1>4. ASSUME q >= c PROVE FALSE
  <2>1. b * c <= b * q
    BY <1>1, <1>4
  <2>2. b * c \in Nat /\ b * q \in Nat
    BY <1>1
  <2> QED BY <1>1, <1>3, <2>1, <2>2
<1> QED BY <1>2, <1>4

\* The powers of the base.
LEMMA Powers ==
    \E power \in [0 .. LengthBytes -> Nat] :
        /\ power[0] = 1 /\ LengthSpace = power[LengthBytes]
        /\ \A k \in 1 .. LengthBytes : power[k] = ByteBase * power[k - 1]
        /\ LengthSpace \in Nat /\ LengthSpace > 0
<1> DEFINE Body(f) == [k \in 0 .. LengthBytes |-> IF k = 0 THEN 1 ELSE ByteBase * f[k - 1]]
           chosen == CHOOSE f : f = Body(f)
<1> USE FrameAssumption
<1>1. PICK step : step = [k \in 1 .. LengthBytes |-> [v \in Nat |-> ByteBase * v]]
  OBVIOUS
<1>2. step \in [1 .. LengthBytes -> [Nat -> Nat]]
  BY <1>1
<1> LengthBytes \in Nat /\ 1 \in Nat
  OBVIOUS
<1>3. PICK f \in [0 .. LengthBytes -> Nat] : Iterates(f, LengthBytes, 1, step)
  BY <1>2, Iteration
<1>4. f = Body(f)
  <2>1. ASSUME NEW k \in 1 .. LengthBytes PROVE step[k][f[k - 1]] = ByteBase * f[k - 1]
    <3>1. k - 1 \in 0 .. LengthBytes
      OBVIOUS
    <3>2. f[k - 1] \in Nat
      BY <3>1
    <3> QED BY <1>1, <3>2
  <2>2. \A k \in 0 .. LengthBytes : k # 0 => k \in 1 .. LengthBytes
    OBVIOUS
  <2> QED BY <1>3, <2>1, <2>2 DEF Iterates
<1>5. chosen = Body(chosen)
  BY <1>4, Zenon
<1>6. LengthSpace = chosen[LengthBytes]
  BY Zenon DEF LengthSpace
<1>7. PICK p : p = chosen
  OBVIOUS
<1>8. p = Body(p) /\ LengthSpace = p[LengthBytes]
  BY <1>5, <1>6, <1>7
<1> HIDE DEF chosen
<1>9. p[0] = 1 /\ \A k \in 1 .. LengthBytes : p[k] = ByteBase * p[k - 1]
  BY <1>8
<1>10. \A k \in 0 .. LengthBytes : p[k] \in Nat /\ p[k] > 0
  <2> DEFINE G == {k \in 0 .. LengthBytes : p[k] \in Nat /\ p[k] > 0}
  <2>1. 0 \in G
    BY <1>9
  <2>2. ASSUME NEW k \in 1 .. LengthBytes, k - 1 \in G PROVE k \in G
    <3>1. p[k - 1] \in Nat /\ p[k - 1] > 0 /\ k \in 0 .. LengthBytes
      BY <2>2
    <3>2. ByteBase * p[k - 1] \in Nat /\ ByteBase * p[k - 1] > 0
      BY <3>1
    <3> QED BY <1>9, <3>1, <3>2
  <2> HIDE DEF G
  <2>3. \A k \in 0 .. LengthBytes : k \in G
    BY <2>1, <2>2, SetInduction
  <2> QED BY <2>3 DEF G
<1>11. p \in [0 .. LengthBytes -> Nat]
  BY <1>8, <1>10
<1>12. LengthBytes \in 0 .. LengthBytes
  OBVIOUS
<1> QED BY <1>8, <1>9, <1>10, <1>11, <1>12

\* What is left of a length when its low bytes are taken off.
LEMMA Rests ==
    ASSUME NEW n \in Nat
    PROVE  \E rest \in [0 .. LengthBytes -> Nat] :
              /\ rest[0] = n
              /\ \A k \in 1 .. LengthBytes : rest[k] = rest[k - 1] \div ByteBase
              /\ PutLength(n) = [i \in 1 .. LengthBytes |-> rest[LengthBytes - i] % ByteBase]
<1> DEFINE Body(f) == [k \in 0 .. LengthBytes |-> IF k = 0 THEN n ELSE f[k - 1] \div ByteBase]
           chosen == CHOOSE f : f = Body(f)
<1> USE FrameAssumption
<1>1. PICK step : step = [k \in 1 .. LengthBytes |-> [v \in Nat |-> v \div ByteBase]]
  OBVIOUS
<1>2. step \in [1 .. LengthBytes -> [Nat -> Nat]]
  BY <1>1, ByteDivision
<1> LengthBytes \in Nat /\ n \in Nat
  OBVIOUS
<1>3. PICK f \in [0 .. LengthBytes -> Nat] : Iterates(f, LengthBytes, n, step)
  BY <1>2, Iteration
<1>4. f = Body(f)
  <2>1. ASSUME NEW k \in 1 .. LengthBytes PROVE step[k][f[k - 1]] = f[k - 1] \div ByteBase
    <3>1. k - 1 \in 0 .. LengthBytes
      OBVIOUS
    <3>2. f[k - 1] \in Nat
      BY <3>1
    <3> QED BY <1>1, <3>2
  <2>2. \A k \in 0 .. LengthBytes : k # 0 => k \in 1 .. LengthBytes
    OBVIOUS
  <2> QED BY <1>3, <2>1, <2>2 DEF Iterates
<1>5. chosen = Body(chosen)
  BY <1>4, Zenon
<1>6. PutLength(n) = [i \in 1 .. LengthBytes |-> chosen[LengthBytes - i] % ByteBase]
  BY Zenon DEF PutLength
<1>7. PICK p : p = chosen
  OBVIOUS
<1>8. p = Body(p) /\ PutLength(n) = [i \in 1 .. LengthBytes |-> p[LengthBytes - i] % ByteBase]
  BY <1>5, <1>6, <1>7
<1> HIDE DEF chosen
<1>9. p[0] = n /\ \A k \in 1 .. LengthBytes : p[k] = p[k - 1] \div ByteBase
  BY <1>8
<1>10. \A k \in 0 .. LengthBytes : p[k] \in Nat
  <2> DEFINE G == {k \in 0 .. LengthBytes : p[k] \in Nat}
  <2>1. 0 \in G
    BY <1>9
  <2>2. ASSUME NEW k \in 1 .. LengthBytes, k - 1 \in G PROVE k \in G
    <3>1. p[k - 1] \in Nat /\ k \in 0 .. LengthBytes
      BY <2>2
    <3>2. p[k - 1] \div ByteBase \in Nat
      BY <3>1, ByteDivision
    <3> QED BY <1>9, <3>1, <3>2
  <2> HIDE DEF G
  <2>3. \A k \in 0 .. LengthBytes : k \in G
    BY <2>1, <2>2, SetInduction
  <2> QED BY <2>3 DEF G
<1>11. p \in [0 .. LengthBytes -> Nat]
  BY <1>8, <1>10
<1> QED BY <1>8, <1>9, <1>11

\* What the bytes read so far amount to.
LEMMA Values ==
    ASSUME NEW bytes \in Seq(Nat)
    PROVE  \E value : /\ value[0] = 0 /\ GetLength(bytes) = value[Len(bytes)]
                      /\ \A k \in 1 .. Len(bytes) : value[k] = ByteBase * value[k - 1] + bytes[k]
<1> DEFINE Body(f) == [k \in 0 .. Len(bytes) |-> IF k = 0 THEN 0 ELSE ByteBase * f[k - 1] + bytes[k]]
           chosen == CHOOSE f : f = Body(f)
<1> USE FrameAssumption
<1> Len(bytes) \in Nat /\ 0 \in Nat
  OBVIOUS
<1>1. PICK step : step = [k \in 1 .. Len(bytes) |-> [v \in Nat |-> ByteBase * v + bytes[k]]]
  OBVIOUS
<1>2. step \in [1 .. Len(bytes) -> [Nat -> Nat]]
  <2>1. \A k \in 1 .. Len(bytes), v \in Nat : ByteBase * v + bytes[k] \in Nat
    OBVIOUS
  <2> QED BY <1>1, <2>1
<1>3. PICK f \in [0 .. Len(bytes) -> Nat] : Iterates(f, Len(bytes), 0, step)
  BY <1>2, Iteration
<1>4. f = Body(f)
  <2>1. ASSUME NEW k \in 1 .. Len(bytes) PROVE step[k][f[k - 1]] = ByteBase * f[k - 1] + bytes[k]
    <3>1. k - 1 \in 0 .. Len(bytes)
      OBVIOUS
    <3>2. f[k - 1] \in Nat
      BY <3>1
    <3> QED BY <1>1, <3>2
  <2>2. \A k \in 0 .. Len(bytes) : k # 0 => k \in 1 .. Len(bytes)
    OBVIOUS
  <2> QED BY <1>3, <2>1, <2>2 DEF Iterates
<1>5. chosen = Body(chosen)
  BY <1>4, Zenon
<1>6. GetLength(bytes) = chosen[Len(bytes)]
  BY Zenon DEF GetLength
<1>7. PICK p : p = chosen
  OBVIOUS
<1>8. p = Body(p) /\ GetLength(bytes) = p[Len(bytes)]
  BY <1>5, <1>6, <1>7
<1> HIDE DEF chosen
<1>9. p[0] = 0 /\ \A k \in 1 .. Len(bytes) : p[k] = ByteBase * p[k - 1] + bytes[k]
  <2>1. 0 \in 0 .. Len(bytes) /\ \A k \in 1 .. Len(bytes) : k \in 0 .. Len(bytes) /\ k # 0
    OBVIOUS
  <2>2. \A k \in 0 .. Len(bytes) : p[k] = IF k = 0 THEN 0 ELSE ByteBase * p[k - 1] + bytes[k]
    BY <1>8, Zenon
  <2> QED BY <2>1, <2>2, Zenon
<1> QED BY <1>8, <1>9

\* FrameHeader::encode and decode: a length that fits is read as it was written.
LEMMA LengthReadsBack ==
    ASSUME NEW n \in Nat
    PROVE  /\ PutLength(n) \in Seq(Bytes) /\ Len(PutLength(n)) = LengthBytes
           /\ n < LengthSpace => GetLength(PutLength(n)) = n
<1> USE FrameAssumption
<1>1. PICK rest \in [0 .. LengthBytes -> Nat] :
        /\ rest[0] = n
        /\ \A k \in 1 .. LengthBytes : rest[k] = rest[k - 1] \div ByteBase
        /\ PutLength(n) = [i \in 1 .. LengthBytes |-> rest[LengthBytes - i] % ByteBase]
  BY Rests
<1>2. PICK bytes : bytes = PutLength(n)
  OBVIOUS
<1>3. ASSUME NEW i \in 1 .. LengthBytes PROVE bytes[i] = rest[LengthBytes - i] % ByteBase /\ bytes[i] \in Bytes
  <2>1. LengthBytes - i \in 0 .. LengthBytes
    OBVIOUS
  <2>2. rest[LengthBytes - i] \in Nat
    BY <2>1
  <2>3. rest[LengthBytes - i] % ByteBase \in Bytes
    BY <2>2, ByteDivision
  <2> QED BY <1>1, <1>2, <2>3
<1>4. bytes \in Seq(Bytes) /\ Len(bytes) = LengthBytes
  <2>1. bytes = [i \in 1 .. LengthBytes |-> rest[LengthBytes - i] % ByteBase]
    BY <1>1, <1>2
  <2>2. bytes \in [1 .. LengthBytes -> Bytes]
    BY <1>3, <2>1
  <2> QED BY <2>2, LenProperties, SeqDef
<1>5. ASSUME n < LengthSpace PROVE GetLength(bytes) = n
  <2>1. PICK power \in [0 .. LengthBytes -> Nat] :
           /\ power[0] = 1 /\ LengthSpace = power[LengthBytes]
           /\ \A k \in 1 .. LengthBytes : power[k] = ByteBase * power[k - 1]
    BY Powers
  <2>2. \A k \in 0 .. LengthBytes : rest[k] < power[LengthBytes - k]
    <3> DEFINE G == {k \in 0 .. LengthBytes : rest[k] < power[LengthBytes - k]}
    <3>1. 0 \in G
      BY <1>1, <1>5, <2>1
    <3>2. ASSUME NEW k \in 1 .. LengthBytes, k - 1 \in G PROVE k \in G
      <4>1. /\ k \in 0 .. LengthBytes /\ k - 1 \in 0 .. LengthBytes
            /\ LengthBytes - k \in 0 .. LengthBytes /\ LengthBytes - (k - 1) \in 1 .. LengthBytes
            /\ LengthBytes - (k - 1) - 1 = LengthBytes - k
        OBVIOUS
      <4>2. rest[k - 1] \in Nat /\ power[LengthBytes - k] \in Nat
        BY <4>1
      <4>3. rest[k - 1] < ByteBase * power[LengthBytes - k]
        BY <3>2, <4>1, <2>1
      <4>4. rest[k - 1] \div ByteBase < power[LengthBytes - k]
        BY <4>2, <4>3, ByteQuotient
      <4> QED BY <1>1, <4>1, <4>4
    <3> HIDE DEF G
    <3>3. \A k \in 0 .. LengthBytes : k \in G
      BY <3>1, <3>2, SetInduction
    <3> QED BY <3>3 DEF G
  <2>3. bytes \in Seq(Nat)
    BY <1>4 DEF Bytes
  <2>4. PICK value : /\ value[0] = 0 /\ GetLength(bytes) = value[Len(bytes)]
                     /\ \A k \in 1 .. Len(bytes) : value[k] = ByteBase * value[k - 1] + bytes[k]
    BY <2>3, Values
  <2>5. \A k \in 0 .. LengthBytes : value[k] = rest[LengthBytes - k]
    <3> DEFINE G == {k \in 0 .. LengthBytes : value[k] = rest[LengthBytes - k]}
    <3>1. 0 \in G
      <4>1. LengthBytes \in 0 .. LengthBytes /\ LengthBytes - LengthBytes = 0 /\ LengthBytes - 0 = LengthBytes
        OBVIOUS
      <4>2. rest[LengthBytes] < 1
        BY <2>1, <2>2, <4>1
      <4>3. rest[LengthBytes] \in Nat
        BY <4>1
      <4> QED BY <2>4, <4>1, <4>2, <4>3
    <3>2. ASSUME NEW k \in 1 .. LengthBytes, k - 1 \in G PROVE k \in G
      <4>1. /\ k \in 0 .. LengthBytes
            /\ LengthBytes - k \in 0 .. LengthBytes /\ LengthBytes - (k - 1) \in 1 .. LengthBytes
            /\ LengthBytes - (k - 1) - 1 = LengthBytes - k
        OBVIOUS
      <4>2. value[k] = ByteBase * value[k - 1] + bytes[k] /\ value[k - 1] = rest[LengthBytes - (k - 1)]
        BY <3>2, <2>4, <1>4
      <4>3. PICK r \in Nat : r = rest[LengthBytes - k]
        BY <4>1
      <4>4. rest[LengthBytes - (k - 1)] = r \div ByteBase /\ bytes[k] = r % ByteBase
        BY <4>1, <4>3, <1>1, <1>3
      <4>5. r = ByteBase * (r \div ByteBase) + (r % ByteBase)
        BY ByteDivision
      <4> QED BY <4>1, <4>2, <4>3, <4>4, <4>5
    <3> HIDE DEF G
    <3>3. \A k \in 0 .. LengthBytes : k \in G
      BY <3>1, <3>2, SetInduction
    <3> QED BY <3>3 DEF G
  <2>6. value[LengthBytes] = rest[0]
    BY <2>5
  <2> QED BY <1>1, <1>4, <2>4, <2>6
<1> QED BY <1>2, <1>4, <1>5

\* encode: the version, the length, the message.
LEMMA FrameProperties ==
    ASSUME NEW msg \in Seq(Bytes), Len(msg) < LengthSpace
    PROVE  /\ LengthOf(msg) = Len(msg)
           /\ Frame(msg) \in Seq(Bytes) /\ Len(Frame(msg)) = FRAME_HEADER_SIZE + Len(msg)
           /\ Frame(msg)[1] = PROTOCOL_VERSION
           /\ \A i \in 1 .. LengthBytes : Frame(msg)[1 + i] = PutLength(Len(msg))[i]
           /\ \A i \in 1 .. Len(msg) : Frame(msg)[FRAME_HEADER_SIZE + i] = msg[i]
<1> USE FrameAssumption
<1>1. Len(msg) \in Nat /\ LengthSpace \in Nat
  BY Powers
<1>2. LengthOf(msg) = Len(msg)
  BY <1>1 DEF LengthOf
<1>3. PICK p : p = PutLength(Len(msg))
  OBVIOUS
<1>4. p \in Seq(Bytes) /\ Len(p) = LengthBytes
  BY <1>1, <1>3, LengthReadsBack
<1>5. PICK v : v = <<PROTOCOL_VERSION>>
  OBVIOUS
<1>6. v \in Seq(Bytes) /\ Len(v) = 1 /\ v[1] = PROTOCOL_VERSION
  BY <1>5 DEF Bytes
<1>7. PICK h : h = v \o p
  OBVIOUS
<1>8. h \in Seq(Bytes) /\ Joined(h, v, p)
  BY <1>4, <1>6, <1>7, ConcatParts
<1>9. PICK f : f = h \o msg
  OBVIOUS
<1>10. f \in Seq(Bytes) /\ Joined(f, h, msg)
  BY <1>8, <1>9, ConcatParts
<1> USE DEF Joined
<1>11. Frame(msg) = f
  BY <1>2, <1>3, <1>5, <1>7, <1>9 DEF Frame
<1>12. Len(h) = 1 + LengthBytes
  BY <1>4, <1>6, <1>8
<1>13. f[1] = PROTOCOL_VERSION
  <2>1. 1 \in 1 .. Len(h) /\ 1 \in 1 .. Len(v)
    BY <1>6, <1>12
  <2> QED BY <1>6, <1>8, <1>10, <2>1
<1>14. ASSUME NEW i \in 1 .. LengthBytes PROVE f[1 + i] = p[i]
  <2>1. 1 + i \in 1 .. Len(h)
    BY <1>12
  <2> QED BY <1>4, <1>6, <1>8, <1>10, <2>1
<1>15. Len(f) = FRAME_HEADER_SIZE + Len(msg) /\ Len(h) = FRAME_HEADER_SIZE
  BY <1>10, <1>12 DEF FRAME_HEADER_SIZE
<1> QED BY <1>2, <1>3, <1>10, <1>11, <1>13, <1>14, <1>15

\* FrameHeader::decode on the first bytes of a frame.
LEMMA HeaderReads ==
    ASSUME NEW buf \in Seq(Bytes), Len(buf) >= FRAME_HEADER_SIZE,
           NEW msg \in Seq(Bytes), Len(msg) < LengthSpace,
           \A j \in 1 .. FRAME_HEADER_SIZE : buf[j] = Frame(msg)[j]
    PROVE  HeaderVersion(buf) = PROTOCOL_VERSION /\ HeaderLength(buf) = Len(msg)
<1> USE FrameAssumption
<1>1. FRAME_HEADER_SIZE = 1 + LengthBytes /\ Len(msg) \in Nat /\ Len(buf) \in Nat
  BY DEF FRAME_HEADER_SIZE
<1>2. HeaderVersion(buf) = PROTOCOL_VERSION
  <2>1. 1 \in 1 .. FRAME_HEADER_SIZE
    BY <1>1
  <2> QED BY <2>1, FrameProperties DEF HeaderVersion
<1>3. PICK p : p = PutLength(Len(msg))
  OBVIOUS
<1>4. p \in Seq(Bytes) /\ Len(p) = LengthBytes /\ GetLength(p) = Len(msg)
  BY <1>1, <1>3, LengthReadsBack
<1>5. PICK q : q = SubSeq(buf, 2, FRAME_HEADER_SIZE)
  OBVIOUS
<1>6. q \in Seq(Bytes) /\ Len(q) = LengthBytes /\ \A i \in 1 .. LengthBytes : q[i] = buf[1 + i]
  <2>1. 2 \in 1 .. Len(buf) + 1 /\ FRAME_HEADER_SIZE \in 1 .. Len(buf)
    BY <1>1
  <2> QED BY <1>1, <1>5, <2>1, SubSeqProperties
<1>7. ASSUME NEW i \in 1 .. LengthBytes PROVE q[i] = p[i]
  <2>1. 1 + i \in 1 .. FRAME_HEADER_SIZE
    BY <1>1
  <2>2. buf[1 + i] = Frame(msg)[1 + i]
    BY <2>1
  <2>3. Frame(msg)[1 + i] = p[i]
    BY <1>3, FrameProperties
  <2> QED BY <1>6, <2>2, <2>3
<1>8. q = p
  BY <1>4, <1>6, <1>7, SeqEqual
<1> QED BY <1>2, <1>4, <1>5, <1>8 DEF HeaderLength

----------------------------------------------------------------------------
(* What is under way *)

FrameSpec == FrameInit /\ [][FrameNext]_frameVars

Fits(msgs) == \A i \in 1 .. Len(msgs) : Len(msgs[i]) < LengthSpace

\* S says where the frame of each message begins.
Laid(S, msgs) ==
    /\ S \in [Nat -> Nat]
    /\ \A k \in 1 .. Len(msgs) : S[k + 1] = S[k] + FRAME_HEADER_SIZE + Len(msgs[k])
    /\ \A i, k \in 1 .. Len(msgs) + 1 : i <= k => S[i] <= S[k]

\* flow holds the frames of all messages after the first d, and nothing else.
Flows(S, msgs, flow, d) ==
    /\ Len(flow) = S[Len(msgs) + 1] - S[d + 1]
    /\ \A k \in d + 1 .. Len(msgs) : \A j \in 1 .. FRAME_HEADER_SIZE + Len(msgs[k]) :
          flow[S[k] - S[d + 1] + j] = Frame(msgs[k])[j]

FrameTypes ==
    /\ received \in Seq(Seq(Bytes)) /\ ferror \in {"none", "MessageTooLarge"}
    /\ ferror = "none" => wire \in Seq(Bytes) /\ fbuf \in Seq(Bytes)

InOrder ==
    Len(received) <= Len(sent) /\ \A i \in 1 .. Len(received) : received[i] = sent[i]

UnderWay == \E S : Laid(S, sent) /\ Flows(S, sent, fbuf \o wire, Len(received))

Failed == Len(received) < Len(sent) /\ Len(sent[Len(received) + 1]) > ReceiveMax

\* Everything sent and not received is under way, frame after frame, unless decode
\* has failed at a message that is too large for it.
FrameInv ==
    /\ sent \in Seq(Seq(Bytes))
    /\ Fits(sent) => /\ FrameTypes /\ InOrder
                     /\ ferror = "none" => UnderWay
                     /\ ferror # "none" => Failed

\* m is msgs and one message more.
OneMore(m, msgs) == Len(m) = Len(msgs) + 1 /\ \A k \in 1 .. Len(msgs) : m[k] = msgs[k]
Sized(msgs) == \A k \in 1 .. Len(msgs) : Len(msgs[k]) \in Nat

\* A frame more: m has a message more than msgs, and g its frame after flow.
OneFrameMore(m, msgs, g, flow, d) ==
    /\ OneMore(m, msgs) /\ Sized(m) /\ Len(msgs) \in Nat /\ Len(flow) \in Nat /\ d \in 0 .. Len(msgs)
    /\ \E f : /\ f = Frame(m[Len(msgs) + 1]) /\ Len(f) = FRAME_HEADER_SIZE + Len(m[Len(msgs) + 1])
              /\ Joined(g, flow, f)

\* encode: a frame at the end of what is under way.
LEMMA FlowGrows ==
    ASSUME NEW msgs, NEW m, NEW flow, NEW g, NEW d, OneFrameMore(m, msgs, g, flow, d),
           NEW S, Laid(S, msgs), Flows(S, msgs, flow, d)
    PROVE  \E R : Laid(R, m) /\ Flows(R, m, g, d)
<1> SUFFICES ASSUME OneMore(m, msgs), Sized(m), Len(flow) \in Nat,
                    NEW n \in Nat, n = Len(msgs), d \in 0 .. n,
                    NEW f, f = Frame(m[n + 1]), Len(f) = FRAME_HEADER_SIZE + Len(m[n + 1]), Joined(g, flow, f)
             PROVE  \E R : Laid(R, m) /\ Flows(R, m, g, d)
  BY Zenon DEF OneFrameMore
<1>0. PICK l \in Nat : l = Len(m[n + 1])
  <2>1. n + 1 \in 1 .. n + 1
    OBVIOUS
  <2> QED BY <2>1 DEF Sized, OneMore
<1>1. /\ Len(msgs) = n /\ \A k \in 1 .. n : Len(msgs[k]) \in Nat
      /\ Len(m) = n + 1 /\ \A k \in 1 .. n : m[k] = msgs[k]
      /\ l = Len(m[n + 1])
  <2>1. \A k \in 1 .. n : k \in 1 .. n + 1
    OBVIOUS
  <2> QED BY <1>0, <2>1 DEF Sized, OneMore
<1>4. PICK h \in Nat : h = FRAME_HEADER_SIZE
  BY <1>1, FrameAssumption DEF FRAME_HEADER_SIZE
<1>7. Len(f) = h + l
  BY <1>1, <1>4
<1>10. /\ S \in [Nat -> Nat]
       /\ \A k \in 1 .. n : S[k + 1] = S[k] + h + Len(msgs[k])
       /\ \A i, k \in 1 .. n + 1 : i <= k => S[i] <= S[k]
  BY <1>1, <1>4 DEF Laid
<1>11. /\ Len(flow) = S[n + 1] - S[d + 1] /\ Len(flow) \in Nat
       /\ \A k \in d + 1 .. n : \A j \in 1 .. h + Len(msgs[k]) : flow[S[k] - S[d + 1] + j] = Frame(msgs[k])[j]
  BY <1>1, <1>4 DEF Flows
<1>12. PICK R : R = [S EXCEPT ![n + 2] = S[n + 1] + h + l]
  BY <1>1
<1>13. /\ R \in [Nat -> Nat] /\ R[n + 2] = S[n + 1] + h + l
       /\ \A k \in 1 .. n + 1 : R[k] = S[k] /\ S[k] \in Nat
  <2>1. n + 1 \in Nat /\ n + 2 \in Nat
    BY <1>1
  <2>2. S[n + 1] \in Nat
    BY <1>1, <1>10, <2>1
  <2>3. S[n + 1] + h + l \in Nat
    BY <1>1, <2>2
  <2>4. \A k \in 1 .. n + 1 : k \in Nat /\ k # n + 2
    BY <1>1
  <2> QED BY <1>1, <1>10, <1>12, <2>1, <2>3, <2>4
<1>14. Laid(R, m)
  <2>1. ASSUME NEW k \in 1 .. n + 1 PROVE R[k + 1] = R[k] + h + Len(m[k])
    <3>1. CASE k = n + 1
      <4>1. n + 1 \in 1 .. n + 1 /\ n + 1 + 1 = n + 2
        BY <1>1
      <4> QED BY <1>1, <3>1, <4>1, <1>13
    <3>2. CASE k # n + 1
      <4>1. k \in 1 .. n /\ k + 1 \in 1 .. n + 1
        BY <1>1, <3>2
      <4> QED BY <1>1, <4>1, <1>10, <1>13
    <3> QED BY <1>1, <3>1, <3>2
  <2>2. ASSUME NEW i \in 1 .. n + 2, NEW k \in 1 .. n + 2, i <= k PROVE R[i] <= R[k]
    <3>1. CASE i = n + 2
      BY <1>1, <2>2, <3>1, <1>13
    <3>2. CASE i # n + 2 /\ k = n + 2
      <4>1. i \in 1 .. n + 1 /\ n + 1 \in 1 .. n + 1 /\ i <= n + 1
        BY <1>1, <3>2
      <4>2. S[i] <= S[n + 1] /\ R[i] = S[i] /\ S[i] \in Nat /\ S[n + 1] \in Nat
        BY <1>1, <4>1, <1>10, <1>13
      <4>3. R[k] = S[n + 1] + h + l
        BY <1>1, <3>2, <1>13
      <4> QED BY <1>1, <4>2, <4>3
    <3>3. CASE i # n + 2 /\ k # n + 2
      <4>1. i \in 1 .. n + 1 /\ k \in 1 .. n + 1
        BY <1>1, <3>3
      <4> QED BY <1>1, <2>2, <4>1, <1>10, <1>13
    <3> QED BY <1>1, <3>1, <3>2, <3>3
  <2>3. Len(m) + 1 = n + 2
    BY <1>1
  <2> QED BY <1>1, <2>1, <2>2, <2>3, <1>4, <1>13 DEF Laid
<1>15. Flows(R, m, g, d)
  <2>1. d + 1 \in 1 .. n + 1 /\ n + 1 \in 1 .. n + 1
    BY <1>1
  <2>2. R[d + 1] = S[d + 1] /\ S[d + 1] \in Nat /\ R[n + 1] = S[n + 1] /\ S[n + 1] \in Nat
    BY <1>1, <2>1, <1>13
  <2>3. Len(g) = R[n + 2] - R[d + 1]
    <3>1. Len(g) = Len(flow) + Len(f)
      BY <1>1 DEF Joined
    <3>2. Len(f) = h + l /\ Len(flow) = S[n + 1] - S[d + 1] /\ R[n + 2] = S[n + 1] + h + l
      BY <1>1, <1>7, <1>11, <1>13
    <3>3. PICK a \in Nat, c \in Nat : a = S[n + 1] /\ c = S[d + 1]
      BY <2>2
    <3>4. Len(g) = a - c + (h + l)
      BY <3>1, <3>2, <3>3
    <3>5. R[n + 2] = a + h + l /\ R[d + 1] = c
      BY <2>2, <3>2, <3>3
    <3>6. a - c + (h + l) = (a + h + l) - c
      OBVIOUS
    <3> QED BY <3>4, <3>5, <3>6
  <2>4. ASSUME NEW k \in d + 1 .. n + 1, NEW j \in 1 .. h + Len(m[k])
        PROVE  g[R[k] - R[d + 1] + j] = Frame(m[k])[j]
    <3>1. CASE k = n + 1
      <4>1. R[k] - R[d + 1] = Len(flow) /\ j \in 1 .. Len(f)
        BY <1>1, <3>1, <2>2, <1>7, <1>11
      <4>2. g[Len(flow) + j] = f[j]
        BY <1>1, <4>1 DEF Joined
      <4> QED BY <1>1, <3>1, <4>1, <4>2
    <3>2. CASE k # n + 1
      <4>1. k \in 1 .. n /\ k \in d + 1 .. n /\ m[k] = msgs[k] /\ k \in 1 .. n + 1 /\ k + 1 \in 1 .. n + 1
        <5>1. k \in 1 .. n /\ k \in d + 1 .. n /\ k \in 1 .. n + 1 /\ k + 1 \in 1 .. n + 1
          BY <1>1, <3>2
        <5> QED BY <1>1, <5>1
      <4>2. PICK e \in Nat : e = Len(msgs[k])
        BY <1>1, <4>1
      <4>3. /\ S[k + 1] = S[k] + h + e /\ S[k + 1] <= S[n + 1] /\ S[d + 1] <= S[k]
            /\ R[k] = S[k] /\ S[k] \in Nat /\ S[k + 1] \in Nat
        <5>1. S[k + 1] = S[k] + h + e
          BY <1>1, <4>1, <4>2, <1>10
        <5>2. R[k] = S[k] /\ S[k] \in Nat /\ S[k + 1] \in Nat
          BY <1>1, <4>1, <1>13
        <5>3. k + 1 <= n + 1 /\ d + 1 <= k
          BY <1>1, <4>1
        <5>4. S[k + 1] <= S[n + 1]
          BY <1>1, <4>1, <2>1, <5>3, <1>10
        <5>5. S[d + 1] <= S[k]
          BY <1>1, <4>1, <2>1, <5>3, <1>10
        <5> QED BY <1>1, <5>1, <5>2, <5>4, <5>5
      <4>4. S[k] - S[d + 1] + j \in 1 .. Len(flow)
        <5>1. PICK a \in Nat, b \in Nat, c \in Nat, x \in Nat :
                 a = S[n + 1] /\ b = S[d + 1] /\ c = S[k] /\ x = S[k + 1]
          BY <1>1, <4>3, <2>2
        <5>2. x = c + h + e /\ x <= a /\ b <= c
          BY <1>1, <4>3, <5>1
        <5>3. Len(flow) = a - b
          BY <1>1, <5>1, <1>11
        <5>4. j \in 1 .. h + e
          BY <1>1, <4>1, <4>2
        <5>5. c - b + j \in 1 .. a - b
          BY <1>1, <5>2, <5>4
        <5> QED BY <1>1, <5>1, <5>3, <5>5
      <4>5. g[S[k] - S[d + 1] + j] = flow[S[k] - S[d + 1] + j]
        BY <1>1, <4>4 DEF Joined
      <4>6. flow[S[k] - S[d + 1] + j] = Frame(msgs[k])[j]
        BY <1>1, <4>1, <1>11
      <4> QED BY <1>1, <4>1, <4>3, <4>5, <4>6, <2>2
    <3> QED BY <1>1, <3>1, <3>2
  <2>5. Len(m) + 1 = n + 2
    BY <1>1
  <2> QED BY <1>1, <2>3, <2>4, <2>5, <1>4 DEF Flows
<1> QED BY <1>1, <1>14, <1>15

\* rest is flow without its first c bytes.
Dropped(rest, flow, c) == Len(rest) = Len(flow) - c /\ \A i \in 1 .. Len(rest) : rest[i] = flow[c + i]

\* A frame less.
LEMMA FlowShrinks ==
    ASSUME NEW msgs, Sized(msgs), NEW n \in Nat, n = Len(msgs), NEW d \in Nat, d < n,
           NEW flow, NEW S, Laid(S, msgs), Flows(S, msgs, flow, d),
           NEW rest, Dropped(rest, flow, FRAME_HEADER_SIZE + Len(msgs[d + 1]))
    PROVE  Flows(S, msgs, rest, d + 1)
<1>0. PICK e \in Nat : e = Len(msgs[d + 1])
  <2>1. d + 1 \in 1 .. n
    OBVIOUS
  <2> QED BY <2>1 DEF Sized
<1>1. PICK h \in Nat : h = FRAME_HEADER_SIZE
  BY FrameAssumption DEF FRAME_HEADER_SIZE
<1>2. /\ S \in [Nat -> Nat]
      /\ \A k \in 1 .. n : S[k + 1] = S[k] + h + Len(msgs[k])
      /\ \A i, k \in 1 .. n + 1 : i <= k => S[i] <= S[k]
  BY <1>1 DEF Laid
<1>3. /\ Len(flow) = S[n + 1] - S[d + 1]
      /\ \A k \in d + 1 .. n : \A j \in 1 .. h + Len(msgs[k]) : flow[S[k] - S[d + 1] + j] = Frame(msgs[k])[j]
  BY <1>1 DEF Flows
<1>4. Len(rest) = Len(flow) - (h + e) /\ \A i \in 1 .. Len(rest) : rest[i] = flow[h + e + i]
  BY <1>0, <1>1 DEF Dropped
<1>5. d + 1 \in 1 .. n /\ d + 1 + 1 = d + 2 /\ d + 2 \in 1 .. n + 1 /\ n + 1 \in 1 .. n + 1 /\ d + 2 \in Nat
  OBVIOUS
<1>6. PICK a \in Nat, b \in Nat, c \in Nat : a = S[n + 1] /\ b = S[d + 1] /\ c = S[d + 2]
  BY <1>2, <1>5
<1>7. c = b + h + e
  BY <1>0, <1>2, <1>5, <1>6
<1>8. Len(rest) = a - c
  <2>1. Len(rest) = a - b - (h + e)
    BY <1>3, <1>4, <1>6
  <2> QED BY <1>7, <2>1
<1>9. ASSUME NEW k \in d + 2 .. n, NEW j \in 1 .. h + Len(msgs[k])
      PROVE  rest[S[k] - S[d + 2] + j] = Frame(msgs[k])[j]
  <2>1. k \in 1 .. n /\ k \in d + 1 .. n /\ k \in 1 .. n + 1 /\ k + 1 \in 1 .. n + 1 /\ k + 1 <= n + 1 /\ d + 2 <= k
    BY <1>5
  <2>2. PICK s \in Nat, t \in Nat, l \in Nat : s = S[k] /\ t = S[k + 1] /\ l = Len(msgs[k])
    <3>1. Len(msgs[k]) \in Nat
      BY <2>1 DEF Sized
    <3>2. k \in Nat /\ k + 1 \in Nat
      BY <2>1
    <3>3. S[k] \in Nat /\ S[k + 1] \in Nat
      BY <1>2, <3>2
    <3> QED BY <3>1, <3>3
  <2>3. t = s + h + l
    BY <1>2, <2>1, <2>2
  <2>4. t <= a
    BY <1>2, <1>5, <1>6, <2>1, <2>2
  <2>5. c <= s
    BY <1>2, <1>5, <1>6, <2>1, <2>2
  <2>6. j \in 1 .. h + l
    BY <2>2
  <2>7. s - c + j \in 1 .. a - c /\ h + e + (s - c + j) = s - b + j
    <3>1. j \in Nat /\ 1 <= j /\ j <= h + l
      BY <2>6
    <3>2. h + e + (s - c + j) = s - b + j
      BY <1>7, <3>1
    <3>3. s - c + j \in Int /\ 1 <= s - c + j
      BY <2>5, <3>1
    <3>4. s - c + j <= a - c
      BY <2>3, <2>4, <3>1
    <3> QED BY <3>2, <3>3, <3>4
  <2>8. rest[s - c + j] = flow[h + e + (s - c + j)]
    BY <1>4, <1>8, <2>7
  <2>9. flow[s - b + j] = Frame(msgs[k])[j]
    BY <1>3, <1>6, <2>1, <2>2
  <2> QED BY <1>6, <2>2, <2>7, <2>8, <2>9
<1> QED BY <1>1, <1>5, <1>6, <1>8, <1>9 DEF Flows

\* The numbers after two numbers.
LEMMA NextNumbers ==
    ASSUME NEW n \in Nat, NEW d \in 0 .. n
    PROVE  d + 1 \in Nat /\ n + 1 \in Nat
OBVIOUS

\* Where there is a byte there is a frame, and it begins at the first byte.
LEMMA FirstFrame ==
    ASSUME NEW msgs, Sized(msgs), NEW n \in Nat, n = Len(msgs), NEW d \in 0 .. n,
           NEW flow, NEW S, Laid(S, msgs), Flows(S, msgs, flow, d), Len(flow) # 0
    PROVE  /\ d < n
           /\ \A j \in 1 .. FRAME_HEADER_SIZE + Len(msgs[d + 1]) : flow[j] = Frame(msgs[d + 1])[j]
<1>1. d + 1 \in Nat /\ n + 1 \in Nat /\ S \in [Nat -> Nat]
  <2>1. S \in [Nat -> Nat]
    BY Zenon DEF Laid
  <2>2. d + 1 \in Nat /\ n + 1 \in Nat
    BY NextNumbers, Zenon
  <2> QED BY <2>1, <2>2, Zenon
<1>2. PICK a \in Nat, b \in Nat : a = S[n + 1] /\ b = S[d + 1]
  BY <1>1
<1>3. Len(flow) = a - b
  BY <1>2 DEF Flows
<1>4. d < n
  <2>1. SUFFICES ASSUME d = n PROVE FALSE
    OBVIOUS
  <2>2. a = b
    BY <1>2, <2>1
  <2> QED BY <1>3, <2>2
<1>5. ASSUME NEW j \in 1 .. FRAME_HEADER_SIZE + Len(msgs[d + 1]) PROVE flow[j] = Frame(msgs[d + 1])[j]
  <2>1. d + 1 \in d + 1 .. n /\ d + 1 \in 1 .. n
    BY <1>4
  <2>2. flow[S[d + 1] - S[d + 1] + j] = Frame(msgs[d + 1])[j]
    BY <2>1 DEF Flows
  <2>3. PICK c \in Nat : c = FRAME_HEADER_SIZE + Len(msgs[d + 1])
    <3>1. FRAME_HEADER_SIZE \in Nat
      BY FrameAssumption DEF FRAME_HEADER_SIZE
    <3>2. Len(msgs[d + 1]) \in Nat
      BY <2>1 DEF Sized
    <3> QED BY <3>1, <3>2
  <2>4. j \in Nat
    BY <2>3
  <2>5. b - b + j = j
    BY <2>4
  <2> QED BY <1>2, <2>2, <2>5
<1> QED BY <1>4, <1>5

----------------------------------------------------------------------------
(* The steps *)

\* The bytes that are fed only move: the flow is the same.
LEMMA Regrouped ==
    \A b, u, v \in Seq(Bytes) : (b \o u) \o v = b \o (u \o v)
<1>1. ASSUME NEW T, NEW b \in Seq(T), NEW u \in Seq(T), NEW v \in Seq(T)
      PROVE  (b \o u) \o v = b \o (u \o v)
  BY ConcatAssociative
<1> QED BY <1>1

\* Bytes that go from the wire to the receiver's buffer stay in their place.
LEMMA FeedKeepsFlow ==
    ASSUME NEW b \in Seq(Bytes), NEW w \in Seq(Bytes), NEW n \in 1 .. Len(w)
    PROVE  /\ b \o SubSeq(w, 1, n) \in Seq(Bytes) /\ SubSeq(w, n + 1, Len(w)) \in Seq(Bytes)
           /\ (b \o SubSeq(w, 1, n)) \o SubSeq(w, n + 1, Len(w)) = b \o w
<1>1. n \in Nat /\ 1 <= n /\ n <= Len(w) /\ Len(w) \in Nat
  OBVIOUS
<1>2. SubSeq(w, 1, n) \in Seq(Bytes) /\ SubSeq(w, n + 1, Len(w)) \in Seq(Bytes)
  BY <1>1
<1>3. SubSeq(w, 1, n) \o SubSeq(w, n + 1, Len(w)) = w
  <2>1. 1 \in 1 .. Len(w) + 1 /\ n \in 1 - 1 .. Len(w) /\ Len(w) \in n .. Len(w)
    BY <1>1
  <2>2. SubSeq(w, 1, n) \o SubSeq(w, n + 1, Len(w)) = SubSeq(w, 1, Len(w))
    BY <2>1, ConcatAdjacentSubSeq
  <2> QED BY <2>2, SubSeqFull
<1>4. b \o SubSeq(w, 1, n) \in Seq(Bytes)
  BY <1>2, ConcatProperties
<1>5. (b \o SubSeq(w, 1, n)) \o SubSeq(w, n + 1, Len(w)) = b \o (SubSeq(w, 1, n) \o SubSeq(w, n + 1, Len(w)))
  BY <1>2, Regrouped, Zenon
<1> QED BY <1>2, <1>3, <1>4, <1>5, Zenon

\* Messages have sizes.
LEMMA SentSizes ==
    ASSUME sent \in Seq(Seq(Bytes))
    PROVE  Len(sent) \in Nat /\ Sized(sent) /\ \A i \in 1 .. Len(sent) : sent[i] \in Seq(Bytes)
<1>1. \A i \in 1 .. Len(sent) : sent[i] \in Seq(Bytes)
  OBVIOUS
<1>2. \A s \in Seq(Bytes) : Len(s) \in Nat
  OBVIOUS
<1> QED BY <1>1, <1>2 DEF Sized

\* What decode finds at the start of a buffer that holds a header.
LEMMA AtTheStart ==
    ASSUME FrameInv, Fits(sent), ferror = "none", Len(fbuf) >= FRAME_HEADER_SIZE,
           NEW n \in Nat, n = Len(sent), NEW d \in Nat, d = Len(received)
    PROVE  /\ d < n
           /\ HeaderVersion(fbuf) = PROTOCOL_VERSION /\ HeaderLength(fbuf) = Len(sent[d + 1])
           /\ \A j \in 1 .. FRAME_HEADER_SIZE + Len(sent[d + 1]) :
                 j <= Len(fbuf) => fbuf[j] = Frame(sent[d + 1])[j]
<1>1. fbuf \in Seq(Bytes) /\ wire \in Seq(Bytes) /\ d \in 0 .. n
  BY DEF FrameInv, FrameTypes, InOrder
<1>2. PICK S : Laid(S, sent) /\ Flows(S, sent, fbuf \o wire, d)
  BY DEF FrameInv, UnderWay
<1>3. PICK flow : flow = fbuf \o wire
  OBVIOUS
<1>4. Joined(flow, fbuf, wire) /\ Laid(S, sent) /\ Flows(S, sent, flow, d)
  BY <1>1, <1>2, <1>3, ConcatParts
<1>5. Len(fbuf) \in Nat /\ Len(wire) \in Nat /\ Len(fbuf) > 0
  BY <1>1, FrameAssumption DEF FRAME_HEADER_SIZE
<1>6. Len(flow) # 0
  BY <1>4, <1>5 DEF Joined
<1>7. Sized(sent) /\ \A i \in 1 .. n : sent[i] \in Seq(Bytes)
  BY SentSizes DEF FrameInv
<1>8. /\ d < n
      /\ \A j \in 1 .. FRAME_HEADER_SIZE + Len(sent[d + 1]) : flow[j] = Frame(sent[d + 1])[j]
  BY <1>1, <1>4, <1>6, <1>7, FirstFrame
<1>9. PICK msg : msg = sent[d + 1]
  OBVIOUS
<1>10. msg \in Seq(Bytes) /\ Len(msg) < LengthSpace /\ Len(msg) \in Nat
  <2>1. d + 1 \in 1 .. n
    BY <1>8
  <2> QED BY <1>7, <1>9, <2>1 DEF Fits, Sized
<1>11. PICK h \in Nat : h = FRAME_HEADER_SIZE
  BY FrameAssumption DEF FRAME_HEADER_SIZE
<1>12. ASSUME NEW j \in 1 .. h + Len(msg), j <= Len(fbuf) PROVE fbuf[j] = Frame(msg)[j]
  <2>1. j \in 1 .. Len(fbuf)
    BY <1>5, <1>10, <1>12
  <2>2. flow[j] = fbuf[j]
    BY <1>4, <2>1 DEF Joined
  <2> QED BY <1>8, <1>9, <1>11, <2>2
<1>13. \A j \in 1 .. h : j \in 1 .. h + Len(msg) /\ j <= Len(fbuf)
  BY <1>5, <1>10, <1>11
<1>14. HeaderVersion(fbuf) = PROTOCOL_VERSION /\ HeaderLength(fbuf) = Len(msg)
  <2>1. \A j \in 1 .. FRAME_HEADER_SIZE : fbuf[j] = Frame(msg)[j]
    BY <1>11, <1>12, <1>13
  <2> QED BY <1>1, <1>10, <2>1, HeaderReads
<1> QED BY <1>8, <1>9, <1>11, <1>12, <1>14

\* All of msg's frame is at the start of b.
Starts(b, msg) ==
    /\ Len(msg) < LengthSpace /\ FRAME_HEADER_SIZE + Len(msg) <= Len(b)
    /\ \A j \in 1 .. FRAME_HEADER_SIZE + Len(msg) : b[j] = Frame(msg)[j]

\* A frame that is all there comes out as the message that went in.
LEMMA DecodeTakesFrame ==
    ASSUME NEW b \in Seq(Bytes), NEW w \in Seq(Bytes), NEW msg \in Seq(Bytes), Starts(b, msg),
           NEW c, c = FRAME_HEADER_SIZE + Len(msg)
    PROVE  /\ SubSeq(b, FRAME_HEADER_SIZE + 1, c) = msg
           /\ SubSeq(b, c + 1, Len(b)) \in Seq(Bytes)
           /\ Dropped(SubSeq(b, c + 1, Len(b)) \o w, b \o w, c)
<1>1. PICK h \in Nat : h = FRAME_HEADER_SIZE
  BY FrameAssumption DEF FRAME_HEADER_SIZE
<1>2. PICK e \in Nat, N \in Nat, W \in Nat : e = Len(msg) /\ N = Len(b) /\ W = Len(w)
  OBVIOUS
<1>0. c \in Nat /\ Len(msg) < LengthSpace /\ \A j \in 1 .. c : b[j] = Frame(msg)[j]
  <2>1. c = h + e /\ c \in Nat
    BY <1>1, <1>2
  <2> QED BY <2>1 DEF Starts
<1>3. c \in Nat /\ c = h + e /\ c <= N
  BY <1>1, <1>2 DEF Starts
<1>4. PICK u : u = SubSeq(b, h + 1, c)
  OBVIOUS
<1>5. u \in Seq(Bytes) /\ Len(u) = e /\ \A i \in 1 .. e : u[i] = b[h + i]
  <2>1. \A i \in h + 1 .. c : b[i] \in Bytes
    BY <1>2, <1>3
  <2>2. /\ Len(u) = IF h + 1 <= c THEN c - (h + 1) + 1 ELSE 0
        /\ u \in Seq(Bytes) /\ \A i \in 1 .. c - (h + 1) + 1 : u[i] = b[h + 1 + i - 1]
    BY <1>4, <2>1, SubSeqProperties
  <2> QED BY <1>3, <2>2
<1>6. ASSUME NEW i \in 1 .. e PROVE u[i] = msg[i]
  <2>1. h + i \in 1 .. c
    BY <1>3
  <2>2. Frame(msg)[h + i] = msg[i]
    BY <1>0, <1>1, <1>2, FrameProperties
  <2>3. b[h + i] = Frame(msg)[h + i]
    BY <1>0, <2>1
  <2> QED BY <1>5, <2>2, <2>3
<1>7. u = msg
  BY <1>2, <1>5, <1>6, SeqEqual
<1>8. PICK v : v = SubSeq(b, c + 1, N)
  OBVIOUS
<1>15. PICK x \in Nat : N = c + x
  <2>1. N - c \in Nat /\ N = c + (N - c)
    BY <1>3
  <2> QED BY <2>1, Zenon
<1>9. v \in Seq(Bytes) /\ Len(v) = x /\ \A i \in 1 .. x : v[i] = b[c + i]
  <2>1. \A i \in c + 1 .. N : b[i] \in Bytes
    BY <1>2, <1>3
  <2>2. /\ Len(v) = IF c + 1 <= N THEN N - (c + 1) + 1 ELSE 0
        /\ v \in Seq(Bytes) /\ \A i \in 1 .. N - (c + 1) + 1 : v[i] = b[c + 1 + i - 1]
    BY <1>8, <2>1, SubSeqProperties
  <2>3. N - (c + 1) + 1 = x /\ (IF c + 1 <= N THEN N - (c + 1) + 1 ELSE 0) = x
    BY <1>15
  <2>4. \A i \in 1 .. x : c + 1 + i - 1 = c + i
    OBVIOUS
  <2> QED BY <2>2, <2>3, <2>4
<1>10. PICK f, r : f = b \o w /\ r = v \o w
  OBVIOUS
<1>11. Joined(f, b, w) /\ Joined(r, v, w)
  BY <1>9, <1>10, ConcatParts
<1>12. Len(f) = N + W /\ Len(r) = x + W
  BY <1>2, <1>9, <1>11 DEF Joined
<1>13. ASSUME NEW i \in 1 .. x + W PROVE r[i] = f[c + i]
  <2>0. i \in Nat
    OBVIOUS
  <2>1. CASE i <= x
    <3>1. i \in 1 .. x /\ c + i \in 1 .. N
      <4>1. c \in Nat
        BY <1>3
      <4>2. i \in 1 .. x
        BY <2>0, <2>1
      <4> QED BY <1>15, <4>1, <4>2
    <3>2. r[i] = v[i] /\ f[c + i] = b[c + i]
      BY <1>2, <1>9, <1>11, <3>1 DEF Joined
    <3> QED BY <1>9, <3>1, <3>2
  <2>2. CASE ~(i <= x)
    <3>1. PICK k \in 1 .. W : i = x + k
      <4>1. i - x \in 1 .. W /\ i = x + (i - x)
        BY <2>0, <2>2
      <4> QED BY <4>1, Zenon
    <3>2. r[x + k] = w[k] /\ f[N + k] = w[k]
      BY <1>2, <1>9, <1>11, <3>1 DEF Joined
    <3>3. c + (x + k) = N + k
      BY <1>15
    <3> QED BY <3>1, <3>2, <3>3
  <2> QED BY <2>1, <2>2
<1>14. Dropped(r, f, c)
  <2>1. Len(r) = x + W /\ Len(f) - c = x + W
    BY <1>12, <1>15
  <2> QED BY <1>13, <2>1 DEF Dropped
<1> QED BY <1>1, <1>2, <1>4, <1>7, <1>8, <1>9, <1>10, <1>14

\* At the start nothing is under way.
LEMMA FrameStarts == FrameInit => FrameInv
<1> SUFFICES ASSUME FrameInit PROVE FrameInv
  OBVIOUS
<1>1. /\ wire = <<>> /\ sent = <<>> /\ fbuf = <<>> /\ received = <<>> /\ ferror = "none"
  BY DEF FrameInit
<1>2. Len(sent) = 0 /\ Len(received) = 0 /\ fbuf \o wire = <<>> /\ Len(<<>>) = 0
  BY <1>1
<1>3. PICK S : S = [k \in Nat |-> 0]
  OBVIOUS
<1>4. Laid(S, sent)
  BY <1>2, <1>3 DEF Laid
<1>5. Flows(S, sent, fbuf \o wire, Len(received))
  <2>1. Len(sent) + 1 = 1 /\ Len(received) + 1 = 1 /\ S[1] = 0 /\ 1 .. Len(sent) = {}
    BY <1>2, <1>3
  <2> QED BY <1>2, <2>1 DEF Flows
<1>6. UnderWay
  BY <1>4, <1>5 DEF UnderWay
<1>7. FrameTypes /\ InOrder /\ sent \in Seq(Seq(Bytes))
  BY <1>1 DEF FrameTypes, InOrder
<1> QED BY <1>1, <1>6, <1>7 DEF FrameInv

\* One message more.
Encoded(msg) ==
    wire' = wire \o Frame(msg) /\ sent' = Append(sent, msg) /\ UNCHANGED <<fbuf, received, ferror>>

\* encode: one message more, in all of a frame.
LEMMA EncodeKeeps ==
    ASSUME FrameInv, NEW msg \in Seq(Bytes), Encoded(msg), Fits(sent')
    PROVE  FrameInv'
<1>0. PICK n \in Nat : n = Len(sent)
  BY DEF FrameInv
<1>1. sent' \in Seq(Seq(Bytes)) /\ Len(sent') = n + 1 /\ sent'[n + 1] = msg /\ \A k \in 1 .. n : sent'[k] = sent[k]
  BY <1>0, AppendProperties DEF FrameInv, Encoded
<1>14. fbuf' = fbuf /\ received' = received /\ ferror' = ferror /\ wire' = wire \o Frame(msg)
  BY DEF Encoded
<1>2. Sized(sent') /\ OneMore(sent', sent)
  <2>1. \A i \in 1 .. n + 1 : sent'[i] \in Seq(Bytes)
    BY <1>1
  <2>2. \A s \in Seq(Bytes) : Len(s) \in Nat
    OBVIOUS
  <2> QED BY <1>0, <1>1, <2>1, <2>2 DEF Sized, OneMore
<1>3. Fits(sent) /\ Len(msg) < LengthSpace
  <2>1. \A i \in 1 .. n + 1 : Len(sent'[i]) < LengthSpace
    BY <1>1, Zenon DEF Fits
  <2>2. n + 1 \in 1 .. n + 1 /\ \A i \in 1 .. n : i \in 1 .. n + 1
    OBVIOUS
  <2> QED BY <1>0, <1>1, <2>1, <2>2 DEF Fits
<1>4. FrameTypes /\ InOrder /\ (ferror = "none" => UnderWay) /\ (ferror # "none" => Failed)
  BY <1>3 DEF FrameInv
<1>5. PICK f : f = Frame(msg)
  OBVIOUS
<1>6. f \in Seq(Bytes) /\ Len(f) = FRAME_HEADER_SIZE + Len(msg)
  BY <1>3, <1>5, FrameProperties
<1>7. PICK d \in Nat : d = Len(received)
  BY <1>4 DEF FrameTypes
<1>8. d \in 0 .. n /\ \A i \in 1 .. d : received[i] = sent[i]
  BY <1>0, <1>4, <1>7 DEF InOrder
<1>9. ASSUME ferror = "none"
      PROVE  fbuf \in Seq(Bytes) /\ wire \in Seq(Bytes) /\ wire' \in Seq(Bytes)
  <2>1. fbuf \in Seq(Bytes) /\ wire \in Seq(Bytes)
    BY <1>4, <1>9 DEF FrameTypes
  <2> QED BY <1>5, <1>6, <1>14, <2>1, ConcatProperties
<1>10. FrameTypes'
  BY <1>4, <1>9, <1>14 DEF FrameTypes
<1>11. InOrder'
  <2>1. d <= n + 1 /\ \A i \in 1 .. d : i \in 1 .. n
    BY <1>8
  <2> QED BY <1>1, <1>7, <1>8, <1>14, <2>1 DEF InOrder
<1>12. ASSUME ferror = "none" PROVE UnderWay'
  <2>1. PICK S : Laid(S, sent) /\ Flows(S, sent, fbuf \o wire, d)
    BY <1>4, <1>7, <1>12 DEF UnderWay
  <2>2. PICK flow, g : flow = fbuf \o wire /\ g = fbuf' \o wire'
    OBVIOUS
  <2>3. g = flow \o f
    <3>1. (fbuf \o wire) \o f = fbuf \o (wire \o f)
      BY <1>6, <1>9, <1>12, Regrouped, Zenon
    <3>2. fbuf' = fbuf /\ wire' = wire \o f
      BY <1>5, <1>14
    <3> QED BY <2>2, <3>1, <3>2, Zenon
  <2>4. flow \in Seq(Bytes)
    BY <1>9, <1>12, <2>2, ConcatProperties
  <2>5. Joined(g, flow, f) /\ Len(flow) \in Nat
    BY <1>6, <2>3, <2>4, ConcatParts
  <2>6. f = Frame(sent'[n + 1]) /\ Len(f) = FRAME_HEADER_SIZE + Len(sent'[n + 1])
    BY <1>1, <1>5, <1>6
  <2>7. \E R : Laid(R, sent') /\ Flows(R, sent', g, d)
    <3>1. OneFrameMore(sent', sent, g, flow, d)
      BY <1>0, <1>2, <1>8, <2>5, <2>6, Zenon DEF OneFrameMore
    <3> QED BY <2>1, <2>2, <3>1, FlowGrows, Zenon
  <2>8. d = Len(received')
    BY <1>7, <1>14
  <2> QED BY <2>2, <2>7, <2>8 DEF UnderWay
<1>13. ASSUME ferror # "none" PROVE Failed'
  <2>1. d < n /\ Len(sent[d + 1]) > ReceiveMax
    BY <1>0, <1>4, <1>7, <1>13 DEF Failed
  <2>2. d + 1 \in 1 .. n /\ d < n + 1
    BY <2>1
  <2> QED BY <1>1, <1>7, <1>14, <2>1, <2>2 DEF Failed
<1> QED BY <1>1, <1>10, <1>11, <1>12, <1>13, <1>14 DEF FrameInv

\* The receiver reads some bytes.
LEMMA FeedKeeps ==
    ASSUME FrameInv, NEW n \in 1 .. Len(wire), Feed(n)
    PROVE  FrameInv'
<1>1. sent' = sent /\ received' = received /\ ferror' = ferror
  BY DEF Feed
<1>2. ASSUME Fits(sent), ferror = "none" PROVE FrameTypes' /\ InOrder' /\ UnderWay'
  <2>1. FrameTypes /\ InOrder /\ UnderWay
    BY <1>2 DEF FrameInv
  <2>2. fbuf \in Seq(Bytes) /\ wire \in Seq(Bytes)
    BY <1>2, <2>1 DEF FrameTypes
  <2>3. fbuf' = fbuf \o SubSeq(wire, 1, n) /\ wire' = SubSeq(wire, n + 1, Len(wire))
    BY DEF Feed
  <2>4. fbuf' \in Seq(Bytes) /\ wire' \in Seq(Bytes) /\ fbuf' \o wire' = fbuf \o wire
    BY <2>2, <2>3, FeedKeepsFlow
  <2>5. FrameTypes' /\ InOrder'
    BY <1>1, <2>1, <2>4 DEF FrameTypes, InOrder
  <2>6. UnderWay'
    BY <1>1, <2>1, <2>4 DEF UnderWay
  <2> QED BY <2>5, <2>6
<1>3. ASSUME Fits(sent), ferror # "none" PROVE FrameTypes' /\ InOrder' /\ Failed'
  BY <1>1, <1>3 DEF FrameInv, FrameTypes, InOrder, Failed
<1>4. Fits(sent') => Fits(sent)
  BY <1>1
<1>5. sent' \in Seq(Seq(Bytes))
  BY <1>1 DEF FrameInv
<1> QED BY <1>1, <1>2, <1>3, <1>4, <1>5 DEF FrameInv

\* FrameCodec::decode: it fails, or takes the next message; what it does after an
\* error is not recorded.
LEMMA DecodeKeeps ==
    ASSUME FrameInv, Decode
    PROVE  FrameInv'
<1>1. sent' = sent /\ wire' = wire /\ HasCompleteFrame
  BY DEF Decode
<1>2. ASSUME Fits(sent), ferror = "none"
      PROVE  FrameTypes' /\ InOrder' /\ (ferror' = "none" => UnderWay') /\ (ferror' # "none" => Failed')
  <2>1. FrameTypes /\ InOrder /\ UnderWay /\ sent \in Seq(Seq(Bytes))
    BY <1>2 DEF FrameInv
  <2>2. PICK n \in Nat, d \in Nat : n = Len(sent) /\ d = Len(received)
    BY <2>1 DEF FrameTypes
  <2>3. fbuf \in Seq(Bytes) /\ wire \in Seq(Bytes) /\ received \in Seq(Seq(Bytes))
    BY <1>2, <2>1 DEF FrameTypes
  <2>4. Len(fbuf) >= FRAME_HEADER_SIZE
    BY <1>1 DEF HasCompleteFrame
  <2>5. /\ d < n
        /\ HeaderVersion(fbuf) = PROTOCOL_VERSION /\ HeaderLength(fbuf) = Len(sent[d + 1])
        /\ \A j \in 1 .. FRAME_HEADER_SIZE + Len(sent[d + 1]) :
              j <= Len(fbuf) => fbuf[j] = Frame(sent[d + 1])[j]
    BY <1>1, <1>2, <2>2, <2>4, AtTheStart
  <2>6. d + 1 \in 1 .. n /\ d + 1 <= n /\ d < n
    BY <2>5
  <2>7. PICK msg : msg = sent[d + 1]
    OBVIOUS
  <2>8. msg \in Seq(Bytes) /\ Len(msg) < LengthSpace /\ Sized(sent)
    BY <1>2, <2>1, <2>2, <2>6, <2>7, SentSizes DEF Fits
  <2>9. \A i \in 1 .. d : received[i] = sent[i]
    BY <2>1, <2>2 DEF InOrder
  <2>10. CASE HeaderLength(fbuf) > ReceiveMax
    <3>1. ferror' = "MessageTooLarge" /\ fbuf' = <<>> /\ received' = received
      <4>1. HeaderLength(fbuf) \in Nat /\ ReceiveMax \in Nat
        BY <2>5, <2>7, <2>8, FrameAssumption
      <4>2. ~(HeaderLength(fbuf) <= ReceiveMax)
        BY <4>1, <2>10
      <4> QED BY <1>2, <2>5, <4>2 DEF Decode, Fails
    <3>2. FrameTypes'
      BY <1>1, <2>3, <3>1 DEF FrameTypes
    <3>3. InOrder' /\ Failed'
      BY <1>1, <2>1, <2>2, <2>5, <2>10, <3>1 DEF InOrder, Failed
    <3> QED BY <3>1, <3>2, <3>3
  <2>11. CASE ~(HeaderLength(fbuf) > ReceiveMax)
    <3>1. PICK c : c = FRAME_HEADER_SIZE + Len(msg)
      OBVIOUS
    <3>2. FrameSize(fbuf) = c
      BY <2>5, <2>7, <3>1 DEF FrameSize
    <3>3. /\ received' = Append(received, SubSeq(fbuf, FRAME_HEADER_SIZE + 1, c))
          /\ fbuf' = SubSeq(fbuf, c + 1, Len(fbuf)) /\ ferror' = ferror
      BY <1>2, <2>5, <2>11, <3>2 DEF Decode, Returns
    <3>4. Starts(fbuf, msg)
      <4>1. c <= Len(fbuf)
        <5>1. Len(fbuf) >= FrameSize(fbuf)
          BY <1>1, <2>5, <2>11 DEF HasCompleteFrame
        <5> QED BY <3>2, <5>1
      <4>2. c \in Nat /\ Len(fbuf) \in Nat
        BY <2>3, <2>8, <3>1, FrameAssumption DEF FRAME_HEADER_SIZE
      <4>3. \A j \in 1 .. c : j <= Len(fbuf)
        BY <4>1, <4>2
      <4>4. \A j \in 1 .. c : fbuf[j] = Frame(msg)[j]
        BY <2>5, <2>7, <3>1, <4>3
      <4> QED BY <2>8, <3>1, <4>1, <4>4 DEF Starts
    <3>5. /\ SubSeq(fbuf, FRAME_HEADER_SIZE + 1, c) = msg
          /\ fbuf' \in Seq(Bytes) /\ Dropped(fbuf' \o wire, fbuf \o wire, c)
      BY <2>3, <2>8, <3>1, <3>3, <3>4, DecodeTakesFrame
    <3>6. /\ received' \in Seq(Seq(Bytes)) /\ Len(received') = d + 1 /\ received'[d + 1] = msg
          /\ \A i \in 1 .. d : received'[i] = received[i]
      <4>1. received' = Append(received, msg)
        BY <3>3, <3>5, Zenon
      <4>2. received \in Seq(Seq(Bytes)) /\ msg \in Seq(Bytes)
        BY <2>3, <2>8
      <4> QED BY <2>2, <4>1, <4>2, AppendProperties
    <3>7. FrameTypes'
      BY <1>1, <2>1, <3>3, <3>5, <3>6 DEF FrameTypes
    <3>8. InOrder'
      <4>1. ASSUME NEW i \in 1 .. d + 1 PROVE received'[i] = sent[i]
        <5>1. CASE i = d + 1
          BY <2>7, <3>6, <5>1
        <5>2. CASE i # d + 1
          <6>1. i \in 1 .. d
            BY <5>2
          <6> QED BY <2>9, <3>6, <6>1
        <5> QED BY <5>1, <5>2
      <4> QED BY <1>1, <2>2, <2>6, <3>6, <4>1 DEF InOrder
    <3>9. UnderWay'
      <4>1. PICK S : Laid(S, sent) /\ Flows(S, sent, fbuf \o wire, d)
        BY <2>1, <2>2 DEF UnderWay
      <4>2. PICK flow, rest : flow = fbuf \o wire /\ rest = fbuf' \o wire
        OBVIOUS
      <4>3. Dropped(rest, flow, FRAME_HEADER_SIZE + Len(sent[d + 1])) /\ Flows(S, sent, flow, d)
        BY <2>7, <3>1, <3>5, <4>1, <4>2
      <4>4. Flows(S, sent, rest, d + 1)
        BY <2>2, <2>6, <2>8, <4>1, <4>3, FlowShrinks
      <4>5. sent' = sent /\ fbuf' \o wire' = rest /\ Len(received') = d + 1
        BY <1>1, <3>6, <4>2
      <4> QED BY <4>1, <4>4, <4>5 DEF UnderWay
    <3> QED BY <1>2, <3>3, <3>7, <3>8, <3>9
  <2> QED BY <2>10, <2>11
<1>3. ASSUME Fits(sent), ferror # "none" PROVE FrameTypes' /\ InOrder' /\ Failed' /\ ferror' # "none"
  <2>1. received' = received /\ ferror' = ferror
    BY <1>3 DEF Decode, Fails, Returns
  <2> QED BY <1>1, <1>3, <2>1 DEF FrameInv, FrameTypes, InOrder, Failed
<1>4. Fits(sent') => Fits(sent)
  BY <1>1
<1>5. sent' \in Seq(Seq(Bytes))
  BY <1>1 DEF FrameInv
<1> QED BY <1>1, <1>2, <1>3, <1>4, <1>5 DEF FrameInv

\* Every step of the sender, the wire and the receiver.
LEMMA FrameStep == FrameInv /\ [FrameNext]_frameVars => FrameInv'
<1> SUFFICES ASSUME FrameInv, [FrameNext]_frameVars PROVE FrameInv'
  OBVIOUS
<1>1. ASSUME NEW msg \in Payloads, Encode(msg) PROVE FrameInv'
  <2>1. msg \in Seq(Bytes)
    BY FrameAssumption DEF Bytes
  <2>2. CASE LengthOf(msg) > SendMax
    <3>1. wire' = wire /\ sent' = sent /\ fbuf' = fbuf /\ received' = received /\ ferror' = ferror
      BY <1>1, <2>2 DEF Encode
    <3> QED BY <3>1 DEF FrameInv, FrameTypes, InOrder, UnderWay, Failed
  <2>3. CASE ~(LengthOf(msg) > SendMax)
    <3>1. Encoded(msg)
      BY <1>1, <2>3 DEF Encode, Encoded
    <3>2. sent' \in Seq(Seq(Bytes))
      BY <2>1, <3>1, AppendProperties DEF Encoded, FrameInv
    <3>3. CASE Fits(sent')
      BY <2>1, <3>1, <3>3, EncodeKeeps
    <3>4. CASE ~Fits(sent')
      BY <3>2, <3>4 DEF FrameInv
    <3> QED BY <3>3, <3>4
  <2> QED BY <2>2, <2>3
<1>2. ASSUME NEW n \in 1 .. Len(wire), Feed(n) PROVE FrameInv'
  BY <1>2, FeedKeeps
<1>3. ASSUME Decode PROVE FrameInv'
  BY <1>3, DecodeKeeps
<1>4. ASSUME UNCHANGED frameVars PROVE FrameInv'
  BY <1>4 DEF frameVars, FrameInv, FrameTypes, InOrder, UnderWay, Failed
<1> QED BY <1>1, <1>2, <1>3, <1>4 DEF FrameNext

\* As long as a message is missing, all of its frame is under way.
LEMMA WholeFrame ==
    ASSUME NEW msgs, Sized(msgs), NEW n \in Nat, n = Len(msgs), NEW d \in Nat, d < n,
           NEW flow, NEW S, Laid(S, msgs), Flows(S, msgs, flow, d)
    PROVE  Len(flow) >= FRAME_HEADER_SIZE + Len(msgs[d + 1])
<1>1. PICK h \in Nat : h = FRAME_HEADER_SIZE
  BY FrameAssumption DEF FRAME_HEADER_SIZE
<1>2. d + 1 \in 1 .. n /\ d + 1 + 1 = d + 2 /\ d + 2 \in 1 .. n + 1 /\ n + 1 \in 1 .. n + 1 /\ d + 2 <= n + 1
  OBVIOUS
<1>3. PICK e \in Nat : e = Len(msgs[d + 1])
  BY <1>2 DEF Sized
<1>4. /\ S \in [Nat -> Nat]
      /\ \A k \in 1 .. n : S[k + 1] = S[k] + h + Len(msgs[k])
      /\ \A i, k \in 1 .. n + 1 : i <= k => S[i] <= S[k]
  BY <1>1 DEF Laid
<1>5. PICK a \in Nat, b \in Nat, c \in Nat : a = S[n + 1] /\ b = S[d + 1] /\ c = S[d + 2]
  BY <1>2, <1>4
<1>6. c = b + h + e
  BY <1>2, <1>3, <1>4, <1>5
<1>7. c <= a
  BY <1>2, <1>4, <1>5
<1>8. Len(flow) = a - b
  BY <1>5 DEF Flows
<1>9. a - b >= h + e
  BY <1>6, <1>7
<1> QED BY <1>1, <1>3, <1>8, <1>9

\* What is received is the start of what was sent, and a decode that makes no headway
\* when all bytes are there has met a message that is too large.
LEMMA FrameConclusion == FrameInv => FramesIntact
<1> SUFFICES ASSUME FrameInv, \A i \in DOMAIN sent : Len(sent[i]) < LengthSpace
             PROVE  /\ IsPrefix(received, sent)
                    /\ (wire = <<>> /\ fbuf = <<>> /\ ferror = "none") => received = sent
                    /\ (wire = <<>> /\ ~HasCompleteFrame /\ ferror = "none") => fbuf = <<>>
                    /\ ferror # "none" => /\ ferror = "MessageTooLarge"
                                          /\ Len(sent[Len(received) + 1]) > ReceiveMax
  BY Zenon DEF FramesIntact, AllFit
<1>1. sent \in Seq(Seq(Bytes)) /\ DOMAIN sent = 1 .. Len(sent)
  BY DEF FrameInv
<1>2. Fits(sent)
  BY <1>1 DEF Fits
<1>3. FrameTypes /\ InOrder /\ (ferror = "none" => UnderWay) /\ (ferror # "none" => Failed)
  BY <1>2 DEF FrameInv
<1>4. received \in Seq(Seq(Bytes)) /\ (ferror = "none" => fbuf \in Seq(Bytes) /\ wire \in Seq(Bytes))
  BY <1>3 DEF FrameTypes
<1>5. PICK n \in Nat, d \in Nat : n = Len(sent) /\ d = Len(received)
  <2>1. Len(sent) \in Nat
    BY <1>1, LenProperties
  <2>2. Len(received) \in Nat
    BY <1>4, LenProperties
  <2> QED BY <2>1, <2>2
<1>6. d <= n /\ \A i \in 1 .. d : received[i] = sent[i]
  BY <1>3, <1>5 DEF InOrder
<1>7. Sized(sent)
  BY <1>1, SentSizes
<1>8. IsPrefix(received, sent)
  <2>1. SubSeq(received, 1, d) = SubSeq(sent, 1, d)
    <3>1. \A i \in 1 .. d : received[i] \in Seq(Bytes) /\ sent[i] \in Seq(Bytes)
      <4>1. \A i \in 1 .. d : i \in 1 .. n
        BY <1>6
      <4> QED BY <1>1, <1>4, <1>5, <4>1
    <3>2. PICK u, v : u = SubSeq(received, 1, d) /\ v = SubSeq(sent, 1, d)
      OBVIOUS
    <3>3. u \in Seq(Seq(Bytes)) /\ Len(u) = d /\ \A i \in 1 .. d : u[i] = received[i]
      <4>1. d - 1 + 1 = d /\ (IF 1 <= d THEN d ELSE 0) = d /\ \A i \in 1 .. d : 1 + i - 1 = i
        OBVIOUS
      <4>2. /\ u \in Seq(Seq(Bytes)) /\ Len(u) = IF 1 <= d THEN d - 1 + 1 ELSE 0
            /\ \A i \in 1 .. d - 1 + 1 : u[i] = received[1 + i - 1]
        BY <3>1, <3>2, SubSeqProperties
      <4> QED BY <4>1, <4>2
    <3>4. v \in Seq(Seq(Bytes)) /\ Len(v) = d /\ \A i \in 1 .. d : v[i] = sent[i]
      <4>1. d - 1 + 1 = d /\ (IF 1 <= d THEN d ELSE 0) = d /\ \A i \in 1 .. d : 1 + i - 1 = i
        OBVIOUS
      <4>2. /\ v \in Seq(Seq(Bytes)) /\ Len(v) = IF 1 <= d THEN d - 1 + 1 ELSE 0
            /\ \A i \in 1 .. d - 1 + 1 : v[i] = sent[1 + i - 1]
        BY <3>1, <3>2, SubSeqProperties
      <4> QED BY <4>1, <4>2
    <3> QED BY <1>6, <3>2, <3>3, <3>4, SeqEqual
  <2> QED BY <1>5, <1>6, <2>1 DEF IsPrefix
<1>9. ASSUME wire = <<>>, ferror = "none", d < n
      PROVE  Len(fbuf) >= FRAME_HEADER_SIZE + Len(sent[d + 1])
  <2>1. PICK S : Laid(S, sent) /\ Flows(S, sent, fbuf \o wire, d)
    BY <1>3, <1>5, <1>9 DEF UnderWay
  <2>2. fbuf \o wire = fbuf
    BY <1>4, <1>9, ConcatEmptySeq
  <2>3. Flows(S, sent, fbuf, d)
    BY <2>1, <2>2, Zenon
  <2> QED BY <1>5, <1>7, <1>9, <2>1, <2>3, WholeFrame
<1>10. ASSUME d < n PROVE Len(sent[d + 1]) \in Nat
  <2>1. d + 1 \in 1 .. n
    BY <1>10
  <2> QED BY <1>5, <1>7, <2>1 DEF Sized
<1>11. FRAME_HEADER_SIZE \in Nat /\ FRAME_HEADER_SIZE > 0 /\ (ferror = "none" => Len(fbuf) \in Nat)
  <2>1. LengthBytes \in Nat
    BY FrameAssumption
  <2>2. FRAME_HEADER_SIZE \in Nat /\ FRAME_HEADER_SIZE > 0
    BY <2>1 DEF FRAME_HEADER_SIZE
  <2> QED BY <1>4, <2>2
<1>12. ASSUME wire = <<>>, fbuf = <<>>, ferror = "none" PROVE received = sent
  <2>1. Len(fbuf) = 0
    BY <1>12
  <2>2. ~(d < n)
    <3>1. SUFFICES ASSUME d < n PROVE FALSE
      OBVIOUS
    <3>2. Len(fbuf) >= FRAME_HEADER_SIZE + Len(sent[d + 1])
      BY <1>9, <1>12, <3>1
    <3> QED BY <1>10, <1>11, <1>12, <2>1, <3>1, <3>2
  <2>3. d = n
    BY <1>6, <2>2
  <2> QED BY <1>1, <1>4, <1>5, <1>6, <2>3, SeqEqual
<1>13. ASSUME wire = <<>>, ~HasCompleteFrame, ferror = "none", fbuf # <<>> PROVE FALSE
  <2>1. Len(fbuf) # 0
    BY <1>4, <1>13, EmptySeq
  <2>2. d < n
    <3>1. PICK S : Laid(S, sent) /\ Flows(S, sent, fbuf \o wire, d)
      BY <1>3, <1>5, <1>13 DEF UnderWay
    <3>2. fbuf \o wire = fbuf
      BY <1>4, <1>13, ConcatEmptySeq
    <3>3. Flows(S, sent, fbuf, d)
      BY <3>1, <3>2, Zenon
    <3>4. d \in 0 .. n
      BY <1>6
    <3> QED BY <1>5, <1>7, <2>1, <3>1, <3>3, <3>4, FirstFrame
  <2>3. Len(fbuf) >= FRAME_HEADER_SIZE + Len(sent[d + 1])
    BY <1>9, <1>13, <2>2
  <2>4. Len(fbuf) >= FRAME_HEADER_SIZE
    BY <1>10, <1>11, <1>13, <2>2, <2>3
  <2>5. HeaderVersion(fbuf) = PROTOCOL_VERSION /\ HeaderLength(fbuf) = Len(sent[d + 1])
    BY <1>2, <1>5, <1>13, <2>4, AtTheStart
  <2>6. Len(fbuf) >= FrameSize(fbuf)
    BY <2>3, <2>5 DEF FrameSize
  <2> QED BY <1>13, <2>4, <2>6 DEF HasCompleteFrame
<1>14. ASSUME ferror # "none" PROVE ferror = "MessageTooLarge" /\ Len(sent[Len(received) + 1]) > ReceiveMax
  BY <1>3, <1>14 DEF FrameTypes, Failed
<1> QED BY <1>8, <1>12, <1>13, <1>14

\* encode, feed and decode of src/src/transport/framing.rs: for any messages
\* whose length fits the header, any byte base and any cut into reads, the receiver
\* gets them whole, in order and none twice up to the first error of decode, and that
\* error is about a message over its limit.
THEOREM FramesStayIntact == FrameSpec => []FramesIntact
<1>1. FrameInit => FrameInv
  BY FrameStarts
<1>2. FrameInv /\ [FrameNext]_frameVars => FrameInv'
  BY FrameStep
<1>3. FrameInv => FramesIntact
  BY FrameConclusion
<1> QED BY <1>1, <1>2, <1>3, PTL DEF FrameSpec

\* A message more: its channel is given the message, unless it is too long.
LEMMA EncodeGives ==
    ASSUME FrameInv, NEW msg \in Payloads, Encode(msg)
    PROVE  [FrameChannel!Next]_(FrameChannel!channelVars)
<1>1. CASE sent' = sent /\ received' = received
  <2>1. AllFit' = AllFit
    BY <1>1 DEF AllFit
  <2> QED BY <1>1, <2>1 DEF FrameChannel!channelVars
<1>2. CASE sent' = Append(sent, msg) /\ received' = received
  <2>1. msg \in Seq(Bytes) /\ sent \in Seq(Seq(Bytes))
    BY FrameAssumption DEF Bytes, FrameInv
  <2>2. /\ Len(sent') = Len(sent) + 1 /\ sent'[Len(sent) + 1] = msg
        /\ \A i \in 1 .. Len(sent) : sent'[i] = sent[i]
        /\ DOMAIN sent = 1 .. Len(sent) /\ DOMAIN sent' = 1 .. Len(sent) + 1
    BY <1>2, <2>1
  <2>3. AllFit' => AllFit
    BY <2>2 DEF AllFit
  <2>4. CASE ~AllFit
    BY <2>3, <2>4 DEF FrameChannel!channelVars
  <2>5. CASE AllFit /\ ~AllFit'
    BY <2>5 DEF FrameChannel!Next, FrameChannel!Break
  <2>6. CASE AllFit'
    <3>1. AllFit
      BY <2>3, <2>6
    <3>2. sent' = Append(sent, sent'[Len(sent')])
      BY <1>2, <2>2
    <3>3. FrameChannel!Give
      BY <1>2, <2>2, <2>6, <3>1, <3>2 DEF FrameChannel!Give
    <3> QED BY <3>3 DEF FrameChannel!Next
  <2> QED BY <2>4, <2>5, <2>6
<1> QED BY <1>1, <1>2 DEF Encode

\* A message decoded is the next one that was encoded.
LEMMA DecodeTakes ==
    ASSUME FrameInv, FrameInv', Decode
    PROVE  [FrameChannel!Next]_(FrameChannel!channelVars)
<1>1. sent' = sent /\ AllFit' = AllFit
  BY DEF Decode, AllFit
<1>2. CASE ~AllFit
  BY <1>1, <1>2 DEF FrameChannel!channelVars
<1>3. CASE AllFit /\ received' = received
  BY <1>1, <1>3 DEF FrameChannel!channelVars
<1>4. ASSUME AllFit, NEW msg, received' = Append(received, msg)
      PROVE  FrameChannel!Take
  <2>1. Fits(sent) /\ Fits(sent')
    <3>1. DOMAIN sent = 1 .. Len(sent)
      BY DEF FrameInv
    <3> QED BY <1>1, <1>4, <3>1 DEF Fits, AllFit
  <2>2. /\ received \in Seq(Seq(Bytes)) /\ received' \in Seq(Seq(Bytes))
        /\ Len(received') <= Len(sent) /\ \A i \in 1 .. Len(received') : received'[i] = sent[i]
    BY <1>1, <2>1 DEF FrameInv, FrameTypes, InOrder
  <2>3. PICK n \in Nat : n = Len(received)
    BY <2>2
  <2>4. Len(received') = n + 1 /\ received'[n + 1] = msg
    <3>1. Len(Append(received, msg)) = n + 1 /\ Append(received, msg)[n + 1] = msg
      BY <2>2, <2>3
    <3> QED BY <1>4, <3>1
  <2>5. sent \in Seq(Seq(Bytes)) /\ Len(sent) \in Nat
    BY DEF FrameInv
  <2>6. msg = sent[n + 1] /\ n < Len(sent)
    <3>1. n + 1 \in 1 .. Len(received')
      BY <2>4
    <3> QED BY <2>2, <2>4, <2>5, <3>1
  <2> QED BY <1>1, <1>4, <2>3, <2>6 DEF FrameChannel!Take
<1> QED BY <1>2, <1>3, <1>4 DEF Decode, Fails, Returns, FrameChannel!Next

\* encode, feed and decode implement MessageChannel for any messages, any limits
\* and any cut into reads: a message is given whole when it is encoded and taken
\* whole when it is decoded, up to the first error of decode and until one is sent
\* that the length field cannot tell.
THEOREM FramesImplementChannel == FrameSpec => FramesAreChannel
<1>1. FrameInit => FrameInv /\ FrameChannel!Init
  <2>1. FrameInit => FrameInv
    BY FrameStarts
  <2>2. ASSUME FrameInit PROVE FrameChannel!Init
    <3>1. sent = <<>> /\ received = <<>> /\ AllFit
      BY <2>2 DEF FrameInit, AllFit
    <3> QED BY <3>1 DEF FrameChannel!Init
  <2> QED BY <2>1, <2>2
<1>2. FrameInv /\ [FrameNext]_frameVars => FrameInv'
  BY FrameStep
<1>3. FrameInv /\ FrameInv' /\ [FrameNext]_frameVars => [FrameChannel!Next]_(FrameChannel!channelVars)
  <2> SUFFICES ASSUME FrameInv, FrameInv', [FrameNext]_frameVars
               PROVE  [FrameChannel!Next]_(FrameChannel!channelVars)
    OBVIOUS
  <2>1. CASE \E msg \in Payloads : Encode(msg)
    BY <2>1, EncodeGives
  <2>2. CASE Decode
    BY <2>2, DecodeTakes
  <2>3. CASE (\E n \in 1 .. Len(wire) : Feed(n)) \/ UNCHANGED frameVars
    <3>1. sent' = sent /\ received' = received
      BY <2>3 DEF Feed, frameVars
    <3>2. AllFit' = AllFit
      BY <3>1 DEF AllFit
    <3> QED BY <3>1, <3>2 DEF FrameChannel!channelVars
  <2> QED BY <2>1, <2>2, <2>3 DEF FrameNext
<1> QED BY <1>1, <1>2, <1>3, PTL DEF FrameSpec, FramesAreChannel, FrameChannel!Spec

-----------------------------------------------------------------------------
(* JsonRpc: a list of checks *)

JsonErrors == {"RequestTooLarge", "DuplicateField", "InvalidJson", "BatchUnsupported", "InvalidStructure",
               "MissingVersion", "InvalidVersion", "MissingMethod", "MissingId", "RequestIdTooLarge",
               "RequestIdSensitive"}

Checks == Seq(BOOLEAN \X JsonErrors)

\* No check fails.
Clean(checks) == \A i \in 1 .. Len(checks) : ~checks[i][1]

\* The errors are errors.
LEMMA ErrorNames ==
    /\ "RequestTooLarge" \in JsonErrors /\ "DuplicateField" \in JsonErrors /\ "InvalidJson" \in JsonErrors
    /\ "BatchUnsupported" \in JsonErrors /\ "InvalidStructure" \in JsonErrors /\ "MissingVersion" \in JsonErrors
    /\ "InvalidVersion" \in JsonErrors /\ "MissingMethod" \in JsonErrors /\ "MissingId" \in JsonErrors
    /\ "RequestIdTooLarge" \in JsonErrors /\ "RequestIdSensitive" \in JsonErrors
BY DEF JsonErrors

\* A list of checks passes when none of them fails.
LEMMA FirstErrorIsNone ==
    ASSUME NEW checks \in Checks
    PROVE  FirstError(checks) = "none" <=> Clean(checks)
<1>1. PICK failed : failed = {i \in 1 .. Len(checks) : checks[i][1]}
  OBVIOUS
<1>2. DOMAIN checks = 1 .. Len(checks)
  BY DEF Checks
<1>3. FirstError(checks) = IF failed = {} THEN "none" ELSE checks[Min(failed)][2]
  BY <1>1, <1>2 DEF FirstError
<1>4. failed = {} <=> Clean(checks)
  BY <1>1 DEF Clean
<1>5. ASSUME failed # {} PROVE checks[Min(failed)][2] # "none"
  <2>1. failed \subseteq Nat
    BY <1>1
  <2>2. PICK n \in failed : \A j \in failed : n <= j
    BY <1>5, <2>1, LeastElement
  <2>3. Min(failed) = n
    BY <2>1, <2>2, LeastIsChosen DEF Min
  <2>4. checks[n] \in BOOLEAN \X JsonErrors
    BY <1>1, <2>2 DEF Checks
  <2>5. checks[n][2] \in JsonErrors
    BY <2>4
  <2> QED BY <2>3, <2>5 DEF JsonErrors
<1> QED BY <1>3, <1>4, <1>5

\* Two lists of checks, one after the other.
LEMMA ChecksInTurn ==
    ASSUME NEW s \in Checks, NEW t \in Checks
    PROVE  s \o t \in Checks /\ (Clean(s \o t) <=> Clean(s) /\ Clean(t))
<1>1. PICK u : u = s \o t
  OBVIOUS
<1>2. PICK m \in Nat, n \in Nat : m = Len(s) /\ n = Len(t)
  BY DEF Checks
<1>3. u \in Checks /\ Joined(u, s, t)
  BY <1>1, ConcatParts DEF Checks
<1>4. Len(u) = m + n /\ (\A i \in 1 .. m : u[i] = s[i]) /\ (\A i \in 1 .. n : u[m + i] = t[i])
  BY <1>2, <1>3 DEF Joined
<1>5. \A i \in 1 .. m + n : i \in 1 .. m \/ \E k \in 1 .. n : i = m + k
  <2>1. SUFFICES ASSUME NEW i \in 1 .. m + n, i \notin 1 .. m PROVE i - m \in 1 .. n /\ i = m + (i - m)
    OBVIOUS
  <2> QED BY <2>1
<1>6. (\A i \in 1 .. m : i \in 1 .. m + n) /\ (\A k \in 1 .. n : m + k \in 1 .. m + n)
  OBVIOUS
<1>7. Clean(u) => Clean(s) /\ Clean(t)
  BY <1>2, <1>4, <1>6 DEF Clean
<1>8. Clean(s) /\ Clean(t) => Clean(u)
  BY <1>2, <1>4, <1>5 DEF Clean
<1> QED BY <1>1, <1>3, <1>7, <1>8

\* The check that leads a list leads it whatever follows.
LEMMA LeadingCheck ==
    ASSUME NEW s \in Checks, NEW t \in Checks, Len(s) > 0
    PROVE  Len(s \o t) > 0 /\ (s \o t)[1] = s[1]
<1>1. PICK u : u = s \o t
  OBVIOUS
<1>2. PICK m \in Nat, n \in Nat : m = Len(s) /\ n = Len(t)
  BY DEF Checks
<1>3. Joined(u, s, t)
  BY <1>1, ConcatParts DEF Checks
<1>4. Len(u) = m + n /\ (\A i \in 1 .. m : u[i] = s[i])
  BY <1>2, <1>3 DEF Joined
<1>5. m > 0 /\ 1 \in 1 .. m
  BY <1>2
<1> QED BY <1>1, <1>4, <1>5

\* A first check that fails gives its error.
LEMMA LeadingError ==
    ASSUME NEW checks \in Checks, NEW e \in JsonErrors, Len(checks) > 0, checks[1] = <<TRUE, e>>
    PROVE  FirstError(checks) = e
<1>1. PICK failed : failed = {i \in 1 .. Len(checks) : checks[i][1]}
  OBVIOUS
<1>2. DOMAIN checks = 1 .. Len(checks) /\ 1 \in 1 .. Len(checks)
  BY DEF Checks
<1>3. FirstError(checks) = IF failed = {} THEN "none" ELSE checks[Min(failed)][2]
  BY <1>1, <1>2 DEF FirstError
<1>4. checks[1][1] = TRUE /\ checks[1][2] = e
  OBVIOUS
<1>5. 1 \in failed /\ failed \subseteq Nat /\ \A j \in failed : 1 <= j
  <2>1. 1 \in failed
    BY <1>1, <1>2, <1>4, Zenon
  <2>2. failed \subseteq 1 .. Len(checks)
    BY <1>1, Zenon
  <2> QED BY <2>1, <2>2
<1>6. Min(failed) = 1
  BY <1>5, LeastIsChosen DEF Min
<1> QED BY <1>3, <1>4, <1>5, <1>6

\* A list of one check.
LEMMA OneCheck ==
    ASSUME NEW s, NEW a \in BOOLEAN, NEW e \in JsonErrors, s = <<<<a, e>>>>
    PROVE  s \in Checks /\ (Clean(s) <=> ~a)
<1>1. s \in Checks /\ Len(s) = 1 /\ s[1] = <<a, e>>
  BY DEF Checks
<1>2. 1 .. 1 = {1} /\ s[1][1] = a
  BY <1>1
<1> QED BY <1>1, <1>2 DEF Clean

\* A list of two checks.
LEMMA TwoChecks ==
    ASSUME NEW s, NEW a \in BOOLEAN, NEW e \in JsonErrors, NEW b \in BOOLEAN, NEW f \in JsonErrors,
           s = <<<<a, e>>, <<b, f>>>>
    PROVE  s \in Checks /\ (Clean(s) <=> ~a /\ ~b)
<1>1. s \in Checks /\ Len(s) = 2 /\ s[1] = <<a, e>> /\ s[2] = <<b, f>>
  BY DEF Checks
<1>2. 1 .. 2 = {1, 2} /\ s[1][1] = a /\ s[2][1] = b
  BY <1>1
<1> QED BY <1>1, <1>2 DEF Clean

\* A list of three checks.
LEMMA ThreeChecks ==
    ASSUME NEW s, NEW a \in BOOLEAN, NEW e \in JsonErrors, NEW b \in BOOLEAN, NEW f \in JsonErrors,
           NEW c \in BOOLEAN, NEW g \in JsonErrors, s = <<<<a, e>>, <<b, f>>, <<c, g>>>>
    PROVE  s \in Checks /\ (Clean(s) <=> ~a /\ ~b /\ ~c)
<1>1. s \in Checks /\ Len(s) = 3 /\ s[1] = <<a, e>> /\ s[2] = <<b, f>> /\ s[3] = <<c, g>>
  BY DEF Checks
<1>2. 1 .. 3 = {1, 2, 3} /\ s[1][1] = a /\ s[2][1] = b /\ s[3][1] = c
  BY <1>1
<1> QED BY <1>1, <1>2 DEF Clean

\* A list of four checks.
LEMMA FourChecks ==
    ASSUME NEW s, NEW a \in BOOLEAN, NEW e \in JsonErrors, NEW b \in BOOLEAN, NEW f \in JsonErrors,
           NEW c \in BOOLEAN, NEW g \in JsonErrors, NEW d \in BOOLEAN, NEW h \in JsonErrors,
           s = <<<<a, e>>, <<b, f>>, <<c, g>>, <<d, h>>>>
    PROVE  s \in Checks /\ (Clean(s) <=> ~a /\ ~b /\ ~c /\ ~d)
<1>1. s \in Checks /\ Len(s) = 4 /\ s[1] = <<a, e>> /\ s[2] = <<b, f>> /\ s[3] = <<c, g>> /\ s[4] = <<d, h>>
  BY DEF Checks
<1>2. 1 .. 4 = {1, 2, 3, 4} /\ s[1][1] = a /\ s[2][1] = b /\ s[3][1] = c /\ s[4][1] = d
  BY <1>1
<1> QED BY <1>1, <1>2 DEF Clean

----------------------------------------------------------------------------
(* What is accepted *)

AcceptedIds == {"absent", "null", "integer", "string"}

\* parse_id and validate_request_id: the ids that pass.
LEMMA IdsAccepted ==
    ASSUME NEW id
    PROVE  /\ IdChecks(id) \in Checks /\ ParseIdChecks(id) \in Checks
           /\ Clean(IdChecks(id)) <=> id \notin {"long string", "sensitive string"}
           /\ Clean(ParseIdChecks(id)) <=> id \in AcceptedIds
<1>1. /\ IdChecks(id) \in Checks
      /\ Clean(IdChecks(id)) <=> ~(id = "long string") /\ ~(id = "sensitive string")
  <2>1. PICK a \in BOOLEAN, b \in BOOLEAN : (a <=> id = "long string") /\ (b <=> id = "sensitive string")
    BY Zenon
  <2>2. IdChecks(id) = <<<<a, "RequestIdTooLarge">>, <<b, "RequestIdSensitive">>>>
    BY <2>1 DEF IdChecks
  <2>3. IdChecks(id) \in Checks /\ (Clean(IdChecks(id)) <=> ~a /\ ~b)
    BY <2>2, ErrorNames, TwoChecks, Zenon
  <2> QED BY <2>1, <2>3, Zenon
<1>2. PICK s : s = << <<id \notin {"absent", "null", "integer"} \cup StringIds, "InvalidStructure">> >>
  OBVIOUS
<1>3. s \in Checks /\ (Clean(s) <=> id \in {"absent", "null", "integer"} \cup StringIds)
  <2>1. PICK a \in BOOLEAN : a <=> id \notin {"absent", "null", "integer"} \cup StringIds
    BY Zenon
  <2>2. s = <<<<a, "InvalidStructure">>>>
    BY <1>2, <2>1
  <2>3. s \in Checks /\ (Clean(s) <=> ~a)
    BY <2>2, ErrorNames, OneCheck, Zenon
  <2> QED BY <2>1, <2>3, Zenon
<1>4. ParseIdChecks(id) = s \o IdChecks(id)
  BY <1>2 DEF ParseIdChecks
<1>5. ParseIdChecks(id) \in Checks /\ (Clean(ParseIdChecks(id)) <=> Clean(s) /\ Clean(IdChecks(id)))
  BY <1>1, <1>3, <1>4, ChecksInTurn
<1> QED BY <1>1, <1>3, <1>5 DEF AcceptedIds, StringIds

GoodText(d) == ~(d.size > MaxJsonSize) /\ d.syntax # "duplicate" /\ d.syntax # "malformed"

\* The texts that are read as JSON.
LEMMA TextsAccepted ==
    ASSUME NEW d
    PROVE  TextChecks(d) \in Checks /\ (Clean(TextChecks(d)) <=> GoodText(d))
<1>1. PICK a \in BOOLEAN, b \in BOOLEAN, c \in BOOLEAN :
         (a <=> d.size > MaxJsonSize) /\ (b <=> d.syntax = "duplicate") /\ (c <=> d.syntax = "malformed")
  BY Zenon
<1>2. TextChecks(d) = <<<<a, "RequestTooLarge">>, <<b, "DuplicateField">>, <<c, "InvalidJson">>>>
  <2>1. a = (d.size > MaxJsonSize)
    BY <1>1
  <2>2. b = (d.syntax = "duplicate") /\ c = (d.syntax = "malformed")
    BY <1>1
  <2> QED BY <2>1, <2>2, Zenon DEF TextChecks
<1>3. TextChecks(d) \in Checks /\ (Clean(TextChecks(d)) <=> ~a /\ ~b /\ ~c)
  <2>1. "RequestTooLarge" \in JsonErrors /\ "DuplicateField" \in JsonErrors /\ "InvalidJson" \in JsonErrors
    BY ErrorNames
  <2> QED BY <1>2, <2>1, ThreeChecks, ZenonT(60)
<1> QED BY <1>1, <1>3, Zenon DEF GoodText

\* A text over the limit: the first check of a list that starts with those of
\* the text.
LEMMA TooLargeLeads ==
    ASSUME NEW d, d.size > MaxJsonSize, NEW s \in Checks, Len(s) > 0, s[1] = TextChecks(d)[1]
    PROVE  FirstError(s) = "RequestTooLarge"
<1>1. (d.size > MaxJsonSize) = TRUE
  OBVIOUS
<1>2. TextChecks(d)[1] = <<TRUE, "RequestTooLarge">>
  BY <1>1 DEF TextChecks
<1> QED BY <1>2, ErrorNames, LeadingError

\* The checks of the text are there.
LEMMA TextChecked ==
    ASSUME NEW d PROVE Len(TextChecks(d)) > 0
BY DEF TextChecks

\* The version that passes.
LEMMA VersionsAccepted ==
    ASSUME NEW f
    PROVE  VersionChecks(f) \in Checks /\ (Clean(VersionChecks(f)) <=> Get(f, "jsonrpc") = "2.0")
<1>1. PICK v : v = Get(f, "jsonrpc")
  OBVIOUS
<1>2. PICK a \in BOOLEAN, b \in BOOLEAN : (a <=> v \in {"absent", "number"}) /\ (b <=> v # "2.0")
  BY Zenon
<1>3. VersionChecks(f) = <<<<a, "MissingVersion">>, <<b, "InvalidVersion">>>>
  BY <1>1, <1>2 DEF VersionChecks
<1>4. VersionChecks(f) \in Checks /\ (Clean(VersionChecks(f)) <=> ~a /\ ~b)
  BY <1>3, ErrorNames, TwoChecks, Zenon
<1> QED BY <1>1, <1>2, <1>4

GoodRequest(d) ==
    /\ GoodText(d) /\ d.shape = "object" /\ DOMAIN d.fields \subseteq REQUEST_ENVELOPE_FIELDS
    /\ Get(d.fields, "jsonrpc") = "2.0"
    /\ Get(d.fields, "method") \notin {"absent", "number"} /\ ~BadMethodName(Get(d.fields, "method"))
    /\ Get(d.fields, "params") \in Structured \cup {"absent"}
    /\ Get(d.fields, "id") \in AcceptedIds

\* parse_request: what it accepts.
LEMMA RequestsAccepted ==
    ASSUME NEW d
    PROVE  /\ RequestError(d) = "none" <=> GoodRequest(d)
           /\ d.size > MaxJsonSize => RequestError(d) = "RequestTooLarge"
<1>1. PICK f : f = d.fields
  OBVIOUS
<1>2. PICK s1, s2, s3, s4, s5 :
         /\ s1 = TextChecks(d) /\ s3 = VersionChecks(f) /\ s5 = ParseIdChecks(Get(f, "id"))
         /\ s2 = << <<d.shape = "array", "BatchUnsupported">>,
                    <<d.shape # "object", "InvalidStructure">>,
                    <<~(DOMAIN f \subseteq REQUEST_ENVELOPE_FIELDS), "InvalidStructure">> >>
         /\ s4 = << <<Get(f, "method") \in {"absent", "number"}, "MissingMethod">>,
                    <<BadMethodName(Get(f, "method")), "InvalidStructure">>,
                    <<DOMAIN f \cap {"result", "error"} # {}, "InvalidStructure">>,
                    <<Get(f, "params") \notin Structured \cup {"absent"}, "InvalidStructure">> >>
  OBVIOUS
<1>3. RequestError(d) = FirstError(s1 \o s2 \o s3 \o s4 \o s5)
  BY <1>1, <1>2 DEF RequestError
<1>4. s1 \in Checks /\ (Clean(s1) <=> GoodText(d))
  BY <1>2, TextsAccepted
<1>5. s2 \in Checks /\ (Clean(s2) <=> d.shape = "object" /\ DOMAIN f \subseteq REQUEST_ENVELOPE_FIELDS)
  <2>1. PICK a \in BOOLEAN, b \in BOOLEAN, c \in BOOLEAN :
           /\ (a <=> d.shape = "array") /\ (b <=> d.shape # "object")
           /\ (c <=> ~(DOMAIN f \subseteq REQUEST_ENVELOPE_FIELDS))
    BY Zenon
  <2>2. s2 = <<<<a, "BatchUnsupported">>, <<b, "InvalidStructure">>, <<c, "InvalidStructure">>>>
    <3>1. a = (d.shape = "array") /\ b = (d.shape # "object")
      BY <2>1
    <3>2. c = ~(DOMAIN f \subseteq REQUEST_ENVELOPE_FIELDS)
      BY <2>1
    <3> QED BY <1>2, <3>1, <3>2, Zenon
  <2>3. s2 \in Checks /\ (Clean(s2) <=> ~a /\ ~b /\ ~c)
    <3>1. "BatchUnsupported" \in JsonErrors /\ "InvalidStructure" \in JsonErrors
      BY ErrorNames
    <3> QED BY <2>2, <3>1, ThreeChecks, ZenonT(60)
  <2> QED BY <2>1, <2>3
<1>6. s3 \in Checks /\ (Clean(s3) <=> Get(f, "jsonrpc") = "2.0")
  BY <1>2, VersionsAccepted
<1>7. /\ s4 \in Checks
      /\ Clean(s4) <=> /\ Get(f, "method") \notin {"absent", "number"} /\ ~BadMethodName(Get(f, "method"))
                       /\ DOMAIN f \cap {"result", "error"} = {}
                       /\ Get(f, "params") \in Structured \cup {"absent"}
  <2>1. PICK a \in BOOLEAN, b \in BOOLEAN, c \in BOOLEAN, e \in BOOLEAN :
           /\ (a <=> Get(f, "method") \in {"absent", "number"}) /\ (b <=> BadMethodName(Get(f, "method")))
           /\ (c <=> DOMAIN f \cap {"result", "error"} # {})
           /\ (e <=> Get(f, "params") \notin Structured \cup {"absent"})
    BY Zenon
  <2>2. s4 = <<<<a, "MissingMethod">>, <<b, "InvalidStructure">>, <<c, "InvalidStructure">>, <<e, "InvalidStructure">>>>
    <3>1. a = (Get(f, "method") \in {"absent", "number"})
      BY <2>1
    <3>2. b = BadMethodName(Get(f, "method"))
      BY <2>1 DEF BadMethodName
    <3>3. c = (DOMAIN f \cap {"result", "error"} # {})
      BY <2>1
    <3>4. e = (Get(f, "params") \notin Structured \cup {"absent"})
      BY <2>1
    <3> QED BY <1>2, <3>1, <3>2, <3>3, <3>4, Zenon
  <2>3. s4 \in Checks /\ (Clean(s4) <=> ~a /\ ~b /\ ~c /\ ~e)
    <3>1. "MissingMethod" \in JsonErrors /\ "InvalidStructure" \in JsonErrors
      BY ErrorNames
    <3>2. PICK g \in JsonErrors, h \in JsonErrors : g = "MissingMethod" /\ h = "InvalidStructure"
      BY <3>1
    <3>3. s4 = <<<<a, g>>, <<b, h>>, <<c, h>>, <<e, h>>>>
      BY <2>2, <3>2, Zenon
    <3> QED BY <3>3, FourChecks
  <2> QED BY <2>1, <2>3, Zenon
<1>8. s5 \in Checks /\ (Clean(s5) <=> Get(f, "id") \in AcceptedIds)
  BY <1>2, IdsAccepted
<1>9. PICK s : s = s1 \o s2 \o s3 \o s4 \o s5
  OBVIOUS
<1>10. /\ s \in Checks /\ (Clean(s) <=> Clean(s1) /\ Clean(s2) /\ Clean(s3) /\ Clean(s4) /\ Clean(s5))
       /\ Len(s) > 0 /\ s[1] = s1[1]
  <2>1. PICK t2, t3, t4 : t2 = s1 \o s2 /\ t3 = t2 \o s3 /\ t4 = t3 \o s4
    OBVIOUS
  <2>2. t2 \in Checks /\ (Clean(t2) <=> Clean(s1) /\ Clean(s2))
    BY <1>4, <1>5, <2>1, ChecksInTurn
  <2>3. t3 \in Checks /\ (Clean(t3) <=> Clean(t2) /\ Clean(s3))
    BY <1>6, <2>1, <2>2, ChecksInTurn
  <2>4. t4 \in Checks /\ (Clean(t4) <=> Clean(t3) /\ Clean(s4))
    BY <1>7, <2>1, <2>3, ChecksInTurn
  <2>5. s = t4 \o s5
    BY <1>9, <2>1
  <2>6. s \in Checks /\ (Clean(s) <=> Clean(t4) /\ Clean(s5))
    BY <1>8, <2>4, <2>5, ChecksInTurn
  <2>7. Len(s1) > 0
    BY <1>2, TextChecked
  <2>8. Len(t2) > 0 /\ t2[1] = s1[1]
    BY <1>4, <1>5, <2>1, <2>7, LeadingCheck
  <2>9. Len(t3) > 0 /\ t3[1] = s1[1]
    BY <1>6, <2>1, <2>2, <2>8, LeadingCheck
  <2>10. Len(t4) > 0 /\ t4[1] = s1[1]
    BY <1>7, <2>1, <2>3, <2>9, LeadingCheck
  <2>11. Len(s) > 0 /\ s[1] = s1[1]
    BY <1>8, <2>4, <2>5, <2>10, LeadingCheck
  <2> QED BY <2>2, <2>3, <2>4, <2>6, <2>11
<1>11. RequestError(d) = "none" <=> Clean(s)
  BY <1>3, <1>9, <1>10, FirstErrorIsNone
<1>12. DOMAIN f \subseteq REQUEST_ENVELOPE_FIELDS => DOMAIN f \cap {"result", "error"} = {}
  BY DEF REQUEST_ENVELOPE_FIELDS
<1>13. RequestError(d) = "none" <=> GoodRequest(d)
  BY <1>1, <1>4, <1>5, <1>6, <1>7, <1>8, <1>10, <1>11, <1>12, Zenon DEF GoodRequest
<1>14. d.size > MaxJsonSize => RequestError(d) = "RequestTooLarge"
  BY <1>2, <1>3, <1>9, <1>10, TooLargeLeads
<1> QED BY <1>13, <1>14

GoodResponse(d) ==
    /\ GoodText(d) /\ d.shape = "object" /\ DOMAIN d.fields \subseteq RESPONSE_ENVELOPE_FIELDS
    /\ Get(d.fields, "jsonrpc") = "2.0"
    /\ Get(d.fields, "id") \in AcceptedIds \ {"absent"}
    /\ Get(d.fields, "error") \in {"absent", "error", "sensitive error"}
    /\ Get(d.fields, "result") # "absent" <=> Get(d.fields, "error") = "absent"

\* parse_response: what it accepts.
LEMMA ResponsesAccepted ==
    ASSUME NEW d
    PROVE  /\ ResponseError(d) = "none" <=> GoodResponse(d)
           /\ d.size > MaxJsonSize => ResponseError(d) = "RequestTooLarge"
<1>1. PICK f : f = d.fields
  OBVIOUS
<1>2. PICK s1, s2, s3, s4, s5, s6 :
         /\ s1 = TextChecks(d) /\ s3 = VersionChecks(f) /\ s5 = ParseIdChecks(Get(f, "id"))
         /\ s2 = << <<d.shape # "object", "InvalidStructure">>,
                    <<~(DOMAIN f \subseteq RESPONSE_ENVELOPE_FIELDS), "InvalidStructure">> >>
         /\ s4 = << <<DOMAIN f \cap {"method", "params"} # {}, "InvalidStructure">> >>
         /\ s6 = << <<Get(f, "id") = "absent", "MissingId">>,
                    <<Get(f, "error") \notin {"absent", "error", "sensitive error"}, "InvalidStructure">>,
                    <<(Get(f, "result") # "absent") = (Get(f, "error") # "absent"), "InvalidStructure">> >>
  OBVIOUS
<1>3. ResponseError(d) = FirstError(s1 \o s2 \o s3 \o s4 \o s5 \o s6)
  BY <1>1, <1>2 DEF ResponseError
<1>4. s1 \in Checks /\ (Clean(s1) <=> GoodText(d))
  BY <1>2, TextsAccepted
<1>5. "InvalidStructure" \in JsonErrors /\ "MissingId" \in JsonErrors
  BY ErrorNames
<1>6. s2 \in Checks /\ (Clean(s2) <=> d.shape = "object" /\ DOMAIN f \subseteq RESPONSE_ENVELOPE_FIELDS)
  <2>1. PICK a \in BOOLEAN, b \in BOOLEAN :
           (a <=> d.shape # "object") /\ (b <=> ~(DOMAIN f \subseteq RESPONSE_ENVELOPE_FIELDS))
    BY Zenon
  <2>2. s2 = <<<<a, "InvalidStructure">>, <<b, "InvalidStructure">>>>
    <3>1. a = (d.shape # "object")
      BY <2>1
    <3>2. b = ~(DOMAIN f \subseteq RESPONSE_ENVELOPE_FIELDS)
      BY <2>1
    <3> QED BY <1>2, <3>1, <3>2, Zenon
  <2>3. PICK g \in JsonErrors : g = "InvalidStructure"
    BY <1>5
  <2>4. s2 = <<<<a, g>>, <<b, g>>>>
    BY <2>2, <2>3, Zenon
  <2>5. s2 \in Checks /\ (Clean(s2) <=> ~a /\ ~b)
    BY <2>4, TwoChecks
  <2> QED BY <2>1, <2>5, Zenon
<1>7. s3 \in Checks /\ (Clean(s3) <=> Get(f, "jsonrpc") = "2.0")
  BY <1>2, VersionsAccepted
<1>8. s4 \in Checks /\ (Clean(s4) <=> DOMAIN f \cap {"method", "params"} = {})
  <2>1. PICK a \in BOOLEAN : a <=> DOMAIN f \cap {"method", "params"} # {}
    BY Zenon
  <2>2. s4 = <<<<a, "InvalidStructure">>>>
    <3>1. a = (DOMAIN f \cap {"method", "params"} # {})
      BY <2>1
    <3> QED BY <1>2, <3>1, Zenon
  <2>3. PICK g \in JsonErrors : g = "InvalidStructure"
    BY <1>5
  <2>4. s4 = <<<<a, g>>>>
    BY <2>2, <2>3, Zenon
  <2>5. s4 \in Checks /\ (Clean(s4) <=> ~a)
    BY <2>4, OneCheck
  <2> QED BY <2>1, <2>5, Zenon
<1>9. s5 \in Checks /\ (Clean(s5) <=> Get(f, "id") \in AcceptedIds)
  BY <1>2, IdsAccepted
<1>10. /\ s6 \in Checks
       /\ Clean(s6) <=> /\ Get(f, "id") # "absent" /\ Get(f, "error") \in {"absent", "error", "sensitive error"}
                        /\ (Get(f, "result") # "absent" <=> Get(f, "error") = "absent")
  <2>1. PICK a \in BOOLEAN, b \in BOOLEAN, c \in BOOLEAN :
           /\ (a <=> Get(f, "id") = "absent")
           /\ (b <=> Get(f, "error") \notin {"absent", "error", "sensitive error"})
           /\ (c <=> ((Get(f, "result") # "absent") <=> (Get(f, "error") # "absent")))
    BY Zenon
  <2>2. s6 = <<<<a, "MissingId">>, <<b, "InvalidStructure">>, <<c, "InvalidStructure">>>>
    <3>1. a = (Get(f, "id") = "absent")
      BY <2>1
    <3>2. b = (Get(f, "error") \notin {"absent", "error", "sensitive error"})
      BY <2>1
    <3>3. c = ((Get(f, "result") # "absent") = (Get(f, "error") # "absent"))
      BY <2>1
    <3> QED BY <1>2, <3>1, <3>2, <3>3, Zenon
  <2>3. PICK g \in JsonErrors, h \in JsonErrors : g = "MissingId" /\ h = "InvalidStructure"
    BY <1>5
  <2>4. s6 = <<<<a, g>>, <<b, h>>, <<c, h>>>>
    BY <2>2, <2>3, Zenon
  <2>5. s6 \in Checks /\ (Clean(s6) <=> ~a /\ ~b /\ ~c)
    BY <2>4, ThreeChecks
  <2> QED BY <2>1, <2>5, Zenon
<1>11. PICK s : s = s1 \o s2 \o s3 \o s4 \o s5 \o s6
  OBVIOUS
<1>12. /\ s \in Checks
       /\ Clean(s) <=> Clean(s1) /\ Clean(s2) /\ Clean(s3) /\ Clean(s4) /\ Clean(s5) /\ Clean(s6)
       /\ Len(s) > 0 /\ s[1] = s1[1]
  <2>1. PICK t2, t3, t4, t5 : t2 = s1 \o s2 /\ t3 = t2 \o s3 /\ t4 = t3 \o s4 /\ t5 = t4 \o s5
    OBVIOUS
  <2>2. t2 \in Checks /\ (Clean(t2) <=> Clean(s1) /\ Clean(s2))
    BY <1>4, <1>6, <2>1, ChecksInTurn
  <2>3. t3 \in Checks /\ (Clean(t3) <=> Clean(t2) /\ Clean(s3))
    BY <1>7, <2>1, <2>2, ChecksInTurn
  <2>4. t4 \in Checks /\ (Clean(t4) <=> Clean(t3) /\ Clean(s4))
    BY <1>8, <2>1, <2>3, ChecksInTurn
  <2>5. t5 \in Checks /\ (Clean(t5) <=> Clean(t4) /\ Clean(s5))
    BY <1>9, <2>1, <2>4, ChecksInTurn
  <2>6. s = t5 \o s6
    BY <1>11, <2>1
  <2>7. s \in Checks /\ (Clean(s) <=> Clean(t5) /\ Clean(s6))
    BY <1>10, <2>5, <2>6, ChecksInTurn
  <2>8. Len(s1) > 0
    BY <1>2, TextChecked
  <2>9. Len(t2) > 0 /\ t2[1] = s1[1]
    BY <1>4, <1>6, <2>1, <2>8, LeadingCheck
  <2>10. Len(t3) > 0 /\ t3[1] = s1[1]
    BY <1>7, <2>1, <2>2, <2>9, LeadingCheck
  <2>11. Len(t4) > 0 /\ t4[1] = s1[1]
    BY <1>8, <2>1, <2>3, <2>10, LeadingCheck
  <2>12. Len(t5) > 0 /\ t5[1] = s1[1]
    BY <1>9, <2>1, <2>4, <2>11, LeadingCheck
  <2>13. Len(s) > 0 /\ s[1] = s1[1]
    BY <1>10, <2>5, <2>6, <2>12, LeadingCheck
  <2> QED BY <2>2, <2>3, <2>4, <2>5, <2>7, <2>13
<1>13. ResponseError(d) = "none" <=> Clean(s)
  BY <1>3, <1>11, <1>12, FirstErrorIsNone
<1>14. DOMAIN f \subseteq RESPONSE_ENVELOPE_FIELDS => DOMAIN f \cap {"method", "params"} = {}
  BY DEF RESPONSE_ENVELOPE_FIELDS
<1>15. ResponseError(d) = "none" <=> GoodResponse(d)
  <2>1. ResponseError(d) = "none" <=>
          /\ Clean(s1) /\ Clean(s2) /\ Clean(s3) /\ Clean(s4) /\ Clean(s5) /\ Clean(s6)
    BY <1>12, <1>13, Zenon
  <2> QED BY <1>1, <1>4, <1>6, <1>7, <1>8, <1>9, <1>10, <1>14, <2>1, ZenonT(60) DEF GoodResponse
<1>16. d.size > MaxJsonSize => ResponseError(d) = "RequestTooLarge"
  <2>1. ResponseError(d) = FirstError(s)
    BY <1>3, <1>11, Zenon
  <2>2. s1 = TextChecks(d)
    BY <1>2, Zenon
  <2> QED BY <1>12, <2>1, <2>2, TooLargeLeads
<1> QED BY <1>15, <1>16

\* What the formatters refuse.
LEMMA RequestsFormatted ==
    ASSUME NEW r, ~BadMethodName(r.method), r.id \in AcceptedIds
    PROVE  FormatRequestError(r) = "none"
<1>1. PICK s : s = << <<BadMethodName(r.method), "InvalidStructure">> >>
  OBVIOUS
<1>2. s \in Checks /\ Clean(s)
  <2>1. PICK g \in JsonErrors : g = "InvalidStructure"
    BY ErrorNames
  <2>2. BadMethodName(r.method) = FALSE
    BY DEF BadMethodName
  <2>3. s = <<<<FALSE, g>>>>
    BY <1>1, <2>1, <2>2, Zenon
  <2> QED BY <2>3, OneCheck
<1>3. IdChecks(r.id) \in Checks /\ Clean(IdChecks(r.id))
  BY IdsAccepted DEF AcceptedIds
<1>4. s \o IdChecks(r.id) \in Checks /\ Clean(s \o IdChecks(r.id))
  BY <1>2, <1>3, ChecksInTurn
<1> QED BY <1>1, <1>4, FirstErrorIsNone DEF FormatRequestError

\* format_response: what it writes.
LEMMA ResponsesFormatted ==
    ASSUME NEW r, r.id \in AcceptedIds \ {"absent"}, r.result # "absent" <=> r.failure = "absent"
    PROVE  FormatResponseError(r) = "none"
<1>1. PICK s : s = << <<r.id = "absent", "MissingId">>,
                      <<(r.result # "absent") = (r.failure # "absent"), "InvalidStructure">> >>
  OBVIOUS
<1>2. s \in Checks /\ Clean(s)
  <2>1. PICK g \in JsonErrors, h \in JsonErrors : g = "MissingId" /\ h = "InvalidStructure"
    BY ErrorNames
  <2>2. (r.id = "absent") = FALSE
    OBVIOUS
  <2>3. ((r.result # "absent") = (r.failure # "absent")) = FALSE
    OBVIOUS
  <2>4. s = <<<<FALSE, g>>, <<FALSE, h>>>>
    BY <1>1, <2>1, <2>2, <2>3, Zenon
  <2> QED BY <2>4, TwoChecks
<1>3. IdChecks(r.id) \in Checks /\ Clean(IdChecks(r.id))
  BY IdsAccepted DEF AcceptedIds
<1>4. s \o IdChecks(r.id) \in Checks /\ Clean(s \o IdChecks(r.id))
  BY <1>2, <1>3, ChecksInTurn
<1> QED BY <1>1, <1>4, FirstErrorIsNone DEF FormatResponseError

\* A formatter leaves out what is absent, and a reader finds it absent.
LEMMA WrittenReads ==
    ASSUME NEW fields, NEW size
    PROVE  /\ \A n \in DOMAIN fields : Get(Written(fields, size).fields, n) = fields[n]
           /\ DOMAIN Written(fields, size).fields \subseteq DOMAIN fields
           /\ Written(fields, size).size = size /\ Written(fields, size).shape = "object"
           /\ ~(size > MaxJsonSize) => GoodText(Written(fields, size))
<1>1. PICK g : g = [n \in {x \in DOMAIN fields : fields[x] # "absent"} |-> fields[n]]
  OBVIOUS
<1>2. Written(fields, size) = [size |-> size, syntax |-> "ok", shape |-> "object", fields |-> g]
  BY <1>1, Zenon DEF Written
<1>3. /\ Written(fields, size).fields = g /\ Written(fields, size).shape = "object"
      /\ Written(fields, size).size = size /\ Written(fields, size).syntax = "ok"
  BY <1>2
<1>4. \A n \in DOMAIN fields : Get(g, n) = fields[n]
  BY <1>1 DEF Get
<1>5. DOMAIN g \subseteq DOMAIN fields
  BY <1>1
<1>6. ~(size > MaxJsonSize) => GoodText(Written(fields, size))
  BY <1>3 DEF GoodText
<1> QED BY <1>3, <1>4, <1>5, <1>6

\* A request that was accepted is written, and read as the same request or
\* refused for its size.
LEMMA RequestReadsBack ==
    ASSUME NEW d, NEW q, q = ParseRequest(d), q.error = "none", NEW size
    PROVE  FormatRequestError(q) = "none" /\ ReadsBack(ParseRequest(FormatRequest(q, size)), size, q)
<1>1. /\ q.method = Get(d.fields, "method") /\ q.params = Get(d.fields, "params")
      /\ q.id = Get(d.fields, "id") /\ RequestError(d) = "none"
  BY DEF ParseRequest
<1>2. GoodRequest(d)
  BY <1>1, RequestsAccepted
<1>3. /\ q.method \notin {"absent", "number"} /\ ~BadMethodName(q.method)
      /\ q.params \in Structured \cup {"absent"} /\ q.id \in AcceptedIds
  BY <1>1, <1>2, Zenon DEF GoodRequest
<1>4. PICK r : r = [jsonrpc |-> "2.0", method |-> q.method, params |-> q.params, id |-> q.id]
  OBVIOUS
<1>5. /\ DOMAIN r = REQUEST_ENVELOPE_FIELDS
      /\ r["jsonrpc"] = "2.0" /\ r["method"] = q.method /\ r["params"] = q.params /\ r["id"] = q.id
  BY <1>4 DEF REQUEST_ENVELOPE_FIELDS
<1>6. PICK w : w = FormatRequest(q, size)
  OBVIOUS
<1>7. w = Written(r, size)
  BY <1>4, <1>6 DEF FormatRequest
<1>8. /\ w.size = size /\ (~(size > MaxJsonSize) => GoodText(w))
      /\ w.shape = "object" /\ DOMAIN w.fields \subseteq REQUEST_ENVELOPE_FIELDS
      /\ \A n \in REQUEST_ENVELOPE_FIELDS : Get(w.fields, n) = r[n]
  BY <1>5, <1>7, WrittenReads
<1>9. /\ Get(w.fields, "jsonrpc") = "2.0" /\ Get(w.fields, "method") = q.method
      /\ Get(w.fields, "params") = q.params /\ Get(w.fields, "id") = q.id
  <2>1. /\ "jsonrpc" \in REQUEST_ENVELOPE_FIELDS /\ "method" \in REQUEST_ENVELOPE_FIELDS
        /\ "params" \in REQUEST_ENVELOPE_FIELDS /\ "id" \in REQUEST_ENVELOPE_FIELDS
    BY DEF REQUEST_ENVELOPE_FIELDS
  <2> QED BY <1>5, <1>8, <2>1
<1>10. q = [error |-> "none", method |-> q.method, params |-> q.params, id |-> q.id]
  BY DEF ParseRequest
<1>11. ASSUME ~(size > MaxJsonSize) PROVE ParseRequest(w) = q
  <2>1. GoodRequest(w)
    BY <1>3, <1>8, <1>9, <1>11, Zenon DEF GoodRequest
  <2>2. RequestError(w) = "none"
    BY <2>1, RequestsAccepted
  <2>3. ParseRequest(w) = [error |-> "none", method |-> q.method, params |-> q.params, id |-> q.id]
    BY <1>9, <2>2 DEF ParseRequest
  <2> QED BY <1>10, <2>3, Zenon
<1>12. ASSUME size > MaxJsonSize PROVE ParseRequest(w).error = "RequestTooLarge"
  <2>1. RequestError(w) = "RequestTooLarge"
    BY <1>8, <1>12, RequestsAccepted
  <2> QED BY <2>1 DEF ParseRequest
<1>13. FormatRequestError(q) = "none"
  BY <1>3, RequestsFormatted
<1> QED BY <1>6, <1>11, <1>12, <1>13, Zenon DEF ReadsBack

\* A response that was accepted is written, and read as the same response but for what is
\* removed from its error, or refused for its size.
LEMMA ResponseReadsBack ==
    ASSUME NEW d, NEW a, a = ParseResponse(d), a.error = "none", NEW size
    PROVE  /\ FormatResponseError(a) = "none"
           /\ ReadsBack(ParseResponse(FormatResponse(a, size)), size,
                        [a EXCEPT !.failure = SanitizedError(a.failure)])
<1>1. /\ a.result = Get(d.fields, "result") /\ a.failure = Get(d.fields, "error")
      /\ a.id = Get(d.fields, "id") /\ ResponseError(d) = "none"
  BY DEF ParseResponse
<1>2. GoodResponse(d)
  BY <1>1, ResponsesAccepted
<1>3. /\ a.id \in AcceptedIds \ {"absent"} /\ a.failure \in {"absent", "error", "sensitive error"}
      /\ a.result # "absent" <=> a.failure = "absent"
  BY <1>1, <1>2, Zenon DEF GoodResponse
<1>4. PICK e : e = SanitizedError(a.failure)
  OBVIOUS
<1>5. e \in {"absent", "error", "sensitive error"} /\ (a.result # "absent" <=> e = "absent")
  BY <1>3, <1>4 DEF SanitizedError
<1>6. PICK r : r = [jsonrpc |-> "2.0", result |-> a.result, error |-> e, id |-> a.id]
  OBVIOUS
<1>7. /\ DOMAIN r = RESPONSE_ENVELOPE_FIELDS
      /\ r["jsonrpc"] = "2.0" /\ r["result"] = a.result /\ r["error"] = e /\ r["id"] = a.id
  BY <1>6 DEF RESPONSE_ENVELOPE_FIELDS
<1>8. PICK w : w = FormatResponse(a, size)
  OBVIOUS
<1>9. w = Written(r, size)
  BY <1>4, <1>6, <1>8 DEF FormatResponse
<1>10. /\ w.size = size /\ (~(size > MaxJsonSize) => GoodText(w))
       /\ w.shape = "object" /\ DOMAIN w.fields \subseteq RESPONSE_ENVELOPE_FIELDS
       /\ \A n \in RESPONSE_ENVELOPE_FIELDS : Get(w.fields, n) = r[n]
  BY <1>7, <1>9, WrittenReads
<1>11. /\ Get(w.fields, "jsonrpc") = "2.0" /\ Get(w.fields, "result") = a.result
       /\ Get(w.fields, "error") = e /\ Get(w.fields, "id") = a.id
  <2>1. /\ "jsonrpc" \in RESPONSE_ENVELOPE_FIELDS /\ "result" \in RESPONSE_ENVELOPE_FIELDS
        /\ "error" \in RESPONSE_ENVELOPE_FIELDS /\ "id" \in RESPONSE_ENVELOPE_FIELDS
    BY DEF RESPONSE_ENVELOPE_FIELDS
  <2> QED BY <1>7, <1>10, <2>1
<1>12. a = [error |-> "none", result |-> a.result, failure |-> a.failure, id |-> a.id]
  BY DEF ParseResponse
<1>13. [a EXCEPT !.failure = e] = [error |-> "none", result |-> a.result, failure |-> e, id |-> a.id]
  BY <1>12
<1>14. ASSUME ~(size > MaxJsonSize) PROVE ParseResponse(w) = [a EXCEPT !.failure = e]
  <2>1. GoodResponse(w)
    BY <1>3, <1>5, <1>10, <1>11, <1>14, Zenon DEF GoodResponse
  <2>2. ResponseError(w) = "none"
    BY <2>1, ResponsesAccepted
  <2>3. ParseResponse(w) = [error |-> "none", result |-> a.result, failure |-> e, id |-> a.id]
    BY <1>11, <2>2 DEF ParseResponse
  <2> QED BY <1>13, <2>3, Zenon
<1>15. ASSUME size > MaxJsonSize PROVE ParseResponse(w).error = "RequestTooLarge"
  <2>1. ResponseError(w) = "RequestTooLarge"
    BY <1>10, <1>15, ResponsesAccepted
  <2> QED BY <2>1 DEF ParseResponse
<1>16. FormatResponseError(a) = "none"
  BY <1>3, ResponsesFormatted
<1> QED BY <1>4, <1>8, <1>14, <1>15, <1>16, Zenon DEF ReadsBack

JsonSpec == JsonInit /\ [][ParseDoc]_jsonVars

JsonInv == parsed = NotParsed \/ parsed = <<ParseRequest(doc), ParseResponse(doc)>>

\* Both, for the text that was parsed, which is not a request and a response at once.
LEMMA JsonConclusion == JsonInv => EnvelopeReadsBack
<1> SUFFICES ASSUME JsonInv, parsed # NotParsed PROVE EnvelopeReadsBack
  BY DEF EnvelopeReadsBack
<1>1. PICK q, a : q = ParseRequest(doc) /\ a = ParseResponse(doc)
  OBVIOUS
<1>2. parsed = <<q, a>> /\ parsed[1] = q /\ parsed[2] = a
  BY <1>1 DEF JsonInv
<1>3. q.error = "none" =>
        /\ FormatRequestError(q) = "none"
        /\ \A size \in WrittenSizes : ReadsBack(ParseRequest(FormatRequest(q, size)), size, q)
  BY <1>1, RequestReadsBack
<1>4. a.error = "none" =>
        /\ FormatResponseError(a) = "none"
        /\ \A size \in WrittenSizes :
             ReadsBack(ParseResponse(FormatResponse(a, size)), size,
                       [a EXCEPT !.failure = SanitizedError(a.failure)])
  BY <1>1, ResponseReadsBack
<1>5. q.error # "none" \/ a.error # "none"
  <2>1. SUFFICES ASSUME q.error = "none", a.error = "none" PROVE FALSE
    OBVIOUS
  <2>2. RequestError(doc) = "none" /\ ResponseError(doc) = "none"
    BY <1>1, <2>1 DEF ParseRequest, ParseResponse
  <2>3. GoodRequest(doc) /\ GoodResponse(doc)
    BY <2>2, RequestsAccepted, ResponsesAccepted
  <2>4. Get(doc.fields, "method") # "absent" /\ DOMAIN doc.fields \subseteq RESPONSE_ENVELOPE_FIELDS
    BY <2>3 DEF GoodRequest, GoodResponse
  <2> QED BY <2>4 DEF Get, RESPONSE_ENVELOPE_FIELDS
<1> QED BY <1>2, <1>3, <1>4, <1>5, Zenon DEF EnvelopeReadsBack

\* parse_request, parse_response, format_request and format_response of
\* src/src/compat/json_rpc.rs: of any set of texts, for any size limit and whatever size
\* the written text has, what the parser accepts the formatter writes, and the parser
\* reads it back as the same message or, exactly when it is over the limit, refuses it
\* as too large; no text is both a request and a response.
THEOREM EnvelopesReadBack == JsonSpec => []EnvelopeReadsBack
<1>1. JsonInit => JsonInv
  BY DEF JsonInit, JsonInv
<1>2. JsonInv /\ [ParseDoc]_jsonVars => JsonInv'
  BY DEF JsonInv, ParseDoc, jsonVars
<1>3. JsonInv => EnvelopeReadsBack
  BY JsonConclusion
<1> QED BY <1>1, <1>2, <1>3, PTL DEF JsonSpec

-----------------------------------------------------------------------------
(* StdioServer *)

\* A behaviour of StdioServer by itself.
StdioSpec == StdioInit /\ [][StdioNext]_stdioVars

\* What is left of the bytes without the white space at their end is the first
\* m of them.
Trimmed(bytes, m) ==
    /\ m \in 0 .. Len(bytes)
    /\ m > 0 => bytes[m] \notin {"n", "s"}
    /\ \A i \in m + 1 .. Len(bytes) : bytes[i] \in {"n", "s"}

\* str::trim_end keeps the bytes up to the last that is not white space.
LEMMA TrimEndIs ==
    ASSUME NEW S, NEW bytes \in Seq(S)
    PROVE  \E m \in Nat : Trimmed(bytes, m) /\ TrimEnd(bytes) = SubSeq(bytes, 1, m)
<1>1. PICK kept : kept = {i \in DOMAIN bytes : bytes[i] \notin {"n", "s"}}
  OBVIOUS
<1>2. PICK n \in Nat : n = Len(bytes) /\ DOMAIN bytes = 1 .. n
  OBVIOUS
<1>3. CASE kept = {}
  <2>1. TrimEnd(bytes) = <<>>
    BY <1>1, <1>3 DEF TrimEnd
  <2>2. SubSeq(bytes, 1, 0) = <<>>
    OBVIOUS
  <2>3. Trimmed(bytes, 0)
    BY <1>1, <1>2, <1>3 DEF Trimmed
  <2> QED BY <2>1, <2>2, <2>3
<1>4. CASE kept # {}
  <2>1. kept \subseteq Nat /\ \A i \in kept : i <= n
    BY <1>1, <1>2
  <2>2. PICK m : m = CHOOSE i \in kept : \A j \in kept : i >= j
    OBVIOUS
  <2>3. m \in kept /\ \A j \in kept : m >= j
    BY <1>4, <2>1, <2>2, GreatestIsChosen, Zenon
  <2>4. TrimEnd(bytes) = SubSeq(bytes, 1, m)
    BY <1>1, <1>4, <2>2 DEF TrimEnd, Max
  <2>5. m \in 1 .. n /\ bytes[m] \notin {"n", "s"}
    BY <1>1, <1>2, <2>3
  <2>6. ASSUME NEW i \in m + 1 .. n PROVE bytes[i] \in {"n", "s"}
    BY <1>1, <1>2, <2>3, <2>5
  <2>7. Trimmed(bytes, m)
    BY <1>2, <2>5, <2>6 DEF Trimmed
  <2> QED BY <2>4, <2>5, <2>7
<1> QED BY <1>3, <1>4

\* There is one such place.
LEMMA TrimmedOnce ==
    ASSUME NEW S, NEW bytes \in Seq(S), NEW m \in Nat, NEW k \in Nat, Trimmed(bytes, m), Trimmed(bytes, k)
    PROVE  m = k
<1>1. PICK n \in Nat : n = Len(bytes)
  OBVIOUS
<1>2. m <= n /\ k <= n
  BY <1>1 DEF Trimmed
<1>3. ~(m < k)
  <2>1. SUFFICES ASSUME m < k PROVE FALSE
    OBVIOUS
  <2>2. k \in m + 1 .. n /\ k > 0
    BY <1>2, <2>1
  <2> QED BY <1>1, <2>2 DEF Trimmed
<1>4. ~(k < m)
  <2>1. SUFFICES ASSUME k < m PROVE FALSE
    OBVIOUS
  <2>2. m \in k + 1 .. n /\ m > 0
    BY <1>2, <2>1
  <2> QED BY <1>1, <2>2 DEF Trimmed
<1> QED BY <1>3, <1>4

\* The newline of a line goes with the white space at its end.
LEMMA NewlineTrimmed ==
    ASSUME NEW S, NEW bytes \in Seq(S), "n" \in S
    PROVE  TrimEnd(Append(bytes, "n")) = TrimEnd(bytes)
<1>1. PICK m \in Nat : Trimmed(bytes, m) /\ TrimEnd(bytes) = SubSeq(bytes, 1, m)
  BY TrimEndIs
<1>2. PICK n \in Nat : n = Len(bytes) /\ m <= n
  BY <1>1 DEF Trimmed
<1>3. PICK longer : longer = Append(bytes, "n")
  OBVIOUS
<1>4. longer \in Seq(S) /\ Len(longer) = n + 1 /\ longer[n + 1] = "n" /\ \A i \in 1 .. n : longer[i] = bytes[i]
  BY <1>2, <1>3
<1>5. PICK k \in Nat : Trimmed(longer, k) /\ TrimEnd(longer) = SubSeq(longer, 1, k)
  BY <1>4, TrimEndIs
<1>6. Trimmed(longer, m)
  <2>1. m \in 0 .. n + 1
    BY <1>2
  <2>2. m > 0 => longer[m] \notin {"n", "s"}
    <3>1. m > 0 => m \in 1 .. n
      BY <1>2
    <3> QED BY <1>1, <1>4, <3>1 DEF Trimmed
  <2>3. ASSUME NEW i \in m + 1 .. n + 1 PROVE longer[i] \in {"n", "s"}
    <3>1. i = n + 1 \/ i \in m + 1 .. n
      BY <1>2
    <3>2. i \in m + 1 .. n => i \in 1 .. n
      OBVIOUS
    <3> QED BY <1>1, <1>2, <1>4, <3>1, <3>2 DEF Trimmed
  <2> QED BY <1>4, <2>1, <2>2, <2>3 DEF Trimmed
<1>7. k = m
  BY <1>4, <1>5, <1>6, TrimmedOnce
<1>8. SubSeq(longer, 1, m) = SubSeq(bytes, 1, m)
  BY <1>2, <1>4
<1> QED BY <1>1, <1>3, <1>5, <1>7, <1>8

\* The text of a line is the text of the line without the white space.
LEMMA TrimmedText ==
    ASSUME NEW S, NEW bytes \in Seq(S)
    PROVE  TextOf(TrimEnd(bytes)) = TextOf(bytes) /\ TrimEnd(bytes) \in Seq(S)
<1>1. PICK m \in Nat : Trimmed(bytes, m) /\ TrimEnd(bytes) = SubSeq(bytes, 1, m)
  BY TrimEndIs
<1>2. PICK n \in Nat : n = Len(bytes) /\ DOMAIN bytes = 1 .. n /\ m <= n
  BY <1>1 DEF Trimmed
<1>3. PICK line : line = TrimEnd(bytes)
  OBVIOUS
<1>4. line \in Seq(S) /\ DOMAIN line = 1 .. m /\ \A i \in 1 .. m : line[i] = bytes[i]
  BY <1>1, <1>2, <1>3
<1>5. PICK A, B : /\ A = {i \in DOMAIN bytes : bytes[i] \notin {"s", "h", "t", "n"}}
                  /\ B = {i \in DOMAIN line : line[i] \notin {"s", "h", "t", "n"}}
  OBVIOUS
<1>6. \A i \in A : i \in 1 .. m
  <2>1. SUFFICES ASSUME NEW i \in A, ~(i <= m) PROVE FALSE
    BY <1>1, <1>2, <1>5
  <2>2. i \in m + 1 .. n /\ bytes[i] \notin {"s", "h", "t", "n"}
    BY <1>2, <1>5, <2>1
  <2> QED BY <1>1, <1>2, <2>2 DEF Trimmed
<1>7. A = B
  <2>1. \A i \in 1 .. m : i \in 1 .. n
    BY <1>2
  <2> QED BY <1>2, <1>4, <1>5, <1>6, <2>1
<1>8. CASE \E i \in A : A = {i}
  <2>1. PICK i \in A : A = {i}
    BY <1>8
  <2>2. PICK c : c = CHOOSE x \in A : TRUE
    OBVIOUS
  <2>3. c \in A
    BY <2>1, <2>2, Zenon
  <2>4. line[c] = bytes[c]
    BY <1>4, <1>6, <2>3
  <2>5. TextOf(bytes) = Texts[bytes[c]]
    BY <1>5, <1>8, <2>2 DEF TextOf
  <2>6. TextOf(line) = Texts[line[c]]
    BY <1>5, <1>7, <1>8, <2>2 DEF TextOf
  <2> QED BY <1>3, <1>4, <2>4, <2>5, <2>6
<1>9. CASE ~(\E i \in A : A = {i})
  <2>1. TextOf(bytes) = Garbled
    BY <1>5, <1>9 DEF TextOf
  <2>2. TextOf(line) = Garbled
    BY <1>5, <1>7, <1>9 DEF TextOf
  <2> QED BY <1>3, <1>4, <2>1, <2>2
<1> QED BY <1>8, <1>9

\* The cuts of a stream, and the step from one to the next.
Cuts(S) == [done : Seq(Seq(S)), last : Seq(S)]
OneByte(sofar, byte) ==
    IF byte = "n" THEN [done |-> Keep(sofar.done, sofar.last), last |-> <<>>]
    ELSE [done |-> sofar.done, last |-> Append(sofar.last, byte)]

\* A byte more is cut into lines.
LEMMA OneByteCuts ==
    ASSUME NEW S, NEW sofar \in Cuts(S), NEW byte \in S
    PROVE  OneByte(sofar, byte) \in Cuts(S)
<1>1. sofar.done \in Seq(Seq(S)) /\ sofar.last \in Seq(S)
  BY DEF Cuts
<1>2. TrimEnd(sofar.last) \in Seq(S)
  BY <1>1, TrimmedText
<1>3. Keep(sofar.done, sofar.last) \in Seq(Seq(S))
  BY <1>1, <1>2, AppendProperties DEF Keep
<1>4. <<>> \in Seq(S) /\ Append(sofar.last, byte) \in Seq(S)
  BY <1>1
<1> QED BY <1>1, <1>3, <1>4 DEF OneByte, Cuts

\* Cut is what its recursion says.
IsCut(c, bytes, S) ==
    /\ c \in [0 .. Len(bytes) -> Cuts(S)]
    /\ c[0] = [done |-> <<>>, last |-> <<>>]
    /\ \A k \in 1 .. Len(bytes) : c[k] = OneByte(c[k - 1], bytes[k])

\* The lines of a stream are those of its bytes, one after the other.
LEMMA CutIs ==
    ASSUME NEW S, NEW bytes \in Seq(S)
    PROVE  IsCut(Cut(bytes), bytes, S)
<1>1. PICK n \in Nat : n = Len(bytes) /\ DOMAIN bytes = 1 .. n
  OBVIOUS
<1>2. PICK V : V = Cuts(S)
  OBVIOUS
<1>3. PICK b : b = [done |-> <<>>, last |-> <<>>]
  OBVIOUS
<1>4. b \in V
  <2>1. <<>> \in Seq(S) /\ <<>> \in Seq(Seq(S))
    OBVIOUS
  <2> QED BY <1>2, <1>3, <2>1 DEF Cuts
<1>5. PICK step : step = [k \in 1 .. n |-> [v \in V |-> OneByte(v, bytes[k])]]
  OBVIOUS
<1>6. step \in [1 .. n -> [V -> V]]
  <2>1. ASSUME NEW k \in 1 .. n PROVE step[k] \in [V -> V]
    <3>1. bytes[k] \in S
      BY <1>1
    <3>2. \A v \in V : OneByte(v, bytes[k]) \in V
      BY <1>2, <3>1, OneByteCuts
    <3>3. step[k] = [v \in V |-> OneByte(v, bytes[k])]
      BY <1>5
    <3> QED BY <3>2, <3>3
  <2>2. step = [k \in 1 .. n |-> step[k]]
    BY <1>5
  <2> QED BY <2>1, <2>2
<1>7. PICK g \in [0 .. n -> V] : Iterates(g, n, b, step)
  BY <1>4, <1>6, Iteration
<1>8. g[0] = b /\ \A k \in 1 .. n : g[k] = OneByte(g[k - 1], bytes[k])
  <2>1. g[0] = b
    BY <1>7 DEF Iterates
  <2>2. ASSUME NEW k \in 1 .. n PROVE g[k] = OneByte(g[k - 1], bytes[k])
    <3>1. k \in 0 .. n /\ k # 0 /\ k - 1 \in 0 .. n
      OBVIOUS
    <3>2. g[k] = step[k][g[k - 1]]
      BY <1>7, <3>1 DEF Iterates
    <3>3. g[k - 1] \in V
      BY <3>1
    <3> QED BY <1>5, <3>2, <3>3
  <2> QED BY <2>1, <2>2
<1> DEFINE Body(f) == [k \in 0 .. n |-> IF k = 0 THEN [done |-> <<>>, last |-> <<>>]
                                        ELSE OneByte(f[k - 1], bytes[k])]
           chosen == CHOOSE f : f = Body(f)
<1>9. g = Body(g)
  <2>1. ASSUME NEW k \in 0 .. n PROVE g[k] = IF k = 0 THEN b ELSE OneByte(g[k - 1], bytes[k])
    <3>1. k = 0 \/ k \in 1 .. n
      OBVIOUS
    <3> QED BY <1>8, <3>1
  <2> QED BY <1>3, <2>1
<1>10. chosen = Body(chosen)
  BY <1>9, Zenon
<1>11. Cut(bytes) = chosen
  BY <1>1 DEF Cut, OneByte
<1> HIDE DEF chosen
<1>12. PICK f : f = Cut(bytes)
  OBVIOUS
<1>13. f = Body(f)
  BY <1>10, <1>11, <1>12
<1>14. /\ f = [k \in 0 .. n |-> f[k]]
       /\ \A k \in 0 .. n : f[k] = IF k = 0 THEN b ELSE OneByte(f[k - 1], bytes[k])
  BY <1>3, <1>13
<1> HIDE DEF Body
<1>15. f[0] = b /\ \A k \in 1 .. n : f[k] = OneByte(f[k - 1], bytes[k])
  <2>1. 0 \in 0 .. n /\ \A k \in 1 .. n : k \in 0 .. n /\ k # 0
    OBVIOUS
  <2> QED BY <1>14, <2>1
<1>16. \A k \in 0 .. n : f[k] \in V
  <2>1. PICK G : G = {k \in 0 .. n : f[k] \in V}
    OBVIOUS
  <2>2. 0 \in G
    BY <1>4, <1>15, <2>1
  <2>3. ASSUME NEW k \in 1 .. n, k - 1 \in G PROVE k \in G
    <3>1. f[k - 1] \in V /\ bytes[k] \in S
      BY <1>1, <2>1, <2>3
    <3>2. f[k] \in V
      BY <1>2, <1>15, <3>1, OneByteCuts
    <3> QED BY <2>1, <3>2
  <2>4. \A k \in 0 .. n : k \in G
    BY <2>2, <2>3, SetInduction
  <2> QED BY <2>1, <2>4
<1> QED BY <1>1, <1>2, <1>3, <1>12, <1>14, <1>15, <1>16 DEF IsCut

\* s is the beginning of t.
Begins(s, t) == Len(s) <= Len(t) /\ \A i \in 1 .. Len(s) : s[i] = t[i]

\* A line more is added at the end, or is blank.
LEMMA KeepBegins ==
    ASSUME NEW S, NEW lines \in Seq(Seq(S)), NEW line \in Seq(S)
    PROVE  Keep(lines, line) \in Seq(Seq(S)) /\ Begins(lines, Keep(lines, line))
<1>1. PICK L : L = Seq(S)
  OBVIOUS
<1>2. PICK l : l = TrimEnd(line)
  OBVIOUS
<1>3. l \in L
  BY <1>1, <1>2, TrimmedText
<1>4. lines \in Seq(L) /\ Begins(lines, lines)
  BY <1>1 DEF Begins
<1>5. Append(lines, l) \in Seq(L) /\ Begins(lines, Append(lines, l))
  BY <1>3, <1>4 DEF Begins
<1>6. Keep(lines, line) = lines \/ Keep(lines, line) = Append(lines, l)
  BY <1>2 DEF Keep
<1> QED BY <1>1, <1>4, <1>5, <1>6

\* A beginning of a beginning.
LEMMA BeginsFurther ==
    ASSUME NEW L, NEW r \in Seq(L), NEW s \in Seq(L), NEW t \in Seq(L), Begins(r, s), Begins(s, t)
    PROVE  Begins(r, t)
<1>1. Len(r) \in Nat /\ Len(s) \in Nat /\ Len(t) \in Nat /\ Len(r) <= Len(s) /\ Len(s) <= Len(t)
  BY DEF Begins
<1>2. \A i \in 1 .. Len(r) : i \in 1 .. Len(s)
  BY <1>1
<1> QED BY <1>1, <1>2 DEF Begins

\* The lines that are done after k bytes are the first lines of the stream.
LEMMA DoneBegins ==
    ASSUME NEW S, NEW bytes \in Seq(S), NEW k \in 0 .. Len(bytes), NEW c, c = Cut(bytes)
    PROVE  Begins(c[k].done, Lines(bytes)) /\ Lines(bytes) \in Seq(Seq(S)) /\ c[k].done \in Seq(Seq(S))
<1>1. PICK n \in Nat : n = Len(bytes)
  OBVIOUS
<1>2. IsCut(c, bytes, S)
  BY CutIs
<1>3. PICK all : all = Lines(bytes)
  OBVIOUS
<1>4. \A i \in 0 .. n : c[i].done \in Seq(Seq(S)) /\ c[i].last \in Seq(S)
  BY <1>1, <1>2 DEF IsCut, Cuts
<1>5. all = Keep(c[n].done, c[n].last)
  BY <1>1, <1>3 DEF Lines
<1>6. all \in Seq(Seq(S)) /\ Begins(c[n].done, all)
  BY <1>4, <1>5, KeepBegins
<1>7. ASSUME NEW i \in 1 .. n PROVE Begins(c[i - 1].done, c[i].done)
  <2>1. i - 1 \in 0 .. n
    OBVIOUS
  <2>2. c[i] = OneByte(c[i - 1], bytes[i])
    BY <1>1, <1>2 DEF IsCut
  <2>3. c[i].done = Keep(c[i - 1].done, c[i - 1].last) \/ c[i].done = c[i - 1].done
    BY <2>2 DEF OneByte
  <2>4. Begins(c[i - 1].done, c[i - 1].done)
    BY <1>4, <2>1 DEF Begins
  <2> QED BY <1>4, <2>1, <2>3, <2>4, KeepBegins
<1>8. PICK L : L = Seq(S)
  OBVIOUS
<1>9. PICK G : G = {j \in 0 .. n : Begins(c[n - j].done, all)}
  OBVIOUS
<1>10. 0 \in G
  BY <1>6, <1>9
<1>11. ASSUME NEW j \in 1 .. n, j - 1 \in G PROVE j \in G
  <2>1. PICK i : i = n - (j - 1)
    OBVIOUS
  <2>2. i \in 1 .. n /\ i - 1 = n - j /\ i \in 0 .. n /\ i - 1 \in 0 .. n
    BY <2>1
  <2>3. Begins(c[i].done, all)
    BY <1>9, <1>11, <2>1
  <2>4. Begins(c[i - 1].done, c[i].done)
    BY <1>7, <2>2
  <2>5. c[i].done \in Seq(L) /\ c[i - 1].done \in Seq(L) /\ all \in Seq(L)
    BY <1>4, <1>6, <1>8, <2>2
  <2>6. Begins(c[i - 1].done, all)
    BY <2>3, <2>4, <2>5, BeginsFurther
  <2> QED BY <1>9, <2>2, <2>6
<1>12. \A j \in 0 .. n : j \in G
  BY <1>10, <1>11, SetInduction
<1>13. n - k \in 0 .. n /\ n - (n - k) = k /\ k \in 0 .. n
  BY <1>1
<1>14. n - k \in G
  BY <1>12, <1>13
<1>15. Begins(c[k].done, all)
  BY <1>9, <1>13, <1>14
<1> QED BY <1>3, <1>4, <1>6, <1>13, <1>15

\* u is s and then the m bytes after the first p.
Longer(u, s, bytes, p, m) ==
    /\ Len(u) = Len(s) + m
    /\ \A i \in 1 .. Len(s) : u[i] = s[i]
    /\ \A i \in 1 .. m : u[Len(s) + i] = bytes[p + i]

\* There is one sequence that is longer by the same bytes.
LEMMA LongerOnce ==
    ASSUME NEW S, NEW u \in Seq(S), NEW v \in Seq(S), NEW s \in Seq(S), NEW bytes, NEW p \in Nat, NEW m \in Nat,
           Longer(u, s, bytes, p, m), Longer(v, s, bytes, p, m)
    PROVE  u = v
<1>1. PICK l \in Nat : l = Len(s)
  OBVIOUS
<1>2. Len(u) = l + m /\ Len(v) = l + m
  BY <1>1 DEF Longer
<1>3. ASSUME NEW i \in 1 .. l + m PROVE u[i] = v[i]
  <2>1. CASE i <= l
    <3>1. i \in 1 .. l
      BY <2>1
    <3> QED BY <1>1, <3>1 DEF Longer
  <2>2. CASE ~(i <= l)
    <3>1. PICK j : j = i - l
      OBVIOUS
    <3>2. j \in 1 .. m /\ i = l + j
      BY <2>2, <3>1
    <3>3. u[l + j] = bytes[p + j] /\ v[l + j] = bytes[p + j]
      BY <1>1, <3>2 DEF Longer
    <3> QED BY <3>2, <3>3
  <2> QED BY <2>1, <2>2
<1> QED BY <1>2, <1>3, SeqEqual

\* A byte more.
LEMMA LongerByOne ==
    ASSUME NEW S, NEW u \in Seq(S), NEW s \in Seq(S), NEW bytes, NEW p \in Nat, NEW m \in Nat,
           Longer(u, s, bytes, p, m), NEW b \in S, b = bytes[p + m + 1]
    PROVE  Append(u, b) \in Seq(S) /\ Longer(Append(u, b), s, bytes, p, m + 1)
<1>1. PICK l \in Nat : l = Len(s)
  OBVIOUS
<1>2. PICK v : v = Append(u, b)
  OBVIOUS
<1>3. Len(u) = l + m
  BY <1>1 DEF Longer
<1>4. v \in Seq(S) /\ Len(v) = l + m + 1 /\ v[l + m + 1] = b /\ \A i \in 1 .. l + m : v[i] = u[i]
  BY <1>2, <1>3
<1>5. ASSUME NEW i \in 1 .. l PROVE v[i] = s[i]
  <2>1. i \in 1 .. l + m
    OBVIOUS
  <2> QED BY <1>1, <1>4, <2>1 DEF Longer
<1>6. ASSUME NEW i \in 1 .. m + 1 PROVE v[l + i] = bytes[p + i]
  <2>1. CASE i = m + 1
    <3>1. l + i = l + m + 1 /\ p + i = p + m + 1
      BY <2>1
    <3> QED BY <1>4, <3>1
  <2>2. CASE i # m + 1
    <3>1. i \in 1 .. m /\ l + i \in 1 .. l + m
      BY <2>2
    <3>2. u[l + i] = bytes[p + i]
      BY <1>1, <3>1 DEF Longer
    <3> QED BY <1>4, <3>1, <3>2
  <2> QED BY <2>1, <2>2
<1>7. Len(v) = l + (m + 1)
  BY <1>4
<1> QED BY <1>1, <1>2, <1>4, <1>5, <1>6, <1>7 DEF Longer

\* Without a newline among them, the next m bytes only make the line longer.
LEMMA CutRun ==
    ASSUME NEW S, NEW bytes \in Seq(S), NEW c, IsCut(c, bytes, S), NEW p \in Nat, NEW m \in Nat,
           p + m <= Len(bytes), \A i \in 1 .. m : bytes[p + i] # "n"
    PROVE  c[p + m].done = c[p].done /\ Longer(c[p + m].last, c[p].last, bytes, p, m)
<1>1. PICK n \in Nat : n = Len(bytes) /\ p + m <= n
  OBVIOUS
<1>2. \A i \in 0 .. n : c[i].last \in Seq(S)
  BY <1>1 DEF IsCut, Cuts
<1>3. PICK s : s = c[p].last
  OBVIOUS
<1>4. s \in Seq(S)
  <2>1. p \in 0 .. n
    BY <1>1
  <2> QED BY <1>2, <1>3, <2>1
<1>5. PICK G : G = {i \in 0 .. m : c[p + i].done = c[p].done /\ Longer(c[p + i].last, s, bytes, p, i)}
  OBVIOUS
<1>6. 0 \in G
  <2>1. p + 0 = p /\ 0 \in 0 .. m
    OBVIOUS
  <2>2. Longer(s, s, bytes, p, 0)
    BY <1>4 DEF Longer
  <2> QED BY <1>3, <1>5, <2>1, <2>2
<1>7. ASSUME NEW i \in 1 .. m, i - 1 \in G PROVE i \in G
  <2>1. PICK q : q = p + (i - 1)
    OBVIOUS
  <2>2. q + 1 = p + i /\ q \in 0 .. n /\ q + 1 \in 1 .. n /\ (q + 1) - 1 = q /\ p + (i - 1) + 1 = q + 1
    BY <1>1, <2>1
  <2>3. c[q].done = c[p].done /\ Longer(c[q].last, s, bytes, p, i - 1)
    BY <1>5, <1>7, <2>1
  <2>4. bytes[q + 1] # "n" /\ bytes[q + 1] \in S
    BY <1>1, <2>2
  <2>5. c[q + 1] = OneByte(c[q], bytes[q + 1])
    BY <1>1, <2>2 DEF IsCut
  <2>6. c[q + 1].done = c[q].done /\ c[q + 1].last = Append(c[q].last, bytes[q + 1])
    BY <2>4, <2>5 DEF OneByte
  <2>7. PICK u, b : u = c[q].last /\ b = bytes[q + 1]
    OBVIOUS
  <2>8. u \in Seq(S) /\ b \in S /\ Longer(u, s, bytes, p, i - 1) /\ b = bytes[p + (i - 1) + 1]
    BY <1>2, <2>2, <2>3, <2>4, <2>7
  <2>9. i - 1 \in Nat /\ (i - 1) + 1 = i
    OBVIOUS
  <2>10. Longer(Append(u, b), s, bytes, p, i)
    <3>1. PICK j \in Nat : j = i - 1
      BY <2>9
    <3>2. Longer(Append(u, b), s, bytes, p, j + 1)
      BY <1>4, <2>8, <3>1, LongerByOne
    <3> QED BY <2>9, <3>1, <3>2
  <2>11. i \in 0 .. m
    OBVIOUS
  <2> QED BY <1>5, <2>2, <2>3, <2>6, <2>7, <2>10, <2>11
<1>8. \A i \in 0 .. m : i \in G
  BY <1>6, <1>7, SetInduction
<1>9. m \in G
  BY <1>8
<1> QED BY <1>3, <1>5, <1>9

\* The last l of the first k bytes are no newlines.
Unbroken(bytes, k, l) == l \in 0 .. k /\ \A i \in k - l + 1 .. k : bytes[i] # "n"

\* A line that is not done is the bytes since the last newline.
LEMMA LastUnbroken ==
    ASSUME NEW S, NEW bytes \in Seq(S), NEW c, IsCut(c, bytes, S), NEW k \in 0 .. Len(bytes)
    PROVE  Unbroken(bytes, k, Len(c[k].last))
<1>1. PICK n \in Nat : n = Len(bytes)
  OBVIOUS
<1>2. \A i \in 0 .. n : c[i].last \in Seq(S)
  BY <1>1 DEF IsCut, Cuts
<1>3. PICK G : G = {i \in 0 .. n : Unbroken(bytes, i, Len(c[i].last))}
  OBVIOUS
<1>4. 0 \in G
  <2>1. Len(c[0].last) = 0
    BY DEF IsCut
  <2>2. Unbroken(bytes, 0, 0)
    BY DEF Unbroken
  <2> QED BY <1>3, <2>1, <2>2
<1>5. ASSUME NEW i \in 1 .. n, i - 1 \in G PROVE i \in G
  <2>1. PICK l \in Nat : l = Len(c[i - 1].last)
    <3>1. i - 1 \in 0 .. n
      OBVIOUS
    <3> QED BY <1>2, <3>1
  <2>2. Unbroken(bytes, i - 1, l)
    BY <1>3, <1>5, <2>1
  <2>3. c[i] = OneByte(c[i - 1], bytes[i])
    BY <1>1 DEF IsCut
  <2>4. CASE bytes[i] = "n"
    <3>1. Len(c[i].last) = 0
      BY <2>3, <2>4 DEF OneByte
    <3>2. Unbroken(bytes, i, 0)
      BY DEF Unbroken
    <3> QED BY <1>3, <3>1, <3>2
  <2>5. CASE bytes[i] # "n"
    <3>1. i - 1 \in 0 .. n
      OBVIOUS
    <3>2. PICK u : u = c[i - 1].last
      OBVIOUS
    <3>3. u \in Seq(S) /\ bytes[i] \in S
      BY <1>1, <1>2, <3>1, <3>2
    <3>4. c[i].last = Append(u, bytes[i])
      BY <2>3, <2>5, <3>2 DEF OneByte
    <3>5. Len(c[i].last) = l + 1
      BY <2>1, <3>2, <3>3, <3>4
    <3>6. l + 1 \in 0 .. i
      BY <2>2 DEF Unbroken
    <3>7. ASSUME NEW j \in i - (l + 1) + 1 .. i PROVE bytes[j] # "n"
      <4>1. j = i \/ j \in (i - 1) - l + 1 .. i - 1
        OBVIOUS
      <4> QED BY <2>2, <2>5, <4>1 DEF Unbroken
    <3>8. Unbroken(bytes, i, l + 1)
      BY <3>6, <3>7 DEF Unbroken
    <3> QED BY <1>3, <3>5, <3>8
  <2> QED BY <2>4, <2>5
<1>6. \A i \in 0 .. n : i \in G
  BY <1>4, <1>5, SetInduction
<1>7. k \in G
  BY <1>1, <1>6
<1> QED BY <1>3, <1>7

\* What read_line_bounded takes of the bytes between p and end: to the first
\* newline, or all.
TakeOf(available) ==
    LET newlines == {i \in DOMAIN available : available[i] = "n"}
    IN  IF newlines = {} THEN Len(available) ELSE Min(newlines)

\* Of the a bytes after the first p that are available.
Takes(available, take, bytes, p, a) ==
    /\ Len(available) = a /\ \A i \in 1 .. a : available[i] = bytes[p + i]
    /\ take \in 1 .. a
    /\ \A i \in 1 .. take - 1 : bytes[p + i] # "n"
    /\ bytes[p + take] = "n" \/ take = a

\* read_line_bounded: what it takes of the bytes that are there, up to the first newline.
LEMMA TakeIs ==
    ASSUME NEW S, NEW bytes \in Seq(S), NEW p \in Nat, NEW a \in Nat, a >= 1, p + a <= Len(bytes),
           NEW available, available = SubSeq(bytes, p + 1, p + a), NEW take, take = TakeOf(available)
    PROVE  available \in Seq(S) /\ Takes(available, take, bytes, p, a)
<1>1. available \in Seq(S) /\ Len(available) = a /\ \A i \in 1 .. a : available[i] = bytes[p + i]
  <2>1. \A i \in p + 1 .. p + a : bytes[i] \in S
    OBVIOUS
  <2> QED BY <2>1, SubSeqProperties
<1>2. PICK newlines : newlines = {i \in DOMAIN available : available[i] = "n"}
  OBVIOUS
<1>3. take = IF newlines = {} THEN Len(available) ELSE Min(newlines)
  BY <1>2 DEF TakeOf
<1>4. DOMAIN available = 1 .. a
  BY <1>1
<1>5. \A i \in 1 .. a : i \in newlines <=> bytes[p + i] = "n"
  BY <1>1, <1>2, <1>4
<1>6. CASE newlines = {}
  <2>1. take = a
    BY <1>1, <1>3, <1>6
  <2>2. ASSUME NEW i \in 1 .. a - 1 PROVE bytes[p + i] # "n"
    <3>1. i \in 1 .. a /\ i \notin newlines
      BY <1>6
    <3> QED BY <1>5, <3>1, Zenon
  <2>3. a \in 1 .. a
    OBVIOUS
  <2>4. \A i \in 1 .. take - 1 : bytes[p + i] # "n"
    BY <2>1, <2>2, Zenon
  <2> QED BY <1>1, <2>1, <2>3, <2>4, Zenon DEF Takes
<1>7. CASE newlines # {}
  <2>1. newlines \subseteq Nat
    BY <1>2, <1>4
  <2>2. PICK m \in newlines : \A j \in newlines : m <= j
    BY <1>7, <2>1, LeastElement
  <2>3. take = m
    <3>1. take = CHOOSE i \in newlines : \A j \in newlines : i <= j
      BY <1>3, <1>7 DEF Min
    <3> QED BY <2>1, <2>2, <3>1, LeastIsChosen
  <2>4. m \in 1 .. a /\ bytes[p + m] = "n"
    BY <1>2, <1>4, <1>5, <2>2
  <2>5. \A i \in 1 .. m - 1 : bytes[p + i] # "n"
    BY <1>5, <2>1, <2>2, <2>4
  <2> QED BY <1>1, <2>3, <2>4, <2>5 DEF Takes
<1> QED BY <1>1, <1>6, <1>7

\* A piece that is not UTF-8 where the stream is begins or ends inside a
\* character.
LEMMA PieceInvalid ==
    ASSUME NEW S, NEW bytes \in Seq(S), NEW p \in Nat, NEW m \in Nat, p + m <= Len(bytes),
           NEW part \in Seq(S), Len(part) = m, \A i \in 1 .. m : part[i] = bytes[p + i],
           ~ValidUtf8(part), ValidUtf8(bytes), p > 0 => bytes[p] # "h"
    PROVE  bytes[p + m] = "h"
<1>1. PICK i \in 1 .. m : \/ part[i] = "h" /\ ~(i < m /\ part[i + 1] = "t")
                          \/ part[i] = "t" /\ ~(i > 1 /\ part[i - 1] = "h")
  <2>1. DOMAIN part = 1 .. m
    OBVIOUS
  <2> QED BY <2>1 DEF ValidUtf8
<1>2. PICK q \in Nat : q = p + i
  OBVIOUS
<1>3. q \in DOMAIN bytes /\ bytes[q] = part[i]
  BY <1>2
<1>4. CASE part[i] = "h" /\ ~(i < m /\ part[i + 1] = "t")
  <2>1. bytes[q + 1] = "t"
    BY <1>3, <1>4 DEF ValidUtf8
  <2>2. CASE i < m
    <3>1. i + 1 \in 1 .. m /\ p + (i + 1) = q + 1
      BY <1>2, <2>2
    <3> QED BY <1>4, <2>1, <2>2, <3>1
  <2>3. CASE i = m
    BY <1>2, <1>3, <1>4, <2>3
  <2> QED BY <2>2, <2>3
<1>5. CASE part[i] = "t" /\ ~(i > 1 /\ part[i - 1] = "h")
  <2>1. q > 1 /\ bytes[q - 1] = "h"
    BY <1>3, <1>5 DEF ValidUtf8
  <2>2. CASE i > 1
    <3>1. i - 1 \in 1 .. m /\ p + (i - 1) = q - 1
      BY <1>2, <2>2
    <3> QED BY <1>5, <2>1, <2>2, <3>1
  <2>3. CASE i = 1
    <3>1. q - 1 = p /\ p > 0
      BY <1>2, <2>1, <2>3
    <3> QED BY <2>1, <3>1
  <2> QED BY <2>2, <2>3
<1> QED BY <1>1, <1>4, <1>5

\* A line of which room bytes more than fit are there is too long.
LEMMA TooLong ==
    ASSUME NEW S, stdin \in Seq(S), max_message_size \in Nat, NEW p \in Nat, NEW l \in Nat, NEW room \in Nat,
           Unbroken(stdin, p, l), l + room = max_message_size, p + room + 1 <= Len(stdin),
           \A i \in 1 .. room : stdin[p + i] # "n"
    PROVE  SomeLineTooLong
<1>1. PICK n \in Nat, max \in Nat : n = Len(stdin) /\ max = max_message_size
  OBVIOUS
<1>2. l + room = max /\ p + room + 1 <= n /\ l <= p
  BY <1>1 DEF Unbroken
<1>3. PICK i \in Nat : i = p - l + 1
  BY <1>2
<1>4. i \in 1 .. n /\ i + max <= n /\ i + max - 1 = p + room
  BY <1>2, <1>3
<1>5. ASSUME NEW j \in i .. p + room PROVE stdin[j] # "n"
  <2>1. CASE j <= p
    <3>1. j \in p - l + 1 .. p
      BY <1>3, <2>1
    <3> QED BY <3>1 DEF Unbroken
  <2>2. CASE ~(j <= p)
    <3>1. PICK d : d = j - p
      OBVIOUS
    <3>2. d \in 1 .. room /\ j = p + d
      BY <1>3, <2>2, <3>1
    <3> QED BY <3>2
  <2> QED BY <2>1, <2>2
<1> QED BY <1>1, <1>4, <1>5 DEF SomeLineTooLong

----------------------------------------------------------------------------

Symbols == {stdin[i] : i \in DOMAIN stdin}
StdioAnswers == {"-32700", "-32600", "-32601", "-32001", "result", Silent, "lost"}
Entries == [line : Seq(Symbols), answer : StdioAnswers]

LineOf(entries) == [i \in DOMAIN entries |-> entries[i].line]

StdioTypes ==
    /\ stdin \in Streams /\ stdin \in Seq(Symbols) /\ max_message_size \in Nat
    /\ pos \in 0 .. Len(stdin) /\ filled \in pos .. Len(stdin)
    /\ shutdown \in BOOLEAN /\ initialize_seen \in BOOLEAN /\ initialized \in BOOLEAN
    /\ lpc \in {"start", "reading", "handle", "stopped"}
    /\ lpc # "stopped" => stopped_by = "none"
    /\ read_buffer \in Seq(Symbols) /\ handled \in Seq(Entries)

\* The lines are those of the bytes consumed, of which none is under way; at
\* the end of the stream the last line needs no newline.
Settled(lines) ==
    \/ Cut(stdin)[pos].last = <<>> /\ lines = Cut(stdin)[pos].done
    \/ pos = Len(stdin) /\ lines = Lines(stdin)

\* Where the loop is in the stream.
InStream ==
    /\ lpc = "start" => Settled(LineOf(handled))
    /\ lpc = "reading" =>
         /\ Len(read_buffer) <= max_message_size
         /\ \/ LineOf(handled) = Cut(stdin)[pos].done /\ read_buffer = Cut(stdin)[pos].last
            \/ pos = Len(stdin) /\ read_buffer = <<>> /\ LineOf(handled) = Lines(stdin)
    /\ lpc = "handle" => Settled(Append(LineOf(handled), TrimEnd(read_buffer)))
    /\ (lpc # "stopped" /\ pos > 0) => stdin[pos] # "h"

\* What was handled, and why it stopped.
SoFarExact ==
    /\ Begins(LineOf(handled), Lines(stdin))
    /\ stopped_by = "eof" => LineOf(handled) = Lines(stdin)
    /\ stopped_by = "size" => SomeLineTooLong
    /\ stopped_by = "utf8" => SomeLineTooLong \/ ~ValidUtf8(stdin) \/ stdin[filled] = "h"

Begun(entry) == IsMessage(entry, "initialize", FALSE) /\ entry.answer = "result"
Confirmed(entry) == IsMessage(entry, "notifications/initialized", TRUE) /\ entry.answer = Silent

\* The session's flags stand for what was handled; a server whose answer to
\* initialize was lost has stopped.
SessionKnown ==
    /\ ~initialize_seen => \A i \in DOMAIN handled : ~Begun(handled[i])
    /\ (lpc # "stopped" /\ initialize_seen) => \E j \in DOMAIN handled : Begun(handled[j])
    /\ (lpc # "stopped" /\ initialized) =>
         \E j, k \in DOMAIN handled : j < k /\ Begun(handled[j]) /\ Confirmed(handled[k])
    /\ LifecycleHeld

StdioInv == StdioTypes /\ InStream /\ SoFarExact /\ SessionKnown

\* The stream as it is cut.
LEMMA StreamCut ==
    ASSUME StdioTypes
    PROVE  /\ IsCut(Cut(stdin), stdin, Symbols)
           /\ Lines(stdin) \in Seq(Seq(Symbols))
           /\ \A k \in 0 .. Len(stdin) : /\ Cut(stdin)[k].done \in Seq(Seq(Symbols))
                                         /\ Cut(stdin)[k].last \in Seq(Symbols)
                                         /\ Begins(Cut(stdin)[k].done, Lines(stdin))
<1>1. stdin \in Seq(Symbols)
  BY DEF StdioTypes
<1>2. IsCut(Cut(stdin), stdin, Symbols)
  BY <1>1, CutIs
<1>3. \A k \in 0 .. Len(stdin) : /\ Cut(stdin)[k].done \in Seq(Seq(Symbols))
                                 /\ Begins(Cut(stdin)[k].done, Lines(stdin))
                                 /\ Lines(stdin) \in Seq(Seq(Symbols))
  BY <1>1, DoneBegins
<1>4. \A k \in 0 .. Len(stdin) : Cut(stdin)[k].last \in Seq(Symbols)
  BY <1>2 DEF IsCut, Cuts
<1>5. 0 \in 0 .. Len(stdin)
  BY <1>1
<1> QED BY <1>2, <1>3, <1>4, <1>5

\* The lines of the messages handled.
LEMMA LinesOfEntries ==
    ASSUME NEW h, h \in Seq(Entries)
    PROVE  LineOf(h) \in Seq(Seq(Symbols)) /\ Len(LineOf(h)) = Len(h)
<1>1. PICK n \in Nat : n = Len(h) /\ DOMAIN h = 1 .. n
  OBVIOUS
<1>2. \A i \in 1 .. n : h[i].line \in Seq(Symbols)
  <2>1. ASSUME NEW i \in 1 .. n PROVE h[i] \in Entries
    BY <1>1
  <2> QED BY <2>1 DEF Entries
<1>3. PICK L : L = Seq(Symbols)
  OBVIOUS
<1>4. LineOf(h) = [i \in 1 .. n |-> h[i].line]
  BY <1>1 DEF LineOf
<1>5. LineOf(h) \in [1 .. n -> L]
  BY <1>2, <1>3, <1>4
<1>6. LineOf(h) \in Seq(L) /\ Len(LineOf(h)) = n
  BY <1>5
<1> QED BY <1>1, <1>3, <1>6

\* A message more is a line more.
LEMMA LineAppended ==
    ASSUME NEW h, h \in Seq(Entries), NEW e, e \in Entries
    PROVE  LineOf(Append(h, e)) = Append(LineOf(h), e.line)
<1>1. PICK n \in Nat : n = Len(h) /\ DOMAIN h = 1 .. n
  OBVIOUS
<1>2. e.line \in Seq(Symbols)
  BY DEF Entries
<1>3. PICK g : g = Append(h, e)
  OBVIOUS
<1>4. g \in Seq(Entries) /\ Len(g) = n + 1 /\ g[n + 1] = e /\ \A i \in 1 .. n : g[i] = h[i]
  BY <1>1, <1>3, AppendProperties
<1>5. PICK L : L = Seq(Symbols)
  OBVIOUS
<1>6. PICK u, v : u = LineOf(g) /\ v = LineOf(h)
  OBVIOUS
<1>7. u \in Seq(L) /\ Len(u) = n + 1 /\ v \in Seq(L) /\ Len(v) = n /\ e.line \in L
  BY <1>1, <1>2, <1>4, <1>5, <1>6, LinesOfEntries
<1>8. u[n + 1] = e.line /\ \A i \in 1 .. n : u[i] = v[i]
  <2>1. DOMAIN g = 1 .. n + 1 /\ DOMAIN h = 1 .. n
    BY <1>1, <1>4
  <2>2. \A i \in 1 .. n : i \in 1 .. n + 1
    OBVIOUS
  <2>3. n + 1 \in 1 .. n + 1
    OBVIOUS
  <2> QED BY <1>4, <1>6, <2>1, <2>2, <2>3 DEF LineOf
<1>9. PICK w : w = Append(v, e.line)
  OBVIOUS
<1>10. w \in Seq(L) /\ Len(w) = n + 1 /\ w[n + 1] = e.line /\ \A i \in 1 .. n : w[i] = v[i]
  BY <1>7, <1>9
<1>11. \A i \in 1 .. n + 1 : u[i] = w[i]
  <2>1. \A i \in 1 .. n + 1 : i = n + 1 \/ i \in 1 .. n
    OBVIOUS
  <2> QED BY <1>8, <1>10, <2>1
<1>12. u = w
  BY <1>7, <1>10, <1>11, SeqEqual
<1> QED BY <1>3, <1>6, <1>9, <1>12

\* Nothing but the loop's place changes, or nothing at all.
LEMMA ReadMessageStep == StdioInv /\ ReadMessage => StdioInv'
<1> SUFFICES ASSUME StdioInv, ReadMessage PROVE StdioInv'
  OBVIOUS
<1>0. StdioTypes /\ InStream /\ SoFarExact /\ SessionKnown
  BY DEF StdioInv
<1>1. /\ stdin' = stdin /\ pos' = pos /\ filled' = filled /\ shutdown' = shutdown
      /\ initialize_seen' = initialize_seen /\ initialized' = initialized /\ handled' = handled
      /\ lpc = "start" /\ stopped_by = "none"
  BY <1>0 DEF ReadMessage, StdioTypes
<1>2. \/ lpc' = "stopped" /\ stopped_by' = "shutdown" /\ read_buffer' = read_buffer
      \/ lpc' = "reading" /\ read_buffer' = <<>> /\ stopped_by' = stopped_by
  BY DEF ReadMessage, Stop
<1>3. StdioTypes'
  <2>1. Symbols' = Symbols /\ Entries' = Entries
    BY <1>1 DEF Symbols, Entries
  <2>2. <<>> \in Seq(Symbols)
    OBVIOUS
  <2> QED BY <1>0, <1>1, <1>2, <2>1, <2>2 DEF StdioTypes
<1>4. InStream'
  <2>1. CASE lpc' = "stopped"
    BY <2>1 DEF InStream
  <2>2. CASE lpc' = "reading" /\ read_buffer' = <<>>
    <3>1. Settled(LineOf(handled))
      BY <1>0, <1>1 DEF InStream
    <3>2. \/ LineOf(handled) = Cut(stdin)[pos].done /\ <<>> = Cut(stdin)[pos].last
          \/ pos = Len(stdin) /\ LineOf(handled) = Lines(stdin)
      BY <3>1 DEF Settled
    <3>3. Len(<<>>) <= max_message_size
      BY <1>0 DEF StdioTypes
    <3>4. pos > 0 => stdin[pos] # "h"
      BY <1>0, <1>1 DEF InStream
    <3> QED BY <1>1, <2>2, <3>2, <3>3, <3>4 DEF InStream
  <2> QED BY <1>2, <2>1, <2>2
<1>5. SoFarExact'
  BY <1>0, <1>1, <1>2 DEF SoFarExact, SomeLineTooLong
<1>6. SessionKnown'
  BY <1>0, <1>1, <1>2 DEF SessionKnown, LifecycleHeld
<1> QED BY <1>3, <1>4, <1>5, <1>6 DEF StdioInv

\* shutdown_handle.
LEMMA SignalStep == StdioInv /\ SignalShutdown => StdioInv'
<1> SUFFICES ASSUME StdioInv, SignalShutdown PROVE StdioInv'
  OBVIOUS
<1>1. /\ stdin' = stdin /\ pos' = pos /\ filled' = filled /\ shutdown' = TRUE
      /\ initialize_seen' = initialize_seen /\ initialized' = initialized /\ handled' = handled
      /\ lpc' = lpc /\ stopped_by' = stopped_by /\ read_buffer' = read_buffer
  BY DEF SignalShutdown
<1>2. StdioTypes'
  <2>1. Symbols' = Symbols /\ Entries' = Entries
    BY <1>1 DEF Symbols, Entries
  <2> QED BY <1>1, <2>1 DEF StdioInv, StdioTypes
<1>3. InStream'
  BY <1>1 DEF StdioInv, InStream, Settled
<1>4. SoFarExact'
  BY <1>1 DEF StdioInv, SoFarExact, SomeLineTooLong
<1>5. SessionKnown'
  BY <1>1 DEF StdioInv, SessionKnown, LifecycleHeld
<1> QED BY <1>2, <1>3, <1>4, <1>5 DEF StdioInv

\* A step of something else.
LEMMA StdioStutters == StdioInv /\ UNCHANGED stdioVars => StdioInv'
<1> SUFFICES ASSUME StdioInv, UNCHANGED stdioVars PROVE StdioInv'
  OBVIOUS
<1>1. /\ stdin' = stdin /\ pos' = pos /\ filled' = filled /\ shutdown' = shutdown
      /\ initialize_seen' = initialize_seen /\ initialized' = initialized /\ handled' = handled
      /\ lpc' = lpc /\ stopped_by' = stopped_by /\ read_buffer' = read_buffer
  BY DEF stdioVars
<1>2. StdioTypes'
  <2>1. Symbols' = Symbols /\ Entries' = Entries
    BY <1>1 DEF Symbols, Entries
  <2> QED BY <1>1, <2>1 DEF StdioInv, StdioTypes
<1>3. InStream'
  BY <1>1 DEF StdioInv, InStream, Settled
<1>4. SoFarExact'
  BY <1>1 DEF StdioInv, SoFarExact, SomeLineTooLong
<1>5. SessionKnown'
  BY <1>1 DEF StdioInv, SessionKnown, LifecycleHeld
<1> QED BY <1>2, <1>3, <1>4, <1>5 DEF StdioInv

\* The reader fails: the loop stops with what it handled so far.
LEMMA ReadErrorStep == StdioInv /\ ReadError => StdioInv'
<1> SUFFICES ASSUME StdioInv, ReadError PROVE StdioInv'
  OBVIOUS
<1>0. StdioTypes /\ InStream /\ SoFarExact /\ SessionKnown
  BY DEF StdioInv
<1>1. /\ stdin' = stdin /\ pos' = pos /\ filled' = filled /\ shutdown' = shutdown
      /\ initialize_seen' = initialize_seen /\ initialized' = initialized /\ handled' = handled
      /\ read_buffer' = read_buffer /\ lpc = "reading" /\ stopped_by = "none"
      /\ lpc' = "stopped" /\ stopped_by' = "io"
  BY <1>0 DEF ReadError, Stop, StdioTypes
<1>2. StdioTypes'
  <2>1. Symbols' = Symbols /\ Entries' = Entries
    BY <1>1 DEF Symbols, Entries
  <2> QED BY <1>0, <1>1, <2>1 DEF StdioTypes
<1>3. InStream'
  BY <1>1 DEF InStream
<1>4. SoFarExact'
  BY <1>0, <1>1 DEF SoFarExact, SomeLineTooLong
<1>5. SessionKnown'
  BY <1>0, <1>1 DEF SessionKnown, LifecycleHeld
<1> QED BY <1>2, <1>3, <1>4, <1>5 DEF StdioInv

\* At the end of the stream: the line under way is the last.
LEMMA ReadEofStep == StdioInv /\ ReadEof => StdioInv'
<1> SUFFICES ASSUME StdioInv, ReadEof PROVE StdioInv'
  OBVIOUS
<1>0. StdioTypes /\ InStream /\ SoFarExact /\ SessionKnown
  BY DEF StdioInv
<1>1. /\ stdin' = stdin /\ pos' = pos /\ filled' = filled /\ read_buffer' = read_buffer
      /\ initialize_seen' = initialize_seen /\ initialized' = initialized /\ handled' = handled
      /\ lpc = "reading" /\ stopped_by = "none" /\ pos = Len(stdin)
  BY <1>0 DEF ReadEof, StdioTypes
<1>2. \/ read_buffer = <<>> /\ lpc' = "stopped" /\ stopped_by' = "eof" /\ shutdown' = TRUE
      \/ /\ read_buffer # <<>> /\ shutdown' = shutdown /\ stopped_by' = stopped_by
         /\ lpc' = IF TrimEnd(read_buffer) = <<>> THEN "start" ELSE "handle"
  BY DEF ReadEof, Stop, EndLine
<1>3. StdioTypes'
  <2>1. Symbols' = Symbols /\ Entries' = Entries
    BY <1>1 DEF Symbols, Entries
  <2> QED BY <1>0, <1>1, <1>2, <2>1 DEF StdioTypes
<1>4. Lines(stdin) = Keep(Cut(stdin)[pos].done, Cut(stdin)[pos].last)
  BY <1>1 DEF Lines
<1>5. TrimEnd(<<>>) = <<>>
  BY DEF TrimEnd
<1>6. Lines(stdin) = Keep(LineOf(handled), read_buffer)
  <2>1. CASE LineOf(handled) = Cut(stdin)[pos].done /\ read_buffer = Cut(stdin)[pos].last
    BY <1>4, <2>1
  <2>2. CASE read_buffer = <<>> /\ LineOf(handled) = Lines(stdin)
    BY <1>5, <2>2 DEF Keep
  <2> QED BY <1>0, <1>1, <2>1, <2>2 DEF InStream
<1>7. CASE read_buffer = <<>>
  <2>1. LineOf(handled) = Lines(stdin)
    BY <1>5, <1>6, <1>7 DEF Keep
  <2>2. lpc' = "stopped" /\ stopped_by' = "eof"
    BY <1>2, <1>7
  <2>3. InStream'
    BY <2>2 DEF InStream
  <2>4. SoFarExact'
    BY <1>0, <1>1, <2>1, <2>2 DEF SoFarExact
  <2>5. SessionKnown'
    BY <1>0, <1>1, <2>2 DEF SessionKnown, LifecycleHeld
  <2> QED BY <1>3, <2>3, <2>4, <2>5 DEF StdioInv
<1>8. CASE read_buffer # <<>>
  <2>1. /\ stopped_by' = "none" /\ lpc' \in {"start", "handle"}
        /\ lpc' = IF TrimEnd(read_buffer) = <<>> THEN "start" ELSE "handle"
    BY <1>1, <1>2, <1>8
  <2>2. InStream'
    <3>1. lpc' = "start" => LineOf(handled) = Lines(stdin)
      BY <1>6, <2>1 DEF Keep
    <3>2. lpc' = "handle" => Append(LineOf(handled), TrimEnd(read_buffer)) = Lines(stdin)
      BY <1>6, <2>1 DEF Keep
    <3>3. pos > 0 => stdin[pos] # "h"
      BY <1>0, <1>1 DEF InStream
    <3> QED BY <1>1, <2>1, <3>1, <3>2, <3>3 DEF InStream, Settled
  <2>3. SoFarExact'
    BY <1>0, <1>1, <2>1 DEF SoFarExact
  <2>4. SessionKnown'
    BY <1>0, <1>1, <2>1 DEF SessionKnown, LifecycleHeld
  <2> QED BY <1>3, <2>2, <2>3, <2>4 DEF StdioInv
<1> QED BY <1>7, <1>8

\* What the answer says of the session.
LEMMA AnswerIs ==
    ASSUME initialize_seen \in BOOLEAN, initialized \in BOOLEAN, NEW text, NEW r, r = ParseRequest(text),
           NEW answer, answer = AnswerText(text)
    PROVE  /\ answer \in StdioAnswers
           /\ answer = "-32001" => initialized
           /\ (answer = "result" /\ r.method = "initialize") => ~initialize_seen
           /\ (r.error = "none" /\ r.method = "initialize" /\ ~IsNotification(r) /\ ~initialize_seen)
                  => answer = "result"
           /\ (/\ answer = Silent /\ r.error = "none" /\ IsNotification(r)
               /\ r.method = "notifications/initialized") => initialize_seen
<1>1. CASE r.error = "InvalidJson"
  <2>1. answer = "-32700"
    BY <1>1 DEF AnswerText
  <2> QED BY <1>1, <2>1 DEF StdioAnswers, Silent
<1>2. CASE r.error \notin {"none", "InvalidJson"}
  <2>1. answer = "-32600"
    BY <1>2 DEF AnswerText
  <2> QED BY <1>2, <2>1 DEF StdioAnswers, Silent
<1>3. CASE r.error = "none" /\ IsNotification(r)
  <2>1. answer = AnswerNotification(r)
    BY <1>3 DEF AnswerText
  <2>2. \/ r.method = "notifications/initialized" /\ (answer = "-32600" \/ (answer = Silent /\ initialize_seen))
        \/ r.method # "notifications/initialized" /\ answer \in {"-32600", Silent}
    BY <2>1 DEF AnswerNotification
  <2> QED BY <1>3, <2>2 DEF StdioAnswers, Silent
<1>4. CASE r.error = "none" /\ ~IsNotification(r)
  <2>1. answer = AnswerRequest(r)
    BY <1>4 DEF AnswerText
  <2>2. \/ r.method = "initialize" /\ (answer = "-32600" \/ (answer = "result" /\ ~initialize_seen))
           /\ (~initialize_seen => answer = "result")
        \/ r.method # "initialize" /\ (answer \in {"-32600", "result", "-32601"} \/ (answer = "-32001" /\ initialized))
    BY <2>1 DEF AnswerRequest, Listing
  <2> QED BY <1>4, <2>2 DEF StdioAnswers, Silent
<1> QED BY <1>1, <1>2, <1>3, <1>4

\* A message that was handled: the line is the line of the stream, and the
\* session is what the answer says of it.
LEMMA HandleMessageStep == StdioInv /\ HandleMessage => StdioInv'
<1> SUFFICES ASSUME StdioInv, HandleMessage PROVE StdioInv'
  OBVIOUS
<1>0. StdioTypes /\ InStream /\ SoFarExact /\ SessionKnown
  BY DEF StdioInv
<1>1. PICK text, r, answer, line :
          text = TextOf(read_buffer) /\ r = ParseRequest(text) /\ answer = AnswerText(text)
          /\ line = TrimEnd(read_buffer)
  OBVIOUS
<1>2. PICK begins, confirms :
          /\ begins = (r.error = "none" /\ r.method = "initialize" /\ ~IsNotification(r))
          /\ confirms = (/\ r.error = "none" /\ IsNotification(r)
                         /\ r.method = "notifications/initialized" /\ answer = Silent)
  OBVIOUS
<1>3. /\ stdin' = stdin /\ pos' = pos /\ filled' = filled /\ shutdown' = shutdown
      /\ read_buffer' = read_buffer /\ lpc = "handle" /\ stopped_by = "none"
  BY <1>0 DEF HandleMessage, StdioTypes
<1>4. initialize_seen' = (initialize_seen \/ begins) /\ initialized' = (initialized \/ confirms)
  BY <1>1, <1>2, Zenon DEF HandleMessage
<1>5. PICK e : /\ e.line = line /\ e = [line |-> line, answer |-> e.answer] /\ handled' = Append(handled, e)
               /\ \/ e.answer = answer /\ lpc' = "start" /\ stopped_by' = stopped_by
                  \/ e.answer = "lost" /\ lpc' = "stopped" /\ stopped_by' = "write"
  <2>1. CASE handled' = Append(handled, [line |-> line, answer |-> answer])
             /\ lpc' = "start" /\ stopped_by' = stopped_by
    BY <2>1
  <2>2. CASE handled' = Append(handled, [line |-> line, answer |-> "lost"])
             /\ lpc' = "stopped" /\ stopped_by' = "write"
    BY <2>2
  <2>3. [[line |-> line, answer |-> answer] EXCEPT !.answer = "lost"] = [line |-> line, answer |-> "lost"]
    OBVIOUS
  <2> QED BY <1>1, <2>1, <2>2, <2>3 DEF HandleMessage, Stop
<1>6. /\ answer \in StdioAnswers
      /\ answer = "-32001" => initialized
      /\ (answer = "result" /\ r.method = "initialize") => ~initialize_seen
      /\ (r.error = "none" /\ r.method = "initialize" /\ ~IsNotification(r) /\ ~initialize_seen)
             => answer = "result"
      /\ (/\ answer = Silent /\ r.error = "none" /\ IsNotification(r)
          /\ r.method = "notifications/initialized") => initialize_seen
  BY <1>0, <1>1, AnswerIs DEF StdioTypes
<1>7. TextOf(line) = text /\ line \in Seq(Symbols)
  BY <1>0, <1>1, TrimmedText DEF StdioTypes
<1>8. e \in Entries
  <2>1. e.answer \in StdioAnswers
    BY <1>5, <1>6 DEF StdioAnswers
  <2> QED BY <1>5, <1>7, <2>1 DEF Entries
<1>9. handled' \in Seq(Entries)
  BY <1>0, <1>5, <1>8, AppendProperties DEF StdioTypes
<1>10. LineOf(handled') = Append(LineOf(handled), line)
  <2>1. LineOf(Append(handled, e)) = Append(LineOf(handled), e.line)
    BY <1>0, <1>8, LineAppended DEF StdioTypes
  <2> QED BY <1>5, <2>1
<1>11. Settled(LineOf(handled'))
  BY <1>0, <1>1, <1>3, <1>10 DEF InStream
<1>12. StdioTypes'
  <2>1. Symbols' = Symbols /\ Entries' = Entries
    BY <1>3 DEF Symbols, Entries
  <2>2. initialize_seen' \in BOOLEAN /\ initialized' \in BOOLEAN
    BY <1>0, <1>2, <1>4 DEF StdioTypes
  <2>3. lpc' \in {"start", "stopped"} /\ (lpc' # "stopped" => stopped_by' = "none")
    BY <1>3, <1>5
  <2> QED BY <1>0, <1>3, <1>9, <2>1, <2>2, <2>3 DEF StdioTypes
<1>13. InStream'
  <2>1. lpc' \in {"start", "stopped"} /\ (pos > 0 => stdin[pos] # "h")
    BY <1>0, <1>3, <1>5 DEF InStream
  <2> QED BY <1>3, <1>11, <2>1 DEF InStream, Settled
<1>14. SoFarExact'
  <2>1. stopped_by' \in {"none", "write"}
    BY <1>3, <1>5
  <2>2. Begins(LineOf(handled'), Lines(stdin))
    <3>1. CASE LineOf(handled') = Cut(stdin)[pos].done
      BY <1>0, <3>1, StreamCut DEF StdioTypes
    <3>2. CASE LineOf(handled') = Lines(stdin)
      <4>1. PICK L, u : L = Seq(Symbols) /\ u = Lines(stdin)
        OBVIOUS
      <4>2. u \in Seq(L)
        BY <1>0, <4>1, StreamCut
      <4>3. Begins(u, u)
        BY <4>2 DEF Begins
      <4> QED BY <3>2, <4>1, <4>3
    <3> QED BY <1>11, <3>1, <3>2 DEF Settled
  <2> QED BY <1>3, <2>1, <2>2 DEF SoFarExact
<1>15. SessionKnown'
  <2>1. PICK n \in Nat : n = Len(handled)
    BY <1>0 DEF StdioTypes
  <2>2. /\ DOMAIN handled = 1 .. n /\ DOMAIN handled' = 1 .. n + 1
        /\ handled'[n + 1] = e /\ \A i \in 1 .. n : handled'[i] = handled[i]
    BY <1>0, <1>5, <1>8, <2>1, AppendProperties DEF StdioTypes
  <2>3. ParseRequest(TextOf(e.line)) = r
    BY <1>1, <1>5, <1>7
  <2>4. IsMessage(e, "initialize", FALSE) <=> begins
    BY <1>2, <2>3 DEF IsMessage, IsNotification
  <2>5. IsMessage(e, "notifications/initialized", TRUE) <=>
          (r.error = "none" /\ r.method = "notifications/initialized" /\ IsNotification(r))
    BY <2>3 DEF IsMessage, IsNotification
  <2>6. Begun(e) => (begins /\ ~initialize_seen /\ e.answer = answer)
    BY <1>2, <1>5, <1>6, <2>4 DEF Begun
  <2>7. (begins /\ ~initialize_seen /\ lpc' # "stopped") => Begun(e)
    <3>1. SUFFICES ASSUME begins, ~initialize_seen, lpc' # "stopped" PROVE Begun(e)
      OBVIOUS
    <3>2. r.error = "none" /\ r.method = "initialize" /\ ~IsNotification(r)
      BY <1>2, <3>1
    <3>3. answer = "result"
      BY <1>6, <3>1, <3>2
    <3>4. e.answer = answer
      BY <1>5, <3>1
    <3> QED BY <2>4, <3>1, <3>3, <3>4 DEF Begun
  <2>8. (confirms /\ lpc' # "stopped") => Confirmed(e) /\ initialize_seen
    <3>1. SUFFICES ASSUME confirms, lpc' # "stopped" PROVE Confirmed(e) /\ initialize_seen
      OBVIOUS
    <3>2. r.error = "none" /\ IsNotification(r) /\ r.method = "notifications/initialized" /\ answer = Silent
      BY <1>2, <3>1
    <3> QED BY <1>5, <1>6, <2>5, <3>1, <3>2 DEF Confirmed
  <2>9. initialize_seen \in BOOLEAN /\ initialized \in BOOLEAN /\ begins \in BOOLEAN /\ confirms \in BOOLEAN
    BY <1>0, <1>2 DEF StdioTypes
  <2>10. \A i \in 1 .. n : i \in 1 .. n + 1 /\ i # n + 1 /\ i < n + 1
    OBVIOUS
  <2>11. \A i \in 1 .. n + 1 : i \in 1 .. n \/ i = n + 1
    OBVIOUS
  <2>12. ~initialize_seen' => \A i \in 1 .. n + 1 : ~Begun(handled'[i])
    BY <1>0, <1>4, <2>2, <2>6, <2>9, <2>11 DEF SessionKnown
  <2>13. (lpc' # "stopped" /\ initialize_seen') => \E j \in 1 .. n + 1 : Begun(handled'[j])
    <3>1. CASE initialize_seen /\ lpc' # "stopped"
      <4>1. PICK j \in 1 .. n : Begun(handled[j])
        BY <1>0, <1>3, <2>2, <3>1 DEF SessionKnown
      <4>2. j \in 1 .. n + 1 /\ handled'[j] = handled[j]
        BY <2>2, <2>10
      <4> QED BY <4>1, <4>2
    <3>2. CASE ~initialize_seen /\ begins /\ lpc' # "stopped"
      <4>1. n + 1 \in 1 .. n + 1 /\ Begun(handled'[n + 1])
        BY <2>2, <2>7, <3>2
      <4> QED BY <4>1
    <3> QED BY <1>4, <2>9, <3>1, <3>2
  <2>14. (lpc' # "stopped" /\ initialized') =>
           \E j, k \in 1 .. n + 1 : j < k /\ Begun(handled'[j]) /\ Confirmed(handled'[k])
    <3>1. CASE initialized /\ lpc' # "stopped"
      <4>1. PICK j \in 1 .. n, k \in 1 .. n : j < k /\ Begun(handled[j]) /\ Confirmed(handled[k])
        BY <1>0, <1>3, <2>2, <3>1 DEF SessionKnown
      <4>2. j \in 1 .. n + 1 /\ handled'[j] = handled[j] /\ k \in 1 .. n + 1 /\ handled'[k] = handled[k]
        BY <2>2, <2>10
      <4> QED BY <4>1, <4>2
    <3>2. CASE ~initialized /\ confirms /\ lpc' # "stopped"
      <4>1. Confirmed(e) /\ initialize_seen
        BY <2>8, <3>2
      <4>2. PICK j \in 1 .. n : Begun(handled[j])
        BY <1>0, <1>3, <2>2, <4>1 DEF SessionKnown
      <4>3. j \in 1 .. n + 1 /\ j < n + 1 /\ handled'[j] = handled[j] /\ n + 1 \in 1 .. n + 1
        BY <2>2, <2>10
      <4> QED BY <2>2, <4>1, <4>2, <4>3
    <3> QED BY <1>4, <2>9, <3>1, <3>2
  <2>15. LifecycleHeld'
    <3>1. ASSUME NEW i \in 1 .. n + 1, handled'[i].answer = "-32001"
          PROVE  \E j, k \in 1 .. i - 1 : j < k /\ Begun(handled'[j]) /\ Confirmed(handled'[k])
      <4>1. CASE i \in 1 .. n
        <5>1. handled[i].answer = "-32001" /\ handled'[i] = handled[i]
          BY <2>2, <3>1, <4>1
        <5>2. PICK j \in 1 .. i - 1, k \in 1 .. i - 1 : j < k /\ Begun(handled[j]) /\ Confirmed(handled[k])
          BY <1>0, <2>2, <4>1, <5>1 DEF SessionKnown, LifecycleHeld, Begun, Confirmed
        <5>3. j \in 1 .. n /\ k \in 1 .. n
          BY <4>1
        <5>4. handled'[j] = handled[j] /\ handled'[k] = handled[k]
          BY <2>2, <5>3
        <5> QED BY <5>2, <5>4
      <4>2. CASE i = n + 1
        <5>1. initialized
          BY <1>5, <1>6, <2>2, <3>1, <4>2
        <5>2. PICK j \in 1 .. n, k \in 1 .. n : j < k /\ Begun(handled[j]) /\ Confirmed(handled[k])
          BY <1>0, <1>3, <2>2, <5>1 DEF SessionKnown
        <5>3. handled'[j] = handled[j] /\ handled'[k] = handled[k] /\ j \in 1 .. i - 1 /\ k \in 1 .. i - 1
          BY <2>2, <4>2
        <5> QED BY <5>2, <5>3
      <4> QED BY <2>11, <4>1, <4>2
    <3>2. ASSUME NEW i \in 1 .. n + 1, NEW j \in 1 .. n + 1, Begun(handled'[i]), Begun(handled'[j])
          PROVE  i = j
      <4>1. ASSUME NEW k \in 1 .. n PROVE handled'[k] = handled[k] /\ (Begun(handled[k]) => initialize_seen)
        BY <1>0, <2>2, <2>9 DEF SessionKnown
      <4>2. CASE i \in 1 .. n /\ j \in 1 .. n
        <5>1. Begun(handled[i]) /\ Begun(handled[j])
          BY <3>2, <4>1, <4>2
        <5> QED BY <1>0, <2>2, <4>2, <5>1 DEF SessionKnown, LifecycleHeld, Begun
      <4>3. CASE i = n + 1 /\ j \in 1 .. n
        BY <2>2, <2>6, <3>2, <4>1, <4>3
      <4>4. CASE j = n + 1 /\ i \in 1 .. n
        BY <2>2, <2>6, <3>2, <4>1, <4>4
      <4> QED BY <2>11, <4>2, <4>3, <4>4
    <3> QED BY <2>2, <3>1, <3>2 DEF LifecycleHeld, Begun, Confirmed
  <2> QED BY <2>2, <2>12, <2>13, <2>14, <2>15 DEF SessionKnown
<1> QED BY <1>12, <1>13, <1>14, <1>15 DEF StdioInv

\* The lesser of two numbers.
LEMMA MinOfTwo ==
    ASSUME NEW x \in Nat, NEW y \in Nat
    PROVE  Min({x, y}) = IF x <= y THEN x ELSE y
<1>1. PICK m \in Nat : m = IF x <= y THEN x ELSE y
  OBVIOUS
<1>2. {x, y} \subseteq Nat /\ m \in {x, y} /\ \A j \in {x, y} : m <= j
  BY <1>1
<1>3. (CHOOSE i \in {x, y} : \A j \in {x, y} : i <= j) = m
  BY <1>2, LeastIsChosen
<1> QED BY <1>1, <1>3 DEF Min

\* One turn of read_line_bounded.  All that follows is of a state of the
\* invariant in which the loop is reading, with what it takes of the bytes up
\* to end.
Reads(end, a, take, room, part) ==
    /\ lpc = "reading" /\ stopped_by = "none" /\ end = pos + a /\ end <= Len(stdin)
    /\ Len(read_buffer) + room = max_message_size
    /\ LineOf(handled) = Cut(stdin)[pos].done /\ read_buffer = Cut(stdin)[pos].last
    /\ take \in 1 .. a
    /\ \A i \in 1 .. take - 1 : stdin[pos + i] # "n"
    /\ stdin[pos + take] = "n" \/ take = a
    /\ part \in Seq(Symbols)
    /\ Len(part) = IF take > room THEN room ELSE take
    /\ \A i \in 1 .. Len(part) : part[i] = stdin[pos + i]

ReadOutcome(end, a, take, room, part) ==
    /\ stdin' = stdin /\ filled' = end /\ initialize_seen' = initialize_seen /\ initialized' = initialized
    /\ handled' = handled
    /\ \/ /\ ~ValidUtf8(part) /\ lpc' = "stopped" /\ stopped_by' = "utf8"
          /\ pos' = pos /\ read_buffer' = read_buffer /\ shutdown' = shutdown
       \/ /\ take > room /\ pos' \in pos .. end /\ read_buffer' = <<>> /\ shutdown' = TRUE
          /\ lpc' = "stopped" /\ stopped_by' = "size"
       \/ /\ ValidUtf8(part) /\ take <= room
          /\ pos' = pos + take /\ read_buffer' = read_buffer \o part
          /\ shutdown' = shutdown /\ stopped_by' = stopped_by
          /\ lpc' = IF ~LineComplete(read_buffer') THEN "reading"
                    ELSE IF TrimEnd(read_buffer') = <<>> THEN "start" ELSE "handle"

\* read_line_bounded: what a turn of its loop takes, and the three ways it can end.
LEMMA ReadPartIs ==
    ASSUME StdioInv, NEW end \in 1 .. Len(stdin), ReadPart(end)
    PROVE  \E a \in Nat, take \in Nat, room \in Nat : \E part :
              Reads(end, a, take, room, part) /\ ReadOutcome(end, a, take, room, part)
<1>0. StdioTypes /\ InStream
  BY DEF StdioInv
<1>1. PICK n \in Nat, max \in Nat, p \in Nat, e \in Nat :
          n = Len(stdin) /\ max = max_message_size /\ p = pos /\ e = end
  BY <1>0 DEF StdioTypes
<1>2. p < e /\ e <= n
  <2>1. filled \in p .. n /\ e \in 1 .. n
    BY <1>0, <1>1 DEF StdioTypes
  <2>2. (p < filled /\ e = filled) \/ e \in p + 1 .. n
    BY <1>1 DEF ReadPart, FillBuf
  <2> QED BY <2>1, <2>2
<1>3. PICK a \in Nat : a = e - p /\ a >= 1 /\ e = p + a
  BY <1>2
<1>4. lpc = "reading" /\ stopped_by = "none"
  BY <1>0 DEF ReadPart, StdioTypes
<1>5. LineOf(handled) = Cut(stdin)[pos].done /\ read_buffer = Cut(stdin)[pos].last
      /\ Len(read_buffer) <= max_message_size
  <2>1. pos # Len(stdin)
    BY <1>1, <1>2
  <2> QED BY <1>0, <1>4, <2>1 DEF InStream
<1>6. PICK available : available = SubSeq(stdin, pos + 1, end)
  OBVIOUS
<1>7. PICK take : take = TakeOf(available)
  OBVIOUS
<1>8. available \in Seq(Symbols) /\ Takes(available, take, stdin, p, a)
  <2>1. stdin \in Seq(Symbols) /\ a >= 1 /\ p + a <= Len(stdin) /\ available = SubSeq(stdin, p + 1, p + a)
    BY <1>0, <1>1, <1>2, <1>3, <1>6 DEF StdioTypes
  <2> QED BY <1>7, <2>1, TakeIs
<1>9. /\ Len(available) = a /\ take \in 1 .. a /\ \A i \in 1 .. a : available[i] = stdin[p + i]
      /\ \A i \in 1 .. take - 1 : stdin[p + i] # "n"
      /\ stdin[p + take] = "n" \/ take = a
  BY <1>8 DEF Takes
<1>10. PICK l \in Nat : l = Len(read_buffer)
  BY <1>0 DEF StdioTypes
<1>11. PICK room \in Nat : room = max - l /\ l + room = max
  <2>1. l <= max
    BY <1>1, <1>5, <1>10
  <2>2. max - l \in Nat /\ l + (max - l) = max
    BY <2>1
  <2> QED BY <2>2
<1>12. PICK allowed \in Nat : allowed = Min({room, Len(available)}) /\ allowed = IF room <= a THEN room ELSE a
  BY <1>9, MinOfTwo
<1>13. PICK m \in Nat : m = IF take > room THEN room ELSE take
  BY <1>9
<1>14. m <= a /\ (take > room => m = allowed)
  BY <1>9, <1>12, <1>13
<1>15. PICK part : part = SubSeq(available, 1, m)
  OBVIOUS
<1>16. part \in Seq(Symbols) /\ Len(part) = m /\ \A i \in 1 .. m : part[i] = stdin[p + i]
  <2>1. \A i \in 1 .. m : available[i] \in Symbols /\ i \in 1 .. a
    BY <1>8, <1>9, <1>14
  <2>2. /\ part \in Seq(Symbols) /\ Len(part) = IF 1 <= m THEN m - 1 + 1 ELSE 0
        /\ \A i \in 1 .. m - 1 + 1 : part[i] = available[1 + i - 1]
    BY <1>15, <2>1, SubSeqProperties
  <2>3. Len(part) = m
    BY <2>2
  <2>4. \A i \in 1 .. m : i \in 1 .. m - 1 + 1 /\ 1 + i - 1 = i
    OBVIOUS
  <2> QED BY <1>9, <2>1, <2>2, <2>3, <2>4
<1>17. Reads(end, a, take, room, part)
  <2>1. end = pos + a /\ end <= Len(stdin)
    BY <1>1, <1>2, <1>3
  <2>2. Len(read_buffer) + room = max_message_size
    BY <1>1, <1>10, <1>11
  <2>3. /\ take \in 1 .. a /\ \A i \in 1 .. take - 1 : stdin[pos + i] # "n"
        /\ stdin[pos + take] = "n" \/ take = a
    BY <1>1, <1>9
  <2>4. /\ part \in Seq(Symbols) /\ Len(part) = IF take > room THEN room ELSE take
        /\ \A i \in 1 .. Len(part) : part[i] = stdin[pos + i]
    BY <1>1, <1>13, <1>16
  <2> QED BY <1>4, <1>5, <2>1, <2>2, <2>3, <2>4 DEF Reads
<1>18. ReadOutcome(end, a, take, room, part)
  <2>1. room = max_message_size - Len(read_buffer)
    BY <1>1, <1>10, <1>11
  <2>2. part = SubSeq(available, 1, IF take > room THEN allowed ELSE take)
    BY <1>13, <1>14, <1>15
  <2>3. /\ stdin' = stdin /\ filled' = end /\ initialize_seen' = initialize_seen /\ initialized' = initialized
        /\ handled' = handled
        /\ \/ /\ ~ValidUtf8(part) /\ lpc' = "stopped" /\ stopped_by' = "utf8"
              /\ pos' = pos /\ read_buffer' = read_buffer /\ shutdown' = shutdown
           \/ /\ take > room /\ pos' = pos + Min({allowed + 1, Len(available)})
              /\ read_buffer' = <<>> /\ shutdown' = TRUE
              /\ lpc' = "stopped" /\ stopped_by' = "size"
           \/ /\ ValidUtf8(part) /\ take <= room
              /\ pos' = pos + take /\ read_buffer' = read_buffer \o part
              /\ shutdown' = shutdown /\ stopped_by' = stopped_by
              /\ IF LineComplete(read_buffer') THEN EndLine(read_buffer') ELSE lpc' = lpc
    BY <1>6, <1>7, <1>12, <2>1, <2>2 DEF ReadPart, TakeOf, Stop
  <2>4. pos + Min({allowed + 1, Len(available)}) \in pos .. end
    <3>1. allowed + 1 \in Nat /\ Len(available) = a
      BY <1>9
    <3>2. PICK x : x = Min({allowed + 1, a})
      OBVIOUS
    <3>3. x = IF allowed + 1 <= a THEN allowed + 1 ELSE a
      BY <3>1, <3>2, MinOfTwo
    <3>4. x \in Nat /\ x <= a
      BY <3>1, <3>3
    <3>5. p + x \in p .. e
      BY <1>3, <3>4
    <3> QED BY <1>1, <3>1, <3>2, <3>5
  <2>5. (IF LineComplete(read_buffer') THEN EndLine(read_buffer') ELSE lpc' = lpc) =>
          lpc' = IF ~LineComplete(read_buffer') THEN "reading"
                 ELSE IF TrimEnd(read_buffer') = <<>> THEN "start" ELSE "handle"
    BY <1>4 DEF EndLine
  <2> QED BY <2>3, <2>4, <2>5 DEF ReadOutcome
<1>19. take \in Nat
  BY <1>9
<1> QED BY <1>17, <1>18, <1>19

\* read_line_bounded keeps the invariant: bytes that are not UTF-8 end the server, so does
\* a line that is too long, and else the line under way is longer by what was taken.
LEMMA ReadPartStep ==
    ASSUME StdioInv, NEW end \in 1 .. Len(stdin), ReadPart(end)
    PROVE  StdioInv'
<1>0. StdioTypes /\ InStream /\ SoFarExact /\ SessionKnown
  BY DEF StdioInv
<1>r. PICK a \in Nat, take \in Nat, room \in Nat :
          \E part : Reads(end, a, take, room, part) /\ ReadOutcome(end, a, take, room, part)
  BY ReadPartIs
<1>1. PICK part : Reads(end, a, take, room, part) /\ ReadOutcome(end, a, take, room, part)
  BY <1>r
<1>2. /\ stdin' = stdin /\ filled' = end /\ initialize_seen' = initialize_seen /\ initialized' = initialized
      /\ handled' = handled /\ stopped_by = "none" /\ lpc = "reading" /\ part \in Seq(Symbols)
  BY <1>1 DEF Reads, ReadOutcome
<1>3. PICK n \in Nat, p \in Nat, l \in Nat :
          n = Len(stdin) /\ p = pos /\ l = Len(read_buffer)
  <2>1. stdin \in Seq(Symbols) /\ read_buffer \in Seq(Symbols) /\ pos \in 0 .. Len(stdin)
    BY <1>0 DEF StdioTypes
  <2>2. Len(stdin) \in Nat /\ Len(read_buffer) \in Nat
    BY <2>1, LenProperties
  <2>3. pos \in Nat
    BY <2>1, <2>2
  <2> QED BY <2>2, <2>3
<1>4. /\ end = p + a /\ end <= n /\ take \in 1 .. a /\ l + room = max_message_size
      /\ Len(part) = IF take > room THEN room ELSE take
  BY <1>1, <1>3 DEF Reads
<1>5. /\ \A i \in 1 .. take - 1 : stdin[p + i] # "n"
      /\ stdin[p + take] = "n" \/ take = a
      /\ \A i \in 1 .. Len(part) : part[i] = stdin[p + i]
  BY <1>1, <1>3 DEF Reads
<1>6. LineOf(handled) = Cut(stdin)[p].done /\ read_buffer = Cut(stdin)[p].last
  BY <1>1, <1>3 DEF Reads
<1>7. stdin \in Seq(Symbols) /\ max_message_size \in Nat /\ read_buffer \in Seq(Symbols)
      /\ IsCut(Cut(stdin), stdin, Symbols)
  BY <1>0, StreamCut DEF StdioTypes
<1>8. Symbols' = Symbols /\ Entries' = Entries
  BY <1>2 DEF Symbols, Entries
<1>9. take > room => SomeLineTooLong
  <2>1. SUFFICES ASSUME take > room PROVE SomeLineTooLong
    OBVIOUS
  <2>2. Unbroken(stdin, p, l)
    <3>1. p \in 0 .. Len(stdin)
      BY <1>0, <1>3 DEF StdioTypes
    <3> QED BY <1>3, <1>6, <1>7, <3>1, LastUnbroken
  <2>3. p + room + 1 <= n /\ \A i \in 1 .. room : i \in 1 .. take - 1
    BY <1>4, <2>1
  <2>4. \A i \in 1 .. room : stdin[p + i] # "n"
    BY <1>5, <2>3
  <2>5. p + room + 1 <= Len(stdin)
    BY <1>3, <2>3
  <2> QED BY <1>4, <1>7, <2>2, <2>4, <2>5, TooLong
<1>10. CASE /\ ~ValidUtf8(part) /\ lpc' = "stopped" /\ stopped_by' = "utf8"
            /\ pos' = pos /\ read_buffer' = read_buffer /\ shutdown' = shutdown
  <2>1. StdioTypes'
    <3>1. filled' \in pos' .. Len(stdin') /\ pos' \in 0 .. Len(stdin')
      <4>1. end \in p .. n /\ p \in 0 .. n
        BY <1>4
      <4> QED BY <1>2, <1>3, <1>10, <4>1
    <3> QED BY <1>0, <1>2, <1>8, <1>10, <3>1 DEF StdioTypes
  <2>2. InStream'
    BY <1>10 DEF InStream
  <2>3. SomeLineTooLong \/ ~ValidUtf8(stdin) \/ stdin[end] = "h"
    <3>1. SUFFICES ASSUME ~(take > room), ValidUtf8(stdin) PROVE stdin[end] = "h"
      BY <1>9
    <3>2. Len(part) = take /\ take \in Nat /\ p + take <= n
      BY <1>4, <3>1
    <3>3. p > 0 => stdin[p] # "h"
      BY <1>0, <1>2, <1>3 DEF InStream
    <3>4. stdin[p + take] = "h"
      <4>1. p + take <= Len(stdin) /\ \A i \in 1 .. take : part[i] = stdin[p + i]
        BY <1>3, <1>5, <3>2
      <4> QED BY <1>2, <1>7, <1>10, <3>1, <3>2, <3>3, <4>1, PieceInvalid
    <3>5. take = a
      BY <1>5, <3>4
    <3> QED BY <1>4, <3>4, <3>5
  <2>4. SoFarExact'
    BY <1>0, <1>2, <1>10, <2>3 DEF SoFarExact, SomeLineTooLong
  <2>5. SessionKnown'
    BY <1>0, <1>2, <1>10 DEF SessionKnown, LifecycleHeld
  <2> QED BY <2>1, <2>2, <2>4, <2>5 DEF StdioInv
<1>11. CASE /\ take > room /\ pos' \in pos .. end /\ read_buffer' = <<>> /\ shutdown' = TRUE
            /\ lpc' = "stopped" /\ stopped_by' = "size"
  <2>1. StdioTypes'
    <3>1. filled' \in pos' .. Len(stdin') /\ pos' \in 0 .. Len(stdin')
      <4>1. pos' \in p .. end /\ end <= n /\ end \in Nat
        BY <1>3, <1>4, <1>11
      <4>2. end \in pos' .. n /\ pos' \in 0 .. n
        BY <4>1
      <4> QED BY <1>2, <1>3, <4>2
    <3>2. <<>> \in Seq(Symbols)
      OBVIOUS
    <3> QED BY <1>0, <1>2, <1>8, <1>11, <3>1, <3>2 DEF StdioTypes
  <2>2. InStream'
    BY <1>11 DEF InStream
  <2>3. SoFarExact'
    BY <1>0, <1>2, <1>9, <1>11 DEF SoFarExact, SomeLineTooLong
  <2>4. SessionKnown'
    BY <1>0, <1>2, <1>11 DEF SessionKnown, LifecycleHeld
  <2> QED BY <2>1, <2>2, <2>3, <2>4 DEF StdioInv
<1>12. CASE /\ ValidUtf8(part) /\ take <= room
            /\ pos' = pos + take /\ read_buffer' = read_buffer \o part
            /\ shutdown' = shutdown /\ stopped_by' = stopped_by
            /\ lpc' = IF ~LineComplete(read_buffer') THEN "reading"
                      ELSE IF TrimEnd(read_buffer') = <<>> THEN "start" ELSE "handle"
  <2>1. PICK q \in Nat : q = p + take /\ pos' = q /\ q \in 1 .. n /\ end \in q .. n
    BY <1>3, <1>4, <1>12
  <2>2. Len(part) = take /\ take >= 1
    BY <1>4, <1>12
  <2>3. PICK b : b = read_buffer \o part
    OBVIOUS
  <2>4. /\ b \in Seq(Symbols) /\ Len(b) = l + take
        /\ \A i \in 1 .. l : b[i] = read_buffer[i]
        /\ \A i \in 1 .. take : b[l + i] = part[i]
    <3>1. b \in Seq(Symbols) /\ Joined(b, read_buffer, part)
      BY <1>2, <1>7, <2>3, ConcatParts
    <3> QED BY <1>3, <2>2, <3>1 DEF Joined
  <2>5. Longer(b, read_buffer, stdin, p, take)
    <3>1. \A i \in 1 .. take : b[l + i] = stdin[p + i]
      BY <1>5, <2>2, <2>4
    <3> QED BY <1>3, <2>4, <3>1 DEF Longer
  <2>6. LineComplete(b) <=> stdin[q] = "n"
    <3>1. b[l + take] = stdin[q]
      <4>1. take \in 1 .. take
        BY <2>2
      <4> QED BY <1>5, <2>1, <2>2, <2>4, <4>1
    <3> QED BY <2>4, <3>1 DEF LineComplete
  <2>7. stdin[q] # "h"
    <3>1. take \in 1 .. Len(part) /\ part[take] = stdin[q]
      BY <1>5, <2>1, <2>2
    <3>2. DOMAIN part = 1 .. take
      BY <1>2, <2>2
    <3>3. take \in DOMAIN part /\ ~(take < Len(part))
      BY <2>2, <3>1, <3>2
    <3>4. part[take] = "h" => take < Len(part)
      BY <1>12, <3>3, Zenon DEF ValidUtf8
    <3> QED BY <3>1, <3>3, <3>4
  <2>8. Len(b) <= max_message_size
    <3>1. PICK max \in Nat : max = max_message_size
      BY <1>7
    <3>2. l + room = max /\ take <= room
      BY <1>4, <1>12, <3>1
    <3>3. l + take <= max
      BY <3>2
    <3> QED BY <2>4, <3>1, <3>3
  <2>9. StdioTypes'
    <3>1. filled' \in pos' .. Len(stdin') /\ pos' \in 0 .. Len(stdin')
      BY <1>2, <1>3, <2>1
    <3>2. lpc' \in {"start", "reading", "handle", "stopped"} /\ stopped_by' = "none"
      BY <1>2, <1>12
    <3>3. read_buffer' \in Seq(Symbols)
      BY <1>12, <2>3, <2>4
    <3> QED BY <1>0, <1>2, <1>8, <1>12, <3>1, <3>2, <3>3 DEF StdioTypes
  <2>10. InStream'
    <3>1. PICK c : c = Cut(stdin)
      OBVIOUS
    <3>2. IsCut(c, stdin, Symbols) /\ LineOf(handled) = c[p].done /\ read_buffer = c[p].last
      BY <1>6, <1>7, <3>1
    <3>3. CASE stdin[q] = "n"
      <4>1. PICK m \in Nat : m = take - 1 /\ m + 1 = take
        BY <2>2
      <4>2. PICK r \in Nat : r = p + m /\ r + 1 = q
        BY <2>1, <4>1
      <4>3. r <= n /\ r \in 0 .. n
        BY <2>1, <4>2
      <4>4. c[r].done = c[p].done /\ Longer(c[r].last, read_buffer, stdin, p, m)
        <5>1. p + m <= Len(stdin) /\ \A i \in 1 .. m : stdin[p + i] # "n"
          BY <1>3, <1>5, <4>1, <4>2, <4>3
        <5>2. c[p + m].done = c[p].done /\ Longer(c[p + m].last, c[p].last, stdin, p, m)
          BY <1>7, <3>2, <5>1, CutRun
        <5> QED BY <3>2, <4>2, <5>2
      <4>5. PICK u : u = c[r].last
        OBVIOUS
      <4>6. u \in Seq(Symbols) /\ "n" \in Symbols
        <5>1. u \in Seq(Symbols)
          BY <1>3, <3>2, <4>3, <4>5 DEF IsCut, Cuts
        <5>2. q \in DOMAIN stdin
          BY <1>3, <1>7, <2>1
        <5> QED BY <3>3, <5>1, <5>2 DEF Symbols
      <4>7. Append(u, "n") \in Seq(Symbols) /\ Longer(Append(u, "n"), read_buffer, stdin, p, m + 1)
        <5>1. stdin[p + m + 1] = "n" /\ Longer(u, read_buffer, stdin, p, m)
          BY <3>3, <4>2, <4>4, <4>5
        <5> QED BY <1>7, <4>6, <5>1, LongerByOne
      <4>8. Append(u, "n") = b
        BY <1>7, <2>4, <2>5, <4>1, <4>7, LongerOnce
      <4>9. TrimEnd(b) = TrimEnd(u)
        BY <4>6, <4>8, NewlineTrimmed
      <4>10. c[q] = OneByte(c[r], "n")
        <5>1. q \in 1 .. Len(stdin) /\ q - 1 = r
          BY <1>3, <2>1, <4>2
        <5> QED BY <3>2, <3>3, <5>1 DEF IsCut
      <4>11. c[q].done = Keep(LineOf(handled), u) /\ c[q].last = <<>>
        BY <3>2, <4>4, <4>5, <4>10 DEF OneByte
      <4>12. lpc' = IF TrimEnd(b) = <<>> THEN "start" ELSE "handle"
        BY <1>12, <2>3, <2>6, <3>3
      <4>13. CASE TrimEnd(b) = <<>>
        <5>1. lpc' = "start" /\ c[q].done = LineOf(handled)
          BY <4>9, <4>11, <4>12, <4>13 DEF Keep
        <5> QED BY <1>2, <2>1, <2>7, <3>1, <4>11, <5>1 DEF InStream, Settled
      <4>14. CASE TrimEnd(b) # <<>>
        <5>1. lpc' = "handle" /\ c[q].done = Append(LineOf(handled), TrimEnd(b))
          BY <4>9, <4>11, <4>12, <4>14 DEF Keep
        <5>2. read_buffer' = b
          BY <1>12, <2>3
        <5> QED BY <1>2, <2>1, <2>7, <3>1, <4>11, <5>1, <5>2 DEF InStream, Settled
      <4> QED BY <4>13, <4>14
    <3>4. CASE stdin[q] # "n"
      <4>1. \A i \in 1 .. take : stdin[p + i] # "n"
        <5>1. \A i \in 1 .. take : i \in 1 .. take - 1 \/ i = take
          OBVIOUS
        <5> QED BY <1>5, <2>1, <3>4, <5>1
      <4>2. p + take <= Len(stdin)
        BY <1>3, <2>1
      <4>3. c[p + take].done = c[p].done /\ Longer(c[p + take].last, c[p].last, stdin, p, take)
        BY <1>7, <3>2, <4>1, <4>2, CutRun
      <4>4. PICK u : u = c[q].last
        OBVIOUS
      <4>5. u \in Seq(Symbols)
        <5>1. q \in 0 .. Len(stdin)
          BY <1>3, <2>1
        <5> QED BY <3>2, <4>4, <5>1 DEF IsCut, Cuts
      <4>6. c[q].done = LineOf(handled) /\ Longer(u, read_buffer, stdin, p, take)
        BY <2>1, <3>2, <4>3, <4>4
      <4>7. u = b
        BY <1>7, <2>4, <2>5, <4>5, <4>6, LongerOnce
      <4>8. lpc' = "reading" /\ read_buffer' = b
        BY <1>12, <2>3, <2>6, <3>4
      <4> QED BY <1>2, <2>1, <2>7, <2>8, <3>1, <4>4, <4>6, <4>7, <4>8 DEF InStream
    <3> QED BY <3>3, <3>4
  <2>11. SoFarExact'
    BY <1>0, <1>2, <1>12 DEF SoFarExact
  <2>12. SessionKnown'
    BY <1>0, <1>2 DEF SessionKnown, LifecycleHeld
  <2> QED BY <2>9, <2>10, <2>11, <2>12 DEF StdioInv
<1> QED BY <1>1, <1>10, <1>11, <1>12 DEF ReadOutcome

\* At the start nothing is read.
LEMMA StdioStarts == StdioInit => StdioInv
<1> SUFFICES ASSUME StdioInit PROVE StdioInv
  OBVIOUS
<1>1. /\ stdin \in Streams /\ pos = 0 /\ filled = 0 /\ read_buffer = <<>> /\ shutdown = FALSE
      /\ lpc = "start" /\ stopped_by = "none" /\ initialize_seen = FALSE /\ initialized = FALSE
      /\ handled = <<>>
  BY DEF StdioInit
<1>2. stdin \in Seq(Symbols) /\ max_message_size \in Nat
  BY <1>1, StdioAssumption DEF Symbols
<1>3. StdioTypes
  <2>1. 0 \in 0 .. Len(stdin)
    BY <1>2
  <2>2. <<>> \in Seq(Symbols) /\ <<>> \in Seq(Entries)
    OBVIOUS
  <2> QED BY <1>1, <1>2, <2>1, <2>2 DEF StdioTypes
<1>4. LineOf(handled) = <<>>
  <2>1. DOMAIN handled = {}
    BY <1>1
  <2>2. LineOf(handled) = [i \in {} |-> handled[i].line]
    BY <2>1 DEF LineOf
  <2> QED BY <2>2
<1>5. InStream
  <2>1. Cut(stdin)[0] = [done |-> <<>>, last |-> <<>>]
    BY <1>3, StreamCut DEF IsCut
  <2> QED BY <1>1, <1>4, <2>1 DEF InStream, Settled
<1>6. SoFarExact
  <2>1. Len(Lines(stdin)) \in Nat
    BY <1>3, StreamCut
  <2>2. Begins(<<>>, Lines(stdin))
    BY <2>1 DEF Begins
  <2> QED BY <1>1, <1>4, <2>2 DEF SoFarExact
<1>7. SessionKnown
  BY <1>1 DEF SessionKnown, LifecycleHeld
<1> QED BY <1>3, <1>5, <1>6, <1>7 DEF StdioInv

\* The lines handled are the lines of the stream.
LEMMA StdioInvFaithful == StdioInv => StdioFaithful
<1> SUFFICES ASSUME StdioInv PROVE LinesExact
  BY DEF StdioFaithful, StdioInv, SessionKnown
<1>0. StdioTypes /\ SoFarExact
  BY DEF StdioInv
<1>1. PICK s, t : s = LineOf(handled) /\ t = Lines(stdin)
  OBVIOUS
<1>2. PICK L : L = Seq(Symbols)
  OBVIOUS
<1>3. s \in Seq(L) /\ t \in Seq(L) /\ Len(s) = Len(handled)
  <2>1. handled \in Seq(Entries)
    BY <1>0 DEF StdioTypes
  <2> QED BY <1>0, <1>1, <1>2, <2>1, LinesOfEntries, StreamCut
<1>4. Len(s) <= Len(t) /\ \A i \in 1 .. Len(s) : s[i] = t[i]
  BY <1>0, <1>1 DEF SoFarExact, Begins
<1>5. IsPrefix(s, t)
  <2>1. PICK n \in Nat, m \in Nat : n = Len(s) /\ m = Len(t) /\ n <= m
    BY <1>3, <1>4
  <2>2. SubSeq(s, 1, n) = SubSeq(t, 1, n)
    <3>1. SubSeq(s, 1, n) \in Seq(L) /\ Len(SubSeq(s, 1, n)) = n /\ \A i \in 1 .. n : SubSeq(s, 1, n)[i] = s[i]
      BY <1>3, <2>1
    <3>2. SubSeq(t, 1, n) \in Seq(L) /\ Len(SubSeq(t, 1, n)) = n /\ \A i \in 1 .. n : SubSeq(t, 1, n)[i] = t[i]
      BY <1>3, <2>1
    <3>3. \A i \in 1 .. n : s[i] = t[i]
      BY <1>4, <2>1
    <3> QED BY <3>1, <3>2, <3>3, SeqEqual
  <2> QED BY <1>4, <2>1, <2>2 DEF IsPrefix
<1>6. IsPrefix([i \in DOMAIN handled |-> handled[i].line], Lines(stdin))
  BY <1>1, <1>5 DEF LineOf
<1>7. stopped_by = "eof" => Len(handled) = Len(Lines(stdin))
  BY <1>0, <1>1, <1>3 DEF SoFarExact
<1> QED BY <1>0, <1>6, <1>7 DEF LinesExact, SoFarExact

\* read_line_bounded, read_message and the loop of run_stdio_mode: of any
\* stream and however it is cut into reads, the messages handled are its lines,
\* in order and each once, and a listing is answered only in a session that was
\* initialized and confirmed.
THEOREM StdioServerFaithful == StdioSpec => []StdioFaithful
<1>1. StdioInv /\ [StdioNext]_stdioVars => StdioInv'
  BY ReadMessageStep, ReadEofStep, ReadErrorStep, HandleMessageStep, SignalStep, ReadPartStep,
     StdioStutters DEF StdioNext
<1> QED BY <1>1, StdioStarts, StdioInvFaithful, PTL DEF StdioSpec
=============================================================================
