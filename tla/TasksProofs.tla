---------------------------- MODULE TasksProofs ----------------------------
(***************************************************************************)
(* The two objects that tasks share, for any number of tasks and any       *)
(* bounds.                                                                 *)
(*                                                                         *)
(* SessionTable: types, NoResurrection, DataPreserved and, since no task   *)
(* holds a time to come, ActiveSessionKept.  The heart of it is the        *)
(* creation under way: between its fetch_add and its insert its id belongs *)
(* to nobody else, is not in the table, has never been removed and has no  *)
(* data (PendingFresh, IdsBelow, DurableKnown).                            *)
(*                                                                         *)
(* PipelinedClient: RequestsAccounted and InFlightExact.  A send works on  *)
(* a request that no other send knows (SendsOwn); a request that has been  *)
(* entered into the table stays there, is answered or is in the hands of   *)
(* who will answer it (Kept); whoever holds the table for cancel_all finds *)
(* nothing left to count (CancelHolds).                                    *)
(***************************************************************************)
EXTENDS SessionTable, PipelinedClient, Lemmas

----------------------------------------------------------------------------
(* SessionTable *)

PendingId(t) == obj[loc[t].ob].id
Pending      == {t \in SessionTasks : spc[t] = "insert"}

\* A task refers only to objects that have been made, and to a real id.
LocalsMade ==
    \A t \in SessionTasks :
        /\ loc[t].ob <= made
        /\ spc[t] \in {"insert", "use", "touch"} => loc[t].ob # 0
        /\ spc[t] = "upgrade" => loc[t].id # 0

\* Every id in use has been handed out.
IdsBelow ==
    /\ \A o \in Objects : o <= made => obj[o].id # 0 /\ obj[o].id < session_counter
    /\ \A i \in removed : i < session_counter

\* The id of a creation under way is its own and new to the table.
PendingFresh ==
    /\ \A t \in Pending : sessions[PendingId(t)] = 0 /\ PendingId(t) \notin removed
    /\ \A t, u \in Pending : PendingId(t) = PendingId(u) => t = u

\* Data is recorded only for sessions that have been in the table.
DurableKnown == \A i \in Ids : durable[i] # {} => i \in Registered \cup removed

IndInv == /\ TypeOK /\ LocalsMade /\ IdsBelow /\ PendingFresh /\ DurableKnown
          /\ NoResurrection /\ DataPreserved

\* A new session is a session, whatever the time.
LEMMA NewIsSession ==
    ASSUME TypeOK, NEW i \in Ids
    PROVE  NewSession(i) \in Sessions
BY DEF TypeOK, NewSession, Sessions

\* The initial state: nothing made, nothing registered.
LEMMA IndInvInit == SessionInit => IndInv
<1> SUFFICES ASSUME SessionInit PROVE IndInv
  OBVIOUS
<1> USE SessionAssumption
<1>1. Unmade \in Sessions
  BY DEF Unmade, Sessions
<1>2. NoLoc \in [ob : 0 .. MaxObjects, id : {0} \cup Ids, now : 0 .. MaxClock]
  BY DEF NoLoc
<1>3. TypeOK
  BY <1>1, <1>2 DEF SessionInit, TypeOK, Ids, PCs
<1>4. Registered = {} /\ Pending = {} /\ removed = {}
  BY DEF SessionInit, Registered, Pending
<1>5. LocalsMade /\ IdsBelow
  BY <1>4 DEF SessionInit, LocalsMade, IdsBelow, NoLoc, Objects
<1>6. PendingFresh /\ DurableKnown /\ NoResurrection /\ DataPreserved
  BY <1>4 DEF SessionInit, PendingFresh, DurableKnown, NoResurrection, DataPreserved
<1> QED BY <1>3, <1>5, <1>6 DEF IndInv

\* The table points at objects that have been made.
LEMMA RegisteredMade ==
    ASSUME IndInv, NEW i \in Registered
    PROVE  sessions[i] \in Objects /\ sessions[i] <= made
BY SessionAssumption DEF IndInv, TypeOK, Registered, Objects

\* A creation under way has made its object, which carries a real id.
LEMMA PendingMade ==
    ASSUME IndInv, NEW t \in SessionTasks, spc[t] \in {"insert", "use", "touch"}
    PROVE  loc[t].ob \in Objects /\ loc[t].ob <= made /\ PendingId(t) \in Ids
<1>1. loc[t].ob \in Objects /\ loc[t].ob <= made
  BY SessionAssumption DEF IndInv, TypeOK, LocalsMade, Objects
<1>2. obj[loc[t].ob].id # 0 /\ obj[loc[t].ob].id \in {0} \cup Ids
  BY <1>1 DEF IndInv, IdsBelow, TypeOK, Sessions
<1> QED BY <1>1, <1>2 DEF PendingId

\* A step that only moves a task between methods keeps everything, provided
\* the task refers to an object that exists and does not enter "insert".
LEMMA LocalStep ==
    ASSUME IndInv, NEW t \in SessionTasks, NEW l \in PCs \ {"insert"},
           NEW x \in [ob : 0 .. MaxObjects, id : {0} \cup Ids, now : 0 .. MaxClock],
           Enter(t, l, x), x.ob <= made,
           l \in {"use", "touch"} => x.ob # 0,
           l = "upgrade" => x.id # 0,
           UNCHANGED <<clock, session_counter, sessions, obj, made, durable, removed>>
    PROVE  IndInv'
<1>1. TypeOK'
  BY DEF IndInv, TypeOK, Enter
<1>2. \A u \in SessionTasks : /\ spc'[u] = IF u = t THEN l ELSE spc[u]
                       /\ loc'[u] = IF u = t THEN x ELSE loc[u]
  BY DEF IndInv, TypeOK, Enter
<1>3. LocalsMade'
  BY <1>2 DEF IndInv, LocalsMade
<1>4. Registered' = Registered
  BY DEF Registered
<1>5. IdsBelow' /\ DurableKnown' /\ NoResurrection' /\ DataPreserved'
  BY <1>4 DEF IndInv, IdsBelow, DurableKnown, NoResurrection, DataPreserved
<1>6. \A u \in Pending' : u \in Pending /\ PendingId(u)' = PendingId(u)
  BY <1>2 DEF Pending, PendingId
<1>7. PendingFresh'
  BY <1>6 DEF IndInv, PendingFresh
<1> QED BY <1>1, <1>3, <1>5, <1>7 DEF IndInv

\* Taking sessions out of the table keeps the invariant.
LEMMA RemovalStep ==
    ASSUME IndInv, NEW t \in SessionTasks, NEW gone \in SUBSET Registered,
           sessions' = [i \in Ids |-> IF i \in gone THEN 0 ELSE sessions[i]],
           removed' = removed \cup gone,
           \/ UNCHANGED <<spc, loc>>
           \/ Return(t),
           UNCHANGED <<clock, session_counter, obj, made, durable>>
    PROVE  IndInv'
<1>1. NoLoc \in [ob : 0 .. MaxObjects, id : {0} \cup Ids, now : 0 .. MaxClock]
  BY SessionAssumption DEF NoLoc
<1>2. TypeOK'
  <2>1. sessions' \in [Ids -> 0 .. made] /\ removed' \subseteq Ids
    BY DEF IndInv, TypeOK, Registered
  <2>2. spc' \in [SessionTasks -> PCs]
    BY DEF IndInv, TypeOK, Return, Enter, PCs
  <2>3. loc' \in [SessionTasks -> [ob : 0 .. MaxObjects, id : {0} \cup Ids, now : 0 .. MaxClock]]
    BY <1>1 DEF IndInv, TypeOK, Return, Enter
  <2> QED BY <2>1, <2>2, <2>3 DEF IndInv, TypeOK
<1>3. \A u \in SessionTasks :
        \/ spc'[u] = spc[u] /\ loc'[u] = loc[u]
        \/ spc'[u] = "idle" /\ loc'[u] = NoLoc
  BY DEF IndInv, TypeOK, Return, Enter
<1>4. LocalsMade'
  BY <1>3 DEF IndInv, LocalsMade, TypeOK, NoLoc
<1>5. Registered' = Registered \ gone
  BY DEF Registered
<1>6. NoResurrection' /\ DataPreserved'
  BY <1>5 DEF IndInv, NoResurrection, DataPreserved, Registered
<1>7. DurableKnown'
  BY <1>5 DEF IndInv, DurableKnown
<1>8. IdsBelow'
  <2>1. \A i \in gone : i < session_counter
    <3> SUFFICES ASSUME NEW i \in gone PROVE i < session_counter
      OBVIOUS
    <3>1. i \in Registered /\ sessions[i] \in Objects /\ sessions[i] <= made
      BY RegisteredMade
    <3> QED BY <3>1 DEF IndInv, NoResurrection, IdsBelow
  <2> QED BY <2>1 DEF IndInv, IdsBelow
<1>9. \A u \in Pending' : u \in Pending /\ PendingId(u)' = PendingId(u)
  BY <1>3 DEF Pending, PendingId
<1>10. PendingFresh'
  <2>1. ASSUME NEW u \in Pending'
        PROVE  sessions'[PendingId(u)'] = 0 /\ PendingId(u)' \notin removed'
    <3>1. PendingId(u) \in Ids /\ PendingId(u)' = PendingId(u)
      BY <1>9, <2>1, PendingMade DEF Pending
    <3>2. sessions[PendingId(u)] = 0 /\ PendingId(u) \notin removed
      BY <1>9, <2>1 DEF IndInv, PendingFresh
    <3>3. PendingId(u) \notin gone
      BY <3>2 DEF Registered
    <3> QED BY <3>1, <3>2, <3>3
  <2>2. ASSUME NEW u \in Pending', NEW v \in Pending', PendingId(u)' = PendingId(v)'
        PROVE  u = v
    BY <1>9, <2>2 DEF IndInv, PendingFresh
  <2> QED BY <2>1, <2>2 DEF PendingFresh
<1> QED BY <1>2, <1>4, <1>6, <1>7, <1>8, <1>10 DEF IndInv

\* A step that changes one object, neither its id nor what is in its data,
\* keeps the invariant; in particular set_data and touch on a stale Arc.
LEMMA ObjectStep ==
    ASSUME IndInv, NEW t \in SessionTasks, spc[t] \in {"use", "touch"},
           NEW s \in Sessions, s.id = obj[loc[t].ob].id,
           obj[loc[t].ob].data \subseteq s.data,
           obj' = [obj EXCEPT ![loc[t].ob] = s],
           \A i \in Ids : \/ durable'[i] = durable[i]
                         \/ /\ sessions[i] = loc[t].ob
                            /\ i \in Registered
                            /\ durable'[i] \subseteq durable[i] \cup s.data,
           durable' \in [Ids -> SUBSET DataKeys],
           \/ UNCHANGED <<spc, loc>>
           \/ Enter(t, "use", [loc[t] EXCEPT !.now = 0]),
           UNCHANGED <<clock, session_counter, sessions, made, removed>>
    PROVE  IndInv'
<1>0. loc[t].ob \in Objects /\ loc[t].ob <= made
  BY PendingMade
<1>1. \A o \in Objects : /\ obj'[o].id = obj[o].id
                         /\ obj[o].data \subseteq obj'[o].data
                         /\ o = loc[t].ob => obj'[o] = s
  BY <1>0 DEF IndInv, TypeOK
<1>2. \A u \in SessionTasks : /\ loc'[u].ob = loc[u].ob /\ loc'[u].id = loc[u].id
                       /\ spc'[u] \in {spc[u], "use"} /\ (u # t => spc'[u] = spc[u])
                       /\ spc'[t] \in {"use", "touch"}
  BY DEF IndInv, TypeOK, Enter
<1>3. TypeOK'
  <2>1. obj' \in [Objects -> Sessions]
    BY <1>0 DEF IndInv, TypeOK
  <2>2. spc' \in [SessionTasks -> PCs]
    BY DEF IndInv, TypeOK, Enter, PCs
  <2>3. loc' \in [SessionTasks -> [ob : 0 .. MaxObjects, id : {0} \cup Ids, now : 0 .. MaxClock]]
    BY SessionAssumption DEF IndInv, TypeOK, Enter
  <2> QED BY <2>1, <2>2, <2>3 DEF IndInv, TypeOK
<1>4. Registered' = Registered
  BY DEF Registered
<1>5. LocalsMade'
  BY <1>0, <1>2 DEF IndInv, LocalsMade, TypeOK
<1>6. IdsBelow'
  BY <1>1 DEF IndInv, IdsBelow
<1>7. \A u \in Pending' : u \in Pending /\ PendingId(u)' = PendingId(u)
  <2> SUFFICES ASSUME NEW u \in Pending' PROVE u \in Pending /\ PendingId(u)' = PendingId(u)
    OBVIOUS
  <2>1. u \in SessionTasks /\ spc'[u] = "insert" /\ u # t
    BY <1>2 DEF Pending
  <2>2. u \in Pending /\ loc'[u].ob = loc[u].ob
    BY <1>2, <2>1 DEF Pending
  <2>3. loc[u].ob \in Objects
    BY <2>2, PendingMade DEF Pending
  <2> QED BY <1>1, <2>2, <2>3 DEF PendingId
<1>8. PendingFresh'
  BY <1>7 DEF IndInv, PendingFresh
<1>9. DurableKnown'
  BY <1>4 DEF IndInv, DurableKnown
<1>10. NoResurrection' /\ DataPreserved'
  <2> SUFFICES ASSUME NEW i \in Registered
               PROVE  /\ i \notin removed /\ obj'[sessions[i]].id = i
                      /\ durable'[i] \subseteq obj'[sessions[i]].data
    BY <1>4 DEF NoResurrection, DataPreserved
  <2>1. sessions[i] \in Objects /\ i \in Ids
    BY RegisteredMade DEF Registered
  <2>2. i \notin removed /\ obj[sessions[i]].id = i /\ durable[i] \subseteq obj[sessions[i]].data
    BY DEF IndInv, NoResurrection, DataPreserved
  <2> QED BY <1>1, <2>1, <2>2
<1> QED BY <1>3, <1>5, <1>6, <1>8, <1>9, <1>10 DEF IndInv

\* create_session takes a fresh id and makes the object for it.
LEMMA AllocStep == ASSUME IndInv, NEW t \in SessionTasks, CreateAlloc(t) PROVE IndInv'
<1> DEFINE n == made + 1
<1>0. /\ n \in Objects /\ n \in Nat /\ session_counter \in Ids
      /\ session_counter \in Nat /\ made \in Nat
  BY SessionAssumption DEF CreateAlloc, IndInv, TypeOK, Objects, Ids
<1>1. /\ made' = n /\ session_counter' = session_counter + 1
      /\ obj' = [obj EXCEPT ![n] = NewSession(session_counter)]
      /\ UNCHANGED <<clock, sessions, durable, removed>>
      /\ spc[t] = "alloc" /\ Enter(t, "insert", [NoLoc EXCEPT !.ob = n])
  BY DEF CreateAlloc
<1>2. NewSession(session_counter) \in Sessions /\ NewSession(session_counter).id = session_counter
  BY <1>0, NewIsSession DEF IndInv, NewSession
<1>3. [NoLoc EXCEPT !.ob = n] \in
        [ob : 0 .. MaxObjects, id : {0} \cup Ids, now : 0 .. MaxClock]
  BY <1>0, SessionAssumption DEF NoLoc, Objects
<1>4. TypeOK'
  <2>1. obj' \in [Objects -> Sessions] /\ made' \in 0 .. MaxObjects
    BY <1>0, <1>1, <1>2 DEF IndInv, TypeOK, Objects
  <2>2. session_counter' \in 1 .. (made' + 1) /\ sessions' \in [Ids -> 0 .. made']
    BY <1>0, <1>1 DEF IndInv, TypeOK
  <2>3. spc' \in [SessionTasks -> PCs]
    BY <1>1 DEF IndInv, TypeOK, Enter, PCs
  <2>4. loc' \in [SessionTasks -> [ob : 0 .. MaxObjects, id : {0} \cup Ids, now : 0 .. MaxClock]]
    BY <1>1, <1>3 DEF IndInv, TypeOK, Enter
  <2> QED BY <1>1, <2>1, <2>2, <2>3, <2>4 DEF IndInv, TypeOK
<1>5. \A o \in Objects : obj'[o] = IF o = n THEN NewSession(session_counter) ELSE obj[o]
  BY <1>0, <1>1 DEF IndInv, TypeOK
<1>6. /\ \A u \in SessionTasks : u # t => spc'[u] = spc[u] /\ loc'[u] = loc[u]
      /\ spc'[t] = "insert" /\ loc'[t].ob = n /\ loc'[t].id = 0
  BY <1>1 DEF IndInv, TypeOK, Enter, NoLoc
<1>7. LocalsMade'
  BY <1>0, <1>1, <1>6 DEF IndInv, LocalsMade, TypeOK
<1>8. IdsBelow'
  <2>1. \A o \in Objects : o <= n => o = n \/ o <= made
    BY <1>0 DEF Objects
  <2>2. \A o \in Objects : o <= made => obj[o].id \in Nat
    BY DEF IndInv, TypeOK, Sessions, Ids
  <2>3. \A i \in removed : i \in Nat
    BY DEF IndInv, TypeOK, Ids
  <2>4. \A i \in removed' : i < session_counter'
    BY <1>0, <1>1, <2>3 DEF IndInv, IdsBelow
  <2>5. ASSUME NEW o \in Objects, o <= made'
        PROVE  obj'[o].id # 0 /\ obj'[o].id < session_counter'
    <3>1. CASE o = n
      BY <1>0, <1>1, <1>2, <1>5, <3>1 DEF Ids
    <3>2. CASE o # n
      <4>1. o <= made /\ obj'[o] = obj[o]
        BY <1>0, <1>1, <1>5, <2>1, <2>5, <3>2
      <4>2. obj[o].id # 0 /\ obj[o].id < session_counter /\ obj[o].id \in Nat
        BY <2>2, <4>1 DEF IndInv, IdsBelow
      <4> QED BY <1>0, <1>1, <4>1, <4>2
    <3> QED BY <3>1, <3>2
  <2> QED BY <2>4, <2>5 DEF IdsBelow
<1>9. Registered' = Registered
  BY <1>1 DEF Registered
<1>10. \A i \in Registered : sessions[i] \in Objects /\ obj'[sessions[i]] = obj[sessions[i]]
                                /\ i < session_counter
  <2> SUFFICES ASSUME NEW i \in Registered
               PROVE  /\ sessions[i] \in Objects /\ obj'[sessions[i]] = obj[sessions[i]]
                      /\ i < session_counter
    OBVIOUS
  <2>1. sessions[i] \in Objects /\ sessions[i] <= made
    BY RegisteredMade
  <2>2. sessions[i] # n
    BY <1>0, <2>1 DEF Objects
  <2> QED BY <1>5, <2>1, <2>2 DEF IndInv, IdsBelow, NoResurrection
<1>11. DurableKnown' /\ NoResurrection' /\ DataPreserved'
  BY <1>1, <1>9, <1>10 DEF IndInv, DurableKnown, NoResurrection, DataPreserved
<1>12. PendingFresh'
  <2>1. PendingId(t)' = session_counter
    BY <1>0, <1>2, <1>5, <1>6 DEF PendingId
  <2>2. session_counter \notin Registered /\ session_counter \notin removed
    BY <1>0, <1>10 DEF IndInv, IdsBelow
  <2>3. sessions'[session_counter] = 0
    BY <1>0, <1>1, <2>2 DEF Registered
  <2>4. ASSUME NEW u \in Pending', u # t
        PROVE  /\ u \in Pending /\ PendingId(u)' = PendingId(u) /\ PendingId(u) # session_counter
    <3>1. u \in Pending /\ u \in SessionTasks /\ loc'[u] = loc[u]
      BY <1>6, <2>4 DEF Pending
    <3>2. loc[u].ob \in Objects /\ loc[u].ob <= made
      BY <3>1, PendingMade DEF Pending
    <3>3. loc[u].ob # n
      BY <1>0, <3>2 DEF Objects
    <3>4. obj[loc[u].ob].id < session_counter
      BY <3>2 DEF IndInv, IdsBelow
    <3> QED BY <1>0, <1>5, <3>1, <3>2, <3>3, <3>4 DEF PendingId
  <2> QED BY <1>1, <2>1, <2>2, <2>3, <2>4 DEF IndInv, PendingFresh
<1> QED BY <1>4, <1>7, <1>8, <1>11, <1>12 DEF IndInv

\* create_session puts its object into the table, under an id nobody else has.
LEMMA InsertStep == ASSUME IndInv, NEW t \in SessionTasks, CreateInsert(t) PROVE IndInv'
<1> DEFINE o == loc[t].ob
           i == PendingId(t)
<1>0. t \in Pending /\ o \in Objects /\ o <= made /\ i \in Ids /\ o # 0
  BY PendingMade DEF CreateInsert, Pending, IndInv, LocalsMade
<1>1. /\ sessions' = [sessions EXCEPT ![i] = o] /\ Enter(t, "use", loc[t])
      /\ UNCHANGED <<clock, session_counter, obj, made, durable, removed>>
  BY DEF CreateInsert, PendingId
<1>2. sessions[i] = 0 /\ i \notin removed /\ obj[o].id = i
  BY <1>0 DEF IndInv, PendingFresh, PendingId
<1>3. i \notin Registered /\ durable[i] = {}
  BY <1>0, <1>2 DEF IndInv, DurableKnown, Registered
<1>4. \A j \in Ids : sessions'[j] = IF j = i THEN o ELSE sessions[j]
  BY <1>0, <1>1 DEF IndInv, TypeOK
<1>5. Registered' = Registered \cup {i}
  BY <1>0, <1>4 DEF Registered
<1>6. TypeOK'
  <2>1. sessions' \in [Ids -> 0 .. made']
    BY <1>0, <1>1, SessionAssumption DEF IndInv, TypeOK, Objects
  <2>2. spc' \in [SessionTasks -> PCs]
    BY <1>1 DEF IndInv, TypeOK, Enter, PCs
  <2>3. loc' = loc
    BY <1>1 DEF IndInv, TypeOK, Enter
  <2> QED BY <1>1, <2>1, <2>2, <2>3 DEF IndInv, TypeOK
<1>7. /\ \A u \in SessionTasks : loc'[u] = loc[u] /\ (u # t => spc'[u] = spc[u])
      /\ spc'[t] = "use"
  BY <1>1 DEF IndInv, TypeOK, Enter
<1>8. LocalsMade' /\ IdsBelow'
  <2>1. LocalsMade'
    BY <1>0, <1>1, <1>7 DEF IndInv, LocalsMade
  <2>2. IdsBelow'
    BY <1>1 DEF IndInv, IdsBelow
  <2> QED BY <2>1, <2>2
<1>9. DurableKnown'
  BY <1>1, <1>5 DEF IndInv, DurableKnown
<1>10. NoResurrection' /\ DataPreserved'
  <2> SUFFICES ASSUME NEW j \in Registered'
               PROVE  /\ j \notin removed /\ obj[sessions'[j]].id = j
                      /\ durable[j] \subseteq obj[sessions'[j]].data
    BY <1>1 DEF NoResurrection, DataPreserved
  <2>1. CASE j = i
    BY <1>0, <1>2, <1>3, <1>4, <2>1
  <2>2. CASE j # i
    <3>1. j \in Registered /\ j \in Ids /\ sessions'[j] = sessions[j]
      BY <1>4, <1>5, <2>2 DEF Registered
    <3> QED BY <3>1 DEF IndInv, NoResurrection, DataPreserved
  <2> QED BY <2>1, <2>2
<1>11. ASSUME NEW u \in Pending'
       PROVE  u \in Pending /\ u # t /\ PendingId(u)' = PendingId(u)
  BY <1>1, <1>7, <1>11 DEF Pending, PendingId
<1>12. PendingFresh'
  <2>1. ASSUME NEW u \in Pending'
        PROVE  sessions'[PendingId(u)'] = 0 /\ PendingId(u)' \notin removed'
    <3>1. u \in Pending /\ u # t /\ PendingId(u)' = PendingId(u)
      BY <1>11, <2>1
    <3>2. PendingId(u) \in Ids
      BY <3>1, PendingMade DEF Pending
    <3>3. PendingId(u) # i
      BY <1>0, <3>1 DEF IndInv, PendingFresh
    <3>4. sessions[PendingId(u)] = 0 /\ PendingId(u) \notin removed
      BY <3>1 DEF IndInv, PendingFresh
    <3> QED BY <1>1, <1>4, <3>1, <3>2, <3>3, <3>4
  <2>2. ASSUME NEW u \in Pending', NEW v \in Pending', PendingId(u)' = PendingId(v)'
        PROVE  u = v
    BY <1>11, <2>2 DEF IndInv, PendingFresh
  <2> QED BY <2>1, <2>2 DEF PendingFresh
<1> QED BY <1>6, <1>8, <1>9, <1>10, <1>12 DEF IndInv

\* upgrade_session replaces the object of a session that is still there by a
\* new one that has its id and its data.
LEMMA SwapStep ==
    ASSUME IndInv, NEW t \in SessionTasks, NEW i \in Registered, made < MaxObjects,
           made' = made + 1,
           obj' = [obj EXCEPT ![made + 1] = Upgraded(sessions[i])],
           sessions' = [sessions EXCEPT ![i] = made + 1],
           Return(t),
           UNCHANGED <<clock, session_counter, durable, removed>>
    PROVE  IndInv'
<1> DEFINE n == made + 1
           s == Upgraded(sessions[i])
<1>0. n \in Objects /\ n \in Nat /\ made \in Nat /\ i \in Ids /\ n # 0
  BY SessionAssumption DEF IndInv, TypeOK, Objects, Registered
<1>1. sessions[i] \in Objects /\ sessions[i] <= made
  BY RegisteredMade
<1>2. obj[sessions[i]].id = i /\ i \notin removed
      /\ durable[i] \subseteq obj[sessions[i]].data
  BY DEF IndInv, NoResurrection, DataPreserved
<1>3. s.id = i /\ s.data = obj[sessions[i]].data /\ s \in Sessions
  <2>1. NewSession(i) \in Sessions /\ NewSession(i).id = i
    BY <1>0, NewIsSession DEF IndInv, NewSession
  <2>2. obj[sessions[i]].data \in SUBSET DataKeys
    BY <1>1 DEF IndInv, TypeOK, Sessions
  <2> QED BY <1>2, <2>1, <2>2 DEF Upgraded, Sessions
<1> HIDE DEF s
<1>4. /\ \A p \in Objects : obj'[p] = IF p = n THEN s ELSE obj[p]
      /\ \A j \in Ids : sessions'[j] = IF j = i THEN n ELSE sessions[j]
      /\ obj' \in [Objects -> Sessions]
  BY <1>0, <1>3 DEF IndInv, TypeOK, s
<1>5. \A u \in SessionTasks : /\ spc'[u] = IF u = t THEN "idle" ELSE spc[u]
                       /\ loc'[u] = IF u = t THEN NoLoc ELSE loc[u]
  BY DEF IndInv, TypeOK, Return, Enter
<1>6. TypeOK'
  <2>1. sessions' \in [Ids -> 0 .. made'] /\ made' \in 0 .. MaxObjects
    BY <1>0, SessionAssumption DEF IndInv, TypeOK, Objects
  <2>2. session_counter' \in 1 .. (made' + 1)
    BY <1>0 DEF IndInv, TypeOK
  <2>3. spc' \in [SessionTasks -> PCs]
    BY DEF IndInv, TypeOK, Return, Enter, PCs
  <2>4. NoLoc \in [ob : 0 .. MaxObjects, id : {0} \cup Ids, now : 0 .. MaxClock]
    BY SessionAssumption DEF NoLoc
  <2>5. loc' \in [SessionTasks -> [ob : 0 .. MaxObjects, id : {0} \cup Ids, now : 0 .. MaxClock]]
    BY <2>4 DEF IndInv, TypeOK, Return, Enter
  <2> QED BY <1>4, <2>1, <2>2, <2>3, <2>5 DEF IndInv, TypeOK
<1>7. Registered' = Registered
  BY <1>0, <1>4 DEF Registered
<1>8. LocalsMade'
  <2> SUFFICES ASSUME NEW u \in SessionTasks
               PROVE  /\ loc'[u].ob <= made'
                      /\ spc'[u] \in {"insert", "use", "touch"} => loc'[u].ob # 0
                      /\ spc'[u] = "upgrade" => loc'[u].id # 0
    BY DEF LocalsMade
  <2>1. CASE u = t
    BY <1>0, <1>5, <2>1 DEF NoLoc
  <2>2. CASE u # t
    <3>1. loc[u].ob \in Nat
      BY DEF IndInv, TypeOK
    <3> QED BY <1>0, <1>5, <2>2, <3>1 DEF IndInv, LocalsMade
  <2> QED BY <2>1, <2>2
<1>9. IdsBelow'
  <2>1. i # 0 /\ i < session_counter
    BY <1>1, <1>2 DEF IndInv, IdsBelow
  <2>2. ASSUME NEW p \in Objects, p <= made'
        PROVE  obj'[p].id # 0 /\ obj'[p].id < session_counter'
    <3>1. CASE p = n
      BY <1>3, <1>4, <2>1, <3>1
    <3>2. CASE p # n
      <4>1. p <= made
        BY <1>0, <2>2, <3>2 DEF Objects
      <4> QED BY <1>4, <3>2, <4>1 DEF IndInv, IdsBelow
    <3> QED BY <3>1, <3>2
  <2> QED BY <2>2 DEF IndInv, IdsBelow
<1>10. NoResurrection' /\ DataPreserved'
  <2> SUFFICES ASSUME NEW j \in Registered
               PROVE  /\ j \notin removed /\ obj'[sessions'[j]].id = j
                      /\ durable[j] \subseteq obj'[sessions'[j]].data
    BY <1>7 DEF NoResurrection, DataPreserved
  <2>1. CASE j = i
    BY <1>0, <1>2, <1>3, <1>4, <2>1
  <2>2. CASE j # i
    <3>1. j \in Ids /\ sessions'[j] = sessions[j] /\ sessions[j] \in Objects /\ sessions[j] <= made
      BY <1>4, <2>2, RegisteredMade DEF Registered
    <3>2. sessions[j] # n
      BY <1>0, <3>1 DEF Objects
    <3> QED BY <1>4, <3>1, <3>2 DEF IndInv, NoResurrection, DataPreserved
  <2> QED BY <2>1, <2>2
<1>11. DurableKnown'
  BY <1>7 DEF IndInv, DurableKnown
<1>12. ASSUME NEW u \in Pending'
       PROVE  u \in Pending /\ PendingId(u)' = PendingId(u)
  <2>1. u \in Pending /\ loc'[u] = loc[u]
    BY <1>5, <1>12 DEF Pending
  <2>2. loc[u].ob \in Objects /\ loc[u].ob <= made
    BY <2>1, PendingMade DEF Pending
  <2>3. loc[u].ob # n
    BY <1>0, <2>2 DEF Objects
  <2> QED BY <1>4, <2>1, <2>2, <2>3 DEF PendingId
<1>13. PendingFresh'
  <2>1. ASSUME NEW u \in Pending'
        PROVE  sessions'[PendingId(u)'] = 0 /\ PendingId(u)' \notin removed'
    <3>1. u \in Pending /\ PendingId(u)' = PendingId(u)
      BY <1>12, <2>1
    <3>2. PendingId(u) \in Ids
      BY <3>1, PendingMade DEF Pending
    <3>3. sessions[PendingId(u)] = 0 /\ PendingId(u) \notin removed
      BY <3>1 DEF IndInv, PendingFresh
    <3>4. PendingId(u) # i
      BY <3>3 DEF Registered
    <3> QED BY <1>4, <3>1, <3>2, <3>3, <3>4
  <2>2. ASSUME NEW u \in Pending', NEW v \in Pending', PendingId(u)' = PendingId(v)'
        PROVE  u = v
    BY <1>12, <2>2 DEF IndInv, PendingFresh
  <2> QED BY <2>1, <2>2 DEF PendingFresh
<1> QED BY <1>6, <1>8, <1>9, <1>10, <1>11, <1>13 DEF IndInv

\* Every step of a task keeps the invariant.
LEMMA TaskKeeps == ASSUME IndInv, NEW t \in SessionTasks, SessionStep(t) PROVE IndInv'
<1> DEFINE Locs == [ob : 0 .. MaxObjects, id : {0} \cup Ids, now : 0 .. MaxClock]
<1>1. /\ NoLoc \in Locs /\ NoLoc.ob = 0 /\ NoLoc.id = 0 /\ made \in Nat /\ made <= MaxObjects
      /\ loc[t] \in Locs /\ loc[t].ob <= made /\ clock \in 0 .. MaxClock
      /\ spc[t] \in {"insert", "use", "touch"} => loc[t].ob # 0
  BY SessionAssumption DEF IndInv, TypeOK, LocalsMade, NoLoc
<1>2. CASE CreateCheck(t)
  BY <1>1, <1>2, LocalStep DEF CreateCheck, PCs
<1>3. CASE CreateAlloc(t)
  BY <1>3, AllocStep
<1>4. CASE CreateInsert(t)
  BY <1>4, InsertStep
<1>5. ASSUME NEW i \in Ids, GetSession(t, i) PROVE IndInv'
  <2>1. sessions[i] \in Objects /\ sessions[i] <= made /\ sessions[i] # 0
    BY <1>5, RegisteredMade DEF GetSession, Registered
  <2> DEFINE x == [NoLoc EXCEPT !.ob = sessions[i]]
  <2>2. x \in Locs /\ x.ob = sessions[i] /\ "use" \in PCs \ {"insert"}
    BY <1>1, <2>1, SessionAssumption DEF NoLoc, Objects, PCs
  <2>3. /\ Enter(t, "use", x)
        /\ UNCHANGED <<clock, session_counter, sessions, obj, made, durable, removed>>
    BY <1>5 DEF GetSession
  <2> HIDE DEF x
  <2> QED BY <2>1, <2>2, <2>3, LocalStep
<1>6. ASSUME NEW i \in Ids, RemoveSession(t, i) PROVE IndInv'
  <2>1. {i} \in SUBSET Registered
    BY <1>6 DEF RemoveSession
  <2>2. sessions' = [j \in Ids |-> IF j \in {i} THEN 0 ELSE sessions[j]]
    BY <1>6 DEF RemoveSession, IndInv, TypeOK
  <2>3. /\ removed' = removed \cup {i} /\ UNCHANGED <<spc, loc>>
        /\ UNCHANGED <<clock, session_counter, obj, made, durable>>
    BY <1>6 DEF RemoveSession
  <2> QED BY <2>1, <2>2, <2>3, RemovalStep
<1>7. ASSUME NEW i \in Ids, UpgradeLookup(t, i) PROVE IndInv'
  <2> DEFINE x == [NoLoc EXCEPT !.id = i]
  <2>1. x \in Locs /\ x.ob = 0 /\ x.id # 0 /\ "upgrade" \in PCs \ {"insert"}
    BY <1>1, SessionAssumption DEF NoLoc, Ids, PCs
  <2>2. /\ Enter(t, "upgrade", x)
        /\ UNCHANGED <<clock, session_counter, sessions, obj, made, durable, removed>>
    BY <1>7 DEF UpgradeLookup
  <2> HIDE DEF x
  <2> QED BY <1>1, <2>1, <2>2, LocalStep
<1>8. ASSUME NEW k \in DataKeys, SetData(t, k) PROVE IndInv'
  <2> DEFINE o == loc[t].ob
             i == obj[o].id
             s == [obj[o] EXCEPT !.data = @ \cup {k}]
  <2>1. spc[t] = "use" /\ o \in Objects /\ i \in Ids
    BY <1>8, PendingMade DEF SetData, PendingId
  <2>2. /\ obj' = [obj EXCEPT ![o] = s]
        /\ durable' = IF sessions[i] = o THEN [durable EXCEPT ![i] = @ \cup {k}] ELSE durable
        /\ UNCHANGED <<spc, loc>>
        /\ UNCHANGED <<clock, session_counter, sessions, made, removed>>
    BY <1>8 DEF SetData
  <2>3. s \in Sessions /\ s.id = i /\ s.data = obj[o].data \cup {k}
    BY <2>1 DEF IndInv, TypeOK, Sessions
  <2>4. durable' \in [Ids -> SUBSET DataKeys]
    BY <2>1, <2>2 DEF IndInv, TypeOK
  <2> HIDE DEF s
  <2>5. \A j \in Ids : \/ durable'[j] = durable[j]
                       \/ /\ sessions[j] = o
                          /\ j \in Registered
                          /\ durable'[j] \subseteq durable[j] \cup s.data
    BY <1>1, <2>1, <2>2, <2>3 DEF IndInv, TypeOK, Registered
  <2>6. obj[o].data \subseteq s.data /\ spc[t] \in {"use", "touch"}
    BY <2>1, <2>3
  <2> QED BY <2>2, <2>3, <2>4, <2>5, <2>6, ObjectStep
<1>9. CASE TouchRead(t)
  <2> DEFINE x == [loc[t] EXCEPT !.now = clock]
  <2>1. x \in Locs /\ x.ob = loc[t].ob /\ "touch" \in PCs \ {"insert"} /\ loc[t].ob # 0
    BY <1>1, <1>9 DEF TouchRead, PCs
  <2>2. /\ Enter(t, "touch", x)
        /\ UNCHANGED <<clock, session_counter, sessions, obj, made, durable, removed>>
    BY <1>9 DEF TouchRead
  <2> HIDE DEF x
  <2> QED BY <1>1, <2>1, <2>2, LocalStep
<1>10. CASE TouchStore(t)
  <2> DEFINE o == loc[t].ob
             s == [obj[o] EXCEPT !.last = loc[t].now]
  <2>1. spc[t] = "touch" /\ o \in Objects
    BY <1>10, PendingMade DEF TouchStore
  <2>2. /\ obj' = [obj EXCEPT ![o] = s]
        /\ Enter(t, "use", [loc[t] EXCEPT !.now = 0])
        /\ durable' = durable
        /\ UNCHANGED <<clock, session_counter, sessions, made, removed>>
    BY <1>10 DEF TouchStore
  <2>3. s \in Sessions /\ s.id = obj[o].id /\ s.data = obj[o].data
    BY <1>1, <2>1 DEF IndInv, TypeOK, Sessions
  <2>4. durable' \in [Ids -> SUBSET DataKeys]
    BY <2>2 DEF IndInv, TypeOK
  <2> HIDE DEF s
  <2>5. \A j \in Ids : durable'[j] = durable[j]
    BY <2>2
  <2>6. obj[o].data \subseteq s.data /\ spc[t] \in {"use", "touch"}
    BY <2>1, <2>3
  <2> QED BY <2>2, <2>3, <2>4, <2>5, <2>6, ObjectStep
<1>11. CASE DropArc(t)
  BY <1>1, <1>11, LocalStep DEF DropArc, Return, PCs
<1>12. CASE UpgradeSwap(t)
  <2>1. CASE loc[t].id \in Registered
    BY <1>12, <2>1, SwapStep DEF UpgradeSwap
  <2>2. CASE loc[t].id \notin Registered
    BY <1>1, <1>12, <2>2, LocalStep DEF UpgradeSwap, Return, PCs
  <2> QED BY <2>1, <2>2
<1>13. CASE CleanupRead(t)
  <2> DEFINE x == [NoLoc EXCEPT !.now = clock]
  <2>1. x \in Locs /\ x.ob = 0 /\ "sweep" \in PCs \ {"insert"}
    BY <1>1 DEF NoLoc, PCs
  <2>2. /\ Enter(t, "sweep", x)
        /\ UNCHANGED <<clock, session_counter, sessions, obj, made, durable, removed>>
    BY <1>13 DEF CleanupRead
  <2> HIDE DEF x
  <2> QED BY <1>1, <2>1, <2>2, LocalStep
<1>14. CASE CleanupSweep(t)
  <2> DEFINE gone == {i \in Registered : IsExpired(obj[sessions[i]].last, loc[t].now)}
  <2>1. gone \in SUBSET Registered
    OBVIOUS
  <2>2. /\ sessions' = [i \in Ids |-> IF i \in gone THEN 0 ELSE sessions[i]]
        /\ removed' = removed \cup gone /\ Return(t)
        /\ UNCHANGED <<clock, session_counter, obj, made, durable>>
    BY <1>14 DEF CleanupSweep
  <2> HIDE DEF gone
  <2> QED BY <2>1, <2>2, RemovalStep
<1> QED BY <1>2, <1>3, <1>4, <1>5, <1>6, <1>7, <1>8, <1>9, <1>10, <1>11, <1>12, <1>13, <1>14
        DEF SessionStep

\* The clock and stuttering steps keep it too.
LEMMA IndInvNext == IndInv /\ [SessionNext]_tableVars => IndInv'
<1> SUFFICES ASSUME IndInv, [SessionNext]_tableVars PROVE IndInv'
  OBVIOUS
<1>1. CASE Tick \/ UNCHANGED tableVars
  <2>1. /\ clock' \in 0 .. MaxClock
        /\ UNCHANGED <<session_counter, sessions, obj, made, spc, loc, durable, removed>>
    BY <1>1, SessionAssumption DEF IndInv, TypeOK, Tick, tableVars
  <2>2. Registered' = Registered /\ Pending' = Pending
    BY <2>1 DEF Registered, Pending
  <2>3. TypeOK' /\ LocalsMade' /\ IdsBelow'
    BY <2>1 DEF IndInv, TypeOK, LocalsMade, IdsBelow
  <2>4. PendingFresh' /\ DurableKnown' /\ NoResurrection' /\ DataPreserved'
    BY <2>1, <2>2 DEF IndInv, PendingFresh, PendingId, DurableKnown, NoResurrection, DataPreserved
  <2> QED BY <2>3, <2>4 DEF IndInv
<1>2. CASE \E t \in SessionTasks : SessionStep(t)
  BY <1>2, TaskKeeps
<1> QED BY <1>1, <1>2 DEF SessionNext

\* The invariant holds throughout.
LEMMA SessionInvariant == SessionSpec => []IndInv
BY IndInvInit, IndInvNext, PTL DEF SessionSpec

\* The table, the objects and the tasks' locals keep their types: a table
\* entry is always an object that exists.
THEOREM SessionTypeCorrect == SessionSpec => []TypeOK
<1>1. IndInv => TypeOK
  BY DEF IndInv
<1> QED BY <1>1, SessionInvariant, PTL

\* A session removed or expired never comes back under its id, whatever
\* creations and upgrades race with the removal (upgrade_session looks the
\* session up again under the write lock).
THEOREM NoSessionRevived == SessionSpec => []NoResurrection
<1>1. IndInv => NoResurrection
  BY DEF IndInv
<1> QED BY <1>1, SessionInvariant, PTL

\* What was set through a registered session is there as long as it is
\* registered, through any number of racing upgrades.
THEOREM UpgradeKeepsData == SessionSpec => []DataPreserved
<1>1. IndInv => DataPreserved
  BY DEF IndInv
<1> QED BY <1>1, SessionInvariant, PTL

\* No task holds a time that has not come yet.
TimesPast == \A t \in SessionTasks : loc[t].now <= clock

\* A time is read from the clock, which does not go back.
LEMMA TimesStep ==
    ASSUME TypeOK, TypeOK', TimesPast, [SessionNext]_tableVars
    PROVE  TimesPast'
<1> SUFFICES ASSUME NEW u \in SessionTasks PROVE loc'[u].now <= clock'
  BY DEF TimesPast
<1>1. /\ clock \in Nat /\ clock' \in Nat /\ loc[u].now \in Nat /\ loc'[u].now \in Nat
  BY SessionAssumption DEF TypeOK
<1>2. loc[u].now <= clock
  BY DEF TimesPast
<1>3. clock' = clock \/ clock' = clock + 1
  BY DEF SessionNext, SessionStep, Tick, CreateCheck, CreateAlloc, CreateInsert, GetSession, RemoveSession,
         UpgradeLookup, SetData, TouchRead, TouchStore, DropArc, UpgradeSwap, CleanupRead,
         CleanupSweep, tableVars
<1>4. loc'[u].now \in {loc[u].now, clock, 0}
  <2>1. CASE UNCHANGED loc
    BY <2>1
  <2>2. ASSUME NEW t \in SessionTasks, NEW l, NEW x, Enter(t, l, x), x.now \in {loc[t].now, clock, 0}
        PROVE  loc'[u].now \in {loc[u].now, clock, 0}
    BY <2>2 DEF Enter, TypeOK
  <2>3. ASSUME NEW t \in SessionTasks, Return(t) PROVE loc'[u].now \in {loc[u].now, clock, 0}
    BY <2>2, <2>3 DEF Return, NoLoc
  <2>4. ASSUME NEW t \in SessionTasks, NEW f
        PROVE  /\ NoLoc.now = 0 /\ [NoLoc EXCEPT !.ob = f].now = 0 /\ [NoLoc EXCEPT !.id = f].now = 0
               /\ [NoLoc EXCEPT !.now = clock].now = clock
               /\ [loc[t] EXCEPT !.now = clock].now = clock /\ [loc[t] EXCEPT !.now = 0].now = 0
    BY DEF NoLoc, TypeOK
  <2>5. ASSUME NEW t \in SessionTasks, SessionStep(t) PROVE loc'[u].now \in {loc[u].now, clock, 0}
    <3>1. CASE CreateCheck(t) \/ CreateAlloc(t) \/ CreateInsert(t)
      BY <2>2, <2>4, <3>1 DEF CreateCheck, CreateAlloc, CreateInsert
    <3>2. CASE \E i \in Ids : GetSession(t, i) \/ RemoveSession(t, i) \/ UpgradeLookup(t, i)
      BY <2>1, <2>2, <2>4, <3>2 DEF GetSession, RemoveSession, UpgradeLookup
    <3>3. CASE \E k \in DataKeys : SetData(t, k)
      BY <2>1, <3>3 DEF SetData
    <3>4. CASE TouchRead(t) \/ TouchStore(t) \/ CleanupRead(t)
      BY <2>2, <2>4, <3>4 DEF TouchRead, TouchStore, CleanupRead
    <3>5. CASE DropArc(t) \/ UpgradeSwap(t) \/ CleanupSweep(t)
      BY <2>3, <3>5 DEF DropArc, UpgradeSwap, CleanupSweep
    <3> QED BY <2>5, <3>1, <3>2, <3>3, <3>4, <3>5 DEF SessionStep
  <2>6. CASE Tick \/ UNCHANGED tableVars
    BY <2>1, <2>6 DEF Tick, tableVars
  <2> QED BY <2>5, <2>6 DEF SessionNext
<1> QED BY <1>1, <1>2, <1>3, <1>4

\* What a sweep takes for expired is older than the timeout, or newer than the
\* time the sweep has read.
LEMMA ExpiredIsOld ==
    ASSUME NEW last \in 0 .. MaxClock, NEW now \in 0 .. MaxClock, IsExpired(last, now)
    PROVE  now > last + Timeout \/ last > now
<1>0. MaxClock \in Nat /\ Timeout \in Nat /\ TimeSpace \in Nat /\ TimeSpace > MaxClock + Timeout
  BY SessionAssumption
<1> SUFFICES ASSUME last <= now PROVE now > last + Timeout
  BY <1>0
<1>1. PICK x \in 0 .. TimeSpace - 1 : x = now - last
  BY <1>0
<1>2. (x + TimeSpace * 1) % TimeSpace = x % TimeSpace
  <2>1. x \in Int /\ 1 \in Int /\ TimeSpace > 0
    BY <1>0
  <2> QED BY <1>0, <2>1, RemainderShift, Zenon
<1>3. now + TimeSpace - last = x + TimeSpace * 1
  BY <1>0, <1>1
<1>4. x % TimeSpace = x
  <2>3. x \in Int /\ TimeSpace \in Nat /\ TimeSpace > 0
    BY <1>0
  <2>1. PICK q \in Int : x = TimeSpace * q + (x % TimeSpace)
    BY <2>3, Division
  <2>2. x % TimeSpace \in 0 .. TimeSpace - 1 /\ TimeSpace * 0 + x = TimeSpace * q + (x % TimeSpace)
    <3>1. x % TimeSpace \in 0 .. TimeSpace - 1
      BY <2>3, Division
    <3> QED BY <2>1, <2>3, <3>1
  <2> QED BY <2>2, <2>3, RemainderUnique
<1>5. x > Timeout
  BY <1>2, <1>3, <1>4 DEF IsExpired
<1> QED BY <1>0, <1>1, <1>5

\* cleanup_expired_sessions removes only sessions that have been idle for longer
\* than the timeout, or that were touched after it had read the clock.
THEOREM SweepsSpareTheActive == SessionSpec => ActiveSessionKept
<1>1. SessionInit => TimesPast
  BY DEF SessionInit, TimesPast, NoLoc
<1>2. TypeOK /\ TypeOK' /\ TimesPast /\ [SessionNext]_tableVars => TimesPast'
  BY TimesStep
<1>3. IndInv /\ TimesPast =>
        [\A i \in Registered, t \in SessionTasks :
            CleanupSweep(t) /\ sessions'[i] = 0 =>
                \/ clock > obj[sessions[i]].last + Timeout
                \/ obj[sessions[i]].last > loc[t].now]_tableVars
  <2> SUFFICES ASSUME IndInv, TimesPast, NEW i \in Registered, NEW t \in SessionTasks,
                      CleanupSweep(t), sessions'[i] = 0
               PROVE  \/ clock > obj[sessions[i]].last + Timeout
                      \/ obj[sessions[i]].last > loc[t].now
    OBVIOUS
  <2>1. PICK last \in 0 .. MaxClock : last = obj[sessions[i]].last
    <3>1. obj[sessions[i]] \in Sessions
      BY RegisteredMade DEF IndInv, TypeOK
    <3> QED BY <3>1 DEF Sessions
  <2>2. PICK now \in 0 .. MaxClock : now = loc[t].now
    BY DEF IndInv, TypeOK
  <2>3. IsExpired(last, now)
    <3>1. sessions[i] # 0 /\ i \in Ids
      BY DEF Registered
    <3> QED BY <2>1, <2>2, <3>1 DEF CleanupSweep
  <2>4. now > last + Timeout \/ last > now
    BY <2>3, ExpiredIsOld
  <2>5. now <= clock /\ clock \in Nat
    BY <2>2, SessionAssumption DEF TimesPast, IndInv, TypeOK
  <2> QED BY <2>1, <2>2, <2>4, <2>5, SessionAssumption
<1>4. IndInv => TypeOK
  BY DEF IndInv
<1> QED BY <1>1, <1>2, <1>3, <1>4, SessionInvariant, PTL DEF SessionSpec, ActiveSessionKept

----------------------------------------------------------------------------
(* PipelinedClient *)

SendPCs    == {"register", "count", "send", "forget", "uncount", "remove", "retain"}
ReaderPCs  == {"answer", "fail", "close", "fin"}
Forgotten  == {"uncount", "remove", "retain"}
Uncounted  == {"uncount", "answer", "fail"}

PipeTypes ==
    /\ in_flight \in 0 .. CountSpace - 1 /\ disturbed \in BOOLEAN
    /\ pending \subseteq Requests
    /\ nextId \in 1 .. MaxSends + 1
    /\ stream \in [Requests -> {"none", "open", "local", "reset"}]
    /\ queue \in Seq(Requests \X Kinds)
    /\ wire \subseteq Requests \X Kinds
    /\ outcome \in [Requests -> {"none", "ok", "err"}]
    /\ answered \subseteq Requests
    /\ ppc \in [ClientTasks -> PipePCs] /\ cur \in [ClientTasks -> 0 .. MaxSends]

\* A send works on a request of its own, the outcome of which is open; what
\* has not been opened has left no trace.
SendsOwn ==
    /\ \A t \in ClientTasks : ppc[t] \in SendPCs =>
         cur[t] \in Requests /\ cur[t] < nextId /\ outcome[cur[t]] = "none"
    /\ \A t, u \in ClientTasks :
         ppc[t] \in SendPCs /\ ppc[u] \in SendPCs /\ cur[t] = cur[u] => t = u
    /\ \A r \in Requests : r >= nextId => outcome[r] = "none" /\ r \notin pending
    /\ \A t \in ClientTasks : ppc[t] \in {"register"} \cup Forgotten => cur[t] \notin pending
    /\ \A t \in ClientTasks : ppc[t] = "retain" => stream[cur[t]] = "none"

\* What becomes of a request that was entered into the table.
Kept(r) == \/ r \in pending \/ r \in answered
           \/ \E t \in ClientTasks : ppc[t] \in {"answer", "fail"} /\ cur[t] = r

Queued == {queue[n] : n \in 1 .. Len(queue)}

\* A response is to a request that was sent.
ReadersOwn ==
    /\ \A t \in ClientTasks : ppc[t] \in ReaderPCs => cur[t] \in Requests
    /\ \A t \in ClientTasks : ppc[t] \in {"answer", "close", "fin"} => outcome[cur[t]] = "ok"
    /\ \A r \in Requests : Frame(r, "DATA") \in wire => outcome[r] = "ok"
    /\ \A f \in Queued : f[2] = "DATA" => outcome[f[1]] = "ok"
    /\ \A t \in ClientTasks : ppc[t] \in {"count", "send"} => Kept(cur[t])

\* cancel_all holds the table.
CancelHolds ==
    /\ canceller \in ClientTasks \cup {NoTask}
    /\ \A t \in ClientTasks : ppc[t] = "store" <=> canceller = t
    /\ ~disturbed /\ ~PendingFree => pending = {} /\ AtPC({"count"}) = {} /\ AtPC(Uncounted) = {}

\* RequestsAccounted, without the tasks.
Accounted ==
    \A r \in Requests :
        /\ outcome[r] = "ok" => Kept(r)
        /\ outcome[r] = "err" =>
             r \notin pending /\ stream[r] = "none" /\ \A f \in Queued : f[1] # r

RequestInv == PipeTypes /\ SendsOwn /\ ReadersOwn /\ Accounted

\* What a step of a task does to the others.
LEMMA OneTaskMoves ==
    ASSUME PipeTypes, NEW t \in ClientTasks, NEW l \in PipePCs, NEW r \in 0 .. MaxSends,
           PipeEnter(t, l, r)
    PROVE  /\ ppc' \in [ClientTasks -> PipePCs] /\ cur' \in [ClientTasks -> 0 .. MaxSends]
           /\ ppc'[t] = l /\ cur'[t] = r
           /\ \A u \in ClientTasks : u # t => ppc'[u] = ppc[u] /\ cur'[u] = cur[u]
BY DEF PipeTypes, PipeEnter

\* A client task goes to its next step.
LEMMA GoingOn ==
    ASSUME PipeTypes, NEW t \in ClientTasks, NEW l, GoTo(t, l)
    PROVE  PipeEnter(t, l, cur[t]) /\ cur[t] \in 0 .. MaxSends
BY DEF PipeTypes, GoTo, PipeEnter

\* Frames come into the queue at its end and leave it at its front.
LEMMA QueueChanges ==
    ASSUME PipeTypes
    PROVE  /\ queue \in Seq(Requests \X Kinds) /\ Len(queue) \in Nat /\ Queued \subseteq Requests \X Kinds
           /\ \A f \in Requests \X Kinds : queue' = Append(queue, f) =>
                queue' \in Seq(Requests \X Kinds) /\ Queued' = Queued \cup {f}
           /\ queue' = queue => Queued' = Queued
           /\ queue # <<>> /\ queue' = Tail(queue) =>
                /\ queue' \in Seq(Requests \X Kinds) /\ Queued' \subseteq Queued
                /\ Head(queue) \in Queued
           /\ \A S : queue' = Without(queue, S) =>
                queue' \in Seq(Requests \X Kinds) /\ Queued' \subseteq Queued \ S
<1>1. queue \in Seq(Requests \X Kinds) /\ Len(queue) \in Nat /\ Queued \subseteq Requests \X Kinds
  BY DEF PipeTypes, Queued
<1>2. ASSUME NEW f \in Requests \X Kinds, queue' = Append(queue, f)
      PROVE  queue' \in Seq(Requests \X Kinds) /\ Queued' = Queued \cup {f}
  <2>1. /\ queue' \in Seq(Requests \X Kinds) /\ Len(queue') = Len(queue) + 1
        /\ queue'[Len(queue) + 1] = f /\ \A n \in 1 .. Len(queue) : queue'[n] = queue[n]
    BY <1>1, <1>2, AppendProperties
  <2>2. 1 .. Len(queue') = (1 .. Len(queue)) \cup {Len(queue) + 1}
    BY <1>1, <2>1
  <2>3. Queued' \subseteq Queued \cup {f}
    BY <2>1, <2>2 DEF Queued
  <2>4. f \in Queued' /\ Queued \subseteq Queued'
    BY <2>1, <2>2 DEF Queued
  <2> QED BY <2>1, <2>3, <2>4
<1>3. queue' = queue => Queued' = Queued
  BY DEF Queued
<1>4. ASSUME queue # <<>>, queue' = Tail(queue)
      PROVE  queue' \in Seq(Requests \X Kinds) /\ Queued' \subseteq Queued /\ Head(queue) \in Queued
  <2>1. queue' \in Seq(Requests \X Kinds) /\ Len(queue') = Len(queue) - 1 /\ Len(queue) > 0
    BY <1>1, <1>4, HeadTailProperties, EmptySeq
  <2>2. \A n \in 1 .. Len(queue') : queue'[n] = queue[n + 1] /\ n + 1 \in 1 .. Len(queue)
    BY <1>1, <1>4, <2>1
  <2>3. Head(queue) = queue[1] /\ 1 \in 1 .. Len(queue)
    BY <1>1, <1>4, <2>1
  <2> QED BY <2>1, <2>2, <2>3 DEF Queued
<1>5. ASSUME NEW S, queue' = Without(queue, S)
      PROVE  queue' \in Seq(Requests \X Kinds) /\ Queued' \subseteq Queued \ S
  <2>1. PICK w : w = Without(queue, S)
    OBVIOUS
  <2>2. w \in Seq(Requests \X Kinds) /\ \E at : LeftAt(at, w, queue, S, Len(queue))
    BY <1>1, <2>1, WithoutProperties
  <2>3. PICK at : LeftAt(at, w, queue, S, Len(queue))
    BY <2>2
  <2>4. \A n \in 1 .. Len(w) : at[n] \in 1 .. Len(queue) /\ w[n] = queue[at[n]] /\ w[n] \notin S
    BY <2>3 DEF LeftAt
  <2>5. queue' = w
    BY <1>5, <2>1
  <2> QED BY <2>2, <2>4, <2>5 DEF Queued
<1> QED BY <1>1, <1>2, <1>3, <1>4, <1>5

\* A step of task t that leaves the outcomes alone, from the point of view of
\* the requests.
LEMMA TaskKeepsRequests ==
    ASSUME RequestInv, NEW t \in ClientTasks, NEW l \in PipePCs, NEW r \in 0 .. MaxSends,
           PipeEnter(t, l, r), UNCHANGED <<nextId, wire, outcome>>,
           in_flight' \in 0 .. CountSpace - 1, disturbed' \in BOOLEAN, answered' \subseteq Requests,
           l \in SendPCs => l # "register" /\ ppc[t] \in SendPCs /\ r = cur[t],
           l \in ReaderPCs => r \in Requests,
           l \in {"answer", "close", "fin"} => outcome[r] = "ok",
           pending' \subseteq pending \cup (IF ppc[t] = "register" THEN {cur[t]} ELSE {}),
           l \in Forgotten => r \notin pending',
           stream' \in [Requests -> {"none", "open", "local", "reset"}],
           \A q \in Requests : stream[q] = "none" => stream'[q] = "none",
           l = "retain" => stream'[r] = "none",
           queue' \in Seq(Requests \X Kinds),
           Queued' \subseteq Queued \cup (IF ppc[t] = "fin" THEN {Frame(cur[t], "FIN")} ELSE {}),
           \A q \in Requests : Kept(q) => Kept(q)' \/ (ppc[t] \in SendPCs /\ q = cur[t]),
           l \in {"count", "send"} => Kept(r)'
    PROVE  RequestInv'
<1>1. PipeTypes /\ SendsOwn /\ ReadersOwn /\ Accounted
  BY DEF RequestInv
<1>2. /\ ppc' \in [ClientTasks -> PipePCs] /\ cur' \in [ClientTasks -> 0 .. MaxSends]
      /\ ppc'[t] = l /\ cur'[t] = r
      /\ \A u \in ClientTasks : u # t => ppc'[u] = ppc[u] /\ cur'[u] = cur[u]
  BY <1>1, OneTaskMoves
<1>3. ppc[t] \in SendPCs => /\ cur[t] \in Requests /\ outcome[cur[t]] = "none" /\ cur[t] < nextId
                            /\ \A u \in ClientTasks : u # t /\ ppc[u] \in SendPCs => cur[u] # cur[t]
  BY <1>1 DEF SendsOwn
<1>4. "register" \in SendPCs /\ "register" \notin Forgotten /\ Forgotten \subseteq SendPCs
        /\ {"count", "send", "retain"} \subseteq SendPCs
  BY DEF SendPCs, Forgotten
<1>5. pending' \subseteq Requests /\ \A q \in pending' : q \in pending \/ (ppc[t] = "register" /\ q = cur[t])
  BY <1>1, <1>3, <1>4 DEF PipeTypes
<1>6. PipeTypes'
  BY <1>1, <1>2, <1>5 DEF PipeTypes
<1>7. SendsOwn'
  <2>1. \A u \in ClientTasks : ppc'[u] \in SendPCs => ppc[u] \in SendPCs /\ cur'[u] = cur[u]
    BY <1>2
  <2>2. /\ \A u \in ClientTasks : ppc'[u] \in SendPCs =>
             cur'[u] \in Requests /\ cur'[u] < nextId' /\ outcome'[cur'[u]] = "none"
        /\ \A u, v \in ClientTasks :
             ppc'[u] \in SendPCs /\ ppc'[v] \in SendPCs /\ cur'[u] = cur'[v] => u = v
    BY <1>1, <2>1 DEF SendsOwn
  <2>3. \A q \in Requests : q >= nextId' => outcome'[q] = "none" /\ q \notin pending'
    <3> SUFFICES ASSUME NEW q \in Requests, q >= nextId PROVE outcome[q] = "none" /\ q \notin pending'
      OBVIOUS
    <3>1. ~(q < nextId)
      BY <1>1 DEF PipeTypes, Requests
    <3> QED BY <1>1, <1>3, <1>4, <1>5, <3>1 DEF SendsOwn
  <2>4. ASSUME NEW u \in ClientTasks, ppc'[u] \in {"register"} \cup Forgotten
        PROVE  cur'[u] \notin pending'
    <3>1. CASE u = t
      BY <1>2, <1>4, <2>4, <3>1
    <3>2. CASE u # t
      <4>1. ppc[u] \in {"register"} \cup Forgotten /\ cur'[u] = cur[u] /\ ppc[u] \in SendPCs
        BY <1>2, <1>4, <2>4, <3>2
      <4>2. cur[u] \notin pending /\ (ppc[t] \in SendPCs => cur[u] # cur[t])
        BY <1>1, <1>3, <3>2, <4>1 DEF SendsOwn
      <4> QED BY <1>4, <1>5, <4>1, <4>2
    <3> QED BY <3>1, <3>2
  <2>5. \A u \in ClientTasks : ppc'[u] = "retain" => stream'[cur'[u]] = "none"
    BY <1>1, <1>2, <1>4 DEF SendsOwn
  <2> QED BY <2>2, <2>3, <2>4, <2>5 DEF SendsOwn
<1>8. ReadersOwn'
  <2>1. \A u \in ClientTasks : /\ ppc'[u] \in ReaderPCs => cur'[u] \in Requests
                               /\ ppc'[u] \in {"answer", "close", "fin"} => outcome'[cur'[u]] = "ok"
    BY <1>1, <1>2 DEF ReadersOwn
  <2>2. \A f \in Queued' : f[2] = "DATA" => outcome'[f[1]] = "ok"
    BY <1>1 DEF ReadersOwn, Frame
  <2>3. ASSUME NEW u \in ClientTasks, ppc'[u] \in {"count", "send"} PROVE Kept(cur[u])'
    <3>1. CASE u = t
      BY <1>2, <2>3, <3>1
    <3>2. CASE u # t
      <4>1. PICK q : q = cur[u]
        OBVIOUS
      <4>2. ppc[u] \in {"count", "send"} /\ cur'[u] = q /\ ppc[u] \in SendPCs
        BY <1>2, <1>4, <2>3, <3>2, <4>1
      <4>3. q \in Requests /\ Kept(q) /\ (ppc[t] \in SendPCs => q # cur[t])
        BY <1>1, <1>3, <3>2, <4>1, <4>2 DEF SendsOwn, ReadersOwn
      <4>4. Kept(q)'
        BY <4>3
      <4> QED BY <4>2, <4>4
    <3> QED BY <3>1, <3>2
  <2> QED BY <1>1, <2>1, <2>2, <2>3 DEF ReadersOwn
<1>9. Accounted'
  <2> SUFFICES ASSUME NEW q \in Requests
               PROVE  /\ outcome'[q] = "ok" => Kept(q)'
                      /\ outcome'[q] = "err" =>
                           q \notin pending' /\ stream'[q] = "none" /\ \A f \in Queued' : f[1] # q
    BY DEF Accounted
  <2>1. outcome[q] = "ok" => Kept(q)'
    BY <1>1, <1>3 DEF Accounted
  <2>2. ASSUME outcome[q] = "err"
        PROVE  q \notin pending' /\ stream'[q] = "none" /\ \A f \in Queued' : f[1] # q
    <3>1. q \notin pending /\ stream[q] = "none" /\ \A f \in Queued : f[1] # q
      BY <1>1, <2>2 DEF Accounted
    <3>2. ppc[t] = "register" => q # cur[t]
      BY <1>3, <1>4, <2>2
    <3>3. ppc[t] = "fin" => q # cur[t]
      BY <1>1, <2>2 DEF ReadersOwn
    <3>4. \A f \in Queued' : f \in Queued \/ (ppc[t] = "fin" /\ f = <<cur[t], "FIN">>)
      BY DEF Frame
    <3> QED BY <1>5, <3>1, <3>2, <3>3, <3>4
  <2> QED BY <2>1, <2>2
<1> QED BY <1>6, <1>7, <1>8, <1>9 DEF RequestInv

\* A step of a task that touches neither the table, nor the queue, nor a stream.
LEMMA QuietKeepsRequests ==
    ASSUME RequestInv, NEW t \in ClientTasks, NEW l \in PipePCs, NEW r \in 0 .. MaxSends,
           PipeEnter(t, l, r),
           UNCHANGED <<nextId, wire, outcome, pending, stream, queue>>,
           in_flight' \in 0 .. CountSpace - 1, disturbed' \in BOOLEAN,
           answered' = answered \cup (IF ppc[t] \in {"answer", "fail"} THEN {cur[t]} ELSE {}),
           l \in {"open", "idle", "store"} \/ (ppc[t] = "answer" /\ l = "close" /\ r = cur[t])
             \/ (ppc[t] \in SendPCs /\ r = cur[t] /\ l \in {"send", "forget", "remove"}
                   /\ (l = "remove" => ppc[t] \in Forgotten)
                   /\ (l = "send" => ppc[t] \in {"count", "send"}))
    PROVE  RequestInv'
<1>1. PipeTypes /\ SendsOwn /\ ReadersOwn /\ Accounted
  BY DEF RequestInv
<1>2. /\ ppc'[t] = l /\ cur'[t] = r
      /\ \A u \in ClientTasks : u # t => ppc'[u] = ppc[u] /\ cur'[u] = cur[u]
  BY <1>1, OneTaskMoves
<1>3. answered' \subseteq Requests
  BY <1>1 DEF PipeTypes, ReadersOwn, ReaderPCs
<1>4. /\ l \in SendPCs => l # "register" /\ ppc[t] \in SendPCs /\ r = cur[t]
      /\ l \in ReaderPCs => l = "close" /\ ppc[t] = "answer" /\ r = cur[t]
      /\ l \in Forgotten => l = "remove" /\ ppc[t] \in Forgotten /\ r = cur[t]
      /\ l # "retain"
      /\ l \in {"answer", "close", "fin"} => l = "close" /\ ppc[t] = "answer" /\ r = cur[t]
      /\ l \in {"count", "send"} => r = cur[t] /\ ppc[t] \in {"count", "send"}
  BY DEF SendPCs, ReaderPCs, Forgotten
<1>5. /\ l \in ReaderPCs => r \in Requests
      /\ l \in {"answer", "close", "fin"} => outcome[r] = "ok"
      /\ l \in Forgotten => r \notin pending'
  BY <1>1, <1>4 DEF SendsOwn, ReadersOwn, ReaderPCs
<1>6. ASSUME NEW q, Kept(q) PROVE Kept(q)'
  <2>1. ASSUME NEW u \in ClientTasks, ppc[u] \in {"answer", "fail"}, cur[u] = q PROVE Kept(q)'
    BY <1>2, <2>1 DEF Kept
  <2> QED BY <1>6, <2>1 DEF Kept
<1>7. l \in {"count", "send"} => Kept(r)'
  <2>1. SUFFICES ASSUME l \in {"count", "send"} PROVE Kept(r)'
    OBVIOUS
  <2>2. Kept(r)
    BY <1>1, <1>4, <2>1 DEF ReadersOwn
  <2> QED BY <1>6, <2>2
<1>8. /\ queue' \in Seq(Requests \X Kinds) /\ Queued' = Queued
      /\ stream' \in [Requests -> {"none", "open", "local", "reset"}]
  BY <1>1, QueueChanges DEF PipeTypes
<1> QED BY <1>3, <1>4, <1>5, <1>6, <1>7, <1>8, TaskKeepsRequests

\* Steps that leave the pending requests alone.
LEMMA QuietStepsKeepRequests ==
    ASSUME RequestInv, NEW t \in ClientTasks,
           \/ SendCheck(t) \/ SendCount(t) \/ SendUncount(t) \/ Deliver(t) \/ CancelStore(t)
           \/ SendOpen(t) /\ PipeReturn(t) /\ UNCHANGED <<nextId, stream, queue>>
           \/ SendData(t) /\ GoTo(t, "forget") /\ UNCHANGED <<queue, outcome>>
           \/ ResponseClose(t) /\ PipeReturn(t) /\ UNCHANGED stream
    PROVE  RequestInv'
<1>1. PipeTypes /\ in_flight \in Nat
  BY ClientAssumption DEF RequestInv, PipeTypes
<1>2. /\ \A k \in Int : k % CountSpace \in 0 .. CountSpace - 1
      /\ 0 \in 0 .. CountSpace - 1 /\ 0 \in 0 .. MaxSends
  BY ClientAssumption
<1>3. {"open", "idle", "store", "close", "send", "forget", "remove"} \subseteq PipePCs
  BY DEF PipePCs
<1>4. CASE SendCheck(t)
  <2>1. /\ PipeEnter(t, "open", cur[t]) /\ cur[t] \in 0 .. MaxSends
        /\ UNCHANGED <<nextId, wire, outcome, pending, stream, queue, in_flight, disturbed>>
        /\ answered' = answered \cup (IF ppc[t] \in {"answer", "fail"} THEN {cur[t]} ELSE {})
    BY <1>1, <1>4, GoingOn DEF SendCheck
  <2> QED BY <1>1, <1>3, <2>1, QuietKeepsRequests DEF PipeTypes
<1>5. CASE SendCount(t)
  <2>1. /\ PipeEnter(t, "send", cur[t]) /\ cur[t] \in 0 .. MaxSends
        /\ UNCHANGED <<nextId, wire, outcome, pending, stream, queue, disturbed>>
        /\ answered' = answered \cup (IF ppc[t] \in {"answer", "fail"} THEN {cur[t]} ELSE {})
        /\ ppc[t] = "count" /\ in_flight' \in 0 .. CountSpace - 1
    BY <1>1, <1>2, <1>5, GoingOn DEF SendCount
  <2>2. ppc[t] \in SendPCs
    BY <2>1 DEF SendPCs
  <2> QED BY <1>1, <1>3, <2>1, <2>2, QuietKeepsRequests DEF PipeTypes
<1>6. CASE SendUncount(t)
  <2>1. /\ PipeEnter(t, "remove", cur[t]) /\ cur[t] \in 0 .. MaxSends
        /\ UNCHANGED <<nextId, wire, outcome, pending, stream, queue, disturbed>>
        /\ answered' = answered \cup (IF ppc[t] \in {"answer", "fail"} THEN {cur[t]} ELSE {})
        /\ ppc[t] = "uncount" /\ in_flight' \in 0 .. CountSpace - 1
    BY <1>1, <1>2, <1>6, ClientAssumption, GoingOn DEF SendUncount, Dec
  <2>2. ppc[t] \in SendPCs /\ ppc[t] \in Forgotten
    BY <2>1 DEF SendPCs, Forgotten
  <2> QED BY <1>1, <1>3, <2>1, <2>2, QuietKeepsRequests DEF PipeTypes
<1>7. CASE Deliver(t)
  <2>1. /\ UNCHANGED <<nextId, wire, outcome, pending, stream, queue, disturbed>>
        /\ answered' = answered \cup (IF ppc[t] \in {"answer", "fail"} THEN {cur[t]} ELSE {})
        /\ in_flight' \in 0 .. CountSpace - 1
    BY <1>1, <1>2, <1>7, ClientAssumption DEF Deliver, Dec
  <2>2. CASE ppc[t] = "answer"
    <3>1. PipeEnter(t, "close", cur[t]) /\ cur[t] \in 0 .. MaxSends
      BY <1>1, <1>7, <2>2, GoingOn DEF Deliver
    <3> QED BY <1>1, <1>3, <2>1, <2>2, <3>1, QuietKeepsRequests DEF PipeTypes
  <2>3. CASE ppc[t] # "answer"
    <3>1. PipeEnter(t, "idle", 0)
      BY <1>7, <2>3 DEF Deliver, PipeReturn
    <3> QED BY <1>1, <1>2, <1>3, <2>1, <3>1, QuietKeepsRequests DEF PipeTypes
  <2> QED BY <2>2, <2>3
<1>8. CASE CancelStore(t)
  <2>1. /\ PipeEnter(t, "idle", 0)
        /\ UNCHANGED <<nextId, wire, outcome, pending, stream, queue, disturbed>>
        /\ answered' = answered \cup (IF ppc[t] \in {"answer", "fail"} THEN {cur[t]} ELSE {})
        /\ in_flight' = 0
    BY <1>8 DEF CancelStore, PipeReturn
  <2> QED BY <1>1, <1>2, <1>3, <2>1, QuietKeepsRequests DEF PipeTypes
<1>9. CASE SendOpen(t) /\ PipeReturn(t) /\ UNCHANGED <<nextId, stream, queue>>
  <2>1. /\ PipeEnter(t, "idle", 0)
        /\ UNCHANGED <<nextId, wire, outcome, pending, stream, queue, in_flight, disturbed>>
        /\ answered' = answered \cup (IF ppc[t] \in {"answer", "fail"} THEN {cur[t]} ELSE {})
    BY <1>9 DEF SendOpen, PipeReturn
  <2> QED BY <1>1, <1>2, <1>3, <2>1, QuietKeepsRequests DEF PipeTypes
<1>10. CASE SendData(t) /\ GoTo(t, "forget") /\ UNCHANGED <<queue, outcome>>
  <2>1. /\ PipeEnter(t, "forget", cur[t]) /\ cur[t] \in 0 .. MaxSends
        /\ UNCHANGED <<nextId, wire, outcome, pending, stream, queue, in_flight, disturbed>>
        /\ answered' = answered \cup (IF ppc[t] \in {"answer", "fail"} THEN {cur[t]} ELSE {})
        /\ ppc[t] = "send"
    BY <1>1, <1>10, GoingOn DEF SendData
  <2>2. ppc[t] \in SendPCs
    BY <2>1 DEF SendPCs
  <2> QED BY <1>1, <1>3, <2>1, <2>2, QuietKeepsRequests DEF PipeTypes
<1>11. CASE ResponseClose(t) /\ PipeReturn(t) /\ UNCHANGED stream
  <2>1. /\ PipeEnter(t, "idle", 0)
        /\ UNCHANGED <<nextId, wire, outcome, pending, stream, queue, in_flight, disturbed>>
        /\ answered' = answered \cup (IF ppc[t] \in {"answer", "fail"} THEN {cur[t]} ELSE {})
    BY <1>11 DEF ResponseClose, PipeReturn
  <2> QED BY <1>1, <1>2, <1>3, <2>1, QuietKeepsRequests DEF PipeTypes
<1> QED BY <1>4, <1>5, <1>6, <1>7, <1>8, <1>9, <1>10, <1>11

\* The table is entered, and left by the error path, a response or cancel_all.
LEMMA TableStepsKeepRequests ==
    ASSUME RequestInv, NEW t \in ClientTasks,
           \/ SendRegister(t) \/ SendForget(t) \/ CancelDrain(t)
           \/ \E r \in Requests : ProcessResponse(t, r) \/ ProcessError(t, r)
    PROVE  RequestInv'
<1>1. PipeTypes /\ SendsOwn /\ ReadersOwn /\ disturbed \in BOOLEAN
  BY DEF RequestInv, PipeTypes
<1>2. UNCHANGED <<nextId, wire, outcome, stream, queue, in_flight>>
  BY DEF SendRegister, SendForget, CancelDrain, ProcessResponse, ProcessError, TakePending
<1>3. /\ queue' \in Seq(Requests \X Kinds) /\ Queued' = Queued /\ in_flight' \in 0 .. CountSpace - 1
      /\ stream' \in [Requests -> {"none", "open", "local", "reset"}]
  BY <1>1, <1>2, QueueChanges DEF PipeTypes
<1>4. CASE SendRegister(t)
  <2>1. /\ PipeEnter(t, "count", cur[t]) /\ cur[t] \in 0 .. MaxSends
        /\ ppc[t] = "register" /\ pending' = pending \cup {cur[t]} /\ UNCHANGED <<answered, disturbed>>
    BY <1>1, <1>4, GoingOn DEF SendRegister
  <2>2. /\ ppc'[t] = "count" /\ cur'[t] = cur[t]
        /\ \A u \in ClientTasks : u # t => ppc'[u] = ppc[u] /\ cur'[u] = cur[u]
    BY <1>1, <2>1, OneTaskMoves DEF PipePCs
  <2>3. ASSUME NEW q, Kept(q) PROVE Kept(q)'
    BY <2>1, <2>2, <2>3 DEF Kept
  <2>5. PICK r \in 0 .. MaxSends : r = cur[t] /\ PipeEnter(t, "count", r) /\ Kept(r)'
    <3>1. PICK r : r = cur[t]
      OBVIOUS
    <3>2. Kept(r)'
      BY <2>1, <2>2, <3>1 DEF Kept
    <3> QED BY <2>1, <3>1, <3>2
  <2>6. "count" \in PipePCs /\ ppc[t] \in SendPCs /\ "count" \notin ReaderPCs /\ "count" \notin Forgotten
          /\ "count" \notin {"answer", "close", "fin"}
    BY <2>1 DEF PipePCs, SendPCs, ReaderPCs, Forgotten
  <2>7. answered' \subseteq Requests
    BY <1>1, <2>1 DEF PipeTypes
  <2> QED BY <1>1, <1>2, <1>3, <2>1, <2>3, <2>5, <2>6, <2>7, TaskKeepsRequests
<1>5. CASE SendForget(t)
  <2>1. /\ PipeEnter(t, "uncount", cur[t]) /\ cur[t] \in 0 .. MaxSends
        /\ ppc[t] = "forget" /\ pending' = pending \ {cur[t]} /\ answered' = answered
        /\ disturbed' \in BOOLEAN
    BY <1>1, <1>5, GoingOn DEF SendForget
  <2>2. /\ ppc'[t] = "uncount" /\ cur'[t] = cur[t]
        /\ \A u \in ClientTasks : u # t => ppc'[u] = ppc[u] /\ cur'[u] = cur[u]
    BY <1>1, <2>1, OneTaskMoves DEF PipePCs
  <2>3. "uncount" \in PipePCs /\ ppc[t] \in SendPCs /\ "uncount" \notin ReaderPCs
          /\ "uncount" \notin {"answer", "close", "fin"} /\ "uncount" \notin {"count", "send"}
          /\ "uncount" # "register" /\ "uncount" # "retain"
    BY <2>1 DEF PipePCs, SendPCs, ReaderPCs, Forgotten
  <2>4. ASSUME NEW q, Kept(q) PROVE Kept(q)' \/ q = cur[t]
    BY <2>1, <2>2, <2>4 DEF Kept
  <2>5. answered' \subseteq Requests
    BY <1>1, <2>1 DEF PipeTypes
  <2> QED BY <1>1, <1>2, <1>3, <2>1, <2>3, <2>4, <2>5, TaskKeepsRequests
<1>6. CASE CancelDrain(t)
  <2>1. /\ PipeEnter(t, "store", cur[t]) /\ cur[t] \in 0 .. MaxSends
        /\ ppc[t] = "idle" /\ pending' = {} /\ answered' = answered \cup pending
        /\ disturbed' \in BOOLEAN
    BY <1>1, <1>6, GoingOn DEF CancelDrain
  <2>2. /\ ppc'[t] = "store" /\ cur'[t] = cur[t]
        /\ \A u \in ClientTasks : u # t => ppc'[u] = ppc[u] /\ cur'[u] = cur[u]
    BY <1>1, <2>1, OneTaskMoves DEF PipePCs
  <2>3. "store" \in PipePCs /\ "store" \notin SendPCs /\ "store" \notin ReaderPCs
          /\ "store" \notin Forgotten /\ "store" \notin {"answer", "close", "fin"}
          /\ "store" \notin {"count", "send"} /\ "store" # "retain"
    BY DEF PipePCs, SendPCs, ReaderPCs, Forgotten
  <2>4. ASSUME NEW q, Kept(q) PROVE Kept(q)'
    BY <2>1, <2>2, <2>4 DEF Kept
  <2>5. answered' \subseteq Requests
    BY <1>1, <2>1 DEF PipeTypes
  <2> QED BY <1>1, <1>2, <1>3, <2>1, <2>3, <2>4, <2>5, TaskKeepsRequests
<1>7. ASSUME NEW r \in Requests, ProcessResponse(t, r) \/ ProcessError(t, r) PROVE RequestInv'
  <2>1. PICK l \in {"answer", "fail"} : /\ TakePending(t, r, l)
                                        /\ l = "answer" => Frame(r, "DATA") \in wire
    BY <1>7 DEF ProcessResponse, ProcessError
  <2>2. /\ PipeEnter(t, l, r) /\ r \in 0 .. MaxSends
        /\ ppc[t] = "idle" /\ pending' = pending \ {r} /\ UNCHANGED <<answered, disturbed>>
    BY <2>1, ClientAssumption DEF TakePending, Requests
  <2>3. l \in PipePCs /\ l \notin SendPCs /\ l \notin Forgotten
          /\ l \notin {"count", "send"} /\ l # "retain" /\ (l \in {"answer", "close", "fin"} => l = "answer")
    BY DEF PipePCs, SendPCs, Forgotten
  <2>4. /\ ppc'[t] = l /\ cur'[t] = r
        /\ \A u \in ClientTasks : u # t => ppc'[u] = ppc[u] /\ cur'[u] = cur[u]
    BY <1>1, <2>2, <2>3, OneTaskMoves
  <2>5. ASSUME NEW q, Kept(q) PROVE Kept(q)'
    BY <2>2, <2>4, <2>5 DEF Kept
  <2>6. l = "answer" => outcome[r] = "ok"
    BY <1>1, <2>1 DEF ReadersOwn
  <2>7. answered' \subseteq Requests
    BY <1>1, <2>2 DEF PipeTypes
  <2> QED BY <1>1, <1>2, <1>3, <2>2, <2>3, <2>5, <2>6, <2>7, TaskKeepsRequests
<1> QED BY <1>4, <1>5, <1>6, <1>7

\* The streams close, and the FIN is queued.
LEMMA ClosingKeepsRequests ==
    ASSUME RequestInv, NEW t \in ClientTasks,
           \/ RollbackRemove(t) \/ ResponseFin(t)
           \/ /\ ResponseClose(t) /\ stream[cur[t]] # "none" /\ GoTo(t, "fin")
              /\ stream' = [stream EXCEPT ![cur[t]] = IF @ = "open" THEN "local" ELSE @]
    PROVE  RequestInv'
<1>1. PipeTypes /\ SendsOwn /\ ReadersOwn
  BY DEF RequestInv
<1>2. /\ UNCHANGED <<nextId, wire, outcome, pending, answered, disturbed, in_flight>>
      /\ ppc[t] \notin {"answer", "fail"}
  BY DEF RollbackRemove, ResponseFin, ResponseClose
<1>3. /\ answered' \subseteq Requests /\ disturbed' \in BOOLEAN /\ in_flight' \in 0 .. CountSpace - 1
  BY <1>1, <1>2 DEF PipeTypes
<1>4. ASSUME NEW l \in PipePCs, NEW r \in 0 .. MaxSends, PipeEnter(t, l, r), NEW q, Kept(q)
      PROVE  Kept(q)'
  <2>1. \A u \in ClientTasks : u # t => ppc'[u] = ppc[u] /\ cur'[u] = cur[u]
    BY <1>1, <1>4, OneTaskMoves
  <2> QED BY <1>2, <1>4, <2>1 DEF Kept
<1>5. CASE RollbackRemove(t)
  <2>1. /\ PipeEnter(t, "retain", cur[t]) /\ cur[t] \in 0 .. MaxSends /\ ppc[t] = "remove"
        /\ stream' = [stream EXCEPT ![cur[t]] = "none"] /\ queue' = queue
    BY <1>1, <1>5, GoingOn DEF RollbackRemove
  <2>2. "retain" \in PipePCs /\ ppc[t] \in SendPCs /\ ppc[t] \in Forgotten /\ "retain" \notin ReaderPCs
          /\ "retain" \notin {"answer", "close", "fin"} /\ "retain" \notin {"count", "send"}
          /\ "retain" # "register"
    BY <2>1 DEF PipePCs, SendPCs, ReaderPCs, Forgotten
  <2>3. cur[t] \in Requests /\ cur[t] \notin pending
    BY <1>1, <2>2 DEF SendsOwn
  <2>4. /\ stream' \in [Requests -> {"none", "open", "local", "reset"}] /\ stream'[cur[t]] = "none"
        /\ \A q \in Requests : stream[q] = "none" => stream'[q] = "none"
    BY <1>1, <2>1, <2>3 DEF PipeTypes
  <2>5. queue' \in Seq(Requests \X Kinds) /\ Queued' = Queued
    BY <1>1, <2>1, QueueChanges
  <2>6. \A q : Kept(q) => Kept(q)'
    BY <1>4, <2>1, <2>2
  <2> QED BY <1>2, <1>3, <2>1, <2>2, <2>3, <2>4, <2>5, <2>6, TaskKeepsRequests
<1>6. CASE ResponseFin(t)
  <2>1. /\ PipeEnter(t, "idle", 0) /\ 0 \in 0 .. MaxSends /\ ppc[t] = "fin" /\ stream' = stream
        /\ (queue' = queue \/ queue' = Append(queue, Frame(cur[t], "FIN")))
    BY <1>6, ClientAssumption DEF ResponseFin, PipeReturn
  <2>2. "idle" \in PipePCs /\ "idle" \notin SendPCs /\ "idle" \notin ReaderPCs /\ "idle" \notin Forgotten
          /\ "idle" \notin {"answer", "close", "fin"} /\ "idle" \notin {"count", "send"}
          /\ "idle" # "retain"
    BY DEF PipePCs, SendPCs, ReaderPCs, Forgotten
  <2>3. Frame(cur[t], "FIN") \in Requests \X Kinds
    BY <1>1, <2>1 DEF ReadersOwn, ReaderPCs, Frame, Kinds
  <2>4. queue' \in Seq(Requests \X Kinds) /\ Queued' \subseteq Queued \cup {Frame(cur[t], "FIN")}
    BY <1>1, <2>1, <2>3, QueueChanges
  <2>5. \A q : Kept(q) => Kept(q)'
    BY <1>4, <2>1, <2>2
  <2>6. stream' \in [Requests -> {"none", "open", "local", "reset"}]
    BY <1>1, <2>1 DEF PipeTypes
  <2> QED BY <1>2, <1>3, <2>1, <2>2, <2>4, <2>5, <2>6, TaskKeepsRequests
<1>7. CASE /\ ResponseClose(t) /\ stream[cur[t]] # "none" /\ GoTo(t, "fin")
           /\ stream' = [stream EXCEPT ![cur[t]] = IF @ = "open" THEN "local" ELSE @]
  <2>1. /\ PipeEnter(t, "fin", cur[t]) /\ cur[t] \in 0 .. MaxSends /\ ppc[t] = "close"
        /\ queue' = queue
    BY <1>1, <1>7, GoingOn DEF ResponseClose
  <2>2. "fin" \in PipePCs /\ "fin" \notin SendPCs /\ "fin" \notin Forgotten /\ ppc[t] \in ReaderPCs
          /\ "fin" \notin {"count", "send"} /\ "fin" # "retain"
    BY <2>1 DEF PipePCs, SendPCs, ReaderPCs, Forgotten
  <2>3. cur[t] \in Requests /\ outcome[cur[t]] = "ok"
    BY <1>1, <2>1, <2>2 DEF ReadersOwn
  <2>4. /\ stream' \in [Requests -> {"none", "open", "local", "reset"}]
        /\ \A q \in Requests : stream[q] = "none" => stream'[q] = "none"
    BY <1>1, <1>7, <2>3 DEF PipeTypes
  <2>5. queue' \in Seq(Requests \X Kinds) /\ Queued' = Queued
    BY <1>1, <2>1, QueueChanges
  <2>6. \A q : Kept(q) => Kept(q)'
    BY <1>4, <2>1, <2>2
  <2> QED BY <1>2, <1>3, <2>1, <2>2, <2>3, <2>4, <2>5, <2>6, TaskKeepsRequests
<1> QED BY <1>5, <1>6, <1>7

\* open_stream takes a number nobody has.
LEMMA OpeningKeepsRequests ==
    ASSUME RequestInv, NEW t \in ClientTasks, SendOpen(t), nextId <= MaxSends,
           nextId' = nextId + 1, stream' = [stream EXCEPT ![nextId] = "open"],
           queue' = Append(queue, Frame(nextId, "SYN")), PipeEnter(t, "register", nextId)
    PROVE  RequestInv'
<1>1. /\ PipeTypes /\ SendsOwn /\ ReadersOwn /\ Accounted /\ ppc[t] = "open"
      /\ "register" \in PipePCs /\ nextId \in Requests /\ nextId \in 0 .. MaxSends
      /\ Requests \subseteq Nat
  BY ClientAssumption DEF RequestInv, SendOpen, PipePCs, PipeTypes, Requests
<1>2. /\ ppc' \in [ClientTasks -> PipePCs] /\ cur' \in [ClientTasks -> 0 .. MaxSends]
      /\ ppc'[t] = "register" /\ cur'[t] = nextId
      /\ \A u \in ClientTasks : u # t => ppc'[u] = ppc[u] /\ cur'[u] = cur[u]
  BY <1>1, OneTaskMoves
<1>3. UNCHANGED <<in_flight, pending, wire, outcome, answered, disturbed>>
  BY DEF SendOpen
<1>4. queue' \in Seq(Requests \X Kinds) /\ Queued' = Queued \cup {<<nextId, "SYN">>}
  <2>1. <<nextId, "SYN">> \in Requests \X Kinds
    BY <1>1 DEF Kinds
  <2> QED BY <1>1, <2>1, QueueChanges DEF Frame
<1>5. outcome[nextId] = "none" /\ nextId \notin pending
  BY <1>1 DEF SendsOwn
<1>6. PipeTypes'
  BY <1>1, <1>2, <1>3, <1>4, ClientAssumption DEF PipeTypes, Requests
<1>7. SendsOwn'
  <2>1. \A u \in ClientTasks : u # t /\ ppc[u] \in SendPCs => cur[u] # nextId
    BY <1>1 DEF SendsOwn
  <2>2. \A u \in ClientTasks : ppc'[u] \in SendPCs =>
          cur'[u] \in Requests /\ cur'[u] < nextId' /\ outcome'[cur'[u]] = "none"
    BY <1>1, <1>2, <1>3, <1>5 DEF SendsOwn
  <2>3. \A u, v \in ClientTasks :
          ppc'[u] \in SendPCs /\ ppc'[v] \in SendPCs /\ cur'[u] = cur'[v] => u = v
    BY <1>1, <1>2, <2>1 DEF SendsOwn
  <2>4. \A r \in Requests : r >= nextId' => outcome'[r] = "none" /\ r \notin pending'
    <3>1. \A r \in Requests : r >= nextId' => r >= nextId
      BY <1>1
    <3> QED BY <1>1, <1>3, <3>1 DEF SendsOwn
  <2>5. \A u \in ClientTasks : ppc'[u] \in {"register"} \cup Forgotten => cur'[u] \notin pending'
    BY <1>1, <1>2, <1>3, <1>5 DEF SendsOwn
  <2>6. \A u \in ClientTasks : ppc'[u] = "retain" => stream'[cur'[u]] = "none"
    <3> SUFFICES ASSUME NEW u \in ClientTasks, ppc'[u] = "retain" PROVE stream'[cur'[u]] = "none"
      OBVIOUS
    <3>1. u # t /\ ppc[u] = "retain" /\ cur'[u] = cur[u] /\ ppc[u] \in SendPCs
      BY <1>2 DEF SendPCs
    <3>2. cur[u] # nextId /\ cur[u] \in Requests /\ stream[cur[u]] = "none"
      BY <1>1, <2>1, <3>1 DEF SendsOwn
    <3> QED BY <1>1, <3>1, <3>2 DEF PipeTypes
  <2> QED BY <2>2, <2>3, <2>4, <2>5, <2>6 DEF SendsOwn
<1>8. \A r : Kept(r) => Kept(r)'
  BY <1>1, <1>2, <1>3 DEF Kept
<1>9. ReadersOwn'
  <2>1. \A u \in ClientTasks : ppc'[u] \in ReaderPCs \cup {"count", "send"} =>
          u # t /\ ppc'[u] = ppc[u] /\ cur'[u] = cur[u]
    BY <1>2 DEF ReaderPCs
  <2>2. \A u \in ClientTasks : /\ ppc'[u] \in ReaderPCs => cur'[u] \in Requests
                               /\ ppc'[u] \in {"answer", "close", "fin"} => outcome'[cur'[u]] = "ok"
    BY <1>1, <1>3, <2>1 DEF ReadersOwn, ReaderPCs
  <2>3. \A f \in Queued' : f[2] = "DATA" => outcome'[f[1]] = "ok"
    BY <1>1, <1>3, <1>4 DEF ReadersOwn
  <2>4. ASSUME NEW u \in ClientTasks, ppc'[u] \in {"count", "send"} PROVE Kept(cur[u])'
    <3>1. PICK q : q = cur[u]
      OBVIOUS
    <3>2. Kept(q) /\ cur'[u] = q
      BY <1>1, <2>1, <2>4, <3>1 DEF ReadersOwn
    <3>3. Kept(q)'
      BY <1>8, <3>2
    <3> QED BY <3>2, <3>3
  <2> QED BY <1>1, <1>3, <2>2, <2>3, <2>4 DEF ReadersOwn
<1>10. Accounted'
  <2> SUFFICES ASSUME NEW r \in Requests
               PROVE  /\ outcome'[r] = "ok" => Kept(r)'
                      /\ outcome'[r] = "err" =>
                           r \notin pending' /\ stream'[r] = "none" /\ \A f \in Queued' : f[1] # r
    BY DEF Accounted
  <2>1. outcome'[r] = "ok" => Kept(r)'
    BY <1>1, <1>3, <1>8 DEF Accounted
  <2>2. outcome'[r] = "err" => r # nextId
    BY <1>3, <1>5
  <2>3. outcome'[r] = "err" =>
          r \notin pending' /\ stream'[r] = "none" /\ \A f \in Queued' : f[1] # r
    BY <1>1, <1>3, <1>4, <2>2 DEF Accounted, PipeTypes
  <2> QED BY <2>1, <2>3
<1> QED BY <1>6, <1>7, <1>9, <1>10 DEF RequestInv

\* A send returns, with the request on its way or rolled back.
LEMMA ReturningKeepsRequests ==
    ASSUME RequestInv, NEW t \in ClientTasks, NEW o \in {"ok", "err"},
           PipeReturn(t), outcome' = [outcome EXCEPT ![cur[t]] = o],
           UNCHANGED <<in_flight, pending, nextId, stream, wire, answered, disturbed>>,
           queue' \in Seq(Requests \X Kinds),
           \/ /\ o = "ok" /\ ppc[t] = "send" /\ Queued' = Queued \cup {<<cur[t], "DATA">>}
           \/ /\ o = "err" /\ ppc[t] = "retain" /\ Queued' \subseteq Queued \ ({cur[t]} \X Kinds)
    PROVE  RequestInv'
<1>1. /\ PipeTypes /\ SendsOwn /\ ReadersOwn /\ Accounted /\ 0 \in 0 .. MaxSends
      /\ "idle" \in PipePCs /\ ppc[t] \in SendPCs
  BY ClientAssumption DEF RequestInv, PipePCs, SendPCs
<1>2. /\ ppc' \in [ClientTasks -> PipePCs] /\ cur' \in [ClientTasks -> 0 .. MaxSends]
      /\ ppc'[t] = "idle" /\ cur'[t] = 0
      /\ \A u \in ClientTasks : u # t => ppc'[u] = ppc[u] /\ cur'[u] = cur[u]
  BY <1>1, OneTaskMoves DEF PipeReturn
<1>3. PICK r \in Requests : r = cur[t] /\ r < nextId /\ outcome[r] = "none"
  BY <1>1 DEF SendsOwn
<1>4. outcome'[r] = o /\ \A q \in Requests : q # r => outcome'[q] = outcome[q]
  BY <1>1, <1>3 DEF PipeTypes
<1>5. \A u \in ClientTasks : ppc'[u] # "idle" => u # t /\ ppc'[u] = ppc[u] /\ cur'[u] = cur[u]
  BY <1>2
<1>6. \A u \in ClientTasks : ppc'[u] \in SendPCs => ppc[u] \in SendPCs /\ cur'[u] = cur[u] /\ cur[u] # r
  BY <1>1, <1>3, <1>5 DEF SendsOwn, SendPCs
<1>7. PipeTypes'
  BY <1>1, <1>2, <1>3 DEF PipeTypes
<1>8. SendsOwn'
  <2>1. \A u \in ClientTasks : ppc'[u] \in SendPCs =>
          cur'[u] \in Requests /\ cur'[u] < nextId' /\ outcome'[cur'[u]] = "none"
    BY <1>1, <1>4, <1>6 DEF SendsOwn
  <2>2. \A u, v \in ClientTasks :
          ppc'[u] \in SendPCs /\ ppc'[v] \in SendPCs /\ cur'[u] = cur'[v] => u = v
    BY <1>1, <1>6 DEF SendsOwn
  <2>3. \A q \in Requests : q >= nextId' => outcome'[q] = "none" /\ q \notin pending'
    <3> SUFFICES ASSUME NEW q \in Requests, q >= nextId PROVE outcome'[q] = "none" /\ q \notin pending
      OBVIOUS
    <3>1. q # r
      BY <1>1, <1>3 DEF PipeTypes, Requests
    <3> QED BY <1>1, <1>4, <3>1 DEF SendsOwn
  <2>4. \A u \in ClientTasks : /\ ppc'[u] \in {"register"} \cup Forgotten => cur'[u] \notin pending'
                               /\ ppc'[u] = "retain" => stream'[cur'[u]] = "none"
    BY <1>1, <1>5 DEF SendsOwn, Forgotten
  <2> QED BY <2>1, <2>2, <2>3, <2>4 DEF SendsOwn
<1>9. \A q : Kept(q) => Kept(q)'
  BY <1>1, <1>2 DEF Kept, SendPCs
<1>10. ReadersOwn'
  <2>1. \A u \in ClientTasks : ppc'[u] \in ReaderPCs => ppc[u] \in ReaderPCs /\ cur'[u] = cur[u]
    BY <1>5 DEF ReaderPCs
  <2>2. \A q \in Requests : outcome[q] = "ok" => outcome'[q] = "ok"
    BY <1>3, <1>4
  <2>3. \A u \in ClientTasks : /\ ppc'[u] \in ReaderPCs => cur'[u] \in Requests
                               /\ ppc'[u] \in {"answer", "close", "fin"} => outcome'[cur'[u]] = "ok"
    BY <1>1, <1>5, <2>1, <2>2 DEF ReadersOwn, ReaderPCs
  <2>4. \A f \in Queued' : f[2] = "DATA" => outcome'[f[1]] = "ok"
    <3> SUFFICES ASSUME NEW f \in Queued', f[2] = "DATA" PROVE outcome'[f[1]] = "ok"
      OBVIOUS
    <3>1. CASE f \in Queued
      <4>1. f[1] \in Requests
        BY <1>1, <3>1, QueueChanges
      <4> QED BY <1>1, <2>2, <3>1, <4>1 DEF ReadersOwn
    <3>2. CASE f \notin Queued
      BY <1>3, <1>4, <3>2
    <3> QED BY <3>1, <3>2
  <2>5. \A q \in Requests : Frame(q, "DATA") \in wire' => outcome'[q] = "ok"
    BY <1>1, <2>2 DEF ReadersOwn
  <2>6. ASSUME NEW u \in ClientTasks, ppc'[u] \in {"count", "send"} PROVE Kept(cur[u])'
    <3>1. PICK q : q = cur[u]
      OBVIOUS
    <3>2. Kept(q) /\ cur'[u] = q
      BY <1>1, <1>5, <2>6, <3>1 DEF ReadersOwn
    <3>3. Kept(q)'
      BY <1>9, <3>2
    <3> QED BY <3>2, <3>3
  <2> QED BY <2>3, <2>4, <2>5, <2>6 DEF ReadersOwn
<1>11. Accounted'
  <2> SUFFICES ASSUME NEW q \in Requests
               PROVE  /\ outcome'[q] = "ok" => Kept(q)'
                      /\ outcome'[q] = "err" =>
                           q \notin pending' /\ stream'[q] = "none" /\ \A f \in Queued' : f[1] # q
    BY DEF Accounted
  <2>1. CASE q # r
    BY <1>1, <1>3, <1>4, <1>9, <2>1 DEF Accounted
  <2>2. CASE q = r /\ o = "ok"
    <3>1. Kept(r)
      BY <1>1, <1>3, <2>2 DEF ReadersOwn
    <3> QED BY <1>4, <1>9, <2>2, <3>1
  <2>3. CASE q = r /\ o = "err"
    <3>1. r \notin pending /\ stream[r] = "none"
      BY <1>1, <1>3, <2>3 DEF SendsOwn, Forgotten
    <3>2. \A f \in Queued' : f[1] # r
      BY <1>1, <1>3, <2>3, QueueChanges
    <3> QED BY <1>4, <2>3, <3>1, <3>2
  <2> QED BY <2>1, <2>2, <2>3
<1> QED BY <1>7, <1>8, <1>10, <1>11 DEF RequestInv

\* The connection's tasks, and a step that changes nothing.
LEMMA ConnectionKeepsRequests ==
    ASSUME RequestInv, TakeFrame \/ (\E r \in Requests : PeerReset(r)) \/ UNCHANGED pipeVars
    PROVE  RequestInv'
<1>1. PipeTypes /\ SendsOwn /\ ReadersOwn /\ Accounted
  BY DEF RequestInv
<1>2. UNCHANGED <<in_flight, pending, nextId, outcome, answered, disturbed, ppc, cur>>
  BY DEF TakeFrame, PeerReset, pipeVars
<1>3. /\ stream' \in [Requests -> {"none", "open", "local", "reset"}]
      /\ \A q \in Requests : stream[q] = "none" => stream'[q] = "none"
  BY <1>1 DEF PipeTypes, TakeFrame, PeerReset, pipeVars
<1>4. /\ queue' \in Seq(Requests \X Kinds) /\ Queued' \subseteq Queued
      /\ wire' \subseteq wire \cup Queued
  <2>1. CASE TakeFrame
    BY <1>1, <2>1, QueueChanges DEF TakeFrame
  <2>2. CASE (\E r \in Requests : PeerReset(r)) \/ UNCHANGED pipeVars
    BY <1>1, <2>2, QueueChanges DEF PeerReset, pipeVars
  <2> QED BY <2>1, <2>2
<1>5. wire' \subseteq Requests \X Kinds
  BY <1>1, <1>4, QueueChanges DEF PipeTypes
<1>6. PipeTypes'
  BY <1>1, <1>2, <1>3, <1>4, <1>5 DEF PipeTypes
<1>7. \A q : Kept(q)' <=> Kept(q)
  BY <1>2 DEF Kept
<1>8. SendsOwn'
  BY <1>1, <1>2, <1>3 DEF SendsOwn, SendPCs
<1>9. ReadersOwn'
  <2>1. \A q \in Requests : Frame(q, "DATA") \in wire' => outcome'[q] = "ok"
    BY <1>1, <1>2, <1>4 DEF ReadersOwn, Frame
  <2>2. ASSUME NEW u \in ClientTasks, ppc[u] \in {"count", "send"} PROVE Kept(cur[u])'
    BY <1>1, <1>2, <1>7, <2>2 DEF ReadersOwn
  <2> QED BY <1>1, <1>2, <1>4, <2>1, <2>2 DEF ReadersOwn
<1>10. Accounted'
  BY <1>1, <1>2, <1>3, <1>4, <1>7 DEF Accounted
<1> QED BY <1>6, <1>8, <1>9, <1>10 DEF RequestInv

\* Everything the connection and its client do.
LEMMA RequestStep == RequestInv /\ [PipeNext]_pipeVars => RequestInv'
<1> SUFFICES ASSUME RequestInv, [PipeNext]_pipeVars PROVE RequestInv'
  OBVIOUS
<1>1. CASE TakeFrame \/ (\E r \in Requests : PeerReset(r)) \/ UNCHANGED pipeVars
  BY <1>1, ConnectionKeepsRequests
<1>2. ASSUME NEW t \in ClientTasks,
             SendStep(t) \/ ReaderStep(t) \/ CancelDrain(t) \/ CancelStore(t)
      PROVE  RequestInv'
  <2>1. CASE SendOpen(t)
    <3>1. CASE PipeReturn(t) /\ UNCHANGED <<nextId, stream, queue>>
      BY <2>1, <3>1, QuietStepsKeepRequests
    <3>2. CASE ~(PipeReturn(t) /\ UNCHANGED <<nextId, stream, queue>>)
      BY <2>1, <3>2, OpeningKeepsRequests DEF SendOpen
    <3> QED BY <3>1, <3>2
  <2>2. CASE SendData(t)
    <3>1. CASE GoTo(t, "forget") /\ UNCHANGED <<queue, outcome>>
      BY <2>2, <3>1, QuietStepsKeepRequests
    <3>2. CASE ~(GoTo(t, "forget") /\ UNCHANGED <<queue, outcome>>)
      <4>1. /\ PipeReturn(t) /\ outcome' = [outcome EXCEPT ![cur[t]] = "ok"] /\ ppc[t] = "send"
            /\ queue' = Append(queue, <<cur[t], "DATA">>)
            /\ UNCHANGED <<in_flight, pending, nextId, stream, wire, answered, disturbed>>
        BY <2>2, <3>2 DEF SendData, Frame
      <4>2. <<cur[t], "DATA">> \in Requests \X Kinds /\ PipeTypes
        BY <4>1 DEF RequestInv, SendsOwn, SendPCs, Kinds
      <4>3. queue' \in Seq(Requests \X Kinds) /\ Queued' = Queued \cup {<<cur[t], "DATA">>}
        BY <4>1, <4>2, QueueChanges
      <4> QED BY <4>1, <4>3, ReturningKeepsRequests
    <3> QED BY <3>1, <3>2
  <2>3. CASE RollbackRetain(t)
    <3>1. /\ PipeReturn(t) /\ outcome' = [outcome EXCEPT ![cur[t]] = "err"] /\ ppc[t] = "retain"
          /\ queue' = Without(queue, {cur[t]} \X Kinds)
          /\ UNCHANGED <<in_flight, pending, nextId, stream, wire, answered, disturbed>>
      BY <2>3 DEF RollbackRetain
    <3>2. queue' \in Seq(Requests \X Kinds) /\ Queued' \subseteq Queued \ ({cur[t]} \X Kinds)
      BY <3>1, QueueChanges DEF RequestInv
    <3> QED BY <3>1, <3>2, ReturningKeepsRequests
  <2>4. CASE ResponseClose(t)
    <3>1. CASE stream[cur[t]] = "none"
      BY <2>4, <3>1, QuietStepsKeepRequests DEF ResponseClose
    <3>2. CASE stream[cur[t]] # "none"
      BY <2>4, <3>2, ClosingKeepsRequests DEF ResponseClose
    <3> QED BY <3>1, <3>2
  <2>5. CASE SendCheck(t) \/ SendCount(t) \/ SendUncount(t) \/ Deliver(t) \/ CancelStore(t)
    BY <2>5, QuietStepsKeepRequests
  <2>6. CASE \/ SendRegister(t) \/ SendForget(t) \/ CancelDrain(t)
             \/ \E r \in Requests : ProcessResponse(t, r) \/ ProcessError(t, r)
    BY <2>6, TableStepsKeepRequests
  <2>7. CASE RollbackRemove(t) \/ ResponseFin(t)
    BY <2>7, ClosingKeepsRequests
  <2> QED BY <1>2, <2>1, <2>2, <2>3, <2>4, <2>5, <2>6, <2>7 DEF SendStep, ReaderStep
<1> QED BY <1>1, <1>2 DEF PipeNext

\* Nothing has been sent in the beginning.
LEMMA RequestStart == PipeInit => RequestInv
<1> SUFFICES ASSUME PipeInit PROVE RequestInv
  OBVIOUS
<1>1. /\ queue = <<>> /\ wire = {} /\ pending = {} /\ outcome = [r \in Requests |-> "none"]
      /\ ppc = [t \in ClientTasks |-> "idle"]
  BY DEF PipeInit
<1>2. queue \in Seq(Requests \X Kinds) /\ Queued = {}
  BY <1>1 DEF Queued
<1>3. "idle" \in PipePCs /\ "idle" \notin SendPCs /\ "idle" \notin ReaderPCs /\ "idle" \notin Forgotten
  BY DEF PipePCs, SendPCs, ReaderPCs, Forgotten
<1>4. PipeTypes
  <2>1. 0 \in 0 .. CountSpace - 1 /\ 1 \in 1 .. MaxSends + 1 /\ 0 \in 0 .. MaxSends
    BY ClientAssumption
  <2>2. /\ in_flight \in 0 .. CountSpace - 1 /\ nextId \in 1 .. MaxSends + 1
        /\ cur \in [ClientTasks -> 0 .. MaxSends]
    BY <2>1 DEF PipeInit
  <2>3. /\ disturbed \in BOOLEAN /\ answered = {}
        /\ stream \in [Requests -> {"none", "open", "local", "reset"}]
        /\ outcome \in [Requests -> {"none", "ok", "err"}]
        /\ ppc \in [ClientTasks -> PipePCs]
    BY <1>3 DEF PipeInit
  <2> QED BY <1>1, <1>2, <2>2, <2>3 DEF PipeTypes
<1>5. SendsOwn /\ ReadersOwn
  BY <1>1, <1>2, <1>3 DEF SendsOwn, ReadersOwn
<1>6. Accounted
  BY <1>1 DEF Accounted
<1> QED BY <1>4, <1>5, <1>6 DEF RequestInv

\* A request whose send returned a receiver is never forgotten, and nothing is
\* left or comes back of a request whose send failed (PipelinedClient::send,
\* process_response, process_error and cancel_all on any number of tasks).
THEOREM RequestsNeverLost == PipeSpec => []RequestsAccounted
<1>1. RequestInv => RequestsAccounted
  <2> SUFFICES ASSUME RequestInv, NEW r \in Requests
               PROVE  /\ outcome[r] = "ok" =>
                           \/ r \in pending \/ r \in answered
                           \/ \E t \in AtPC({"answer", "fail"}) : cur[t] = r
                      /\ outcome[r] = "err" =>
                           /\ r \notin pending
                           /\ stream[r] = "none"
                           /\ \A n \in 1 .. Len(queue) : queue[n][1] # r
    BY DEF RequestsAccounted
  <2>1. outcome[r] = "ok" => Kept(r)
    BY DEF RequestInv, Accounted
  <2>2. outcome[r] = "err" => r \notin pending /\ stream[r] = "none" /\ \A f \in Queued : f[1] # r
    BY DEF RequestInv, Accounted
  <2> QED BY <2>1, <2>2 DEF Kept, Queued, AtPC
<1> QED BY <1>1, RequestStart, RequestStep, PTL DEF PipeSpec

FlightInv == CancelHolds /\ InFlightExact

\* A task that goes from one place to another is counted where it arrives.
LEMMA TasksAt ==
    ASSUME PipeTypes, NEW S
    PROVE  IsFiniteSet(AtPC(S)) /\ Cardinality(AtPC(S)) \in Nat
<1>1. AtPC(S) \in SUBSET ClientTasks
  BY DEF AtPC
<1> QED BY <1>1, ClientAssumption, FS_Subset, FS_CardinalityType

\* A task that moves is counted where it is and no longer where it was.
LEMMA TasksCounted ==
    ASSUME PipeTypes, NEW S, NEW t \in ClientTasks, NEW l \in PipePCs,
           NEW r \in 0 .. MaxSends, PipeEnter(t, l, r)
    PROVE  Cardinality(AtPC(S)') = Cardinality(AtPC(S)) + (IF l \in S THEN 1 ELSE 0)
                                                        - (IF ppc[t] \in S THEN 1 ELSE 0)
<1>1. /\ ppc'[t] = l /\ \A u \in ClientTasks : u # t => ppc'[u] = ppc[u]
  BY OneTaskMoves
<1>2. IsFiniteSet(AtPC(S)) /\ Cardinality(AtPC(S)) \in Nat
  BY TasksAt
<1>3. AtPC(S)' = IF l \in S THEN AtPC(S) \cup {t} ELSE AtPC(S) \ {t}
  BY <1>1 DEF AtPC
<1>4. t \in AtPC(S) <=> ppc[t] \in S
  BY DEF AtPC
<1>5. /\ Cardinality(AtPC(S) \cup {t}) = IF t \in AtPC(S) THEN Cardinality(AtPC(S)) ELSE Cardinality(AtPC(S)) + 1
      /\ Cardinality(AtPC(S) \ {t}) = IF t \in AtPC(S) THEN Cardinality(AtPC(S)) - 1 ELSE Cardinality(AtPC(S))
  BY <1>2, FS_AddElement, FS_RemoveElement
<1>6. CASE l \in S
  <2>1. Cardinality(AtPC(S)') = IF ppc[t] \in S THEN Cardinality(AtPC(S)) ELSE Cardinality(AtPC(S)) + 1
    BY <1>3, <1>4, <1>5, <1>6
  <2> QED BY <1>2, <1>6, <2>1
<1>7. CASE l \notin S
  <2>1. Cardinality(AtPC(S)') = IF ppc[t] \in S THEN Cardinality(AtPC(S)) - 1 ELSE Cardinality(AtPC(S))
    BY <1>3, <1>4, <1>5, <1>7
  <2> QED BY <1>2, <1>7, <2>1
<1> QED BY <1>6, <1>7

\* The table changes by one request at a time.
LEMMA PendingCounted ==
    ASSUME PipeTypes
    PROVE  /\ IsFiniteSet(pending) /\ Cardinality(pending) \in Nat
           /\ \A r : /\ Cardinality(pending \cup {r})
                          = Cardinality(pending) + (IF r \in pending THEN 0 ELSE 1)
                     /\ Cardinality(pending \ {r})
                          = Cardinality(pending) - (IF r \in pending THEN 1 ELSE 0)
<1>1. IsFiniteSet(Requests)
  BY ClientAssumption, FS_Interval DEF Requests
<1>2. IsFiniteSet(pending) /\ Cardinality(pending) \in Nat
  BY <1>1, FS_Subset, FS_CardinalityType DEF PipeTypes
<1>3. ASSUME NEW r
      PROVE  /\ Cardinality(pending \cup {r})
                  = Cardinality(pending) + (IF r \in pending THEN 0 ELSE 1)
             /\ Cardinality(pending \ {r})
                  = Cardinality(pending) - (IF r \in pending THEN 1 ELSE 0)
  <2>1. /\ Cardinality(pending \cup {r}) = IF r \in pending THEN Cardinality(pending) ELSE Cardinality(pending) + 1
        /\ Cardinality(pending \ {r}) = IF r \in pending THEN Cardinality(pending) - 1 ELSE Cardinality(pending)
    BY <1>2, FS_AddElement, FS_RemoveElement
  <2> QED BY <1>2, <2>1
<1> QED BY <1>2, <1>3

\* Both sides of the balance grow by the same amount.
LEMMA BalanceKept ==
    ASSUME NEW n \in Nat, n > 0, NEW a \in Int, NEW b \in Int, NEW s \in Int,
           NEW c \in Int, NEW e \in Int, a + c = b + e, b % n = s % n
    PROVE  ((a % n) + c) % n = (s + e) % n
<1>1. ((a % n) + c) % n = (a + c) % n
  BY RemainderSum
<1>2. (b + e) % n = (s + e) % n
  BY RemainderAdd
<1> QED BY <1>1, <1>2

\* in_flight moves by d, the table by p, and a task from k to l pays for it.
CounterMoves(d) == in_flight' = (in_flight + d) % CountSpace
TableGrows(p)   == Cardinality(pending') = Cardinality(pending) + p
Pays(k, l, d, p) ==
    d + (IF l = "count" THEN 1 ELSE 0) - (IF k = "count" THEN 1 ELSE 0)
      = p + (IF l \in Uncounted THEN 1 ELSE 0) - (IF k \in Uncounted THEN 1 ELSE 0)

\* A step of a task outside cancel_all.
LEMMA FlightMoves ==
    ASSUME PipeTypes, FlightInv, NEW t \in ClientTasks, NEW l \in PipePCs, NEW r \in 0 .. MaxSends,
           PipeEnter(t, l, r), ppc[t] # "store", l # "store", canceller' = canceller,
           NEW d \in Int, CounterMoves(d), NEW p \in Int, TableGrows(p),
           disturbed' \in BOOLEAN, disturbed => disturbed',
           NEW k, k = ppc[t], PendingFree /\ ~disturbed' => Pays(k, l, d, p),
           ~PendingFree => pending' = pending /\ l # "count" /\ (l \in Uncounted => ppc[t] \in Uncounted)
    PROVE  FlightInv'
<1>1. CancelHolds /\ InFlightExact
  BY DEF FlightInv
<1>2. ppc'[t] = l /\ \A u \in ClientTasks : u # t => ppc'[u] = ppc[u]
  BY OneTaskMoves
<1>3. CancelHolds'
  <2>1. \A u \in ClientTasks : ppc'[u] = "store" <=> canceller' = u
    BY <1>1, <1>2 DEF CancelHolds
  <2>2. ASSUME ~disturbed', ~PendingFree'
        PROVE  pending' = {} /\ AtPC({"count"})' = {} /\ AtPC(Uncounted)' = {}
    <3>1. ~disturbed /\ ~PendingFree
      BY <2>2 DEF PendingFree
    <3>2. pending = {} /\ AtPC({"count"}) = {} /\ AtPC(Uncounted) = {}
      BY <1>1, <3>1 DEF CancelHolds
    <3>3. \A u \in ClientTasks : ppc[u] # "count" /\ ppc[u] \notin Uncounted
      BY <3>2 DEF AtPC
    <3>4. \A u \in ClientTasks : ppc'[u] # "count" /\ ppc'[u] \notin Uncounted
      BY <1>2, <3>1, <3>3
    <3> QED BY <3>1, <3>2, <3>4 DEF AtPC
  <2>3. canceller' \in ClientTasks \cup {NoTask}
    BY <1>1 DEF CancelHolds
  <2> QED BY <2>1, <2>2, <2>3 DEF CancelHolds
<1>4. ASSUME ~disturbed', PendingFree'
      PROVE  (in_flight' + Cardinality(AtPC({"count"})')) % CountSpace
               = (Cardinality(pending') + Cardinality(AtPC(Uncounted)')) % CountSpace
  <2>1. ~disturbed /\ PendingFree
    BY <1>4 DEF PendingFree
  <2>2. PICK c : c = Cardinality(AtPC({"count"}))
    OBVIOUS
  <2>3. PICK u : u = Cardinality(AtPC(Uncounted))
    OBVIOUS
  <2>4. c \in Nat /\ u \in Nat /\ Cardinality(pending) \in Nat /\ in_flight \in Int
    BY <2>2, <2>3, TasksAt, PendingCounted, ClientAssumption DEF PipeTypes
  <2>14. PICK cin \in Int, cout \in Int :
          cin = (IF l = "count" THEN 1 ELSE 0) /\ cout = (IF ppc[t] = "count" THEN 1 ELSE 0)
    OBVIOUS
  <2>15. PICK uin \in Int, uout \in Int :
          uin = (IF l \in Uncounted THEN 1 ELSE 0) /\ uout = (IF ppc[t] \in Uncounted THEN 1 ELSE 0)
    OBVIOUS
  <2>5. PICK c2 \in Int : c2 = c + cin - cout
    BY <2>4
  <2>6. PICK u2 \in Int : u2 = u + uin - uout
    BY <2>4
  <2>7. Cardinality(AtPC({"count"})') = c2
    <3>1. Cardinality(AtPC({"count"})') = Cardinality(AtPC({"count"})) + (IF l \in {"count"} THEN 1 ELSE 0)
             - (IF ppc[t] \in {"count"} THEN 1 ELSE 0)
      BY TasksCounted
    <3> QED BY <2>14, <2>2, <2>5, <3>1
  <2>8. Cardinality(AtPC(Uncounted)') = u2
    BY <2>15, <2>3, <2>6, TasksCounted
  <2>9. (in_flight + c) % CountSpace = (Cardinality(pending) + u) % CountSpace
    BY <1>1, <2>1, <2>2, <2>3 DEF InFlightExact, Uncounted
  <2>10. PICK s \in Int, s2 \in Int : s = Cardinality(pending) + u /\ s2 = Cardinality(pending') + u2
    BY <2>4 DEF TableGrows
  <2>11. CountSpace \in Nat /\ CountSpace > 0
    BY ClientAssumption
  <2>12. d + c2 - c = s2 - s
    <3>1. d + cin - cout = p + uin - uout
      BY <1>4, <2>14, <2>15, <2>1 DEF Pays
    <3> QED BY <2>4, <2>5, <2>6, <2>10, <3>1 DEF TableGrows
  <2>13. (((in_flight + d) % CountSpace) + c2) % CountSpace = s2 % CountSpace
    <3>1. PICK i \in Int : i = in_flight
      BY <2>4
    <3>2. PICK n \in Nat : n = CountSpace /\ n > 0
      BY <2>11
    <3>3. (i + c) % n = s % n /\ c \in Int
      BY <2>4, <2>9, <2>10, <3>1, <3>2
    <3>4. PICK a \in Int : a = i + d
      OBVIOUS
    <3>5. PICK b \in Int : b = i + c
      BY <3>3
    <3>6. PICK e \in Int : e = s2 - s
      OBVIOUS
    <3>7. a + c2 = b + e /\ s + e = s2 /\ b % n = s % n
      BY <2>12, <3>3, <3>4, <3>5, <3>6
    <3>8. ((a % n) + c2) % n = (s + e) % n
      BY <3>2, <3>7, BalanceKept
    <3> QED BY <3>1, <3>2, <3>4, <3>7, <3>8
  <2> QED BY <2>7, <2>8, <2>10, <2>13 DEF CounterMoves
<1>5. InFlightExact'
  BY <1>4 DEF InFlightExact, Uncounted
<1> QED BY <1>3, <1>5 DEF FlightInv

\* A counter that is left alone moves by nothing, and fetch_sub moves it by one.
LEMMA CounterSteps ==
    ASSUME PipeTypes
    PROVE  /\ in_flight' = in_flight => CounterMoves(0)
           /\ in_flight' = Dec(in_flight) => CounterMoves(-1)
<1>1. PICK n \in Nat : n = CountSpace /\ n > 0
  BY ClientAssumption
<1>2. PICK i \in 0 .. n - 1 : i = in_flight
  BY <1>1 DEF PipeTypes
<1>3. i % n = i /\ i + 0 = i
  <2>1. i \in Int /\ i % n \in 0 .. n - 1
    BY <1>1
  <2>2. PICK q \in Int : i = n * q + (i % n)
    BY <1>1, <2>1, Division
  <2>3. i = n * 0 + i
    BY <2>1
  <2>4. n * q + (i % n) = n * 0 + i
    BY <2>2, <2>3
  <2> QED BY <1>1, <2>1, <2>4, RemainderUnique
<1>4. PICK a \in Int : a = i + (-1)
  OBVIOUS
<1>5. (a + n) % n = a % n
  <2>1. PICK k \in Int : k = 1
    OBVIOUS
  <2>2. (a + n * k) % n = a % n
    BY <1>1, RemainderShift
  <2>3. n * k = n
    BY <2>1
  <2> QED BY <2>2, <2>3
<1>6. i + n - 1 = a + n
  BY <1>4
<1>7. in_flight' = Dec(in_flight) => in_flight' = a % n
  BY <1>1, <1>2, <1>5, <1>6 DEF Dec
<1> QED BY <1>1, <1>2, <1>3, <1>4, <1>7 DEF CounterMoves

\* The steps of a task that leave the counter and the table alone.
LEMMA UncountedSteps ==
    ASSUME PipeTypes, FlightInv, NEW t \in ClientTasks,
           \/ SendCheck(t) \/ SendOpen(t) \/ SendData(t) \/ RollbackRemove(t) \/ RollbackRetain(t)
           \/ ResponseClose(t) \/ ResponseFin(t)
    PROVE  FlightInv'
<1>1. /\ UNCHANGED <<in_flight, pending, canceller, disturbed>>
      /\ ppc[t] \in {"idle", "open", "send", "remove", "retain", "close", "fin"}
  BY DEF SendCheck, SendOpen, SendData, RollbackRemove, RollbackRetain, ResponseClose, ResponseFin
<1>2. \E l \in {"open", "idle", "register", "forget", "retain", "fin"}, r \in 0 .. MaxSends :
        PipeEnter(t, l, r)
  <2>1. 0 \in 0 .. MaxSends /\ \A l : GoTo(t, l) => PipeEnter(t, l, cur[t]) /\ cur[t] \in 0 .. MaxSends
    BY ClientAssumption, GoingOn
  <2>2. CASE SendOpen(t)
    <3>1. nextId <= MaxSends => nextId \in 0 .. MaxSends
      BY ClientAssumption DEF PipeTypes
    <3> QED BY <2>1, <2>2, <3>1 DEF SendOpen, PipeReturn
  <2>3. CASE ~SendOpen(t)
    BY <2>1, <2>3 DEF SendCheck, SendData, RollbackRemove, RollbackRetain, ResponseClose,
                      ResponseFin, PipeReturn
  <2> QED BY <2>2, <2>3
<1>3. PICK l \in {"open", "idle", "register", "forget", "retain", "fin"}, r \in 0 .. MaxSends :
        PipeEnter(t, l, r)
  BY <1>2
<1>4. l \in PipePCs /\ l # "store" /\ l # "count" /\ l \notin Uncounted
  BY <1>3 DEF PipePCs, Uncounted
<1>5. ppc[t] # "store" /\ ppc[t] # "count" /\ ppc[t] \notin Uncounted
  BY <1>1 DEF Uncounted
<1>6. CounterMoves(0)
  BY <1>1, CounterSteps
<1>7. TableGrows(0) /\ Pays(ppc[t], l, 0, 0)
  BY <1>1, <1>4, <1>5, PendingCounted DEF TableGrows, Pays
<1>8. disturbed' \in BOOLEAN /\ (disturbed => disturbed')
  BY <1>1 DEF PipeTypes
<1> QED BY <1>1, <1>3, <1>4, <1>5, <1>6, <1>7, <1>8, FlightMoves

\* The steps that change the counter or the table, one or the other.
LEMMA CountedSteps ==
    ASSUME RequestInv, FlightInv, NEW t \in ClientTasks,
           \/ SendRegister(t) \/ SendCount(t) \/ SendForget(t) \/ SendUncount(t) \/ Deliver(t)
           \/ \E r \in Requests : ProcessResponse(t, r) \/ ProcessError(t, r)
    PROVE  FlightInv'
<1>1. PipeTypes /\ SendsOwn /\ in_flight \in Int /\ CountSpace \in Int /\ CountSpace > 0
  BY ClientAssumption DEF RequestInv, PipeTypes
<1>2. /\ {"count", "send", "uncount", "remove", "close", "idle", "answer", "fail"} \subseteq PipePCs
      /\ Uncounted = {"uncount", "answer", "fail"} /\ 0 \in 0 .. MaxSends
  BY ClientAssumption DEF PipePCs, Uncounted
<1>3. \A l : GoTo(t, l) => PipeEnter(t, l, cur[t]) /\ cur[t] \in 0 .. MaxSends
  BY <1>1, GoingOn
<1>4. /\ in_flight' = in_flight => CounterMoves(0)
      /\ pending' = pending => TableGrows(0)
  BY <1>1, CounterSteps, PendingCounted DEF TableGrows
<1>5. in_flight' = Dec(in_flight) => CounterMoves(-1)
  BY <1>1, CounterSteps
<1>6. disturbed \in BOOLEAN
  BY <1>1 DEF PipeTypes
<1>7. CASE SendRegister(t)
  <2>1. /\ PipeEnter(t, "count", cur[t]) /\ cur[t] \in 0 .. MaxSends /\ ppc[t] = "register"
        /\ PendingFree /\ pending' = pending \cup {cur[t]} /\ UNCHANGED <<in_flight, canceller, disturbed>>
    BY <1>3, <1>7 DEF SendRegister
  <2>2. cur[t] \notin pending
    BY <1>1, <2>1 DEF SendsOwn
  <2>3. TableGrows(1) /\ CounterMoves(0)
    BY <1>1, <1>4, <2>1, <2>2, PendingCounted DEF TableGrows
  <2>4. Pays("register", "count", 0, 1)
    BY <1>2 DEF Pays
  <2> QED BY <1>1, <1>2, <1>6, <2>1, <2>3, <2>4, FlightMoves
<1>8. CASE SendCount(t)
  <2>1. /\ PipeEnter(t, "send", cur[t]) /\ cur[t] \in 0 .. MaxSends /\ ppc[t] = "count"
        /\ UNCHANGED <<pending, canceller, disturbed>> /\ CounterMoves(1)
    BY <1>3, <1>8 DEF SendCount, CounterMoves
  <2>2. TableGrows(0) /\ Pays("count", "send", 1, 0)
    BY <1>2, <1>4, <2>1 DEF Pays
  <2> QED BY <1>1, <1>2, <1>6, <2>1, <2>2, FlightMoves
<1>9. CASE SendForget(t)
  <2>1. /\ PipeEnter(t, "uncount", cur[t]) /\ cur[t] \in 0 .. MaxSends /\ ppc[t] = "forget"
        /\ PendingFree /\ pending' = pending \ {cur[t]} /\ UNCHANGED <<in_flight, canceller>>
        /\ disturbed' = (disturbed \/ cur[t] \notin pending)
    BY <1>3, <1>9 DEF SendForget
  <2>2. disturbed' \in BOOLEAN /\ (disturbed => disturbed') /\ (~disturbed' => cur[t] \in pending)
    BY <1>6, <2>1
  <2>3. PICK p \in Int : p = 0 - (IF cur[t] \in pending THEN 1 ELSE 0)
    OBVIOUS
  <2>4. TableGrows(p) /\ CounterMoves(0)
    BY <1>1, <1>4, <2>1, <2>3, PendingCounted DEF TableGrows
  <2>5. ~disturbed' => Pays("forget", "uncount", 0, p)
    BY <1>2, <2>2, <2>3 DEF Pays
  <2> QED BY <1>1, <1>2, <2>1, <2>2, <2>4, <2>5, FlightMoves
<1>10. CASE SendUncount(t)
  <2>1. /\ PipeEnter(t, "remove", cur[t]) /\ cur[t] \in 0 .. MaxSends /\ ppc[t] = "uncount"
        /\ UNCHANGED <<pending, canceller, disturbed>> /\ CounterMoves(-1)
    BY <1>3, <1>5, <1>10 DEF SendUncount
  <2>2. TableGrows(0) /\ Pays("uncount", "remove", -1, 0)
    BY <1>2, <1>4, <2>1 DEF Pays
  <2> QED BY <1>1, <1>2, <1>6, <2>1, <2>2, FlightMoves
<1>11. CASE Deliver(t)
  <2>1. /\ ppc[t] \in {"answer", "fail"}
        /\ UNCHANGED <<pending, canceller, disturbed>> /\ CounterMoves(-1)
    BY <1>5, <1>11 DEF Deliver
  <2>2. PICK l \in {"close", "idle"}, r \in 0 .. MaxSends : PipeEnter(t, l, r)
    BY <1>2, <1>3, <1>11 DEF Deliver, PipeReturn
  <2>3. TableGrows(0) /\ Pays(ppc[t], l, -1, 0)
    BY <1>2, <1>4, <2>1 DEF Pays
  <2> QED BY <1>1, <1>2, <1>6, <2>1, <2>2, <2>3, FlightMoves
<1>12. ASSUME NEW r \in Requests, ProcessResponse(t, r) \/ ProcessError(t, r)
       PROVE  FlightInv'
  <2>1. PICK l \in {"answer", "fail"} : TakePending(t, r, l)
    BY <1>12 DEF ProcessResponse, ProcessError
  <2>2. /\ PipeEnter(t, l, r) /\ r \in 0 .. MaxSends /\ ppc[t] = "idle" /\ r \in pending
        /\ PendingFree /\ pending' = pending \ {r} /\ UNCHANGED <<in_flight, canceller, disturbed>>
    BY <2>1 DEF TakePending, Requests
  <2>3. TableGrows(-1) /\ CounterMoves(0)
    BY <1>1, <1>4, <2>2, PendingCounted DEF TableGrows
  <2>4. Pays("idle", l, 0, -1)
    BY <1>2 DEF Pays
  <2> QED BY <1>1, <1>2, <1>6, <2>1, <2>2, <2>3, <2>4, FlightMoves
<1> QED BY <1>7, <1>8, <1>9, <1>10, <1>11, <1>12

\* cancel_all empties the table, and the counter when it lets go of it.
LEMMA CancelSteps ==
    ASSUME PipeTypes, FlightInv, NEW t \in ClientTasks, CancelDrain(t) \/ CancelStore(t)
    PROVE  FlightInv'
<1>1. CancelHolds /\ InFlightExact /\ disturbed \in BOOLEAN /\ NoTask \notin ClientTasks
  BY ClientAssumption DEF FlightInv, PipeTypes, NoTask
<1>2. {"store", "idle"} \subseteq PipePCs /\ 0 \in 0 .. MaxSends
  BY ClientAssumption DEF PipePCs
<1>3. CASE CancelDrain(t)
  <2>1. /\ ppc[t] = "idle" /\ canceller = NoTask /\ canceller' = t /\ pending' = {}
        /\ disturbed' = (disturbed \/ AtPC({"count", "uncount", "answer", "fail"}) # {})
        /\ GoTo(t, "store")
    BY <1>3 DEF CancelDrain, PendingFree
  <2>2. ppc'[t] = "store" /\ \A u \in ClientTasks : u # t => ppc'[u] = ppc[u]
    BY <1>2, <2>1, GoingOn, OneTaskMoves
  <2>3. \A u \in ClientTasks : ppc'[u] = "store" <=> canceller' = u
    BY <1>1, <2>1, <2>2 DEF CancelHolds
  <2>4. ~disturbed' => AtPC({"count"})' = {} /\ AtPC(Uncounted)' = {}
    <3>1. ~disturbed' => \A u \in ClientTasks : ppc[u] \notin {"count", "uncount", "answer", "fail"}
      BY <1>1, <2>1 DEF AtPC
    <3> QED BY <2>2, <3>1 DEF AtPC, Uncounted
  <2>5. ~PendingFree'
    BY <1>1, <2>1 DEF PendingFree
  <2> QED BY <2>1, <2>3, <2>4, <2>5 DEF FlightInv, CancelHolds, InFlightExact
<1>4. CASE CancelStore(t)
  <2>1. /\ ppc[t] = "store" /\ canceller' = NoTask /\ in_flight' = 0 /\ UNCHANGED <<pending, disturbed>>
        /\ PipeReturn(t)
    BY <1>4 DEF CancelStore
  <2>2. ppc'[t] = "idle" /\ \A u \in ClientTasks : u # t => ppc'[u] = ppc[u]
    BY <1>2, <2>1, OneTaskMoves DEF PipeReturn
  <2>3. canceller = t /\ ~PendingFree
    BY <1>1, <2>1 DEF CancelHolds, PendingFree
  <2>4. \A u \in ClientTasks : ppc'[u] = "store" <=> canceller' = u
    BY <1>1, <2>1, <2>2, <2>3 DEF CancelHolds
  <2>5. CancelHolds'
    BY <2>1, <2>4 DEF CancelHolds, PendingFree
  <2>6. ASSUME ~disturbed'
        PROVE  (in_flight' + Cardinality(AtPC({"count"})')) % CountSpace
                 = (Cardinality(pending') + Cardinality(AtPC(Uncounted)')) % CountSpace
    <3>1. pending = {} /\ AtPC({"count"}) = {} /\ AtPC(Uncounted) = {}
      BY <1>1, <2>1, <2>3, <2>6 DEF CancelHolds
    <3>2. pending' = {} /\ AtPC({"count"})' = {} /\ AtPC(Uncounted)' = {}
      BY <2>1, <2>2, <3>1 DEF AtPC, Uncounted
    <3> QED BY <2>1, <3>2, FS_EmptySet
  <2> QED BY <2>5, <2>6 DEF FlightInv, InFlightExact, Uncounted
<1> QED BY <1>3, <1>4

\* in_flight and the table agree, up to the tasks between the two, until a
\* request has been taken off the counter twice (PipelinedClient.in_flight and
\* pending, which no common lock protects).
THEOREM InFlightStaysExact == PipeSpec => []InFlightExact
<1>1. PipeInit => FlightInv
  <2> SUFFICES ASSUME PipeInit PROVE FlightInv
    OBVIOUS
  <2>1. /\ canceller = NoTask /\ in_flight = 0 /\ pending = {}
        /\ \A t \in ClientTasks : ppc[t] = "idle"
    BY DEF PipeInit
  <2>2. AtPC({"count"}) = {} /\ AtPC({"uncount", "answer", "fail"}) = {}
    BY <2>1 DEF AtPC
  <2>3. CancelHolds
    BY <2>1, ClientAssumption DEF CancelHolds, PendingFree, NoTask
  <2>4. InFlightExact
    BY <2>1, <2>2, FS_EmptySet DEF InFlightExact
  <2> QED BY <2>3, <2>4 DEF FlightInv
<1>2. RequestInv /\ FlightInv /\ [PipeNext]_pipeVars => FlightInv'
  <2> SUFFICES ASSUME RequestInv, FlightInv, [PipeNext]_pipeVars PROVE FlightInv'
    OBVIOUS
  <2>1. PipeTypes
    BY DEF RequestInv
  <2>2. CASE TakeFrame \/ (\E r \in Requests : PeerReset(r)) \/ UNCHANGED pipeVars
    <3>1. UNCHANGED <<in_flight, pending, canceller, disturbed, ppc>>
      BY <2>2 DEF TakeFrame, PeerReset, pipeVars
    <3> QED BY <3>1 DEF FlightInv, CancelHolds, InFlightExact, PendingFree, AtPC
  <2>3. ASSUME NEW t \in ClientTasks,
               SendStep(t) \/ ReaderStep(t) \/ CancelDrain(t) \/ CancelStore(t)
        PROVE  FlightInv'
    <3>1. CASE CancelDrain(t) \/ CancelStore(t)
      BY <2>1, <3>1, CancelSteps
    <3>2. CASE \/ SendRegister(t) \/ SendCount(t) \/ SendForget(t) \/ SendUncount(t) \/ Deliver(t)
               \/ \E r \in Requests : ProcessResponse(t, r) \/ ProcessError(t, r)
      BY <3>2, CountedSteps
    <3>3. CASE \/ SendCheck(t) \/ SendOpen(t) \/ SendData(t) \/ RollbackRemove(t)
               \/ RollbackRetain(t) \/ ResponseClose(t) \/ ResponseFin(t)
      BY <2>1, <3>3, UncountedSteps
    <3> QED BY <2>3, <3>1, <3>2, <3>3 DEF SendStep, ReaderStep
  <2> QED BY <2>2, <2>3 DEF PipeNext
<1>3. FlightInv => InFlightExact
  BY DEF FlightInv
<1> QED BY <1>1, <1>2, <1>3, RequestStart, RequestStep, PTL DEF PipeSpec
=============================================================================
