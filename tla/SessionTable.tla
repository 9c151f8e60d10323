---------------------------- MODULE SessionTable ----------------------------
(***************************************************************************)
(* The sessions of DcpServer (src/src/server/mod.rs): a table of shared    *)
(* session objects that tasks create, look up, use through their Arc,      *)
(* upgrade from MCP to DCP, remove and expire.                             *)
(*                                                                         *)
(* Each step is one critical section of the table's lock or one access to  *)
(* a session.  An upgrade puts a new object in the place of the old one,   *)
(* so a task may go on using an object that is no longer in the table.     *)
(* Timestamps are u64 seconds; subtraction wraps as in a release build.    *)
(***************************************************************************)
EXTENDS Naturals, FiniteSets

CONSTANTS
    SessionTasks, \* tasks that share the server
    DataKeys,     \* keys of session data
    MaxSessions,  \* config.max_sessions
    Timeout,      \* config.session_timeout_secs
    MaxObjects,   \* bound: session objects ever made
    MaxClock,     \* bound: seconds that pass
    TimeSpace     \* number of u64 values

ASSUME SessionAssumption ==
    /\ MaxSessions \in Nat /\ Timeout \in Nat /\ MaxObjects \in Nat /\ MaxClock \in Nat
    /\ TimeSpace \in Nat /\ TimeSpace > MaxClock + Timeout

VARIABLES
    clock,            \* SystemTime::now() in seconds; does not go back
    session_counter,  \* the next session id
    sessions,         \* id -> the object in the table, 0 when there is none
    obj,              \* every object made: [id, protocol, last, data]
    made,             \* number of objects made
    spc, loc,         \* progress of each task: [ob, id, now]
    durable,          \* history: keys set while their object was in the table
    removed           \* history: ids that have been taken out of the table

tableVars == <<clock, session_counter, sessions, obj, made, spc, loc, durable, removed>>

Objects == 1 .. MaxObjects
Ids     == 1 .. MaxObjects
NoLoc   == [ob |-> 0, id |-> 0, now |-> 0]
PCs     == {"idle", "alloc", "insert", "use", "touch", "upgrade", "sweep"}

Registered == {i \in Ids : sessions[i] # 0}

\* Session::new(id), the clock read by the caller.
NewSession(id) == [id |-> id, protocol |-> "Mcp", last |-> clock, data |-> {}]

Unmade == [id |-> 0, protocol |-> "Mcp", last |-> 0, data |-> {}]

SessionInit ==
    /\ clock = 0
    /\ session_counter = 1
    /\ sessions = [i \in Ids |-> 0]
    /\ obj = [o \in Objects |-> Unmade]
    /\ made = 0
    /\ spc = [t \in SessionTasks |-> "idle"]
    /\ loc = [t \in SessionTasks |-> NoLoc]
    /\ durable = [i \in Ids |-> {}]
    /\ removed = {}

Enter(t, l, x) == spc' = [spc EXCEPT ![t] = l] /\ loc' = [loc EXCEPT ![t] = x]
Return(t)      == Enter(t, "idle", NoLoc)

Tick ==
    /\ clock < MaxClock
    /\ clock' = clock + 1
    /\ UNCHANGED <<session_counter, sessions, obj, made, spc, loc, durable, removed>>

----------------------------------------------------------------------------
(* create_session *)

\* The limit is checked under the read lock, which is then released.  (A
\* refused call changes nothing.)
CreateCheck(t) ==
    /\ spc[t] = "idle"
    /\ made < MaxObjects
    /\ Cardinality(Registered) < MaxSessions
    /\ Enter(t, "alloc", NoLoc)
    /\ UNCHANGED <<clock, session_counter, sessions, obj, made, durable, removed>>

CreateAlloc(t) ==
    /\ spc[t] = "alloc"
    /\ made < MaxObjects
    /\ session_counter' = session_counter + 1
    /\ made' = made + 1
    /\ obj' = [obj EXCEPT ![made + 1] = NewSession(session_counter)]
    /\ Enter(t, "insert", [NoLoc EXCEPT !.ob = made + 1])
    /\ UNCHANGED <<clock, sessions, durable, removed>>

\* The caller gets the Arc that is now in the table.
CreateInsert(t) ==
    /\ spc[t] = "insert"
    /\ sessions' = [sessions EXCEPT ![obj[loc[t].ob].id] = loc[t].ob]
    /\ Enter(t, "use", loc[t])
    /\ UNCHANGED <<clock, session_counter, obj, made, durable, removed>>

----------------------------------------------------------------------------
(* Use of a session: get_session, then methods of Session on the Arc *)

GetSession(t, i) ==
    /\ spc[t] = "idle"
    /\ i \in Registered
    /\ Enter(t, "use", [NoLoc EXCEPT !.ob = sessions[i]])
    /\ UNCHANGED <<clock, session_counter, sessions, obj, made, durable, removed>>

SetData(t, k) ==
    /\ spc[t] = "use"
    /\ LET o == loc[t].ob
           i == obj[o].id
       IN  /\ obj' = [obj EXCEPT ![o].data = @ \cup {k}]
           /\ durable' = IF sessions[i] = o
                         THEN [durable EXCEPT ![i] = @ \cup {k}] ELSE durable
    /\ UNCHANGED <<clock, session_counter, sessions, made, spc, loc, removed>>

\* touch() reads the clock and then stores it.
TouchRead(t) ==
    /\ spc[t] = "use"
    /\ Enter(t, "touch", [loc[t] EXCEPT !.now = clock])
    /\ UNCHANGED <<clock, session_counter, sessions, obj, made, durable, removed>>

TouchStore(t) ==
    /\ spc[t] = "touch"
    /\ obj' = [obj EXCEPT ![loc[t].ob].last = loc[t].now]
    /\ Enter(t, "use", [loc[t] EXCEPT !.now = 0])
    /\ UNCHANGED <<clock, session_counter, sessions, made, durable, removed>>

DropArc(t) ==
    /\ spc[t] = "use"
    /\ Return(t)
    /\ UNCHANGED <<clock, session_counter, sessions, obj, made, durable, removed>>

RemoveSession(t, i) ==
    /\ spc[t] = "idle"
    /\ i \in Registered
    /\ sessions' = [sessions EXCEPT ![i] = 0]
    /\ removed' = removed \cup {i}
    /\ UNCHANGED <<clock, session_counter, obj, made, spc, loc, durable>>

----------------------------------------------------------------------------
(* upgrade_session *)

\* get_session finds the session; its Arc is not used.
UpgradeLookup(t, i) ==
    /\ spc[t] = "idle"
    /\ i \in Registered
    /\ Enter(t, "upgrade", [NoLoc EXCEPT !.id = i])
    /\ UNCHANGED <<clock, session_counter, sessions, obj, made, durable, removed>>

\* Mutant: the data is not copied.
UpgradedBare(o) == [NewSession(obj[o].id) EXCEPT !.protocol = "DcpV1"]

\* A new session that takes over the data; the activity time starts anew.
Upgraded(o) == [NewSession(obj[o].id) EXCEPT !.protocol = "DcpV1", !.data = obj[o].data]

\* Mutant: the table is not looked up again under the write lock.
UpgradeInserts(t) ==
    /\ spc[t] = "upgrade"
    /\ LET i == loc[t].id
       IN  /\ made < MaxObjects
           /\ made' = made + 1
           /\ obj' = [obj EXCEPT ![made + 1] =
                        [NewSession(i) EXCEPT !.protocol = "DcpV1",
                            !.data = IF i \in Registered THEN obj[sessions[i]].data ELSE {}]]
           /\ sessions' = [sessions EXCEPT ![i] = made + 1]
    /\ Return(t)
    /\ UNCHANGED <<clock, session_counter, durable, removed>>

\* Under the write lock the session is looked up again; one that has gone is
\* left alone.
UpgradeSwap(t) ==
    /\ spc[t] = "upgrade"
    /\ LET i == loc[t].id
       IN  \/ /\ i \in Registered
              /\ made < MaxObjects
              /\ made' = made + 1
              /\ obj' = [obj EXCEPT ![made + 1] = Upgraded(sessions[i])]
              /\ sessions' = [sessions EXCEPT ![i] = made + 1]
           \/ /\ i \notin Registered
              /\ UNCHANGED <<made, obj, sessions>>
    /\ Return(t)
    /\ UNCHANGED <<clock, session_counter, durable, removed>>

----------------------------------------------------------------------------
(* cleanup_expired_sessions *)

\* The clock is read before the write lock is taken.
CleanupRead(t) ==
    /\ spc[t] = "idle"
    /\ Enter(t, "sweep", [NoLoc EXCEPT !.now = clock])
    /\ UNCHANGED <<clock, session_counter, sessions, obj, made, durable, removed>>

\* Mutant: off by one.
IsExpiredEarly(last, now) == (now + TimeSpace - last) % TimeSpace >= Timeout

IsExpired(last, now) == (now + TimeSpace - last) % TimeSpace > Timeout

CleanupSweep(t) ==
    /\ spc[t] = "sweep"
    /\ LET expired == {i \in Registered : IsExpired(obj[sessions[i]].last, loc[t].now)}
       IN  /\ sessions' = [i \in Ids |-> IF i \in expired THEN 0 ELSE sessions[i]]
           /\ removed' = removed \cup expired
    /\ Return(t)
    /\ UNCHANGED <<clock, session_counter, obj, made, durable>>

----------------------------------------------------------------------------

SessionStep(t) ==
    \/ CreateCheck(t) \/ CreateAlloc(t) \/ CreateInsert(t)
    \/ \E i \in Ids : GetSession(t, i) \/ RemoveSession(t, i) \/ UpgradeLookup(t, i)
    \/ \E k \in DataKeys : SetData(t, k)
    \/ TouchRead(t) \/ TouchStore(t) \/ DropArc(t)
    \/ UpgradeSwap(t)
    \/ CleanupRead(t) \/ CleanupSweep(t)

SessionNext == Tick \/ \E t \in SessionTasks : SessionStep(t)

SessionSpec == SessionInit /\ [][SessionNext]_tableVars

----------------------------------------------------------------------------
(* Properties *)

Sessions == [id : {0} \cup Ids, protocol : {"Mcp", "DcpV1"}, last : 0 .. MaxClock,
             data : SUBSET DataKeys]

TypeOK ==
    /\ clock \in 0 .. MaxClock
    /\ session_counter \in 1 .. (made + 1)
    /\ sessions \in [Ids -> 0 .. made]
    /\ obj \in [Objects -> Sessions]
    /\ made \in 0 .. MaxObjects
    /\ spc \in [SessionTasks -> PCs]
    /\ loc \in [SessionTasks -> [ob : 0 .. MaxObjects, id : {0} \cup Ids, now : 0 .. MaxClock]]
    /\ durable \in [Ids -> SUBSET DataKeys]
    /\ removed \subseteq Ids

\* An id that has left the table never comes back, and the table holds under
\* an id only an object made for it: neither two creations, nor an upgrade or
\* a creation that races with a removal or a sweep, revive a session.
NoResurrection ==
    \A i \in Registered : i \notin removed /\ obj[sessions[i]].id = i

\* "Session data is preserved during upgrade": what was set through a session
\* in the table is in the table for as long as the session is, through any
\* number of upgrades by any task.
DataPreserved == \A i \in Registered : durable[i] \subseteq obj[sessions[i]].data

\* A sweep removes a session only if it had been idle for longer than the
\* timeout, unless it was touched after the sweep had read the clock: then
\* the subtraction wraps, and the freshest of all sessions is removed.
ActiveSessionKept ==
    [][\A i \in Registered, t \in SessionTasks :
         CleanupSweep(t) /\ sessions'[i] = 0 =>
             \/ clock > obj[sessions[i]].last + Timeout
             \/ obj[sessions[i]].last > loc[t].now]_tableVars
=============================================================================
