------------------------ MODULE ShutdownCoordinator ------------------------
(***************************************************************************)
(* Graceful shutdown (src/src/shutdown/mod.rs, signals.rs): an admission   *)
(* flag, a counter of in-flight requests, a drain loop that polls the      *)
(* counter, a progress logger and a broadcast channel that wakes waiters.  *)
(*                                                                         *)
(* Every atomic load, store or read-modify-write is a step of its own, so  *)
(* every interleaving of the callers under sequential consistency is a     *)
(* behaviour.  Time is abstracted to "the deadline has passed".            *)
(***************************************************************************)
EXTENDS Naturals, FiniteSets

CONSTANTS
    Requests,       \* request handlers that use request_start and its guard
    ManualCallers,  \* users of increment_in_flight / decrement_in_flight
    SignalTasks,    \* tasks that call shutdown() (SIGTERM and SIGINT loops)
    Drainers,       \* callers of wait_drain
    Waiters         \* callers of wait_for_shutdown

ASSUME CallersAssumption ==
    /\ IsFiniteSet(Requests) /\ IsFiniteSet(ManualCallers)
    /\ Requests \cap ManualCallers = {}

VARIABLES
    initiated,  \* ShutdownCoordinator.initiated
    shutdown,   \* ShutdownCoordinator.shutdown
    in_flight,  \* ShutdownCoordinator.in_flight
    req,        \* progress of each request handler and manual caller
    sig,        \* progress of each shutdown() call
    drain,      \* progress of each wait_drain call
    late,       \* drainers (and the logger) whose deadline has passed
    unmatched,  \* history: a refused manual caller has decremented
    verdicts,   \* history: who decided "drained" after the flag was set, and
                \* the value of unmatched at that load
    logger,     \* progress of ShutdownLogger::run_logging
    notified,   \* whether notify.send(()) has happened
    wait        \* progress of each wait_for_shutdown call

vars == <<initiated, shutdown, in_flight, req, sig, drain, late, unmatched,
          verdicts, logger, notified, wait>>

LOGGER == "logger"

----------------------------------------------------------------------------
(* The states of the callers *)

Callers == Requests \cup ManualCallers

AdmitStates == {"idle", "add", "recheck", "undo", "active", "refused"}
SigStates   == {"idle", "store", "notify", "returned"}
DrainStates == {"idle", "polling", "drained", "timed_out"}
LogStates   == {"idle", "loop", "initiated", "pending", "complete", "timed_out"}
WaitStates  == {"idle", "subscribed", "signalled", "woken"}

Init ==
    /\ initiated = FALSE
    /\ shutdown = FALSE
    /\ in_flight = 0
    /\ req = [r \in Callers |-> "idle"]
    /\ sig = [s \in SignalTasks |-> "idle"]
    /\ drain = [d \in Drainers |-> "idle"]
    /\ late = {}
    /\ unmatched = FALSE
    /\ verdicts = {}
    /\ logger = "idle"
    /\ notified = FALSE
    /\ wait = [w \in Waiters |-> "idle"]

\* value.checked_sub(1) inside fetch_update: at zero the update is abandoned.
CheckedSub(n) == IF n = 0 THEN 0 ELSE n - 1

----------------------------------------------------------------------------
(* shutdown(), run by the signal loops *)

\* self.initiated.swap(true): only the first caller goes on.
ShutdownSwap(s) ==
    /\ sig[s] \in {"idle", "returned"}
    /\ initiated' = TRUE
    /\ sig' = [sig EXCEPT ![s] = IF initiated THEN "returned" ELSE "store"]
    /\ UNCHANGED <<shutdown, in_flight, req, drain, late, unmatched, verdicts, logger,
                   notified, wait>>

\* Mutant: the first caller returns after the store and never sends.
ShutdownStoreOnly(s) ==
    /\ sig[s] = "store"
    /\ shutdown' = TRUE
    /\ sig' = [sig EXCEPT ![s] = "returned"]
    /\ UNCHANGED <<initiated, in_flight, req, drain, late, unmatched, verdicts, logger,
                   notified, wait>>

ShutdownStore(s) ==
    /\ sig[s] = "store"
    /\ shutdown' = TRUE
    /\ sig' = [sig EXCEPT ![s] = "notify"]
    /\ UNCHANGED <<initiated, in_flight, req, drain, late, unmatched, verdicts, logger,
                   notified, wait>>

\* notify.send(()): a broadcast reaches the receivers that exist now.
ShutdownNotify(s) ==
    /\ sig[s] = "notify"
    /\ notified' = TRUE
    /\ wait' = [w \in Waiters |->
                  IF wait[w] = "subscribed" THEN "signalled" ELSE wait[w]]
    /\ sig' = [sig EXCEPT ![s] = "returned"]
    /\ UNCHANGED <<initiated, shutdown, in_flight, req, drain, late, unmatched, verdicts,
                   logger>>

----------------------------------------------------------------------------
(* request_start() and increment_in_flight() take the same steps.  A refused *)
(* request gets an inactive guard and does nothing; the increment returns    *)
(* nothing, so a refused manual caller goes on like an admitted one.         *)

Refused(r) == IF r \in Requests THEN "idle" ELSE "refused"

\* First is_shutdown() load.
RequestStart(r) ==
    /\ req[r] = "idle"
    /\ req' = [req EXCEPT ![r] = IF shutdown THEN Refused(r) ELSE "add"]
    /\ UNCHANGED <<initiated, shutdown, in_flight, sig, drain, late, unmatched,
                   verdicts, logger, notified, wait>>

RequestAdd(r) ==
    /\ req[r] = "add"
    /\ in_flight' = in_flight + 1
    /\ req' = [req EXCEPT ![r] = "recheck"]
    /\ UNCHANGED <<initiated, shutdown, sig, drain, late, unmatched, verdicts,
                   logger, notified, wait>>

\* Mutant: the second load is dropped, as if the first check were enough.
RequestRecheckMissing(r) ==
    /\ req[r] = "recheck"
    /\ req' = [req EXCEPT ![r] = "active"]
    /\ UNCHANGED <<initiated, shutdown, in_flight, sig, drain, late, unmatched,
                   verdicts, logger, notified, wait>>

\* Second is_shutdown() load: the request is admitted only if it is false.
RequestRecheck(r) ==
    /\ req[r] = "recheck"
    /\ req' = [req EXCEPT ![r] = IF shutdown THEN "undo" ELSE "active"]
    /\ UNCHANGED <<initiated, shutdown, in_flight, sig, drain, late, unmatched,
                   verdicts, logger, notified, wait>>

\* Mutant: the refused request leaves without decrementing.
RequestUndoForgets(r) ==
    /\ req[r] = "undo"
    /\ req' = [req EXCEPT ![r] = Refused(r)]
    /\ UNCHANGED <<initiated, shutdown, in_flight, sig, drain, late, unmatched,
                   verdicts, logger, notified, wait>>

RequestUndo(r) ==
    /\ req[r] = "undo"
    /\ in_flight' = CheckedSub(in_flight)
    /\ req' = [req EXCEPT ![r] = Refused(r)]
    /\ UNCHANGED <<initiated, shutdown, sig, drain, late, unmatched, verdicts,
                   logger, notified, wait>>

\* Drop for RequestGuard, or decrement_in_flight, when the work is done.
RequestDone(r) ==
    /\ req[r] \in {"active", "refused"}
    /\ in_flight' = CheckedSub(in_flight)
    /\ req' = [req EXCEPT ![r] = "idle"]
    /\ unmatched' = (unmatched \/ req[r] = "refused")
    /\ UNCHANGED <<initiated, shutdown, sig, drain, late, verdicts, logger,
                   notified, wait>>

----------------------------------------------------------------------------
(* wait_drain(): poll the counter until it is zero or the deadline passed   *)

DrainBegin(d) ==
    /\ drain[d] = "idle"
    /\ drain' = [drain EXCEPT ![d] = "polling"]
    /\ UNCHANGED <<initiated, shutdown, in_flight, req, sig, late, unmatched, verdicts,
                   logger, notified, wait>>

\* The load that sees zero decides.
DrainSeesZero(d) ==
    /\ drain[d] = "polling"
    /\ in_flight = 0
    /\ drain' = [drain EXCEPT ![d] = "drained"]
    /\ verdicts' = IF shutdown THEN verdicts \cup {<<d, unmatched>>} ELSE verdicts
    /\ UNCHANGED <<initiated, shutdown, in_flight, req, sig, late, unmatched,
                   logger, notified, wait>>

DrainTimesOut(d) ==
    /\ drain[d] = "polling"
    /\ in_flight > 0
    /\ d \in late
    /\ drain' = [drain EXCEPT ![d] = "timed_out"]
    /\ UNCHANGED <<initiated, shutdown, in_flight, req, sig, late, unmatched, verdicts,
                   logger, notified, wait>>

\* Instant::now() > deadline becomes true and stays true.
DeadlinePasses(d) ==
    /\ d \notin late
    /\ \/ d \in Drainers /\ drain[d] = "polling"
       \/ d = LOGGER /\ logger \in {"loop", "initiated", "pending"}
    /\ late' = late \cup {d}
    /\ UNCHANGED <<initiated, shutdown, in_flight, req, sig, drain, unmatched, verdicts,
                   logger, notified, wait>>

----------------------------------------------------------------------------
(* ShutdownLogger::run_logging(): progress() reads the flag, then the count *)

LogStart ==
    /\ logger = "idle"
    /\ logger' = "loop"
    /\ UNCHANGED <<initiated, shutdown, in_flight, req, sig, drain, late,
                   unmatched, verdicts, notified, wait>>

LogReadFlag ==
    /\ logger = "loop"
    /\ logger' = IF shutdown THEN "initiated" ELSE "pending"
    /\ UNCHANGED <<initiated, shutdown, in_flight, req, sig, drain, late,
                   unmatched, verdicts, notified, wait>>

\* is_complete() needs the flag and a zero count; otherwise the loop goes on
\* until is_timed_out().
LogReadCount ==
    /\ logger \in {"initiated", "pending"}
    /\ LET done == logger = "initiated" /\ in_flight = 0
       IN  /\ logger' = IF done THEN "complete"
                        ELSE IF LOGGER \in late THEN "timed_out" ELSE "loop"
           /\ verdicts' = IF done THEN verdicts \cup {<<LOGGER, unmatched>>} ELSE verdicts
    /\ UNCHANGED <<initiated, shutdown, in_flight, req, sig, drain, late, unmatched,
                   notified, wait>>

----------------------------------------------------------------------------
(* SignalHandler::wait_for_shutdown(): subscribe, then recv                 *)

WaitSubscribe(w) ==
    /\ wait[w] = "idle"
    /\ wait' = [wait EXCEPT ![w] = "subscribed"]
    /\ UNCHANGED <<initiated, shutdown, in_flight, req, sig, drain, late,
                   unmatched, verdicts, logger, notified>>

WaitRecv(w) ==
    /\ wait[w] = "signalled"
    /\ wait' = [wait EXCEPT ![w] = "woken"]
    /\ UNCHANGED <<initiated, shutdown, in_flight, req, sig, drain, late,
                   unmatched, verdicts, logger, notified>>

----------------------------------------------------------------------------

SignalStep(s) == ShutdownSwap(s) \/ ShutdownStore(s) \/ ShutdownNotify(s)

RequestStep(r) ==
    \/ RequestStart(r)
    \/ RequestAdd(r)
    \/ RequestRecheck(r)
    \/ RequestUndo(r)
    \/ RequestDone(r)

DrainStep(d) == DrainBegin(d) \/ DrainSeesZero(d) \/ DrainTimesOut(d)

LogStep == LogStart \/ LogReadFlag \/ LogReadCount

Next ==
    \/ \E s \in SignalTasks : SignalStep(s)
    \/ \E r \in Callers : RequestStep(r)
    \/ \E d \in Drainers : DrainStep(d)
    \/ \E d \in Drainers \cup {LOGGER} : DeadlinePasses(d)
    \/ LogStep
    \/ \E w \in Waiters : WaitSubscribe(w) \/ WaitRecv(w)

Spec == Init /\ [][Next]_vars

(***************************************************************************)
(* Fairness: a task that is inside one of the coordinator's methods runs   *)
(* on (the methods have no blocking call) and clocks advance.  Nothing is  *)
(* assumed about a request ever finishing, a signal ever arriving or a     *)
(* caller ever calling.                                                    *)
(***************************************************************************)
Fairness ==
    /\ \A s \in SignalTasks : WF_vars(ShutdownStore(s) \/ ShutdownNotify(s))
    /\ \A d \in Drainers : WF_vars(DrainSeesZero(d) \/ DrainTimesOut(d))
    /\ \A d \in Drainers \cup {LOGGER} : WF_vars(DeadlinePasses(d))
    /\ WF_vars(LogReadFlag \/ LogReadCount)
    /\ \A w \in Waiters : WF_vars(WaitRecv(w))

FairSpec == Spec /\ Fairness
----------------------------------------------------------------------------
(* Properties *)

\* Callers that have been counted and not yet uncounted.
Counted == {r \in Callers : req[r] \in {"recheck", "undo", "active"}}

TypeOK ==
    /\ initiated \in BOOLEAN
    /\ shutdown \in BOOLEAN
    /\ in_flight \in Nat
    /\ req \in [Callers -> AdmitStates]
    /\ sig \in [SignalTasks -> SigStates]
    /\ drain \in [Drainers -> DrainStates]
    /\ late \subseteq Drainers \cup {LOGGER}
    /\ unmatched \in BOOLEAN
    /\ verdicts \subseteq (Drainers \cup {LOGGER}) \X BOOLEAN
    /\ logger \in LogStates
    /\ notified \in BOOLEAN
    /\ wait \in [Waiters -> WaitStates]

\* The counter is exactly the number of callers between their fetch_add and
\* their decrement: no interleaving of starts, undos and ends loses or repeats
\* one.  Only a manual caller that was refused and decrements all the same can
\* upset it.
InFlightExact == ~unmatched => in_flight = Cardinality(Counted)

\* The verdicts that must be right: those decided before any refused caller
\* had decremented.
Verdict == \E d \in Drainers \cup {LOGGER} : <<d, FALSE>> \in verdicts

\* wait_drain "Returns true if all requests completed", and run_logging says
\* "Graceful shutdown complete": when the deciding load came after the flag was
\* set, no admitted work is running, then or ever after, although a
\* request_start may still be half way through.
DrainSound == Verdict => shutdown /\ \A r \in Callers : req[r] # "active"

\* Once the flag is set no request_start or increment_in_flight turns into
\* admitted work, whatever it had read or counted before.
AdmissionClosed ==
    [][\A r \in Callers : shutdown /\ req[r] # "active" => req'[r] # "active"]_vars

Gate == INSTANCE DrainGate WITH
            Requests <- Callers,
            gateClosed <- shutdown,
            inside <- {r \in Callers : req[r] = "active"},
            drained <- Verdict

\* The coordinator implements DrainGate: its flag, counter, re-check and
\* polling loops never show more than the abstract gate does.
ImplementsGate == Gate!Spec

\* Every wait ends.  wait_drain and run_logging return when the work is done or
\* else at the deadline, even when the counter keeps moving between the polls;
\* and a waiter that subscribed before the single broadcast is woken by it,
\* also when the subscription comes between the flag's store and the send.
WaitsEnd ==
    /\ \A d \in Drainers : (drain[d] = "polling") ~> (drain[d] \in {"drained", "timed_out"})
    /\ (logger = "loop") ~> (logger \in {"complete", "timed_out"})
    /\ \A w \in Waiters :
         (initiated /\ ~notified /\ wait[w] = "subscribed") ~> (wait[w] = "woken")
=============================================================================
