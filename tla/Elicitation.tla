---------------------------- MODULE Elicitation ----------------------------
(***************************************************************************)
(* ElicitationHandler (src/src/compat/mcp2025.rs): create() registers the  *)
(* sending half of a oneshot channel and waits for the answer or for the   *)
(* timeout; respond() takes the sending half out of the table and sends.   *)
(*                                                                         *)
(* create() waits without a lock and cleans up afterwards, so an answer    *)
(* may come while the wait is being given up.  The future of create() may  *)
(* also be dropped by its caller where it waits.                           *)
(***************************************************************************)
EXTENDS Naturals, FiniteSets

CONSTANTS
    Elicits,        \* calls of create(); generate_elicitation_id makes their ids unique
    Responders,     \* calls of respond()
    Answers,        \* the answers clients may give
    Valid           \* the answers that pass validate_response

\* An answer is a value from the client, none of the marks used below.
ASSUME AnswersAssumption ==
    Answers \cap {"open", "closed", "none", "timeout", "invalid"} = {}

VARIABLES
    pending,        \* ids in the table
    channel,        \* id -> "open", "closed" (receiver dropped) or the answer sent
    epc,            \* id -> progress of create()
    outcome,        \* id -> what create() returned
    rpc, target,    \* responder -> "idle", "true" or "false"; the id it answered
    abandoned       \* history: ids whose create() was dropped

elicitVars == <<pending, channel, epc, outcome, rpc, target, abandoned>>

NoId == "none"

ElicitTypeOK ==
    /\ pending \subseteq Elicits /\ abandoned \subseteq Elicits
    /\ channel \in [Elicits -> {"open", "closed"} \cup Answers]
    /\ epc \in [Elicits -> {"new", "waiting", "polled", "cleanup", "done"}]
    /\ outcome \in [Elicits -> {"none", "timeout", "invalid"} \cup Answers]
    /\ rpc \in [Responders -> {"idle", "true", "false"}]
    /\ target \in [Responders -> Elicits \cup {NoId}]

ElicitInit ==
    /\ pending = {} /\ abandoned = {}
    /\ channel = [e \in Elicits |-> "open"]
    /\ epc = [e \in Elicits |-> "new"]
    /\ outcome = [e \in Elicits |-> "none"]
    /\ rpc = [r \in Responders |-> "idle"] /\ target = [r \in Responders |-> NoId]

At(e, from, to) == epc[e] = from /\ epc' = [epc EXCEPT ![e] = to]

Create(e) ==
    /\ At(e, "new", "waiting")
    /\ pending' = pending \cup {e}
    /\ UNCHANGED <<channel, outcome, rpc, target, abandoned>>

\* The channel is polled before the timer: an answer that is there wins, and
\* the receiver is dropped with the finished future.
ReceiveAnswer(e) ==
    /\ At(e, "waiting", "cleanup")
    /\ channel[e] \in Answers
    /\ outcome' = [outcome EXCEPT ![e] = channel[e]]
    /\ channel' = [channel EXCEPT ![e] = "closed"]
    /\ UNCHANGED <<pending, rpc, target, abandoned>>

\* Mutant: the answer is awaited without a timer.
TimeoutNever(e) == FALSE /\ At(e, "waiting", "polled") /\ UNCHANGED elicitVars

\* The timer has fired and the channel was empty when it was polled ...
TimeoutPolled(e) ==
    /\ At(e, "waiting", "polled")
    /\ channel[e] = "open"
    /\ outcome' = [outcome EXCEPT ![e] = "timeout"]
    /\ UNCHANGED <<pending, channel, rpc, target, abandoned>>

\* ... and then the receiver is dropped, with whatever has come since.
DropReceiver(e) ==
    /\ At(e, "polled", "cleanup")
    /\ channel' = [channel EXCEPT ![e] = "closed"]
    /\ UNCHANGED <<pending, outcome, rpc, target, abandoned>>

\* Mutant: the table is cleaned up only after an answer.
CleanupOnAnswer(e) ==
    /\ At(e, "cleanup", "done")
    /\ pending' = IF outcome[e] = "timeout" THEN pending ELSE pending \ {e}
    /\ outcome' = [outcome EXCEPT ![e] =
                     IF @ \in Answers /\ @ \notin Valid THEN "invalid" ELSE @]
    /\ UNCHANGED <<channel, rpc, target, abandoned>>

\* The entry is removed in any case, and an answer is validated.
Cleanup(e) ==
    /\ At(e, "cleanup", "done")
    /\ pending' = pending \ {e}
    /\ outcome' = [outcome EXCEPT ![e] =
                     IF @ \in Answers /\ @ \notin Valid THEN "invalid" ELSE @]
    /\ UNCHANGED <<channel, rpc, target, abandoned>>

\* The caller drops the future of create() where it waits, for the answer or
\* for the table's lock: nothing cleans up.
Abandon(e) ==
    /\ At(e, "waiting", "done") \/ At(e, "cleanup", "done")
    /\ channel' = [channel EXCEPT ![e] = "closed"]
    /\ outcome' = [outcome EXCEPT ![e] = "none"]
    /\ abandoned' = abandoned \cup {e}
    /\ UNCHANGED <<pending, rpc, target>>

\* respond() holds the table while it sends; send fails when the receiver is
\* gone.
Respond(r, e, a) ==
    /\ rpc[r] = "idle"
    /\ pending' = pending \ {e}
    /\ \/ /\ e \in pending /\ channel[e] = "open"
          /\ channel' = [channel EXCEPT ![e] = a]
          /\ rpc' = [rpc EXCEPT ![r] = "true"]
       \/ /\ e \notin pending \/ channel[e] # "open"
          /\ rpc' = [rpc EXCEPT ![r] = "false"]
          /\ UNCHANGED channel
    /\ target' = [target EXCEPT ![r] = e]
    /\ UNCHANGED <<epc, outcome, abandoned>>

CreateStep(e) == ReceiveAnswer(e) \/ TimeoutPolled(e) \/ DropReceiver(e) \/ Cleanup(e)

ElicitNext ==
    \/ \E e \in Elicits : Create(e) \/ CreateStep(e) \/ Abandon(e)
    \/ \E r \in Responders, e \in Elicits, a \in Answers : Respond(r, e, a)

ElicitSpec == ElicitInit /\ [][ElicitNext]_elicitVars

----------------------------------------------------------------------------
(* Properties *)

\* However answers, timeouts and dropped futures race, at most one responder
\* is told that its answer was taken; create() hands on an answer only if one
\* was, and only a valid one; and the entry of a create() that has returned is
\* gone from the table.
AnsweredOnce ==
    \A e \in Elicits :
        LET taken == {r \in Responders : rpc[r] = "true" /\ target[r] = e}
        IN  /\ Cardinality(taken) <= 1
            /\ outcome[e] \in Answers \cup {"invalid"} => taken # {}
            /\ epc[e] = "done" /\ outcome[e] \in Answers => outcome[e] \in Valid
            /\ epc[e] = "done" /\ e \in pending => e \in abandoned
            /\ epc[e] = "done" /\ e \notin abandoned => outcome[e] # "none"

\* A call of create() returns: with an answer, or when its timer fires.
CreateReturns == \A e \in Elicits : epc[e] = "waiting" ~> epc[e] = "done"
=============================================================================
