---------------------------- MODULE Cancellation ----------------------------
(***************************************************************************)
(* CancellationToken, CancellationManager and ProgressTracker              *)
(* (src/src/compat/mcp2025.rs).  A request has a token registered under    *)
(* its id and a progress state under its progress token; it completes      *)
(* while clients cancel it.  A token is an object of its own: who holds it *)
(* keeps it whatever the table says by then.                               *)
(*                                                                         *)
(* The table's key is the request id, and ids may be used again.           *)
(***************************************************************************)
EXTENDS Integers, Sequences, FiniteSets

CONSTANTS
    Workers,        \* requests being served
    Cancellers,     \* calls of CancellationManager::cancel
    Ids,            \* request ids
    Percent,        \* values given to update(), in hundredths
    MaxNotices      \* bound: progress notifications

ASSUME CancellationAssumption ==
    Percent \subseteq Int /\ IsFiniteSet(Workers) /\ IsFiniteSet(Cancellers)

VARIABLES
    tokens,         \* the table: id -> token, 0 when there is none
    state,          \* token -> "active", "cancelled" or "completed"
    reason,         \* token -> the canceller whose reason is stored, or "none"
    work, held,     \* worker -> progress, and its token
    wid,            \* worker -> its request id
    cpc, cheld,     \* canceller -> progress, and the token it looked up
    progress,       \* id -> "none" or the tracker's state
    notices         \* history: the notifications sent, <<id, value, final>>

cancelVars == <<tokens, state, reason, work, held, wid, cpc, cheld, progress, notices>>

NoProgress == [value |-> 0, completed |-> FALSE, tracked |-> FALSE]

CancelInit ==
    /\ tokens = [i \in Ids |-> 0]
    /\ state = <<>> /\ reason = <<>>
    /\ work = [w \in Workers |-> "new"] /\ held = [w \in Workers |-> 0]
    /\ wid \in [Workers -> Ids]
    /\ cpc = [c \in Cancellers |-> "idle"] /\ cheld = [c \in Cancellers |-> 0]
    /\ progress = [i \in Ids |-> NoProgress]
    /\ notices = <<>>

tokenVars    == <<tokens, state, reason, held>>
progressVars == <<progress, notices>>

----------------------------------------------------------------------------
(* Tokens *)

WorkTo(w, from, to) == work[w] = from /\ work' = [work EXCEPT ![w] = to]

\* create_token: whatever was registered under the id is replaced.
CreateToken(w) ==
    /\ WorkTo(w, "new", "started")
    /\ state' = Append(state, "active") /\ reason' = Append(reason, "none")
    /\ held' = [held EXCEPT ![w] = Len(state')]
    /\ tokens' = [tokens EXCEPT ![wid[w]] = Len(state')]
    /\ UNCHANGED <<wid, cpc, cheld, progressVars>>

\* Mutant: the state is overwritten whatever it is.
CompleteBlind(w) ==
    /\ WorkTo(w, "running", "completed")
    /\ state' = [state EXCEPT ![held[w]] = "completed"]
    /\ UNCHANGED <<tokens, reason, held, wid, cpc, cheld, progressVars>>

\* complete(): only an active token, in one compare-and-exchange.
Complete(w) ==
    /\ work[w] = "running"
    /\ \/ /\ state[held[w]] = "active"
          /\ WorkTo(w, "running", "completed")
          /\ state' = [state EXCEPT ![held[w]] = "completed"]
       \/ /\ state[held[w]] # "active"
          /\ WorkTo(w, "running", "cancelled")
          /\ UNCHANGED state
    /\ UNCHANGED <<tokens, reason, held, wid, cpc, cheld, progressVars>>

\* remove_token: by id, whichever token is registered there by now.
RemoveToken(w) ==
    /\ WorkTo(w, "completed", "finished") \/ WorkTo(w, "cancelled", "finished")
    /\ tokens' = [tokens EXCEPT ![wid[w]] = 0]
    /\ UNCHANGED <<state, reason, held, wid, cpc, cheld, progressVars>>

CancelTo(c, from, to) == cpc[c] = from /\ cpc' = [cpc EXCEPT ![c] = to]

\* CancellationManager::cancel: get_token ...
Lookup(c, i) ==
    /\ \/ tokens[i] # 0 /\ CancelTo(c, "idle", "found")
       \/ tokens[i] = 0 /\ CancelTo(c, "idle", "false")
    /\ cheld' = [cheld EXCEPT ![c] = tokens[i]]
    /\ UNCHANGED <<tokenVars, work, wid, progressVars>>

\* ... the compare-and-exchange of CancellationToken::cancel ...
Cancel(c) ==
    /\ cpc[c] = "found"
    /\ \/ /\ state[cheld[c]] = "active" /\ CancelTo(c, "found", "reason")
          /\ state' = [state EXCEPT ![cheld[c]] = "cancelled"]
       \/ state[cheld[c]] # "active" /\ CancelTo(c, "found", "false") /\ UNCHANGED state
    /\ UNCHANGED <<tokens, reason, held, work, wid, cheld, progressVars>>

\* ... and the reason, which readers of a cancelled token may still miss.
StoreReason(c) ==
    /\ CancelTo(c, "reason", "true")
    /\ reason' = [reason EXCEPT ![cheld[c]] = c]
    /\ UNCHANGED <<tokens, state, held, work, wid, cheld, progressVars>>

----------------------------------------------------------------------------
(* Progress; every method holds the table while it notifies *)

Clamp(v) == IF v < 0 THEN 0 ELSE IF v > 100 THEN 100 ELSE v

Notify(i, v, final) == notices' = Append(notices, <<i, v, final>>)
OtherThanProgress   == UNCHANGED <<tokenVars, wid, cpc, cheld>>

StartProgress(w) ==
    /\ WorkTo(w, "started", "running")
    /\ progress' = [progress EXCEPT ![wid[w]] = [value |-> 0, completed |-> FALSE, tracked |-> TRUE]]
    /\ OtherThanProgress /\ UNCHANGED notices

\* update(): nothing happens to a progress that is complete or not there.
Update(w, v) ==
    LET p == progress[wid[w]]
    IN  /\ work[w] = "running" /\ p.tracked /\ ~p.completed
        /\ Len(notices) < MaxNotices        \* bound
        /\ progress' = [progress EXCEPT ![wid[w]].value = Clamp(v)]
        /\ Notify(wid[w], Clamp(v), FALSE)
        /\ OtherThanProgress /\ UNCHANGED work

CompleteProgress(w) ==
    LET p == progress[wid[w]]
    IN  /\ work[w] \in {"running", "completed"} /\ p.tracked /\ ~p.completed
        /\ Len(notices) < MaxNotices        \* bound
        /\ progress' = [progress EXCEPT ![wid[w]] = [@ EXCEPT !.value = 100, !.completed = TRUE]]
        /\ Notify(wid[w], 100, TRUE)
        /\ OtherThanProgress /\ UNCHANGED work

RemoveProgress(w) ==
    /\ work[w] = "finished" /\ progress[wid[w]].tracked
    /\ progress' = [progress EXCEPT ![wid[w]] = NoProgress]
    /\ OtherThanProgress /\ UNCHANGED <<work, notices>>

CancelNext ==
    \/ \E w \in Workers : \/ CreateToken(w) \/ StartProgress(w) \/ Complete(w) \/ RemoveToken(w)
                          \/ CompleteProgress(w) \/ RemoveProgress(w)
                          \/ \E v \in Percent : Update(w, v)
    \/ \E c \in Cancellers : Cancel(c) \/ StoreReason(c) \/ \E i \in Ids : Lookup(c, i)

----------------------------------------------------------------------------
(* Properties *)

\* A request is either completed or cancelled, never both, and everyone hears
\* the same: complete() succeeds for its worker exactly when no cancel()
\* does, one cancel() at most succeeds per token, and the reason stored is
\* that one's.  A request that shares its id with no other can be reached by a
\* cancellation as long as it runs.
CancelOrComplete ==
    /\ \A w \in Workers :
         /\ work[w] = "completed" => state[held[w]] = "completed"
         /\ work[w] = "cancelled" => state[held[w]] = "cancelled"
    /\ \A t \in DOMAIN state :
         LET winners == {c \in Cancellers : cheld[c] = t /\ cpc[c] \in {"reason", "true"}}
         IN  /\ Cardinality(winners) <= 1
             /\ (state[t] = "cancelled") <=> (winners # {})
             /\ reason[t] # "none" => reason[t] \in winners
    /\ \A w \in Workers :
         work[w] \in {"started", "running"} /\ (\A o \in Workers : wid[o] = wid[w] => o = w)
           => tokens[wid[w]] = held[w]

\* Once a progress is reported complete, nothing more is reported for it
\* unless it is started again, and every report lies between 0 and 100.
FinalNoticeIsLast ==
    /\ \A i \in DOMAIN notices : notices[i][2] \in 0 .. 100
    /\ \A i \in Ids :
         LET mine   == {k \in DOMAIN notices : notices[k][1] = i}
             finals == {k \in mine : notices[k][3]}
             starts == {w \in Workers : wid[w] = i /\ work[w] \notin {"new", "started"}}
         IN  /\ Cardinality(finals) <= Cardinality(starts)
             /\ progress[i].completed => \E k \in finals : \A j \in mine : j <= k

\* What a request's end looks like from outside: it is completed or cancelled
\* and never both, whoever asks hears the same, and the progress notices end
\* with the final one, in every order of workers, cancellations and removals.
CancellationSettles == CancelOrComplete /\ FinalNoticeIsLast
=============================================================================
