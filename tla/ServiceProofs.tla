--------------------------- MODULE ServiceProofs ---------------------------
(***************************************************************************)
(* The services beside the connection, for any number of callers and any   *)
(* bounds: the guard of signed invocations, elicitations, cancellation,    *)
(* roots and subscriptions, the tool states of a context, the SSE event    *)
(* buffer and the legacy adapter.                                          *)
(***************************************************************************)
EXTENDS SignedRouter, Elicitation, Cancellation, Subscriptions, Context, SseTransport,
        LegacyAdapter, Lemmas

----------------------------------------------------------------------------
(* SignedRouter: an invocation that passed is remembered as long as its     *)
(* timestamp would be accepted                                             *)

\* What is cleaned away can no longer be accepted.
LEMMA DroppedIsExpired ==
    ASSUME NEW t \in Nat, now \in Nat, ExpirationSecs \in Nat, ~Kept(t)
    PROVE  now - t > ExpirationSecs /\ IsExpired(t)
  BY DEF Kept, IsExpired

\* An acceptable timestamp is not one of those that are gone for good.
LEMMA AcceptableIsRecent ==
    ASSUME NEW t \in Nat, now \in Nat, ExpirationSecs \in Nat, ClockSkew \in Nat, ~IsExpired(t)
    PROVE  ~(now - t > ExpirationSecs)
  BY DEF IsExpired

\* The cleaned store and the store after a check agree with the old one on
\* whatever they keep; what they lose is expired.
LEMMA StoreKeeps ==
    ASSUME SignedTypeOK, ExpirationSecs \in Nat,
           NEW n, NEW t \in Nat, n \in DOMAIN nonces, nonces[n] = t
    PROVE  \/ now - t > ExpirationSecs
           \/ /\ n \in DOMAIN AfterCleanup /\ AfterCleanup[n] = t
              /\ n \in DOMAIN CheckedStore /\ CheckedStore[n] = t
  BY DroppedIsExpired DEF SignedTypeOK, AfterCleanup, CheckedStore

\* The nonce store keeps its type.
LEMMA StoreType ==
    ASSUME SignedTypeOK
    PROVE  /\ AfterCleanup \in [DOMAIN AfterCleanup -> Nat]
           /\ CheckedStore \in [DOMAIN CheckedStore -> Nat]
  BY DEF SignedTypeOK, AfterCleanup, CheckedStore

\* At the start no invocation has passed.
LEMMA SignedInitInv == SignedInit => SignedInv
  BY WindowAssumption DEF SignedInit, SignedInv, SignedTypeOK, NeverTwice, PassedIsRemembered

\* A presented invocation: fresh means it never passed before.
LEMMA PresentInv ==
    ASSUME SignedInv, NEW inv \in Invocations,
           NEW s \in BOOLEAN, NEW h \in BOOLEAN, NEW a \in BOOLEAN, Present(inv, s, h, a)
    PROVE  SignedInv'
<1>0. inv.timestamp \in Nat /\ ExpirationSecs \in Nat /\ ClockSkew \in Nat /\ now \in Nat
  BY InvocationsAssumption, WindowAssumption DEF SignedInv, SignedTypeOK
<1>1. NonceFresh(inv) => passed[inv] = 0
  <2>1. SUFFICES ASSUME NonceFresh(inv), passed[inv] # 0 PROVE FALSE
    OBVIOUS
  <2>2. passed[inv] > 0
    BY <2>1 DEF SignedInv, SignedTypeOK
  <2>3. now - inv.timestamp > ExpirationSecs
    BY <2>1, <2>2 DEF SignedInv, PassedIsRemembered, NonceFresh
  <2>4. QED
    BY <1>0, <2>1, <2>3, AcceptableIsRecent DEF NonceFresh
<1>2. nonces' \in [DOMAIN nonces' -> Nat]
  <2>1. nonces' = StoreAfter(inv)
    BY DEF Present
  <2>2. StoreAfter(inv) \in [DOMAIN StoreAfter(inv) -> Nat]
    <3>1. CASE IsExpired(inv.timestamp) \/ inv.nonce \in DOMAIN nonces
      BY <3>1 DEF StoreAfter, SignedInv, SignedTypeOK
    <3>2. CASE /\ ~(IsExpired(inv.timestamp) \/ inv.nonce \in DOMAIN nonces)
               /\ Full(CheckedStore)
      BY <3>2, StoreType DEF StoreAfter, SignedInv
    <3>3. CASE /\ ~(IsExpired(inv.timestamp) \/ inv.nonce \in DOMAIN nonces)
               /\ ~(Full(CheckedStore))
      <4>1. StoreAfter(inv) = [n \in DOMAIN CheckedStore \cup {inv.nonce} |->
                                  IF n = inv.nonce THEN inv.timestamp ELSE CheckedStore[n]]
        BY <3>3 DEF StoreAfter
      <4>2. CheckedStore \in [DOMAIN CheckedStore -> Nat]
        BY StoreType DEF SignedInv
      <4>3. \A n \in DOMAIN CheckedStore : CheckedStore[n] \in Nat
        BY <4>2
      <4>4. QED
        BY <1>0, <4>1, <4>3
    <3>4. QED
      BY <3>1, <3>2, <3>3
  <2>3. QED
    BY <2>1, <2>2
<1>3. now' = now /\ passed' \in [Invocations -> Nat] /\ executed' \in [Invocations -> Nat]
  <2>1. CASE UNCHANGED <<passed, executed>>
    BY <2>1 DEF Present, SignedInv, SignedTypeOK
  <2>2. CASE /\ passed' = [passed EXCEPT ![inv] = @ + 1]
             /\ executed' = [executed EXCEPT ![inv] =
                                IF Authorized(inv.tool, a) THEN @ + 1 ELSE @]
    BY <2>2 DEF Present, SignedInv, SignedTypeOK
  <2>3. QED
    BY <2>1, <2>2 DEF Present
<1>4. SignedTypeOK'
  BY <1>2, <1>3 DEF SignedInv, SignedTypeOK
<1>5. NeverTwice'
  <2>1. CASE UNCHANGED <<passed, executed>>
    BY <2>1 DEF SignedInv, NeverTwice
  <2>2. CASE /\ NonceFresh(inv)
             /\ passed' = [passed EXCEPT ![inv] = @ + 1]
             /\ executed' = [executed EXCEPT ![inv] =
                                IF Authorized(inv.tool, a) THEN @ + 1 ELSE @]
    BY <2>2, <1>1 DEF SignedInv, SignedTypeOK, NeverTwice
  <2>3. QED
    BY <2>1, <2>2 DEF Present
<1>6. PassedIsRemembered'
  <2>1. SUFFICES ASSUME NEW i \in Invocations, passed'[i] > 0,
                        ~(now - i.timestamp > ExpirationSecs)
                 PROVE  i.nonce \in DOMAIN nonces' /\ nonces'[i.nonce] = i.timestamp
    BY <1>3 DEF PassedIsRemembered
  <2>2. i.timestamp \in Nat
    BY InvocationsAssumption
  <2>3. nonces' = StoreAfter(inv)
    BY DEF Present
  <2>4. CASE passed[i] > 0
    <3>1. i.nonce \in DOMAIN nonces /\ nonces[i.nonce] = i.timestamp
      BY <2>1, <2>4 DEF SignedInv, PassedIsRemembered
    <3>2. i.nonce \in DOMAIN CheckedStore /\ CheckedStore[i.nonce] = i.timestamp
      BY <1>0, <2>1, <2>2, <3>1, StoreKeeps DEF SignedInv
    <3>3. QED
      BY <2>3, <3>1, <3>2 DEF StoreAfter
  <2>5. CASE ~(passed[i] > 0)
    <3>1. i = inv /\ NonceFresh(inv)
      BY <2>1, <2>5 DEF Present, SignedInv, SignedTypeOK
    <3>2. ~IsExpired(inv.timestamp) /\ inv.nonce \notin DOMAIN nonces
      BY <3>1 DEF NonceFresh
    <3>3. StoreAfter(inv) = [n \in DOMAIN CheckedStore \cup {inv.nonce} |->
                                IF n = inv.nonce THEN inv.timestamp ELSE CheckedStore[n]]
      BY <3>1, <3>2 DEF StoreAfter, NonceFresh
    <3>4. QED
      BY <2>3, <3>1, <3>3
  <2>6. QED
    BY <2>4, <2>5
<1>7. QED
  BY <1>4, <1>5, <1>6 DEF SignedInv

\* Every step of the router and of time.
LEMMA SignedNextInv == SignedInv /\ [SignedNext]_signedVars => SignedInv'
<1>0. SUFFICES ASSUME SignedInv, [SignedNext]_signedVars PROVE SignedInv'
  OBVIOUS
<1>1. ASSUME NEW inv \in Invocations, NEW s \in BOOLEAN, NEW h \in BOOLEAN, NEW a \in BOOLEAN,
             Present(inv, s, h, a)
      PROVE  SignedInv'
  BY <1>0, <1>1, PresentInv
<1>2. CASE CleanupExpired
  <2>1. SignedTypeOK'
    BY <1>0, <1>2, StoreType DEF CleanupExpired, SignedInv, SignedTypeOK
  <2>2. NeverTwice'
    BY <1>0, <1>2 DEF CleanupExpired, SignedInv, NeverTwice
  <2>3. PassedIsRemembered'
    <3>1. SUFFICES ASSUME NEW i \in Invocations, passed[i] > 0,
                          ~(now - i.timestamp > ExpirationSecs)
                   PROVE  i.nonce \in DOMAIN AfterCleanup /\ AfterCleanup[i.nonce] = i.timestamp
      BY <1>2 DEF CleanupExpired, PassedIsRemembered
    <3>2. i.timestamp \in Nat /\ i.nonce \in DOMAIN nonces /\ nonces[i.nonce] = i.timestamp
      BY <1>0, <3>1, InvocationsAssumption DEF SignedInv, PassedIsRemembered
    <3>3. QED
      BY <1>0, <3>1, <3>2, StoreKeeps, WindowAssumption DEF SignedInv
  <2>4. QED
    BY <2>1, <2>2, <2>3 DEF SignedInv
<1>3. CASE Tick
  BY <1>0, <1>3, InvocationsAssumption, WindowAssumption
  DEF Tick, SignedInv, SignedTypeOK, NeverTwice, PassedIsRemembered
<1>4. CASE \E tools \in SUBSET Registered : Renegotiate(tools)
  BY <1>0, <1>4 DEF Renegotiate, SignedInv, SignedTypeOK, NeverTwice, PassedIsRemembered
<1>5. CASE UNCHANGED signedVars
  BY <1>0, <1>5 DEF signedVars, SignedInv, SignedTypeOK, NeverTwice, PassedIsRemembered
<1>6. QED
  BY <1>0, <1>1, <1>2, <1>3, <1>4, <1>5 DEF SignedNext

\* README: "valid signed attempts are recorded in the replay guard before later
\* capability/schema denials so the same signed invocation cannot be retried
\* after permissions broaden": no invocation passes check_nonce, and no
\* handler runs for it, a second time.
THEOREM SignedNeverTwice == SignedSpec => []NeverTwice
<1>1. SignedInv => NeverTwice
  BY DEF SignedInv
<1>2. QED
  BY <1>1, SignedInitInv, SignedNextInv, PTL DEF SignedSpec

----------------------------------------------------------------------------
(* Elicitation.  AnsweredOnce is not inductive: that no second responder is *)
(* told "taken" rests on the entry leaving the table for good, which in    *)
(* turn rests on create() inserting it only once                           *)

Taken(r, e) == r \in Responders /\ rpc[r] = "true" /\ target[r] = e

\* The entry of an answered call is gone, and its create() cannot insert it again.
AnsweredGone ==
    \A r \in Responders, e \in Elicits : Taken(r, e) => e \notin pending /\ epc[e] # "new"

OneTaker ==
    \A r, s \in Responders, e \in Elicits : Taken(r, e) /\ Taken(s, e) => r = s

\* An answer in the channel, or handed on, comes from a responder.
AnswerHasTaker ==
    \A e \in Elicits :
        (channel[e] \in Answers \/ outcome[e] \in Answers \cup {"invalid"})
            => \E r \in Responders : Taken(r, e)

\* What create() has done by the time it is where it is.
CreateProgress ==
    \A e \in Elicits :
        /\ epc[e] = "new" => e \notin pending
        /\ epc[e] = "polled" => outcome[e] = "timeout"
        /\ epc[e] = "cleanup" => outcome[e] # "none"
        /\ epc[e] = "done" => /\ outcome[e] \in Answers => outcome[e] \in Valid
                              /\ e \in pending => e \in abandoned
                              /\ e \notin abandoned => outcome[e] # "none"

ElicitInv == ElicitTypeOK /\ AnsweredGone /\ OneTaker /\ AnswerHasTaker /\ CreateProgress

\* The steps of create() do not touch the responders.
LEMMA CreatePreserves ==
    ASSUME ElicitInv, NEW e \in Elicits,
           Create(e) \/ CreateStep(e) \/ Abandon(e)
    PROVE  ElicitInv'
<1> USE AnswersAssumption DEF ElicitInv, ElicitTypeOK, At
<1>1. CASE Create(e)
  BY <1>1 DEF Create, AnsweredGone, OneTaker, AnswerHasTaker, CreateProgress, Taken
<1>2. CASE ReceiveAnswer(e)
  BY <1>2 DEF ReceiveAnswer, AnsweredGone, OneTaker, AnswerHasTaker, CreateProgress, Taken
<1>3. CASE TimeoutPolled(e)
  BY <1>3 DEF TimeoutPolled, AnsweredGone, OneTaker, AnswerHasTaker, CreateProgress, Taken
<1>4. CASE DropReceiver(e)
  BY <1>4 DEF DropReceiver, AnsweredGone, OneTaker, AnswerHasTaker, CreateProgress, Taken
<1>5. CASE Cleanup(e)
  BY <1>5 DEF Cleanup, AnsweredGone, OneTaker, AnswerHasTaker, CreateProgress, Taken
<1>6. CASE Abandon(e)
  BY <1>6 DEF Abandon, AnsweredGone, OneTaker, AnswerHasTaker, CreateProgress, Taken
<1> QED BY <1>1, <1>2, <1>3, <1>4, <1>5, <1>6 DEF CreateStep

\* A responder takes the entry out of the table, whether or not it can send.
LEMMA RespondPreserves ==
    ASSUME ElicitInv, NEW r \in Responders, NEW e \in Elicits, NEW a \in Answers,
           Respond(r, e, a)
    PROVE  ElicitInv'
<1> USE AnswersAssumption DEF ElicitInv, ElicitTypeOK, Respond
<1>1. ElicitTypeOK'
  OBVIOUS
<1>2. AnsweredGone'
  BY DEF AnsweredGone, CreateProgress, Taken
<1>3. OneTaker'
  BY DEF OneTaker, AnsweredGone, Taken
<1>4. AnswerHasTaker'
  <2> SUFFICES ASSUME NEW x \in Elicits,
                      (channel[x] \in Answers \/ outcome[x] \in Answers \cup {"invalid"})'
               PROVE  \E s \in Responders : Taken(s, x)'
    BY DEF AnswerHasTaker
  <2>1. CASE x = e /\ e \in pending /\ channel[e] = "open"
    <3>1. Taken(r, x)'
      BY <2>1 DEF Taken
    <3> QED BY <3>1
  <2>2. CASE ~(x = e /\ e \in pending /\ channel[e] = "open")
    <3>1. channel[x] \in Answers \/ outcome[x] \in Answers \cup {"invalid"}
      BY <2>2
    <3>2. PICK s \in Responders : Taken(s, x)
      BY <3>1 DEF AnswerHasTaker
    <3>3. s # r
      BY <3>2 DEF Taken
    <3>4. Taken(s, x)'
      BY <3>2, <3>3 DEF Taken
    <3> QED BY <3>4
  <2> QED BY <2>1, <2>2
<1>5. CreateProgress'
  BY DEF CreateProgress
<1> QED BY <1>1, <1>2, <1>3, <1>4, <1>5

\* The inductive invariant holds in every state of ElicitationHandler.
LEMMA ElicitInvariant == ElicitSpec => []ElicitInv
<1>1. ElicitInit => ElicitInv
  BY AnswersAssumption DEF ElicitInit, ElicitInv, ElicitTypeOK, AnsweredGone, OneTaker,
     AnswerHasTaker, CreateProgress, Taken
<1>2. ElicitInv /\ [ElicitNext]_elicitVars => ElicitInv'
  <2> SUFFICES ASSUME ElicitInv, [ElicitNext]_elicitVars PROVE ElicitInv'
    OBVIOUS
  <2>1. ASSUME NEW e \in Elicits, Create(e) \/ CreateStep(e) \/ Abandon(e)
        PROVE  ElicitInv'
    BY <2>1, CreatePreserves
  <2>2. ASSUME NEW r \in Responders, NEW e \in Elicits, NEW a \in Answers, Respond(r, e, a)
        PROVE  ElicitInv'
    BY <2>2, RespondPreserves
  <2>3. CASE UNCHANGED elicitVars
    BY <2>3 DEF elicitVars, ElicitInv, ElicitTypeOK, AnsweredGone, OneTaker, AnswerHasTaker,
       CreateProgress, Taken
  <2> QED BY <2>1, <2>2, <2>3 DEF ElicitNext
<1> QED BY <1>1, <1>2, PTL DEF ElicitSpec

\* The invariant says of each call of create() what AnsweredOnce promises.
LEMMA InvariantAnswersOnce == ElicitInv => AnsweredOnce
<1> SUFFICES ASSUME ElicitInv, NEW e \in Elicits
             PROVE  LET takers == {r \in Responders : rpc[r] = "true" /\ target[r] = e}
                    IN  /\ Cardinality(takers) <= 1
                        /\ outcome[e] \in Answers \cup {"invalid"} => takers # {}
                        /\ epc[e] = "done" /\ outcome[e] \in Answers => outcome[e] \in Valid
                        /\ epc[e] = "done" /\ e \in pending => e \in abandoned
                        /\ epc[e] = "done" /\ e \notin abandoned => outcome[e] # "none"
  BY DEF AnsweredOnce
<1> DEFINE takers == {r \in Responders : rpc[r] = "true" /\ target[r] = e}
<1>1. Cardinality(takers) <= 1
  <2>1. CASE takers = {}
    BY <2>1, FS_EmptySet
  <2>2. CASE takers # {}
    <3>1. PICK r \in Responders : Taken(r, e)
      BY <2>2 DEF Taken
    <3>2. takers = {r}
      BY <3>1 DEF ElicitInv, OneTaker, Taken
    <3>3. Cardinality({r}) = 1
      BY FS_Singleton
    <3> QED BY <3>2, <3>3
  <2> QED BY <2>1, <2>2
<1>2. outcome[e] \in Answers \cup {"invalid"} => takers # {}
  BY DEF ElicitInv, AnswerHasTaker, Taken
<1> QED BY <1>1, <1>2 DEF ElicitInv, CreateProgress

\* For any number of calls of create() and respond(), however answers, timeouts
\* and dropped futures interleave: at most one respond() is told that its answer
\* was taken, create() hands on only a valid answer that was, and its entry is
\* gone from the table when it has returned.
THEOREM AlwaysAnsweredOnce == ElicitSpec => []AnsweredOnce
BY ElicitInvariant, InvariantAnswersOnce, PTL

----------------------------------------------------------------------------
(* Cancellation: tokens.  A token leaves "active" once, by the one           *)
(* compare-and-exchange that succeeds                                       *)

CancelSpec == CancelInit /\ [][CancelNext]_cancelVars

TokenStates == {"active", "cancelled", "completed"}
WorkerSteps == {"new", "started", "running", "completed", "cancelled", "finished"}
CancellerSteps == {"idle", "found", "false", "reason", "true"}

TokenTypes ==
    /\ state \in Seq(TokenStates) /\ reason \in Seq(Cancellers \cup {"none"})
    /\ Len(reason) = Len(state)
    /\ tokens \in [Ids -> 0 .. Len(state)]
    /\ held \in [Workers -> 0 .. Len(state)] /\ cheld \in [Cancellers -> 0 .. Len(state)]
    /\ work \in [Workers -> WorkerSteps] /\ cpc \in [Cancellers -> CancellerSteps]
    /\ wid \in [Workers -> Ids]

\* A worker has a token from its start on, a canceller from its lookup on.
TokensHeld ==
    /\ \A w \in Workers : work[w] # "new" => held[w] > 0
    /\ \A c \in Cancellers : cpc[c] \in {"found", "reason", "true"} => cheld[c] > 0

\* The canceller won the token.
Won(c, t) == cheld[c] = t /\ cpc[c] \in {"reason", "true"}

\* What each side was told agrees with the token; at most one canceller won it.
OneWinner ==
    /\ \A w \in Workers :
         /\ work[w] = "completed" => state[held[w]] = "completed"
         /\ work[w] = "cancelled" => state[held[w]] = "cancelled"
    /\ \A c, d \in Cancellers, t \in 1 .. Len(state) : Won(c, t) /\ Won(d, t) => c = d
    /\ \A t \in 1 .. Len(state) :
         /\ state[t] = "cancelled" <=> \E c \in Cancellers : Won(c, t)
         /\ reason[t] # "none" => \E c \in Cancellers : reason[t] = c /\ Won(c, t)

\* Every worker has a token of its own, and only it completes that one.
TokensOwned ==
    /\ \A v, w \in Workers : held[v] > 0 /\ held[v] = held[w] => v = w
    /\ \A w \in Workers : work[w] \in {"started", "running"} => state[held[w]] # "completed"

\* A request that shares its id with no other is reached under it.
Reachable ==
    \A w \in Workers :
        work[w] \in {"started", "running"} /\ (\A o \in Workers : wid[o] = wid[w] => o = w)
          => tokens[wid[w]] = held[w]

TokenInv == TokenTypes /\ TokensHeld /\ OneWinner /\ TokensOwned /\ Reachable

\* A token that is held is one of the tokens.
LEMMA HeldIsToken ==
    ASSUME TokenInv, NEW w \in Workers, work[w] # "new" PROVE held[w] \in 1 .. Len(state)
<1>1. Len(state) \in Nat /\ held[w] \in 0 .. Len(state)
  BY DEF TokenInv, TokenTypes
<1>2. held[w] > 0
  BY DEF TokenInv, TokensHeld
<1> QED BY <1>1, <1>2

\* create_token appends a token that nobody else knows.
LEMMA CreatePreservesTokens ==
    ASSUME TokenInv, NEW w \in Workers, CreateToken(w) PROVE TokenInv'
<1> USE DEF TokenInv
<1>1. PICK n \in Nat : n = Len(state)
  BY DEF TokenTypes
<1>2. /\ work[w] = "new" /\ work' = [work EXCEPT ![w] = "started"]
      /\ state' = Append(state, "active") /\ reason' = Append(reason, "none")
      /\ held' = [held EXCEPT ![w] = Len(state')]
      /\ tokens' = [tokens EXCEPT ![wid[w]] = Len(state')]
      /\ wid' = wid /\ cpc' = cpc /\ cheld' = cheld
  BY DEF CreateToken, WorkTo
<1>3. /\ state' \in Seq(TokenStates) /\ Len(state') = n + 1 /\ state'[n + 1] = "active"
      /\ \A t \in 1 .. n : state'[t] = state[t]
  BY <1>1, <1>2, AppendProperties DEF TokenTypes, TokenStates
<1>4. /\ reason' \in Seq(Cancellers \cup {"none"}) /\ Len(reason') = n + 1 /\ reason'[n + 1] = "none"
      /\ \A t \in 1 .. n : reason'[t] = reason[t]
  BY <1>1, <1>2, AppendProperties DEF TokenTypes
<1>5. 0 .. n \subseteq 0 .. (n + 1) /\ n + 1 \in 0 .. (n + 1)
  OBVIOUS
<1>6. TokenTypes'
  <2>1. tokens' \in [Ids -> 0 .. (n + 1)] /\ held' \in [Workers -> 0 .. (n + 1)]
        /\ cheld' \in [Cancellers -> 0 .. (n + 1)]
    BY <1>1, <1>2, <1>3, <1>5 DEF TokenTypes
  <2>2. work' \in [Workers -> WorkerSteps]
    BY <1>2 DEF TokenTypes, WorkerSteps
  <2> QED BY <1>2, <1>3, <1>4, <2>1, <2>2 DEF TokenTypes
<1>7. TokensHeld'
  BY <1>1, <1>2, <1>3 DEF TokensHeld, TokenTypes
<1>8. OneWinner'
  <2>1. \A c \in Cancellers, t \in 1 .. (n + 1) : Won(c, t)' <=> (Won(c, t) /\ t \in 1 .. n)
    BY <1>1, <1>2 DEF Won, TokenTypes, TokensHeld
  <2>2. ASSUME NEW v \in Workers, work'[v] \in {"completed", "cancelled"}
        PROVE  work[v] = work'[v] /\ held'[v] = held[v] /\ held[v] \in 1 .. n
    <3>1. v # w
      BY <2>2, <1>2 DEF TokenTypes
    <3>2. work[v] = work'[v] /\ held'[v] = held[v]
      BY <3>1, <1>2 DEF TokenTypes
    <3>3. work[v] # "new"
      BY <2>2, <3>2
    <3> QED BY <3>2, <3>3, <1>1, HeldIsToken
  <2>3. \A v \in Workers :
          /\ work'[v] = "completed" => state'[held'[v]] = "completed"
          /\ work'[v] = "cancelled" => state'[held'[v]] = "cancelled"
    BY <2>2, <1>3 DEF OneWinner
  <2>4. ASSUME NEW t \in 1 .. (n + 1)
        PROVE  /\ state'[t] = "cancelled" <=> \E c \in Cancellers : Won(c, t)'
               /\ reason'[t] # "none" => \E c \in Cancellers : reason'[t] = c /\ Won(c, t)'
    <3>1. CASE t \in 1 .. n
      BY <3>1, <2>1, <1>1, <1>3, <1>4 DEF OneWinner
    <3>2. CASE t = n + 1
      <4>1. t \notin 1 .. n
        BY <3>2
      <4> QED BY <4>1, <3>2, <2>1, <1>3, <1>4
    <3> QED BY <3>1, <3>2
  <2>5. \A c, d \in Cancellers, t \in 1 .. (n + 1) : Won(c, t)' /\ Won(d, t)' => c = d
    BY <2>1, <1>1 DEF OneWinner
  <2> QED BY <1>3, <2>3, <2>4, <2>5 DEF OneWinner
<1>9. Reachable'
  <2> SUFFICES ASSUME NEW v \in Workers, work'[v] \in {"started", "running"},
                      \A o \in Workers : wid[o] = wid[v] => o = v
               PROVE  tokens'[wid[v]] = held'[v]
    BY <1>2 DEF Reachable
  <2>1. CASE v = w
    BY <2>1, <1>2 DEF TokenTypes
  <2>2. CASE v # w
    BY <2>2, <1>2 DEF TokenTypes, Reachable
  <2> QED BY <2>1, <2>2
<1>10. TokensOwned'
  <2>1. held'[w] = n + 1 /\ \A v \in Workers : v # w => held'[v] = held[v] /\ held[v] \in 0 .. n
    BY <1>1, <1>2, <1>3 DEF TokenTypes
  <2>2. \A u, v \in Workers : held'[u] > 0 /\ held'[u] = held'[v] => u = v
    <3> SUFFICES ASSUME NEW u \in Workers, NEW v \in Workers, held'[u] > 0, held'[u] = held'[v]
                 PROVE  u = v
      OBVIOUS
    <3>1. CASE u # w /\ v # w
      BY <3>1, <2>1 DEF TokensOwned
    <3> QED BY <3>1, <2>1
  <2>3. ASSUME NEW v \in Workers, work'[v] \in {"started", "running"}
        PROVE  state'[held'[v]] # "completed"
    <3>1. CASE v = w
      BY <3>1, <2>1, <1>3
    <3>2. CASE v # w
      <4>1. work'[v] = work[v]
        BY <3>2, <1>2 DEF TokenTypes
      <4>2. held[v] \in 1 .. n
        BY <3>2, <2>1, <2>3, <4>1 DEF TokensHeld
      <4> QED BY <3>2, <2>1, <2>3, <4>1, <4>2, <1>3 DEF TokensOwned
    <3> QED BY <3>1, <3>2
  <2> QED BY <2>2, <2>3 DEF TokensOwned
<1> QED BY <1>6, <1>7, <1>8, <1>9, <1>10

\* A worker moves on; its token leaves "active" at most.
LEMMA WorkerPreservesTokens ==
    ASSUME TokenInv, NEW w \in Workers, NEW to \in WorkerSteps,
           work[w] # "new", work' = [work EXCEPT ![w] = to],
           UNCHANGED <<reason, held, wid, cpc, cheld>>,
           \/ /\ UNCHANGED state /\ to \in {"started", "running", "finished"}
           \/ /\ state[held[w]] = "active" /\ to = "completed"
              /\ state' = [state EXCEPT ![held[w]] = "completed"]
           \/ /\ state[held[w]] = "cancelled" /\ to = "cancelled" /\ UNCHANGED state,
           \/ /\ UNCHANGED tokens /\ (to \in {"started", "running"} => work[w] \in {"started", "running"})
           \/ /\ tokens' = [tokens EXCEPT ![wid[w]] = 0] /\ to = "finished"
    PROVE  TokenInv'
<1> USE DEF TokenInv
<1>1. PICK n \in Nat : n = Len(state) /\ DOMAIN state = 1 .. n
  BY LenProperties DEF TokenTypes
<1>2. PICK h \in 1 .. n : h = held[w]
  BY <1>1 DEF TokenTypes, TokensHeld
<1>3. /\ state' \in Seq(TokenStates) /\ Len(state') = n
      /\ \A t \in 1 .. n : state'[t] = state[t]
                           \/ (t = h /\ state[t] = "active" /\ state'[t] = "completed" /\ to = "completed")
  <2>1. CASE UNCHANGED state
    BY <2>1, <1>1 DEF TokenTypes
  <2>2. CASE state[h] = "active" /\ to = "completed" /\ state' = [state EXCEPT ![h] = "completed"]
    <3>1. state' \in Seq(TokenStates) /\ Len(state') = n
      BY <2>2, <1>1, <1>2, ExceptSeq DEF TokenTypes, TokenStates
    <3> QED BY <2>2, <3>1, <1>1, <1>2
  <2> QED BY <2>1, <2>2, <1>2
<1>4. TokenTypes'
  <2>1. tokens' \in [Ids -> 0 .. n]
    BY <1>1 DEF TokenTypes
  <2>2. work' \in [Workers -> WorkerSteps]
    BY DEF TokenTypes
  <2> QED BY <1>1, <1>3, <2>1, <2>2 DEF TokenTypes
<1>5. TokensHeld'
  BY <1>2 DEF TokensHeld, TokenTypes
<1>6. OneWinner'
  <2>1. \A c \in Cancellers, t \in 1 .. n : Won(c, t)' <=> Won(c, t)
    BY DEF Won
  <2>2. ASSUME NEW v \in Workers, work'[v] \in {"completed", "cancelled"}
        PROVE  /\ work'[v] = "completed" => state'[held'[v]] = "completed"
               /\ work'[v] = "cancelled" => state'[held'[v]] = "cancelled"
    <3>1. CASE v = w
      <4>1. work'[w] = to
        BY DEF TokenTypes
      <4>2. CASE to = "completed"
        <5>1. state[h] = "active" /\ state' = [state EXCEPT ![h] = "completed"]
          BY <1>2, <4>2
        <5>2. state'[h] = "completed"
          BY <5>1, <1>1
        <5> QED BY <3>1, <4>1, <4>2, <5>2, <1>2
      <4>3. CASE to = "cancelled"
        BY <3>1, <4>1, <4>3, <1>2
      <4> QED BY <3>1, <4>1, <4>2, <4>3, <2>2
    <3>2. CASE v # w
      <4>1. work'[v] = work[v]
        BY <3>2 DEF TokenTypes
      <4>2. held[v] \in 1 .. n
        BY <4>1, <2>2, <1>1 DEF TokenTypes, TokensHeld
      <4>3. /\ work[v] = "completed" => state[held[v]] = "completed"
            /\ work[v] = "cancelled" => state[held[v]] = "cancelled"
        BY DEF OneWinner
      <4> QED BY <4>1, <4>2, <4>3, <2>2, <1>3
    <3> QED BY <3>1, <3>2
  <2>3. \A v \in Workers :
          /\ work'[v] = "completed" => state'[held'[v]] = "completed"
          /\ work'[v] = "cancelled" => state'[held'[v]] = "cancelled"
    BY <2>2
  <2>4. \A t \in 1 .. n : state'[t] = "cancelled" <=> state[t] = "cancelled"
    BY <1>3
  <2>5. ASSUME NEW t \in 1 .. n
        PROVE  /\ state'[t] = "cancelled" <=> \E c \in Cancellers : Won(c, t)'
               /\ reason'[t] # "none" => \E c \in Cancellers : reason'[t] = c /\ Won(c, t)'
    BY <2>1, <2>4, <1>1 DEF OneWinner
  <2>6. \A c, d \in Cancellers, t \in 1 .. n : Won(c, t)' /\ Won(d, t)' => c = d
    BY <2>1, <1>1 DEF OneWinner
  <2> QED BY <1>3, <2>3, <2>5, <2>6 DEF OneWinner
<1>7. Reachable'
  <2> SUFFICES ASSUME NEW v \in Workers, work'[v] \in {"started", "running"},
                      \A o \in Workers : wid[o] = wid[v] => o = v
               PROVE  tokens'[wid[v]] = held[v]
    BY DEF Reachable
  <2>1. CASE v = w
    <3>1. work'[w] = to
      BY DEF TokenTypes
    <3> QED BY <2>1, <3>1 DEF Reachable
  <2>2. CASE v # w
    <3>1. work'[v] = work[v] /\ wid[v] # wid[w]
      BY <2>2 DEF TokenTypes
    <3>2. tokens'[wid[v]] = tokens[wid[v]]
      BY <3>1 DEF TokenTypes
    <3> QED BY <3>1, <3>2 DEF Reachable
  <2> QED BY <2>1, <2>2
<1>8. TokensOwned'
  <2>1. \A u, v \in Workers : held'[u] > 0 /\ held'[u] = held'[v] => u = v
    BY DEF TokensOwned
  <2>2. ASSUME NEW v \in Workers, work'[v] \in {"started", "running"}
        PROVE  state'[held'[v]] # "completed"
    <3>1. work[v] \in {"started", "running"} /\ (v = w => to \in {"started", "running"})
      BY <2>2 DEF TokenTypes
    <3>2. PICK x \in 1 .. n : x = held[v]
      BY <3>1, <1>1 DEF TokenTypes, TokensHeld
    <3>3. state[x] # "completed"
      BY <3>1, <3>2 DEF TokensOwned
    <3>4. x = h => v = w
      <4>1. held[v] > 0
        BY <3>2
      <4> QED BY <4>1, <3>2, <1>2 DEF TokensOwned
    <3> QED BY <3>1, <3>2, <3>3, <3>4, <1>3
  <2> QED BY <2>1, <2>2 DEF TokensOwned
<1> QED BY <1>4, <1>5, <1>6, <1>7, <1>8

\* A canceller moves on; it wins the token only when it was active.
LEMMA CancellerPreservesTokens ==
    ASSUME TokenInv, NEW c \in Cancellers, Cancel(c) \/ StoreReason(c) \/ \E i \in Ids : Lookup(c, i)
    PROVE  TokenInv'
<1> USE DEF TokenInv
<1>1. PICK n \in Nat : n = Len(state) /\ DOMAIN state = 1 .. n /\ DOMAIN reason = 1 .. n
  BY LenProperties DEF TokenTypes
<1>2. ASSUME NEW i \in Ids, Lookup(c, i) PROVE TokenInv'
  <2>1. /\ cpc[c] = "idle" /\ cheld' = [cheld EXCEPT ![c] = tokens[i]]
        /\ \/ cpc' = [cpc EXCEPT ![c] = "found"] /\ tokens[i] # 0
           \/ cpc' = [cpc EXCEPT ![c] = "false"]
        /\ UNCHANGED <<tokens, state, reason, held, work, wid>>
    BY <1>2 DEF Lookup, CancelTo, tokenVars
  <2>2. TokenTypes'
    BY <2>1 DEF TokenTypes, CancellerSteps
  <2>3. TokensHeld'
    BY <2>1 DEF TokensHeld, TokenTypes
  <2>4. \A d \in Cancellers, t \in 1 .. n : Won(d, t)' <=> Won(d, t)
    BY <2>1 DEF Won, TokenTypes
  <2>5. OneWinner'
    BY <2>1, <2>4, <1>1 DEF OneWinner
  <2>6. Reachable' /\ TokensOwned'
    BY <2>1 DEF Reachable, TokensOwned
  <2> QED BY <2>2, <2>3, <2>5, <2>6
<1>3. CASE Cancel(c)
  <2>1. PICK h \in 1 .. n : h = cheld[c]
    BY <1>1, <1>3 DEF Cancel, TokenTypes, TokensHeld
  <2>2. cpc[c] = "found" /\ UNCHANGED <<tokens, reason, held, work, wid, cheld>>
    BY <1>3 DEF Cancel
  <2>3. TokensHeld' /\ Reachable'
    BY <1>3, <2>1, <2>2 DEF Cancel, CancelTo, TokensHeld, TokenTypes, Reachable
  <2>4. CASE state[h] # "active" /\ cpc' = [cpc EXCEPT ![c] = "false"] /\ UNCHANGED state
    <3>1. TokenTypes'
      BY <2>2, <2>4 DEF TokenTypes, CancellerSteps
    <3>2. \A d \in Cancellers, t \in 1 .. n : Won(d, t)' <=> Won(d, t)
      BY <2>2, <2>4 DEF Won, TokenTypes
    <3>3. OneWinner'
      BY <2>2, <2>4, <3>2, <1>1 DEF OneWinner
    <3>4. TokensOwned'
      BY <2>2, <2>4 DEF TokensOwned
    <3> QED BY <2>3, <3>1, <3>3, <3>4
  <2>5. CASE /\ state[h] = "active" /\ cpc' = [cpc EXCEPT ![c] = "reason"]
             /\ state' = [state EXCEPT ![h] = "cancelled"]
    <3>1. state' \in Seq(TokenStates) /\ Len(state') = n
      BY <2>5, <1>1, ExceptSeq DEF TokenTypes, TokenStates
    <3>2. state'[h] = "cancelled" /\ \A t \in 1 .. n : t # h => state'[t] = state[t]
      BY <2>5, <1>1
    <3>3. TokenTypes'
      BY <2>2, <2>5, <3>1, <1>1 DEF TokenTypes, CancellerSteps
    <3>4. \A d \in Cancellers : ~Won(d, h)
      BY <2>5, <1>1 DEF OneWinner
    <3>5. \A d \in Cancellers, t \in 1 .. n : Won(d, t)' <=> (Won(d, t) \/ (d = c /\ t = h))
      BY <2>1, <2>2, <2>5 DEF Won, TokenTypes
    <3>6. \A d, e \in Cancellers, t \in 1 .. n : Won(d, t)' /\ Won(e, t)' => d = e
      BY <3>4, <3>5, <1>1 DEF OneWinner
    <3>7. ASSUME NEW t \in 1 .. n
          PROVE  /\ state'[t] = "cancelled" <=> \E d \in Cancellers : Won(d, t)'
                 /\ reason'[t] # "none" => \E d \in Cancellers : reason'[t] = d /\ Won(d, t)'
      <4>1. CASE t = h
        BY <4>1, <2>2, <3>2, <3>4, <3>5, <1>1 DEF OneWinner
      <4>2. CASE t # h
        BY <4>2, <2>2, <3>2, <3>5, <1>1 DEF OneWinner
      <4> QED BY <4>1, <4>2
    <3>8. ASSUME NEW v \in Workers
          PROVE  /\ work'[v] = "completed" => state'[held'[v]] = "completed"
                 /\ work'[v] = "cancelled" => state'[held'[v]] = "cancelled"
      <4>1. work[v] # "new" => held[v] \in 1 .. n
        BY <1>1 DEF TokenTypes, TokensHeld
      <4>2. /\ work[v] = "completed" => state[held[v]] = "completed"
            /\ work[v] = "cancelled" => state[held[v]] = "cancelled"
        BY DEF OneWinner
      <4> QED BY <4>1, <4>2, <2>2, <2>5, <3>2
    <3>9. OneWinner'
      BY <3>1, <3>6, <3>7, <3>8 DEF OneWinner
    <3>10. ASSUME NEW v \in Workers, work[v] \in {"started", "running"}
           PROVE  state'[held[v]] # "completed"
      <4>1. held[v] \in 1 .. n
        BY <3>10, <1>1, HeldIsToken
      <4> QED BY <4>1, <3>2, <3>10 DEF TokensOwned
    <3>11. TokensOwned'
      BY <2>2, <3>10 DEF TokensOwned
    <3> QED BY <2>3, <3>3, <3>9, <3>11
  <2> QED BY <1>3, <2>1, <2>4, <2>5 DEF Cancel, CancelTo
<1>4. CASE StoreReason(c)
  <2>1. /\ cpc[c] = "reason" /\ cpc' = [cpc EXCEPT ![c] = "true"]
        /\ reason' = [reason EXCEPT ![cheld[c]] = c]
        /\ UNCHANGED <<tokens, state, held, work, wid, cheld>>
    BY <1>4 DEF StoreReason, CancelTo
  <2>2. PICK h \in 1 .. n : h = cheld[c]
    BY <2>1, <1>1 DEF TokenTypes, TokensHeld
  <2>3. reason' \in Seq(Cancellers \cup {"none"}) /\ Len(reason') = n
    BY <2>1, <2>2, <1>1, ExceptSeq DEF TokenTypes
  <2>4. reason'[h] = c /\ \A t \in 1 .. n : t # h => reason'[t] = reason[t]
    BY <2>1, <2>2, <1>1
  <2>5. TokenTypes'
    BY <2>1, <2>3, <1>1 DEF TokenTypes, CancellerSteps
  <2>6. TokensHeld' /\ Reachable' /\ TokensOwned'
    BY <2>1 DEF TokensHeld, TokenTypes, Reachable, TokensOwned
  <2>7. Won(c, h)' /\ \A d \in Cancellers, t \in 1 .. n : Won(d, t)' <=> Won(d, t)
    BY <2>1, <2>2 DEF Won, TokenTypes
  <2>8. ASSUME NEW t \in 1 .. n
        PROVE  reason'[t] # "none" => \E d \in Cancellers : reason'[t] = d /\ Won(d, t)'
    <3>1. CASE t = h
      BY <3>1, <2>4, <2>7
    <3>2. CASE t # h
      BY <3>2, <2>4, <2>7, <1>1 DEF OneWinner
    <3> QED BY <3>1, <3>2
  <2>9. OneWinner'
    BY <2>1, <2>7, <2>8, <1>1 DEF OneWinner
  <2> QED BY <2>5, <2>6, <2>9
<1> QED BY <1>2, <1>3, <1>4

\* Every step keeps the tokens.
LEMMA StepPreservesTokens == TokenInv /\ [CancelNext]_cancelVars => TokenInv'
<1> SUFFICES ASSUME TokenInv, [CancelNext]_cancelVars PROVE TokenInv'
  OBVIOUS
<1>1. CASE UNCHANGED <<tokens, state, reason, work, held, wid, cpc, cheld>>
  BY <1>1 DEF TokenInv, TokenTypes, TokensHeld, OneWinner, TokensOwned, Reachable, Won
<1>2. ASSUME NEW w \in Workers, StartProgress(w) \/ Complete(w) \/ RemoveToken(w) PROVE TokenInv'
  <2>1. CASE StartProgress(w)
    <3>1. /\ work[w] = "started" /\ work' = [work EXCEPT ![w] = "running"]
          /\ UNCHANGED <<tokens, state, reason, held, wid, cpc, cheld>>
      BY <2>1 DEF StartProgress, WorkTo, OtherThanProgress, tokenVars
    <3>2. "running" \in WorkerSteps
      BY DEF WorkerSteps
    <3> QED BY <3>1, <3>2, WorkerPreservesTokens
  <2>2. CASE Complete(w)
    <3>1. work[w] = "running" /\ UNCHANGED <<tokens, reason, held, wid, cpc, cheld>>
      BY <2>2 DEF Complete
    <3>2. CASE /\ state[held[w]] = "active" /\ work' = [work EXCEPT ![w] = "completed"]
               /\ state' = [state EXCEPT ![held[w]] = "completed"]
      <4>1. "completed" \in WorkerSteps
        BY DEF WorkerSteps
      <4> QED BY <3>1, <3>2, <4>1, WorkerPreservesTokens
    <3>3. CASE state[held[w]] # "active" /\ work' = [work EXCEPT ![w] = "cancelled"] /\ UNCHANGED state
      <4>1. state[held[w]] # "completed"
        BY <3>1 DEF TokenInv, TokensOwned
      <4>2. held[w] \in 1 .. Len(state) /\ \A t \in 1 .. Len(state) : state[t] \in TokenStates
        <5>1. held[w] \in 1 .. Len(state)
          BY <3>1, HeldIsToken
        <5> QED BY <5>1 DEF TokenInv, TokenTypes
      <4>3. state[held[w]] = "cancelled"
        BY <3>3, <4>1, <4>2 DEF TokenStates
      <4>4. "cancelled" \in WorkerSteps
        BY DEF WorkerSteps
      <4> QED BY <3>1, <3>3, <4>3, <4>4, WorkerPreservesTokens
    <3> QED BY <2>2, <3>2, <3>3 DEF Complete, WorkTo
  <2>3. CASE RemoveToken(w)
    <3>1. /\ work[w] # "new" /\ work' = [work EXCEPT ![w] = "finished"]
          /\ tokens' = [tokens EXCEPT ![wid[w]] = 0]
          /\ UNCHANGED <<state, reason, held, wid, cpc, cheld>>
      BY <2>3 DEF RemoveToken, WorkTo
    <3>2. "finished" \in WorkerSteps
      BY DEF WorkerSteps
    <3> QED BY <3>1, <3>2, WorkerPreservesTokens
  <2> QED BY <1>2, <2>1, <2>2, <2>3
<1>3. ASSUME NEW w \in Workers, CompleteProgress(w) \/ RemoveProgress(w) \/ \E v \in Percent : Update(w, v)
      PROVE  UNCHANGED <<tokens, state, reason, work, held, wid, cpc, cheld>>
  BY <1>3 DEF CompleteProgress, RemoveProgress, Update, OtherThanProgress, tokenVars
<1> QED BY <1>1, <1>2, <1>3, CreatePreservesTokens, CancellerPreservesTokens DEF CancelNext, cancelVars

\* At the start no token is cancelled.
LEMMA InitialTokens == CancelInit => TokenInv
<1> SUFFICES ASSUME CancelInit PROVE TokenInv
  OBVIOUS
<1>1. /\ state = <<>> /\ reason = <<>> /\ tokens = [i \in Ids |-> 0]
      /\ work = [w \in Workers |-> "new"] /\ held = [w \in Workers |-> 0]
      /\ wid \in [Workers -> Ids]
      /\ cpc = [c \in Cancellers |-> "idle"] /\ cheld = [c \in Cancellers |-> 0]
  BY DEF CancelInit
<1>2. Len(state) = 0 /\ Len(reason) = 0
  BY <1>1
<1>3. TokenTypes
  BY <1>1, <1>2 DEF TokenTypes, WorkerSteps, CancellerSteps
<1>4. TokensHeld /\ TokensOwned /\ Reachable /\ OneWinner
  BY <1>1, <1>2 DEF TokensHeld, TokensOwned, Reachable, OneWinner
<1> QED BY <1>3, <1>4 DEF TokenInv

\* What the tokens' invariant says of the table, the workers and cancellers.
LEMMA TokensSettle == TokenInv => CancelOrComplete
<1> SUFFICES ASSUME TokenInv PROVE CancelOrComplete
  OBVIOUS
<1>1. ASSUME NEW t \in DOMAIN state
      PROVE  LET winners == {c \in Cancellers : cheld[c] = t /\ cpc[c] \in {"reason", "true"}}
             IN  /\ Cardinality(winners) <= 1
                 /\ (state[t] = "cancelled") <=> (winners # {})
                 /\ reason[t] # "none" => reason[t] \in winners
  <2> DEFINE winners == {c \in Cancellers : cheld[c] = t /\ cpc[c] \in {"reason", "true"}}
  <2>1. t \in 1 .. Len(state)
    BY <1>1, LenProperties DEF TokenInv, TokenTypes
  <2>2. \A c : c \in winners <=> c \in Cancellers /\ Won(c, t)
    BY DEF Won
  <2> HIDE DEF winners
  <2>3. \A c, d \in winners : c = d
    BY <2>1, <2>2 DEF TokenInv, OneWinner
  <2>4. Cardinality(winners) <= 1
    <3>1. CASE winners = {}
      BY <3>1, FS_EmptySet
    <3>2. ASSUME NEW c \in winners PROVE Cardinality(winners) <= 1
      <4>1. winners = {c}
        BY <3>2, <2>3
      <4>2. Cardinality({c}) = 1
        BY FS_Singleton
      <4> QED BY <4>1, <4>2
    <3> QED BY <3>1, <3>2
  <2>5. (state[t] = "cancelled") <=> (winners # {})
    BY <2>1, <2>2 DEF TokenInv, OneWinner
  <2>6. reason[t] # "none" => reason[t] \in winners
    BY <2>1, <2>2 DEF TokenInv, OneWinner
  <2> QED BY <2>4, <2>5, <2>6 DEF winners
<1> QED BY <1>1 DEF TokenInv, OneWinner, Reachable, CancelOrComplete

----------------------------------------------------------------------------
(* Cancellation: progress.  A progress that is open counts as one final     *)
(* notice to come, so that no start pays for two                           *)

Mine(i)   == {k \in DOMAIN notices : notices[k][1] = i}
Finals(i) == {k \in Mine(i) : notices[k][3]}
Starts(i) == {w \in Workers : wid[w] = i /\ work[w] \notin {"new", "started"}}
Open(i)   == IF progress[i].tracked /\ ~progress[i].completed THEN 1 ELSE 0

NoticeTypes ==
    /\ notices \in Seq(Ids \X (0 .. 100) \X BOOLEAN)
    /\ progress \in [Ids -> [value : 0 .. 100, completed : BOOLEAN, tracked : BOOLEAN]]
    /\ work \in [Workers -> WorkerSteps] /\ wid \in [Workers -> Ids]

FinalsPaid == \A i \in Ids : Cardinality(Finals(i)) + Open(i) <= Cardinality(Starts(i))

FinalsLast == \A i \in Ids : progress[i].completed => \E k \in Finals(i) : \A j \in Mine(i) : j <= k

NoticeInv == NoticeTypes /\ FinalsPaid /\ FinalsLast

\* What is counted is finite.
LEMMA NoticesFinite ==
    ASSUME NoticeTypes, NEW i \in Ids
    PROVE  /\ IsFiniteSet(Finals(i)) /\ IsFiniteSet(Starts(i))
           /\ Cardinality(Finals(i)) \in Nat /\ Cardinality(Starts(i)) \in Nat /\ Open(i) \in 0 .. 1
<1>1. PICK n \in Nat : DOMAIN notices = 1 .. n
  BY LenProperties DEF NoticeTypes
<1>2. Finals(i) \subseteq 1 .. n /\ Starts(i) \subseteq Workers
  BY <1>1 DEF Finals, Mine, Starts
<1>3. IsFiniteSet(Finals(i)) /\ IsFiniteSet(Starts(i))
  BY <1>2, FS_Interval, FS_Subset, CancellationAssumption
<1> QED BY <1>3, FS_CardinalityType DEF Open

\* Number k is the new last notice of i.
NoticedAt(i, final, k) ==
    /\ Mine(i)' = Mine(i) \cup {k} /\ k \notin Finals(i)
    /\ Finals(i)' = IF final THEN Finals(i) \cup {k} ELSE Finals(i)
    /\ \A j \in Mine(i)' : j <= k

\* A notice is appended: what each id has of them.
LEMMA NoticeAppended ==
    ASSUME NoticeTypes, NEW i \in Ids, NEW v \in 0 .. 100, NEW final \in BOOLEAN, Notify(i, v, final)
    PROVE  /\ notices' \in Seq(Ids \X (0 .. 100) \X BOOLEAN)
           /\ \A o \in Ids : o # i => Mine(o)' = Mine(o) /\ Finals(o)' = Finals(o)
           /\ \E k : NoticedAt(i, final, k)
<1>1. PICK n \in Nat : n = Len(notices) /\ DOMAIN notices = 1 .. n
  BY LenProperties DEF NoticeTypes
<1>2. PICK e : e = <<i, v, final>>
  OBVIOUS
<1>3. e \in Ids \X (0 .. 100) \X BOOLEAN /\ e[1] = i /\ e[3] = final
  BY <1>2
<1>4. notices' = Append(notices, e)
  BY <1>2 DEF Notify
<1>5. /\ notices' \in Seq(Ids \X (0 .. 100) \X BOOLEAN) /\ DOMAIN notices' = 1 .. (n + 1)
      /\ notices'[n + 1] = e /\ \A k \in 1 .. n : notices'[k] = notices[k]
  BY <1>1, <1>3, <1>4, AppendProperties, LenProperties DEF NoticeTypes
<1>6. \A o \in Ids : o # i => Mine(o)' = Mine(o)
  BY <1>1, <1>3, <1>5 DEF Mine
<1>7. Mine(i)' = Mine(i) \cup {n + 1} /\ n + 1 \notin Mine(i)
  BY <1>1, <1>3, <1>5 DEF Mine
<1>8. \A o \in Ids : Mine(o) \subseteq 1 .. n
  BY <1>1 DEF Mine
<1>9. \A o \in Ids : o # i => Finals(o)' = Finals(o)
  BY <1>5, <1>6, <1>8 DEF Finals
<1>10. Finals(i)' = IF final THEN Finals(i) \cup {n + 1} ELSE Finals(i)
  <2>1. \A k \in Mine(i) : notices'[k] = notices[k]
    BY <1>5, <1>8
  <2>2. notices'[n + 1][3] = final
    BY <1>3, <1>5
  <2>3. \A k : k \in Finals(i)' <=> k \in Finals(i) \/ (k = n + 1 /\ final)
    BY <1>7, <2>1, <2>2 DEF Finals
  <2>4. CASE final
    BY <2>3, <2>4
  <2>5. CASE ~final
    BY <2>3, <2>5
  <2> QED BY <2>4, <2>5
<1>11. n + 1 \notin Finals(i)
  BY <1>7 DEF Finals
<1>12. \A j \in Mine(i)' : j <= n + 1
  BY <1>7, <1>8
<1>13. NoticedAt(i, final, n + 1)
  BY <1>7, <1>10, <1>11, <1>12 DEF NoticedAt
<1> QED BY <1>5, <1>6, <1>9, <1>13

\* Steps that report nothing and start nothing.
LEMMA QuietKeepsNotices ==
    ASSUME NoticeInv, UNCHANGED <<progress, notices, wid>>, work' \in [Workers -> WorkerSteps],
           \A w \in Workers : work'[w] \in {"new", "started"} <=> work[w] \in {"new", "started"}
    PROVE  NoticeInv'
<1>1. NoticeTypes'
  BY DEF NoticeInv, NoticeTypes
<1>2. \A i \in Ids : Mine(i)' = Mine(i) /\ Finals(i)' = Finals(i) /\ Open(i)' = Open(i)
  BY DEF Mine, Finals, Open
<1>3. \A i \in Ids : Starts(i)' = Starts(i)
  BY DEF Starts
<1> QED BY <1>1, <1>2, <1>3 DEF NoticeInv, FinalsPaid, FinalsLast

\* start(): one more start pays for the progress it opens.
LEMMA StartKeepsNotices ==
    ASSUME NoticeInv, NEW w \in Workers, StartProgress(w) PROVE NoticeInv'
<1>0. PICK i \in Ids : i = wid[w]
  BY DEF NoticeInv, NoticeTypes
<1>1. /\ work[w] = "started" /\ work' = [work EXCEPT ![w] = "running"] /\ UNCHANGED <<notices, wid>>
      /\ progress' = [progress EXCEPT ![i] = [value |-> 0, completed |-> FALSE, tracked |-> TRUE]]
  BY <1>0 DEF StartProgress, WorkTo, OtherThanProgress
<1>2. NoticeTypes
  BY DEF NoticeInv
<1>3. NoticeTypes'
  <2>1. [value |-> 0, completed |-> FALSE, tracked |-> TRUE]
          \in [value : 0 .. 100, completed : BOOLEAN, tracked : BOOLEAN]
    OBVIOUS
  <2> QED BY <1>1, <1>2, <2>1 DEF NoticeTypes, WorkerSteps
<1>4. /\ progress'[i].completed = FALSE /\ progress'[i].tracked = TRUE
      /\ \A o \in Ids : o # i => progress'[o] = progress[o]
  BY <1>1, <1>2 DEF NoticeTypes
<1>5. \A o \in Ids : Mine(o)' = Mine(o) /\ Finals(o)' = Finals(o) /\ (o # i => Open(o)' = Open(o))
  BY <1>1, <1>4 DEF Mine, Finals, Open
<1>6. Open(i)' \in 0 .. 1
  BY <1>2, <1>3, NoticesFinite DEF Open
<1>7. /\ Starts(i)' = Starts(i) \cup {w} /\ w \notin Starts(i)
      /\ \A o \in Ids : o # i => Starts(o)' = Starts(o)
  BY <1>0, <1>1, <1>2 DEF Starts, NoticeTypes
<1>8. Cardinality(Starts(i)') = Cardinality(Starts(i)) + 1
  BY <1>2, <1>7, NoticesFinite, FS_AddElement
<1>9. Cardinality(Finals(i)) + Open(i) <= Cardinality(Starts(i)) /\ Open(i) \in 0 .. 1
      /\ Cardinality(Finals(i)) \in Nat /\ Cardinality(Starts(i)) \in Nat
  BY <1>2, NoticesFinite DEF NoticeInv, FinalsPaid
<1>10. Cardinality(Finals(i)') + Open(i)' <= Cardinality(Starts(i)')
  BY <1>2, <1>5, <1>6, <1>8, <1>9
<1>11. FinalsPaid'
  BY <1>5, <1>7, <1>10 DEF NoticeInv, FinalsPaid
<1>12. FinalsLast'
  BY <1>4, <1>5 DEF NoticeInv, FinalsLast
<1> QED BY <1>3, <1>11, <1>12 DEF NoticeInv

\* update() and complete(): the notice goes out while the progress is open.
LEMMA ReportKeepsNotices ==
    ASSUME NoticeInv, NEW i \in Ids, NEW v \in 0 .. 100, NEW final \in BOOLEAN, Notify(i, v, final),
           progress[i].tracked, ~progress[i].completed, UNCHANGED <<work, wid>>,
           progress' \in [Ids -> [value : 0 .. 100, completed : BOOLEAN, tracked : BOOLEAN]],
           progress'[i].completed = final, progress'[i].tracked = TRUE,
           \A o \in Ids : o # i => progress'[o] = progress[o]
    PROVE  NoticeInv'
<1>1. NoticeTypes
  BY DEF NoticeInv
<1>new. PICK k : NoticedAt(i, final, k)
  BY <1>1, NoticeAppended, Zenon
<1>2. /\ Mine(i)' = Mine(i) \cup {k} /\ k \notin Finals(i)
      /\ Finals(i)' = IF final THEN Finals(i) \cup {k} ELSE Finals(i)
      /\ \A j \in Mine(i)' : j <= k
  BY <1>new DEF NoticedAt
<1>3. /\ notices' \in Seq(Ids \X (0 .. 100) \X BOOLEAN)
      /\ \A o \in Ids : o # i => Mine(o)' = Mine(o) /\ Finals(o)' = Finals(o)
  BY <1>1, NoticeAppended
<1>4. NoticeTypes'
  BY <1>1, <1>3 DEF NoticeTypes
<1>5. /\ progress'[i].completed = final /\ progress'[i].tracked = TRUE
      /\ \A o \in Ids : o # i => progress'[o] = progress[o]
  OBVIOUS
<1>6. \A o \in Ids : Starts(o)' = Starts(o) /\ (o # i => Open(o)' = Open(o))
  BY <1>5 DEF Starts, Open
<1>7. Open(i) = 1 /\ Open(i)' = IF final THEN 0 ELSE 1
  <2>1. Open(i) = 1
    BY DEF Open
  <2>2. CASE final
    BY <2>1, <2>2, <1>5 DEF Open
  <2>3. CASE ~final
    BY <2>1, <2>3, <1>5 DEF Open
  <2> QED BY <2>2, <2>3
<1>8. Cardinality(Finals(i)') = IF final THEN Cardinality(Finals(i)) + 1 ELSE Cardinality(Finals(i))
  <2>1. IsFiniteSet(Finals(i))
    BY <1>1, NoticesFinite
  <2>2. Cardinality(Finals(i) \cup {k}) = Cardinality(Finals(i)) + 1
    BY <1>2, <2>1, FS_AddElement
  <2> QED BY <1>2, <2>2
<1>9. Cardinality(Finals(i)) + Open(i) <= Cardinality(Starts(i))
      /\ Cardinality(Finals(i)) \in Nat /\ Cardinality(Starts(i)) \in Nat
  BY <1>1, NoticesFinite DEF NoticeInv, FinalsPaid
<1>10. Cardinality(Finals(i)') + Open(i)' <= Cardinality(Starts(i)')
  BY <1>6, <1>7, <1>8, <1>9
<1>11. FinalsPaid'
  BY <1>3, <1>6, <1>10 DEF NoticeInv, FinalsPaid
<1>12. FinalsLast'
  <2> SUFFICES ASSUME NEW o \in Ids, progress'[o].completed
               PROVE  \E x \in Finals(o)' : \A j \in Mine(o)' : j <= x
    BY DEF FinalsLast
  <2>1. CASE o = i
    <3>1. final
      BY <2>1, <1>5
    <3>2. k \in Finals(i)'
      BY <3>1, <1>2
    <3> QED BY <2>1, <3>2, <1>2
  <2>2. CASE o # i
    BY <2>2, <1>3, <1>5 DEF NoticeInv, FinalsLast
  <2> QED BY <2>1, <2>2
<1> QED BY <1>4, <1>11, <1>12 DEF NoticeInv

\* remove() closes the progress.
LEMMA RemoveKeepsNotices ==
    ASSUME NoticeInv, NEW w \in Workers, RemoveProgress(w) PROVE NoticeInv'
<1>0. PICK i \in Ids : i = wid[w]
  BY DEF NoticeInv, NoticeTypes
<1>1. /\ UNCHANGED <<work, notices, wid>> /\ progress' = [progress EXCEPT ![i] = NoProgress]
  BY <1>0 DEF RemoveProgress, OtherThanProgress
<1>2. NoticeTypes
  BY DEF NoticeInv
<1>3. NoProgress \in [value : 0 .. 100, completed : BOOLEAN, tracked : BOOLEAN]
  BY DEF NoProgress
<1>4. NoticeTypes'
  BY <1>1, <1>2, <1>3 DEF NoticeTypes
<1>5. /\ progress'[i].completed = FALSE /\ progress'[i].tracked = FALSE
      /\ \A o \in Ids : o # i => progress'[o] = progress[o]
  BY <1>1, <1>2 DEF NoticeTypes, NoProgress
<1>6. \A o \in Ids : /\ Mine(o)' = Mine(o) /\ Finals(o)' = Finals(o) /\ Starts(o)' = Starts(o)
                     /\ (o # i => Open(o)' = Open(o))
  BY <1>1, <1>5 DEF Mine, Finals, Starts, Open
<1>7. Open(i)' = 0
  BY <1>5 DEF Open
<1>8. Cardinality(Finals(i)) + Open(i) <= Cardinality(Starts(i)) /\ Open(i) \in 0 .. 1
      /\ Cardinality(Finals(i)) \in Nat /\ Cardinality(Starts(i)) \in Nat
  BY <1>2, NoticesFinite DEF NoticeInv, FinalsPaid
<1>9. Cardinality(Finals(i)') + Open(i)' <= Cardinality(Starts(i)')
  BY <1>2, <1>6, <1>7, <1>8
<1>10. FinalsPaid'
  BY <1>6, <1>9 DEF NoticeInv, FinalsPaid
<1>11. FinalsLast'
  BY <1>5, <1>6 DEF NoticeInv, FinalsLast
<1> QED BY <1>4, <1>10, <1>11 DEF NoticeInv

\* Every step keeps what is known of the notices.
LEMMA StepPreservesNotices == NoticeInv /\ [CancelNext]_cancelVars => NoticeInv'
<1> SUFFICES ASSUME NoticeInv, [CancelNext]_cancelVars PROVE NoticeInv'
  OBVIOUS
<1>1. CASE UNCHANGED <<progress, notices, wid, work>>
  BY <1>1, QuietKeepsNotices DEF NoticeInv, NoticeTypes
<1>2. ASSUME NEW w \in Workers, CreateToken(w) \/ Complete(w) \/ RemoveToken(w) PROVE NoticeInv'
  <2>1. UNCHANGED <<progress, notices, wid>>
    BY <1>2 DEF CreateToken, Complete, RemoveToken, progressVars
  <2>2. \/ work[w] = "new" /\ work' = [work EXCEPT ![w] = "started"]
        \/ \E to \in {"completed", "cancelled", "finished"} :
             work[w] \in {"running", "completed", "cancelled"} /\ work' = [work EXCEPT ![w] = to]
    BY <1>2 DEF CreateToken, Complete, RemoveToken, WorkTo
  <2>3. work \in [Workers -> WorkerSteps]
    BY DEF NoticeInv, NoticeTypes
  <2>4. work' \in [Workers -> WorkerSteps]
    BY <2>2, <2>3 DEF WorkerSteps
  <2>5. \A v \in Workers : work'[v] \in {"new", "started"} <=> work[v] \in {"new", "started"}
    BY <2>2, <2>3
  <2> QED BY <2>1, <2>4, <2>5, QuietKeepsNotices
<1>3. ASSUME NEW w \in Workers, NEW v \in Percent, Update(w, v) PROVE NoticeInv'
  <2>1. PICK i \in Ids : i = wid[w]
    BY DEF NoticeInv, NoticeTypes
  <2>2. PICK x \in 0 .. 100 : x = Clamp(v)
    BY CancellationAssumption DEF Clamp
  <2>3. /\ progress[i].tracked /\ ~progress[i].completed /\ Notify(i, x, FALSE) /\ UNCHANGED <<work, wid>>
        /\ progress' = [progress EXCEPT ![i].value = x]
    BY <1>3, <2>1, <2>2 DEF Update, OtherThanProgress
  <2>4. progress \in [Ids -> [value : 0 .. 100, completed : BOOLEAN, tracked : BOOLEAN]]
    BY DEF NoticeInv, NoticeTypes
  <2>5. progress[i].completed = FALSE /\ progress[i].tracked = TRUE
    BY <2>3, <2>4
  <2>6. progress' \in [Ids -> [value : 0 .. 100, completed : BOOLEAN, tracked : BOOLEAN]]
    BY <2>3, <2>4
  <2>7. /\ progress'[i].completed = progress[i].completed /\ progress'[i].tracked = progress[i].tracked
        /\ \A o \in Ids : o # i => progress'[o] = progress[o]
    BY <2>3, <2>4
  <2> QED BY <2>3, <2>5, <2>6, <2>7, ReportKeepsNotices
<1>4. ASSUME NEW w \in Workers, CompleteProgress(w) PROVE NoticeInv'
  <2>1. PICK i \in Ids : i = wid[w]
    BY DEF NoticeInv, NoticeTypes
  <2>2. /\ progress[i].tracked /\ ~progress[i].completed /\ Notify(i, 100, TRUE) /\ UNCHANGED <<work, wid>>
        /\ progress' = [progress EXCEPT ![i] = [progress[i] EXCEPT !.value = 100, !.completed = TRUE]]
    BY <1>4, <2>1 DEF CompleteProgress, OtherThanProgress
  <2>3. progress \in [Ids -> [value : 0 .. 100, completed : BOOLEAN, tracked : BOOLEAN]]
    BY DEF NoticeInv, NoticeTypes
  <2>4. progress[i].tracked = TRUE
    BY <2>2, <2>3
  <2>5. progress' \in [Ids -> [value : 0 .. 100, completed : BOOLEAN, tracked : BOOLEAN]]
    <3>1. PICK q \in [value : 0 .. 100, completed : BOOLEAN, tracked : BOOLEAN] : q = progress[i]
      BY <2>3
    <3>2. PICK r \in [value : 0 .. 100, completed : BOOLEAN, tracked : BOOLEAN] : r = [q EXCEPT !.value = 100]
      <4>1. [q EXCEPT !.value = 100] \in [value : 0 .. 100, completed : BOOLEAN, tracked : BOOLEAN]
        OBVIOUS
      <4> QED BY <4>1
    <3>3. PICK p \in [value : 0 .. 100, completed : BOOLEAN, tracked : BOOLEAN] : p = [r EXCEPT !.completed = TRUE]
      <4>1. [r EXCEPT !.completed = TRUE] \in [value : 0 .. 100, completed : BOOLEAN, tracked : BOOLEAN]
        OBVIOUS
      <4> QED BY <4>1
    <3>4. progress' = [progress EXCEPT ![i] = p]
      BY <2>2, <3>1, <3>2, <3>3
    <3> QED BY <2>3, <3>4
  <2>6. /\ progress'[i].completed = TRUE /\ progress'[i].tracked = progress[i].tracked
        /\ \A o \in Ids : o # i => progress'[o] = progress[o]
    BY <2>2, <2>3
  <2> QED BY <2>2, <2>4, <2>5, <2>6, ReportKeepsNotices
<1>5. ASSUME NEW c \in Cancellers, Cancel(c) \/ StoreReason(c) \/ \E i \in Ids : Lookup(c, i)
      PROVE  UNCHANGED <<progress, notices, wid, work>>
  BY <1>5 DEF Cancel, StoreReason, Lookup, progressVars
<1>6. CASE UNCHANGED cancelVars
  BY <1>6, <1>1 DEF cancelVars
<1> QED BY <1>1, <1>2, <1>3, <1>4, <1>5, <1>6, StartKeepsNotices, RemoveKeepsNotices DEF CancelNext

\* Cancellation: a request is completed or cancelled and never both, everyone
\* hears the same, and the notices of a progress end with the final one, for
\* any requests, ids, cancellations and reports.
THEOREM CancellationAlwaysSettles == CancelSpec => []CancellationSettles
<1>1. CancelInit => NoticeInv
  <2> SUFFICES ASSUME CancelInit PROVE NoticeInv
    OBVIOUS
  <2>1. /\ work = [w \in Workers |-> "new"] /\ wid \in [Workers -> Ids] /\ notices = <<>>
        /\ progress = [i \in Ids |-> NoProgress]
    BY DEF CancelInit
  <2>2. NoticeTypes
    BY <2>1 DEF NoticeTypes, NoProgress, WorkerSteps
  <2>3. \A i \in Ids : Finals(i) = {} /\ Starts(i) = {}
    BY <2>1 DEF Finals, Mine, Starts
  <2>4. \A i \in Ids : progress[i].tracked = FALSE /\ progress[i].completed = FALSE
    BY <2>1 DEF NoProgress
  <2>5. \A i \in Ids : Open(i) = 0
    BY <2>4 DEF Open
  <2>6. Cardinality({}) = 0
    BY FS_EmptySet
  <2>7. FinalsPaid
    BY <2>3, <2>5, <2>6 DEF FinalsPaid
  <2>8. FinalsLast
    BY <2>4 DEF FinalsLast
  <2> QED BY <2>2, <2>7, <2>8 DEF NoticeInv
<1>2. NoticeInv => FinalNoticeIsLast
  <2> SUFFICES ASSUME NoticeInv PROVE FinalNoticeIsLast
    OBVIOUS
  <2>1. \A k \in DOMAIN notices : notices[k][2] \in 0 .. 100
    <3> SUFFICES ASSUME NEW k \in DOMAIN notices PROVE notices[k][2] \in 0 .. 100
      OBVIOUS
    <3>1. notices[k] \in Ids \X (0 .. 100) \X BOOLEAN
      BY DEF NoticeInv, NoticeTypes
    <3> QED BY <3>1
  <2>2. ASSUME NEW i \in Ids
        PROVE  /\ Cardinality(Finals(i)) <= Cardinality(Starts(i))
               /\ progress[i].completed => \E k \in Finals(i) : \A j \in Mine(i) : j <= k
    <3>1. /\ Cardinality(Finals(i)) + Open(i) <= Cardinality(Starts(i)) /\ Open(i) \in 0 .. 1
          /\ Cardinality(Finals(i)) \in Nat /\ Cardinality(Starts(i)) \in Nat
      BY NoticesFinite DEF NoticeInv, FinalsPaid
    <3> QED BY <3>1 DEF NoticeInv, FinalsLast
  <2> QED BY <2>1, <2>2 DEF FinalNoticeIsLast, Finals, Mine, Starts
<1>3. TokenInv /\ NoticeInv => CancellationSettles
  BY <1>2, TokensSettle DEF CancellationSettles
<1> QED BY <1>1, <1>3, InitialTokens, StepPreservesTokens, StepPreservesNotices, PTL DEF CancelSpec

----------------------------------------------------------------------------
(* Subscriptions: the registry, the tracker and the roots side by side *)

SubscriptionNext ==
    \/ SubscribeNext /\ UNCHANGED <<trackerVars, rootVars>>
    \/ TrackerNext /\ UNCHANGED <<subscribeVars, rootVars>>
    \/ RootsNext /\ UNCHANGED <<subscribeVars, trackerVars>>

SubscriptionSpec == SubscriptionInit /\ [][SubscriptionNext]_subscriptionVars

RootsInv ==
    /\ roots \in Seq(RootUris) /\ signals \in Nat /\ lagged \in BOOLEAN
    /\ RootsViewFresh

\* A signal that is sent is there to be read, or the loss of it is.
LEMMA SignalStays ==
    ASSUME signals \in Nat, lagged \in BOOLEAN, Signal
    PROVE  signals' \in Nat /\ lagged' \in BOOLEAN /\ ~(signals' = 0 /\ ~lagged')
<1>1. /\ signals' = IF signals < SignalCapacity THEN signals + 1 ELSE signals
      /\ lagged' = (lagged \/ signals >= SignalCapacity)
  BY DEF Signal
<1>2. CASE signals < SignalCapacity
  <2>1. signals' = signals + 1 /\ ~(signals >= SignalCapacity)
    BY <1>1, <1>2, SubscriptionAssumption
  <2>2. lagged' = lagged
    BY <1>1, <2>1, Zenon
  <2> QED BY <2>1, <2>2
<1>3. CASE ~(signals < SignalCapacity)
  <2>1. signals' = signals /\ signals >= SignalCapacity
    BY <1>1, <1>3, SubscriptionAssumption
  <2>2. lagged' = TRUE
    BY <1>1, <2>1, Zenon
  <2> QED BY <2>1, <2>2
<1> QED BY <1>2, <1>3

\* Every step leaves the listener with news, or with the list as it is.
LEMMA RootsStep == RootsInv /\ [SubscriptionNext]_subscriptionVars => RootsInv'
<1> SUFFICES ASSUME RootsInv, [SubscriptionNext]_subscriptionVars PROVE RootsInv'
  OBVIOUS
<1>1. roots \in Seq(RootUris) /\ signals \in Nat /\ lagged \in BOOLEAN /\ RootsViewFresh
  BY DEF RootsInv
<1>2. CASE AddRootSignal
  <2>1. Signal /\ UNCHANGED <<roots, view>>
    BY <1>2 DEF AddRootSignal
  <2> QED BY <1>1, <2>1, SignalStays DEF RootsInv, RootsViewFresh
<1>3. CASE ClearRoots
  <2>1. roots' = <<>> /\ roots' \in Seq(RootUris) /\ UNCHANGED <<rpc_roots, view>>
    BY <1>3 DEF ClearRoots
  <2>2. CASE Signal
    BY <1>1, <2>1, <2>2, SignalStays DEF RootsInv, RootsViewFresh
  <2>3. CASE roots = <<>> /\ NoSignal
    BY <1>1, <2>1, <2>3 DEF RootsInv, RootsViewFresh, NoSignal
  <2> QED BY <1>3, <2>2, <2>3 DEF ClearRoots
<1>4. CASE Listen
  <2>1. roots' = roots /\ view' = roots /\ signals' \in Nat /\ lagged' \in BOOLEAN
    <3>1. CASE lagged
      BY <1>1, <1>4, <3>1 DEF Listen
    <3>2. CASE ~lagged
      BY <1>1, <1>4, <3>2 DEF Listen
    <3> QED BY <3>1, <3>2
  <2> QED BY <1>1, <2>1 DEF RootsInv, RootsViewFresh
<1>5. ASSUME NEW r \in RootUris, AddRoot(r) PROVE RootsInv'
  <2>1. /\ roots' = Append(roots, r) /\ rpc_roots' = r /\ r # "none"
        /\ UNCHANGED <<signals, lagged>>
    BY <1>5, SubscriptionAssumption DEF AddRoot, NoSignal
  <2>2. roots' \in Seq(RootUris)
    BY <1>1, <2>1
  <2> QED BY <1>1, <2>1, <2>2 DEF RootsInv, RootsViewFresh
<1>6. ASSUME NEW r \in RootUris, RemoveRoot(r) PROVE RootsInv'
  <2>1. roots' = Without(roots, {r}) /\ UNCHANGED <<rpc_roots, view>>
    BY <1>6 DEF RemoveRoot
  <2>2. roots' \in Seq(RootUris) /\ (Len(roots') = Len(roots) => roots' = roots)
    BY <1>1, <2>1, WithoutProperties
  <2>3. CASE Signal
    BY <1>1, <2>1, <2>2, <2>3, SignalStays DEF RootsInv, RootsViewFresh
  <2>4. CASE Len(roots') = Len(roots) /\ NoSignal
    BY <1>1, <2>1, <2>2, <2>4 DEF RootsInv, RootsViewFresh, NoSignal
  <2> QED BY <1>6, <2>3, <2>4 DEF RemoveRoot
<1>7. CASE UNCHANGED rootVars
  BY <1>1, <1>7 DEF rootVars, RootsInv, RootsViewFresh
<1> QED BY <1>2, <1>3, <1>4, <1>5, <1>6, <1>7
        DEF SubscriptionNext, RootsNext, subscriptionVars

\* A listener that lists the roots after every signal of the broadcast channel
\* ends up with the list in force (RootsRegistry::add_root, remove_root, clear).
THEOREM RootsStayFresh == SubscriptionSpec => []RootsViewFresh
<1>1. SubscriptionInit => RootsInv
  <2> SUFFICES ASSUME SubscriptionInit PROVE RootsInv
    OBVIOUS
  <2>1. roots \in Seq(RootUris) /\ signals \in Nat /\ view = roots
    BY DEF SubscriptionInit
  <2>2. lagged \in BOOLEAN
    BY DEF SubscriptionInit
  <2> QED BY <2>1, <2>2 DEF RootsInv, RootsViewFresh
<1>2. RootsInv => RootsViewFresh
  BY DEF RootsInv
<1> QED BY <1>1, <1>2, RootsStep, PTL DEF SubscriptionSpec

\* x is in s, once.
OnceIn(s, x) == \E i \in DOMAIN s : s[i] = x /\ \A j \in DOMAIN s : s[j] = x => j = i

\* An id that is listed.
LEMMA ElementsAppend ==
    ASSUME NEW s \in Seq(Nat), NEW x \in Nat
    PROVE  /\ Append(s, x) \in Seq(Nat) /\ Elements(Append(s, x)) = Elements(s) \cup {x}
           /\ x \notin Elements(s) => OnceIn(Append(s, x), x)
           /\ \A y : y # x /\ OnceIn(s, y) => OnceIn(Append(s, x), y)
<1>1. PICK a : a = Append(s, x)
  OBVIOUS
<1>2. PICK n \in Nat : n = Len(s) /\ DOMAIN s = 1 .. n
  OBVIOUS
<1>3. /\ a \in Seq(Nat) /\ DOMAIN a = 1 .. n + 1 /\ a[n + 1] = x
      /\ \A i \in 1 .. n : a[i] = s[i]
  BY <1>1, <1>2, AppendProperties, LenProperties
<1>4. \A i \in 1 .. n + 1 : i = n + 1 \/ i \in 1 .. n
  OBVIOUS
<1>5. 1 .. n \subseteq 1 .. n + 1 /\ n + 1 \in 1 .. n + 1 /\ n + 1 \notin 1 .. n
  OBVIOUS
<1>6. Elements(a) = Elements(s) \cup {x}
  <2>1. Elements(a) \subseteq Elements(s) \cup {x}
    BY <1>2, <1>3, <1>4 DEF Elements
  <2>2. Elements(s) \cup {x} \subseteq Elements(a)
    BY <1>2, <1>3, <1>5 DEF Elements
  <2> QED BY <2>1, <2>2
<1>7. ASSUME x \notin Elements(s) PROVE OnceIn(a, x)
  <2>1. \A i \in 1 .. n : a[i] # x
    BY <1>2, <1>3, <1>7 DEF Elements
  <2>2. \A j \in DOMAIN a : a[j] = x => j = n + 1
    BY <1>3, <1>4, <2>1
  <2>3. n + 1 \in DOMAIN a /\ a[n + 1] = x
    BY <1>3, <1>5
  <2> QED BY <2>2, <2>3 DEF OnceIn
<1>8. ASSUME NEW y, y # x, OnceIn(s, y) PROVE OnceIn(a, y)
  <2>1. PICK i \in 1 .. n : s[i] = y /\ \A j \in 1 .. n : s[j] = y => j = i
    BY <1>2, <1>8 DEF OnceIn
  <2>2. i \in DOMAIN a /\ a[i] = y
    BY <1>3, <1>5, <2>1
  <2>3. \A j \in DOMAIN a : a[j] = y => j = i
    BY <1>3, <1>4, <1>8, <2>1
  <2> QED BY <2>2, <2>3 DEF OnceIn
<1> QED BY <1>1, <1>3, <1>6, <1>7, <1>8

\* An id that retain takes out.
LEMMA ElementsWithout ==
    ASSUME NEW s \in Seq(Nat), NEW x
    PROVE  /\ Without(s, {x}) \in Seq(Nat) /\ Elements(Without(s, {x})) = Elements(s) \ {x}
           /\ \A y : y # x /\ OnceIn(s, y) => OnceIn(Without(s, {x}), y)
<1>1. PICK w : w = Without(s, {x})
  OBVIOUS
<1>2. w \in Seq(Nat) /\ \E at : LeftAt(at, w, s, {x}, Len(s))
  BY <1>1, WithoutProperties
<1>3. PICK at : LeftAt(at, w, s, {x}, Len(s))
  BY <1>2
<1>4. DOMAIN s = 1 .. Len(s) /\ DOMAIN w = 1 .. Len(w) /\ Len(w) \in Nat /\ Len(s) \in Nat
  BY <1>2
<1>5. \A i \in DOMAIN w : at[i] \in DOMAIN s /\ w[i] = s[at[i]] /\ w[i] # x
  BY <1>3, <1>4 DEF LeftAt
<1>6. \A j \in DOMAIN s : s[j] # x => \E i \in DOMAIN w : at[i] = j /\ w[i] = s[j]
  BY <1>3, <1>4 DEF LeftAt
<1>7. \A i, j \in DOMAIN w : at[i] = at[j] => i = j
  <2> SUFFICES ASSUME NEW i \in DOMAIN w, NEW j \in DOMAIN w, at[i] = at[j], i # j PROVE FALSE
    OBVIOUS
  <2>1. /\ at[i] \in Nat /\ at[j] \in Nat /\ i \in Nat /\ j \in Nat
    BY <1>4, <1>5
  <2>2. at[i] < at[j] \/ at[j] < at[i]
    BY <1>3, <1>4, <2>1 DEF LeftAt
  <2> QED BY <2>1, <2>2
<1>8. Elements(w) = Elements(s) \ {x}
  <2>1. Elements(w) \subseteq Elements(s) \ {x}
    BY <1>5 DEF Elements
  <2>2. Elements(s) \ {x} \subseteq Elements(w)
    BY <1>6 DEF Elements
  <2> QED BY <2>1, <2>2
<1>9. ASSUME NEW y, y # x, OnceIn(s, y) PROVE OnceIn(w, y)
  <2>1. PICK j \in DOMAIN s : s[j] = y /\ \A k \in DOMAIN s : s[k] = y => k = j
    BY <1>9 DEF OnceIn
  <2>2. PICK i \in DOMAIN w : at[i] = j /\ w[i] = y
    BY <1>6, <1>9, <2>1
  <2>3. \A k \in DOMAIN w : w[k] = y => k = i
    BY <1>5, <1>7, <2>1, <2>2
  <2> QED BY <2>2, <2>3 DEF OnceIn
<1> QED BY <1>1, <1>2, <1>8, <1>9

\* Once is once.
LEMMA OnceCounted ==
    ASSUME NEW s, NEW x, OnceIn(s, x)
    PROVE  Cardinality({i \in DOMAIN s : s[i] = x}) = 1
<1>1. PICK i \in DOMAIN s : s[i] = x /\ \A j \in DOMAIN s : s[j] = x => j = i
  BY DEF OnceIn
<1>2. {j \in DOMAIN s : s[j] = x} = {i}
  BY <1>1
<1> QED BY <1>2, FS_Singleton

CallerPCs  == {"idle", "refused", "list", "store", "subscribed", "unlist"}
WithId     == {"list", "store", "subscribed", "unlist"}
WithEntry  == {"store", "subscribed", "unlist"}

SubscribeTypes ==
    /\ counter \in Nat /\ counter > 0
    /\ subs \in [Resources -> Seq(Nat)] /\ callbacks \subseteq Nat
    /\ spc \in [Callers -> CallerPCs] /\ sid \in [Callers -> Nat] /\ suri \in [Callers -> Resources]

\* An id is taken by one call.
IdsTaken ==
    /\ \A u \in Resources : \A x \in Elements(subs[u]) : x < counter
    /\ \A c \in Callers : spc[c] \in WithId => sid[c] < counter
    /\ \A c, d \in Callers : spc[c] \in WithId /\ spc[d] \in WithId /\ sid[c] = sid[d] => c = d

\* What notify_change looks up can be found.
CallbacksListed == \A x \in callbacks : \E u \in Resources : x \in Elements(subs[u])

\* The entries of a call under way.
EntriesOf(c) ==
    /\ spc[c] = "list" => \A u \in Resources : sid[c] \notin Elements(subs[u])
    /\ spc[c] \in WithEntry =>
         /\ OnceIn(subs[suri[c]], sid[c])
         /\ \A u \in Resources : sid[c] \in Elements(subs[u]) => u = suri[c]
    /\ spc[c] = "subscribed" => sid[c] \in callbacks
    /\ spc[c] \in WithId \ {"subscribed"} => sid[c] \notin callbacks

SubscribeInv ==
    SubscribeTypes /\ IdsTaken /\ CallbacksListed /\ \A c \in Callers : EntriesOf(c)

\* Of the callers only the one that moves has changed.
LEMMA OneCallerMoves ==
    ASSUME SubscribeTypes, NEW c \in Callers, NEW from, NEW to \in CallerPCs, CallerTo(c, from, to)
    PROVE  /\ spc[c] = from /\ spc'[c] = to /\ spc' \in [Callers -> CallerPCs]
           /\ \A d \in Callers : d # c => spc'[d] = spc[d]
BY DEF SubscribeTypes, CallerTo

\* An id is taken, or given up.
LEMMA IdStepsKeep ==
    ASSUME SubscribeInv, NEW c \in Callers, SubscribeId(c) \/ DropCall(c)
    PROVE  SubscribeInv'
<1>1. SubscribeTypes /\ IdsTaken /\ CallbacksListed /\ \A d \in Callers : EntriesOf(d)
  BY DEF SubscribeInv
<1>2. UNCHANGED <<subs, callbacks, suri>>
  BY DEF SubscribeId, DropCall
<1>3. CASE spc'[c] = "list"
  <2>1. /\ CallerTo(c, "idle", "list") /\ sid' = [sid EXCEPT ![c] = counter] /\ counter' = counter + 1
    BY <1>1, <1>3 DEF SubscribeId, DropCall, CallerTo, SubscribeTypes
  <2>2. /\ spc' \in [Callers -> CallerPCs] /\ \A d \in Callers : d # c => spc'[d] = spc[d] /\ sid'[d] = sid[d]
        /\ sid' \in [Callers -> Nat] /\ sid'[c] = counter /\ counter' \in Nat /\ counter' > 0
    <3>1. "list" \in CallerPCs
      BY DEF CallerPCs
    <3>2. spc' \in [Callers -> CallerPCs] /\ \A d \in Callers : d # c => spc'[d] = spc[d]
      BY <1>1, <2>1, <3>1, OneCallerMoves
    <3>3. counter \in Nat /\ sid \in [Callers -> Nat] /\ counter > 0
      BY <1>1 DEF SubscribeTypes
    <3>4. counter' \in Nat /\ counter' > 0
      BY <2>1, <3>3
    <3>5. sid' \in [Callers -> Nat] /\ sid'[c] = counter /\ \A d \in Callers : d # c => sid'[d] = sid[d]
      BY <2>1, <3>3
    <3> QED BY <3>2, <3>4, <3>5
  <2>3. SubscribeTypes'
    BY <1>1, <1>2, <2>2 DEF SubscribeTypes
  <2>4. \A u \in Resources : \A x \in Elements(subs[u]) : x \in Nat /\ x < counter
    BY <1>1 DEF SubscribeTypes, IdsTaken, Elements
  <2>5. IdsTaken'
    <3>1. \A u \in Resources : \A x \in Elements(subs'[u]) : x < counter'
      BY <1>1, <1>2, <2>1, <2>4 DEF SubscribeTypes
    <3>2. \A d \in Callers : spc'[d] \in WithId => sid'[d] < counter'
      BY <1>1, <2>1, <2>2 DEF SubscribeTypes, IdsTaken
    <3>3. \A d \in Callers : d # c /\ spc'[d] \in WithId => sid'[d] # counter
      BY <1>1, <2>2 DEF SubscribeTypes, IdsTaken
    <3>4. \A d, e \in Callers : spc'[d] \in WithId /\ spc'[e] \in WithId /\ sid'[d] = sid'[e] => d = e
      BY <1>1, <2>2, <3>3 DEF IdsTaken
    <3> QED BY <3>1, <3>2, <3>4 DEF IdsTaken
  <2>6. EntriesOf(c)'
    <3>1. \A u \in Resources : counter \notin Elements(subs[u])
      BY <1>1, <2>4 DEF SubscribeTypes
    <3>2. counter \notin callbacks
      BY <1>1, <3>1 DEF CallbacksListed
    <3> QED BY <1>2, <1>3, <2>2, <3>1, <3>2 DEF EntriesOf, WithEntry
  <2>7. \A d \in Callers : d # c => EntriesOf(d)'
    BY <1>1, <1>2, <2>2 DEF EntriesOf
  <2> QED BY <1>1, <1>2, <2>3, <2>5, <2>6, <2>7 DEF SubscribeInv, CallbacksListed
<1>4. CASE spc'[c] # "list"
  <2>1. PICK to, from : to \in {"idle", "refused"} /\ CallerTo(c, from, to)
    BY <1>1, <1>4 DEF SubscribeId, DropCall, CallerTo, SubscribeTypes
  <2>2. counter' = counter /\ sid' \in [Callers -> Nat] /\ \A d \in Callers : d # c => sid'[d] = sid[d]
    <3>1. counter' = counter /\ (sid' = sid \/ sid' = [sid EXCEPT ![c] = 0])
      BY <1>1, <1>4 DEF SubscribeId, DropCall, CallerTo, SubscribeTypes
    <3>2. sid \in [Callers -> Nat]
      BY <1>1 DEF SubscribeTypes
    <3>3. CASE sid' = sid
      BY <3>1, <3>2, <3>3
    <3>4. CASE sid' = [sid EXCEPT ![c] = 0]
      BY <3>1, <3>2, <3>4
    <3> QED BY <3>1, <3>3, <3>4
  <2>3. to \in CallerPCs /\ to \notin WithId /\ to \notin WithEntry /\ to # "list" /\ to # "subscribed"
    BY <2>1 DEF CallerPCs, WithId, WithEntry
  <2>4. /\ spc' \in [Callers -> CallerPCs] /\ spc'[c] = to
        /\ \A d \in Callers : d # c => spc'[d] = spc[d]
    BY <1>1, <2>1, <2>3, OneCallerMoves
  <2>5. SubscribeTypes'
    BY <1>1, <1>2, <2>2, <2>4 DEF SubscribeTypes
  <2>6. IdsTaken'
    BY <1>1, <1>2, <2>2, <2>3, <2>4 DEF IdsTaken
  <2>7. \A d \in Callers : EntriesOf(d)'
    BY <1>1, <1>2, <2>2, <2>3, <2>4 DEF EntriesOf
  <2> QED BY <1>1, <1>2, <2>5, <2>6, <2>7 DEF SubscribeInv, CallbacksListed
<1> QED BY <1>3, <1>4

\* The callback is stored, or taken away.
LEMMA CallbackStepsKeep ==
    ASSUME SubscribeInv, NEW c \in Callers, SubscribeStore(c) \/ UnsubscribeCallback(c)
    PROVE  SubscribeInv'
<1>1. SubscribeTypes /\ IdsTaken /\ CallbacksListed /\ \A d \in Callers : EntriesOf(d)
  BY DEF SubscribeInv
<1>2. PICK from \in WithEntry, to \in WithEntry :
        /\ CallerTo(c, from, to)
        /\ \/ to = "subscribed" /\ callbacks' = callbacks \cup {sid[c]}
           \/ to = "unlist" /\ callbacks' = callbacks \ {sid[c]}
  BY DEF SubscribeStore, UnsubscribeCallback, WithEntry
<1>3. UNCHANGED <<counter, subs, sid, suri>>
  BY DEF SubscribeStore, UnsubscribeCallback
<1>4. WithEntry \subseteq WithId /\ WithId \subseteq CallerPCs /\ "list" \notin WithEntry
        /\ "subscribed" \in WithEntry
  BY DEF WithEntry, WithId, CallerPCs
<1>5. /\ spc[c] = from /\ spc'[c] = to /\ spc' \in [Callers -> CallerPCs]
      /\ \A d \in Callers : d # c => spc'[d] = spc[d]
  BY <1>1, <1>2, <1>4, OneCallerMoves
<1>6. SubscribeTypes'
  BY <1>1, <1>2, <1>3, <1>5 DEF SubscribeTypes
<1>7. \A d \in Callers : spc'[d] \in WithId => spc[d] \in WithId
  BY <1>2, <1>4, <1>5
<1>8. IdsTaken'
  BY <1>1, <1>3, <1>7 DEF IdsTaken
<1>9. /\ suri[c] \in Resources /\ OnceIn(subs[suri[c]], sid[c])
      /\ \A u \in Resources : sid[c] \in Elements(subs[u]) => u = suri[c]
  BY <1>1, <1>2, <1>5 DEF SubscribeTypes, EntriesOf
<1>10. CallbacksListed'
  <2>1. sid[c] \in Elements(subs[suri[c]])
    BY <1>9 DEF OnceIn, Elements
  <2> QED BY <1>1, <1>2, <1>3, <1>9, <2>1 DEF CallbacksListed
<1>11. \A d \in Callers : EntriesOf(d)'
  <2> SUFFICES ASSUME NEW d \in Callers PROVE EntriesOf(d)'
    OBVIOUS
  <2>1. CASE d = c
    BY <1>2, <1>3, <1>4, <1>5, <1>9, <2>1 DEF EntriesOf
  <2>2. CASE d # c
    <3>1. spc'[d] = spc[d] /\ (spc[d] \in WithId => sid[d] # sid[c])
      BY <1>1, <1>2, <1>4, <1>5, <2>2 DEF IdsTaken
    <3> QED BY <1>1, <1>2, <1>3, <1>4, <3>1 DEF EntriesOf
  <2> QED BY <2>1, <2>2
<1> QED BY <1>6, <1>8, <1>10, <1>11 DEF SubscribeInv

\* The id is listed under its uri.
LEMMA ListStepKeeps ==
    ASSUME SubscribeInv, NEW c \in Callers, SubscribeList(c)
    PROVE  SubscribeInv'
<1>1. SubscribeTypes /\ IdsTaken /\ CallbacksListed /\ \A d \in Callers : EntriesOf(d)
  BY DEF SubscribeInv
<1>2. /\ CallerTo(c, "list", "store") /\ subs' = [subs EXCEPT ![suri[c]] = Append(@, sid[c])]
      /\ UNCHANGED <<counter, callbacks, sid, suri>>
  BY DEF SubscribeList
<1>3. "list" \in WithId /\ "store" \in WithId /\ "store" \in CallerPCs /\ "store" \in WithEntry
        /\ WithEntry \subseteq WithId
  BY DEF WithId, WithEntry, CallerPCs
<1>4. /\ spc[c] = "list" /\ spc'[c] = "store" /\ spc' \in [Callers -> CallerPCs]
      /\ \A d \in Callers : d # c => spc'[d] = spc[d]
  BY <1>1, <1>2, <1>3, OneCallerMoves
<1>5. PICK x \in Nat, v \in Resources, s \in Seq(Nat) : x = sid[c] /\ v = suri[c] /\ s = subs[v]
  BY <1>1 DEF SubscribeTypes
<1>6. /\ x < counter /\ x \notin callbacks
      /\ \A u \in Resources : x \notin Elements(subs[u])
      /\ \A d \in Callers : d # c /\ spc[d] \in WithId => sid[d] # x
  BY <1>1, <1>3, <1>4, <1>5 DEF IdsTaken, EntriesOf
<1>7. PICK a : a = Append(s, x)
  OBVIOUS
<1>8. /\ a \in Seq(Nat) /\ Elements(a) = Elements(s) \cup {x} /\ OnceIn(a, x)
      /\ \A y : y # x /\ OnceIn(s, y) => OnceIn(a, y)
  BY <1>5, <1>6, <1>7, ElementsAppend
<1>9. subs' \in [Resources -> Seq(Nat)] /\ subs'[v] = a /\ \A u \in Resources : u # v => subs'[u] = subs[u]
  BY <1>1, <1>2, <1>5, <1>7, <1>8 DEF SubscribeTypes
<1>10. SubscribeTypes'
  BY <1>1, <1>2, <1>4, <1>9 DEF SubscribeTypes
<1>11. IdsTaken'
  <2>1. \A u \in Resources : \A y \in Elements(subs'[u]) : y < counter'
    BY <1>1, <1>2, <1>5, <1>6, <1>8, <1>9 DEF IdsTaken
  <2> QED BY <1>1, <1>2, <1>3, <1>4, <2>1 DEF IdsTaken
<1>12. CallbacksListed'
  BY <1>1, <1>2, <1>5, <1>8, <1>9 DEF CallbacksListed
<1>13. ASSUME NEW d \in Callers PROVE EntriesOf(d)'
  <2>1. CASE d = c
    <3>1. /\ spc'[d] = "store" /\ sid'[d] = x /\ suri'[d] = v /\ callbacks' = callbacks
      BY <1>2, <1>4, <1>5, <2>1
    <3>2. OnceIn(subs'[v], x) /\ \A u \in Resources : x \in Elements(subs'[u]) => u = v
      BY <1>6, <1>8, <1>9
    <3> QED BY <1>6, <3>1, <3>2 DEF EntriesOf
  <2>2. CASE d # c
    <3>1. PICK y \in Nat, w \in Resources : y = sid[d] /\ w = suri[d] /\ sid'[d] = y /\ suri'[d] = w
      BY <1>1, <1>2 DEF SubscribeTypes
    <3>2. spc'[d] = spc[d] /\ (spc[d] \in WithId => y # x)
      BY <1>4, <1>6, <2>2, <3>1
    <3>3. y # x => /\ \A u \in Resources : y \in Elements(subs'[u]) <=> y \in Elements(subs[u])
                   /\ OnceIn(subs[w], y) => OnceIn(subs'[w], y)
      BY <1>5, <1>8, <1>9
    <3> QED BY <1>1, <1>2, <1>3, <3>1, <3>2, <3>3 DEF EntriesOf
  <2> QED BY <2>1, <2>2
<1> QED BY <1>10, <1>11, <1>12, <1>13 DEF SubscribeInv

\* The id is taken off every list.
LEMMA UnlistStepKeeps ==
    ASSUME SubscribeInv, NEW c \in Callers, UnsubscribeList(c)
    PROVE  SubscribeInv'
<1>1. SubscribeTypes /\ IdsTaken /\ CallbacksListed /\ \A d \in Callers : EntriesOf(d)
  BY DEF SubscribeInv
<1>2. /\ CallerTo(c, "unlist", "idle") /\ subs' = [u \in Resources |-> Without(subs[u], {sid[c]})]
      /\ sid' = [sid EXCEPT ![c] = 0] /\ UNCHANGED <<counter, callbacks, suri>>
  BY DEF UnsubscribeList
<1>3. /\ "unlist" \in WithId /\ "idle" \in CallerPCs /\ WithEntry \subseteq WithId
      /\ "idle" \notin WithId /\ "unlist" # "subscribed"
  BY DEF WithId, WithEntry, CallerPCs
<1>4. /\ spc[c] = "unlist" /\ spc'[c] = "idle" /\ spc' \in [Callers -> CallerPCs]
      /\ \A d \in Callers : d # c => spc'[d] = spc[d]
  BY <1>1, <1>2, <1>3, OneCallerMoves
<1>5. PICK x \in Nat : x = sid[c]
  BY <1>1 DEF SubscribeTypes
<1>6. x \notin callbacks /\ \A d \in Callers : d # c /\ spc[d] \in WithId => sid[d] # x
  BY <1>1, <1>3, <1>4, <1>5 DEF IdsTaken, EntriesOf
<1>7. ASSUME NEW u \in Resources
      PROVE  /\ subs'[u] \in Seq(Nat) /\ Elements(subs'[u]) = Elements(subs[u]) \ {x}
             /\ \A y : y # x /\ OnceIn(subs[u], y) => OnceIn(subs'[u], y)
  <2>1. PICK s \in Seq(Nat) : s = subs[u]
    BY <1>1 DEF SubscribeTypes
  <2>2. subs'[u] = Without(s, {x})
    BY <1>2, <1>5, <2>1
  <2> QED BY <2>1, <2>2, ElementsWithout
<1>8. /\ sid' \in [Callers -> Nat] /\ \A d \in Callers : d # c => sid'[d] = sid[d]
  BY <1>1, <1>2 DEF SubscribeTypes
<1>9. SubscribeTypes'
  <2>1. subs' \in [Resources -> Seq(Nat)]
    BY <1>2, <1>7
  <2> QED BY <1>1, <1>2, <1>4, <1>8, <2>1 DEF SubscribeTypes
<1>10. \A d \in Callers : spc'[d] \in WithId => d # c /\ spc'[d] = spc[d] /\ sid'[d] = sid[d]
  BY <1>3, <1>4, <1>8
<1>11. IdsTaken'
  BY <1>1, <1>2, <1>7, <1>10 DEF IdsTaken
<1>12. CallbacksListed'
  BY <1>1, <1>2, <1>6, <1>7 DEF CallbacksListed
<1>13. ASSUME NEW d \in Callers PROVE EntriesOf(d)'
  <2>1. CASE d = c
    BY <1>3, <1>4, <2>1 DEF EntriesOf
  <2>2. CASE d # c
    <3>1. PICK y \in Nat, w \in Resources : y = sid[d] /\ w = suri[d] /\ sid'[d] = y /\ suri'[d] = w
      BY <1>1, <1>2, <1>8, <2>2 DEF SubscribeTypes
    <3>2. spc'[d] = spc[d] /\ (spc[d] \in WithId => y # x)
      BY <1>4, <1>6, <2>2, <3>1
    <3>3. y # x => /\ \A u \in Resources : y \in Elements(subs'[u]) <=> y \in Elements(subs[u])
                   /\ OnceIn(subs[w], y) => OnceIn(subs'[w], y)
      BY <1>7
    <3>4. "list" \in WithId
      BY DEF WithId
    <3>5. EntriesOf(d)
      BY <1>1
    <3>6. CASE y # x
      <4>1. /\ spc[d] = "list" => \A u \in Resources : y \notin Elements(subs'[u])
            /\ spc[d] \in WithEntry =>
                 OnceIn(subs'[w], y) /\ \A u \in Resources : y \in Elements(subs'[u]) => u = w
        BY <3>1, <3>3, <3>5, <3>6 DEF EntriesOf
      <4>2. /\ spc[d] = "subscribed" => y \in callbacks'
            /\ spc[d] \in WithId \ {"subscribed"} => y \notin callbacks'
        BY <1>2, <3>1, <3>5 DEF EntriesOf
      <4> QED BY <3>1, <3>2, <4>1, <4>2 DEF EntriesOf
    <3>7. CASE y = x
      <4>1. spc'[d] \notin WithId /\ spc'[d] \notin WithEntry
        BY <1>3, <3>2, <3>7
      <4> QED BY <3>4, <4>1 DEF EntriesOf, WithEntry
    <3> QED BY <3>6, <3>7
  <2> QED BY <2>1, <2>2
<1> QED BY <1>9, <1>11, <1>12, <1>13 DEF SubscribeInv

\* SubscriptionTracker::subscribe looks at the limit.
TrackerInv ==
    /\ tracker \in [Resources -> SUBSET Subscribers]
    /\ \A u \in Resources : IsFiniteSet(tracker[u]) /\ Cardinality(tracker[u]) <= MaxSubscribers

\* Every step of the tracker.
LEMMA TrackerStep ==
    ASSUME TrackerInv, TrackerNext
    PROVE  TrackerInv'
<1>1. ASSUME NEW u \in Resources, NEW s \in Subscribers, Track(u, s) PROVE TrackerInv'
  <2>1. IsFiniteSet(tracker[u]) /\ Cardinality(tracker[u]) \in Nat
    BY FS_CardinalityType DEF TrackerInv
  <2>2. CASE UNCHANGED tracker
    BY <2>2 DEF TrackerInv
  <2>3. CASE /\ s \notin tracker[u] /\ Cardinality(tracker[u]) < MaxSubscribers
             /\ tracker' = [tracker EXCEPT ![u] = @ \cup {s}]
    <3>1. PICK S : S = tracker[u] \cup {s}
      OBVIOUS
    <3>2. IsFiniteSet(S) /\ Cardinality(S) = Cardinality(tracker[u]) + 1
      BY <2>1, <2>3, <3>1, FS_AddElement
    <3>3. Cardinality(S) <= MaxSubscribers /\ S \in SUBSET Subscribers
      BY <2>1, <2>3, <3>1, <3>2, SubscriptionAssumption DEF TrackerInv
    <3>4. tracker' \in [Resources -> SUBSET Subscribers] /\ tracker'[u] = S
            /\ \A v \in Resources : v # u => tracker'[v] = tracker[v]
      BY <2>3, <3>1, <3>3 DEF TrackerInv
    <3> QED BY <3>2, <3>3, <3>4 DEF TrackerInv
  <2> QED BY <1>1, <2>2, <2>3 DEF Track
<1>2. ASSUME NEW u \in Resources, NEW s \in Subscribers, Untrack(u, s) PROVE TrackerInv'
  <2>1. PICK S : S = tracker[u] \ {s}
    OBVIOUS
  <2>2. S \in SUBSET tracker[u] /\ IsFiniteSet(tracker[u]) /\ Cardinality(tracker[u]) <= MaxSubscribers
          /\ tracker[u] \subseteq Subscribers
    BY <2>1 DEF TrackerInv
  <2>3. IsFiniteSet(S) /\ Cardinality(S) <= Cardinality(tracker[u])
    BY <2>2, FS_Subset
  <2>4. Cardinality(S) \in Nat /\ Cardinality(tracker[u]) \in Nat
    BY <2>2, <2>3, FS_CardinalityType
  <2>5. Cardinality(S) <= MaxSubscribers
    BY <2>2, <2>3, <2>4, SubscriptionAssumption
  <2>6. tracker' \in [Resources -> SUBSET Subscribers] /\ tracker'[u] = S
            /\ \A v \in Resources : v # u => tracker'[v] = tracker[v]
    BY <1>2, <2>1, <2>2 DEF TrackerInv, Untrack
  <2> QED BY <2>3, <2>5, <2>6 DEF TrackerInv
<1>3. CASE ClearTracker
  <2>1. IsFiniteSet({}) /\ Cardinality({}) <= MaxSubscribers
    BY FS_EmptySet, SubscriptionAssumption
  <2>2. tracker' \in [Resources -> SUBSET Subscribers] /\ \A u \in Resources : tracker'[u] = {}
    BY <1>3 DEF ClearTracker
  <2> QED BY <2>1, <2>2 DEF TrackerInv
<1> QED BY <1>1, <1>2, <1>3 DEF TrackerNext

\* Every step of the registry, the tracker and the roots.
LEMMA SubscribeStep ==
    SubscribeInv /\ TrackerInv /\ [SubscriptionNext]_subscriptionVars => SubscribeInv' /\ TrackerInv'
<1> SUFFICES ASSUME SubscribeInv, TrackerInv, [SubscriptionNext]_subscriptionVars
             PROVE  SubscribeInv' /\ TrackerInv'
  OBVIOUS
<1>1. UNCHANGED subscribeVars => SubscribeInv'
  BY DEF SubscribeInv, SubscribeTypes, IdsTaken, CallbacksListed, EntriesOf, subscribeVars
<1>2. UNCHANGED trackerVars => TrackerInv'
  BY DEF TrackerInv, trackerVars
<1>3. SubscribeNext => SubscribeInv'
  <2>1. ASSUME NEW n \in Notifiers, NotifyCall(n) \/ \E u \in Resources : NotifyCollect(n, u)
        PROVE  SubscribeInv'
    <3>1. UNCHANGED <<counter, subs, callbacks, spc, sid, suri>>
      BY <2>1 DEF NotifyCall, NotifyCollect
    <3> QED BY <3>1 DEF SubscribeInv, SubscribeTypes, IdsTaken, CallbacksListed, EntriesOf
  <2> QED BY <2>1, IdStepsKeep, CallbackStepsKeep, ListStepKeeps, UnlistStepKeeps DEF SubscribeNext
<1> QED BY <1>1, <1>2, <1>3, TrackerStep DEF SubscriptionNext, subscriptionVars

\* Whoever subscribe() has returned to is notified, once and under its own uri,
\* until it unsubscribes, whatever calls of others are under way or were dropped
\* half way; and no resource has more than max_subscribers in the tracker.
THEOREM SubscribersAreNotified == SubscriptionSpec => []SubscribedIsNotified
<1>1. SubscriptionInit => SubscribeInv /\ TrackerInv
  <2> SUFFICES ASSUME SubscriptionInit PROVE SubscribeInv /\ TrackerInv
    OBVIOUS
  <2>1. /\ counter = 1 /\ subs = [u \in Resources |-> <<>>] /\ callbacks = {}
        /\ spc = [c \in Callers |-> "idle"] /\ sid = [c \in Callers |-> 0]
        /\ suri \in [Callers -> Resources] /\ tracker = [u \in Resources |-> {}]
    BY DEF SubscriptionInit
  <2>2. "idle" \in CallerPCs /\ "idle" \notin WithId /\ "idle" \notin WithEntry
    BY DEF CallerPCs, WithId, WithEntry
  <2>3. \A u \in Resources : subs[u] = <<>> /\ Elements(subs[u]) = {}
    BY <2>1 DEF Elements
  <2>4. SubscribeTypes
    BY <2>1, <2>2 DEF SubscribeTypes
  <2>5. IdsTaken /\ CallbacksListed /\ \A c \in Callers : EntriesOf(c)
    BY <2>1, <2>2, <2>3 DEF IdsTaken, CallbacksListed, EntriesOf
  <2>6. TrackerInv
    BY <2>1, FS_EmptySet, SubscriptionAssumption DEF TrackerInv
  <2> QED BY <2>4, <2>5, <2>6 DEF SubscribeInv
<1>2. SubscribeInv /\ TrackerInv => SubscribedIsNotified
  <2> SUFFICES ASSUME SubscribeInv, TrackerInv PROVE SubscribedIsNotified
    OBVIOUS
  <2>1. callbacks \subseteq UNION {Elements(subs[u]) : u \in Resources}
    BY DEF SubscribeInv, CallbacksListed
  <2>2. ASSUME NEW c \in Callers, spc[c] = "subscribed"
        PROVE  /\ sid[c] \in callbacks
               /\ Cardinality({i \in DOMAIN subs[suri[c]] : subs[suri[c]][i] = sid[c]}) = 1
               /\ \A u \in Resources : sid[c] \in Elements(subs[u]) => u = suri[c]
    <3>1. "subscribed" \in WithEntry
      BY DEF WithEntry
    <3>2. /\ sid[c] \in callbacks /\ OnceIn(subs[suri[c]], sid[c])
          /\ \A u \in Resources : sid[c] \in Elements(subs[u]) => u = suri[c]
      BY <2>2, <3>1 DEF SubscribeInv, EntriesOf
    <3> QED BY <3>2, OnceCounted
  <2>3. \A u \in Resources : Cardinality(tracker[u]) <= MaxSubscribers
    BY DEF TrackerInv
  <2> QED BY <2>1, <2>2, <2>3 DEF SubscribedIsNotified
<1> QED BY <1>1, <1>2, SubscribeStep, PTL DEF SubscriptionSpec

----------------------------------------------------------------------------
(* Context *)

ContextSpec == ContextInit /\ [][ContextNext]_contextVars

\* The slots of tool t hold what was set for it last.
SlotsFaithful(t) ==
    /\ \A i, j \in Slots : tool_states[i].tool_id = t /\ tool_states[j].tool_id = t => i = j
    /\ \A i \in Slots : tool_states[i].tool_id = t => tool_states[i].data = last_set[t]
    /\ (\A i \in Slots : tool_states[i].tool_id # t) => last_set[t] = NoData

ContextInv ==
    /\ tool_states \in [Slots -> [tool_id : ContextTools \cup {0}, data : ContextData \cup {NoData}]]
    /\ last_set \in [ContextTools -> ContextData \cup {NoData}]
    /\ \A t \in ContextTools \ ({0} \cup by_index) : SlotsFaithful(t)

\* set_tool_state writes one slot, which is free or the tool's own.
LEMMA SlotTaken ==
    ASSUME NEW tool, SlotFor(tool) # {}
    PROVE  \E k \in Slots : /\ SlotFor(tool) = {k} /\ tool_states[k].tool_id \in {0, tool}
                            /\ tool_states[k].tool_id # tool =>
                                 \A i \in Slots : tool_states[i].tool_id # tool
<1>1. \A x : SlotsOf(x) \subseteq Nat /\ SlotsOf(x) \subseteq Slots
  BY ContextAssumption DEF SlotsOf, Slots
<1>2. ASSUME NEW x, SlotsOf(x) # {} PROVE Min(SlotsOf(x)) \in SlotsOf(x)
  <2>1. PICK S : S = SlotsOf(x)
    OBVIOUS
  <2>2. PICK n \in S : \A j \in S : n <= j
    BY <1>1, <1>2, <2>1, LeastElement
  <2>3. Min(S) = n
    BY <1>1, <2>1, <2>2, LeastIsChosen DEF Min
  <2> QED BY <2>1, <2>2, <2>3
<1>3. CASE SlotsOf(tool) # {}
  <2>1. SlotFor(tool) = {Min(SlotsOf(tool))} /\ Min(SlotsOf(tool)) \in SlotsOf(tool)
    BY <1>2, <1>3 DEF SlotFor
  <2> QED BY <2>1 DEF SlotsOf
<1>4. CASE SlotsOf(tool) = {}
  <2>1. SlotFor(tool) = {Min(SlotsOf(0))} /\ Min(SlotsOf(0)) \in SlotsOf(0)
    BY <1>2, <1>4 DEF SlotFor
  <2> QED BY <1>4, <2>1 DEF SlotsOf
<1> QED BY <1>3, <1>4

\* Every step of a context.
LEMMA ContextStep == ContextInv /\ [ContextNext]_contextVars => ContextInv'
<1> SUFFICES ASSUME ContextInv, [ContextNext]_contextVars PROVE ContextInv'
  OBVIOUS
<1>1. /\ tool_states \in [Slots -> [tool_id : ContextTools \cup {0}, data : ContextData \cup {NoData}]]
      /\ last_set \in [ContextTools -> ContextData \cup {NoData}]
      /\ \A t \in ContextTools \ ({0} \cup by_index) : SlotsFaithful(t)
  BY DEF ContextInv
<1>2. ASSUME NEW tool \in ContextTools, NEW d \in ContextData, SetToolState(tool, d)
      PROVE  ContextInv'
  <2>1. by_index' = by_index
    BY <1>2 DEF SetToolState
  <2>2. CASE SlotFor(tool) = {}
    BY <1>1, <1>2, <2>1, <2>2 DEF SetToolState, ContextInv, SlotsFaithful
  <2>3. CASE SlotFor(tool) # {}
    <3>1. PICK k \in Slots : /\ SlotFor(tool) = {k} /\ tool_states[k].tool_id \in {0, tool}
                             /\ tool_states[k].tool_id # tool =>
                                  \A i \in Slots : tool_states[i].tool_id # tool
      BY <2>3, SlotTaken
    <3>2. PICK new : new = [tool_id |-> tool, data |-> d]
      OBVIOUS
    <3>3. /\ tool_states' = [i \in Slots |-> IF i = k THEN new ELSE tool_states[i]]
          /\ last_set' = [last_set EXCEPT ![tool] = d]
      BY <1>2, <2>3, <3>1, <3>2 DEF SetToolState
    <3>4. /\ tool_states'[k].tool_id = tool /\ tool_states'[k].data = d
          /\ \A i \in Slots : i # k => tool_states'[i] = tool_states[i]
          /\ last_set'[tool] = d /\ \A t \in ContextTools : t # tool => last_set'[t] = last_set[t]
      BY <1>1, <3>2, <3>3
    <3>5. new \in [tool_id : ContextTools \cup {0}, data : ContextData \cup {NoData}]
      BY <3>2
    <3>6. /\ tool_states' \in [Slots -> [tool_id : ContextTools \cup {0}, data : ContextData \cup {NoData}]]
          /\ last_set' \in [ContextTools -> ContextData \cup {NoData}]
      BY <1>1, <3>3, <3>5
    <3>7. ASSUME NEW t \in ContextTools \ ({0} \cup by_index) PROVE SlotsFaithful(t)'
      <4>1. SlotsFaithful(t)
        BY <1>1
      <4>2. CASE t = tool
        BY <3>1, <3>4, <4>1, <4>2 DEF SlotsFaithful
      <4>3. CASE t # tool
        <5>1. \A i \in Slots : tool_states'[i].tool_id = t <=> tool_states[i].tool_id = t
          BY <3>1, <3>4, <4>3
        <5> QED BY <3>4, <4>1, <4>3, <5>1 DEF SlotsFaithful
      <4> QED BY <4>2, <4>3
    <3> QED BY <2>1, <3>6, <3>7 DEF ContextInv
  <2> QED BY <2>2, <2>3
<1>3. ASSUME NEW index \in Slots, NEW tool \in ContextTools, NEW d \in ContextData,
             UpdateToolState(index, [tool_id |-> tool, data |-> d])
      PROVE  ContextInv'
  <2>1. PICK new : new = [tool_id |-> tool, data |-> d]
    OBVIOUS
  <2>2. /\ tool_states' = [tool_states EXCEPT ![index] = new] /\ last_set' = last_set
        /\ by_index' = by_index \cup ({tool, tool_states[index].tool_id} \ {0})
    BY <1>3, <2>1 DEF UpdateToolState
  <2>3. new \in [tool_id : ContextTools \cup {0}, data : ContextData \cup {NoData}] /\ new.tool_id = tool
    BY <2>1
  <2>4. /\ tool_states' \in [Slots -> [tool_id : ContextTools \cup {0}, data : ContextData \cup {NoData}]]
        /\ tool_states'[index].tool_id = tool
        /\ \A i \in Slots : i # index => tool_states'[i] = tool_states[i]
    BY <1>1, <2>2, <2>3
  <2>5. ASSUME NEW t \in ContextTools \ ({0} \cup by_index') PROVE SlotsFaithful(t)'
    <3>1. SlotsFaithful(t) /\ t # tool /\ t # tool_states[index].tool_id
      BY <1>1, <2>2, <2>5
    <3>2. \A i \in Slots : tool_states'[i].tool_id = t <=> tool_states[i].tool_id = t
      BY <2>4, <3>1
    <3> QED BY <2>2, <2>4, <3>1, <3>2 DEF SlotsFaithful
  <2> QED BY <1>1, <2>2, <2>4, <2>5 DEF ContextInv
<1>4. ASSUME NEW index \in Slots, ClearToolState(index) PROVE ContextInv'
  <2>1. PICK old : old = tool_states[index].tool_id
    OBVIOUS
  <2>2. /\ tool_states' = [tool_states EXCEPT ![index] = EmptyState] /\ by_index' = by_index
        /\ last_set' = [t \in ContextTools |-> IF t = old THEN NoData ELSE last_set[t]]
    BY <1>4, <2>1 DEF ClearToolState
  <2>3. EmptyState \in [tool_id : ContextTools \cup {0}, data : ContextData \cup {NoData}] /\ EmptyState.tool_id = 0
    BY DEF EmptyState
  <2>4. /\ tool_states' \in [Slots -> [tool_id : ContextTools \cup {0}, data : ContextData \cup {NoData}]]
        /\ tool_states'[index].tool_id = 0
        /\ \A i \in Slots : i # index => tool_states'[i] = tool_states[i]
        /\ last_set' \in [ContextTools -> ContextData \cup {NoData}]
    BY <1>1, <2>2, <2>3
  <2>5. ASSUME NEW t \in ContextTools \ ({0} \cup by_index) PROVE SlotsFaithful(t)'
    <3>1. SlotsFaithful(t) /\ t # 0
      BY <1>1
    <3>2. CASE t = old
      <4>1. \A i \in Slots : tool_states'[i].tool_id # t
        BY <2>1, <2>4, <3>1, <3>2 DEF SlotsFaithful
      <4>2. last_set'[t] = NoData
        BY <2>2, <3>2
      <4> QED BY <4>1, <4>2 DEF SlotsFaithful
    <3>3. CASE t # old
      <4>1. \A i \in Slots : tool_states'[i].tool_id = t <=> tool_states[i].tool_id = t
        BY <2>1, <2>4, <3>1, <3>3
      <4>2. last_set'[t] = last_set[t]
        BY <2>2, <3>3
      <4> QED BY <2>1, <2>4, <3>1, <3>3, <4>1, <4>2 DEF SlotsFaithful
    <3> QED BY <3>2, <3>3
  <2> QED BY <2>2, <2>4, <2>5 DEF ContextInv
<1>5. CASE IncrementMessageCount \/ UNCHANGED contextVars
  <2>1. UNCHANGED <<tool_states, last_set, by_index>>
    BY <1>5 DEF IncrementMessageCount, contextVars
  <2> QED BY <1>1, <2>1 DEF ContextInv, SlotsFaithful
<1> QED BY <1>2, <1>3, <1>4, <1>5 DEF ContextNext

\* Through any sequence of calls, find_tool_state returns for a tool what
\* set_tool_state stored for it last, in a context of any number of slots.
THEOREM ContextStaysFaithful == ContextSpec => []ContextFaithful
<1>1. ContextInit => ContextInv
  BY DEF ContextInit, ContextInv, SlotsFaithful, EmptyState
<1>2. ContextInv => ContextFaithful
  <2> SUFFICES ASSUME ContextInv, NEW t \in ContextTools \ ({0} \cup by_index)
               PROVE  FindToolState(t) = last_set[t] /\ Cardinality(SlotsOf(t)) <= 1
    BY DEF ContextFaithful
  <2>1. SlotsFaithful(t)
    BY DEF ContextInv
  <2>2. CASE SlotsOf(t) = {}
    <3>1. FindToolState(t) = NoData /\ Cardinality(SlotsOf(t)) = 0
      BY <2>2, FS_EmptySet DEF FindToolState
    <3>2. last_set[t] = NoData
      BY <2>1, <2>2 DEF SlotsFaithful, SlotsOf
    <3> QED BY <3>1, <3>2
  <2>3. CASE SlotsOf(t) # {}
    <3>1. PICK k \in Slots : tool_states[k].tool_id = t
      BY <2>3 DEF SlotsOf
    <3>2. SlotsOf(t) = {k}
      BY <2>1, <3>1 DEF SlotsFaithful, SlotsOf
    <3>3. k \in Nat
      BY ContextAssumption DEF Slots
    <3>4. Min({k}) = k
      BY <3>3, LeastIsChosen DEF Min
    <3>5. Cardinality({k}) = 1
      BY FS_Singleton
    <3>6. FindToolState(t) = tool_states[k].data
      BY <2>3, <3>2, <3>4 DEF FindToolState
    <3> QED BY <2>1, <3>1, <3>2, <3>5, <3>6 DEF SlotsFaithful
  <2> QED BY <2>2, <2>3
<1> QED BY <1>1, <1>2, ContextStep, PTL DEF ContextSpec

----------------------------------------------------------------------------
(* SseTransport: events and their replay *)

SseNext == (EventsNext /\ UNCHANGED postVars) \/ (PostNext /\ UNCHANGED eventVars)

SseSpec == SseInit /\ [][SseNext]_sseVars

\* Buffer b is the end of what has been published, P, in order.
Gapless(b, P) ==
    /\ \A i \in 1 .. Len(b) : b[i] \in P
    /\ \A i, j \in 1 .. Len(b) : i < j => b[i] < b[j]
    /\ b # <<>> => \A x \in P : x <= b[Len(b)] /\ (x < b[1] \/ \E i \in 1 .. Len(b) : b[i] = x)

EventInv ==
    /\ event_counter \in Nat /\ disordered \in BOOLEAN
    /\ buffer \in Seq(Nat) /\ Len(buffer) <= BufferSize
    /\ published \subseteq 1 .. event_counter
    /\ wpc \in [Writers -> {"idle", "formatted"}] /\ wevent \in [Writers -> 0 .. event_counter]
    /\ \A w \in Writers : wpc[w] = "formatted" => wevent[w] > 0 /\ wevent[w] \notin published
    /\ \A v, w \in Writers :
         wpc[v] = "formatted" /\ wpc[w] = "formatted" /\ wevent[v] = wevent[w] => v = w
    /\ ~disordered => Gapless(buffer, published)

\* EventBuffer::push makes room at the front.
LEMMA PushKeepsGapless ==
    ASSUME NEW b \in Seq(Nat), NEW P \in SUBSET Nat, NEW id \in Nat,
           BufferSize > 0, Len(b) <= BufferSize
    PROVE  /\ PushEvent(b, id) \in Seq(Nat) /\ Len(PushEvent(b, id)) <= BufferSize
           /\ Gapless(b, P) /\ (\A x \in P : x < id) => Gapless(PushEvent(b, id), P \cup {id})
<1>1. BufferSize \in Nat /\ Len(b) \in Nat /\ BufferSize # 0
  BY SseAssumption
<1>2. PICK kept : kept = IF Len(b) >= BufferSize
                         THEN SubSeq(b, Len(b) - BufferSize + 2, Len(b)) ELSE b
  OBVIOUS
<1>3. PICK new : new = Append(kept, id)
  OBVIOUS
<1>4. PushEvent(b, id) = new
  BY <1>1, <1>2, <1>3 DEF PushEvent
<1>5. \E off \in 0 .. 1 : /\ off <= Len(b) /\ Len(b) - off < BufferSize
                          /\ kept \in Seq(Nat) /\ Len(kept) = Len(b) - off
                          /\ \A i \in 1 .. Len(b) - off : kept[i] = b[off + i]
  <2>1. CASE Len(b) >= BufferSize
    <3>1. kept = SubSeq(b, 2, Len(b)) /\ Len(b) > 0
      <4>1. Len(b) - BufferSize + 2 = 2
        BY <1>1, <2>1
      <4> QED BY <1>1, <1>2, <2>1, <4>1
    <3>2. PICK n \in Nat : n = Len(b) /\ \A i \in 2 .. n : b[i] \in Nat
      BY <1>1
    <3>3. /\ kept \in Seq(Nat) /\ Len(kept) = (IF 2 <= n THEN n - 2 + 1 ELSE 0)
          /\ \A i \in 1 .. n - 2 + 1 : kept[i] = b[2 + i - 1]
      BY <3>1, <3>2, SubSeqProperties
    <3>4. Len(kept) = Len(b) - 1 /\ \A i \in 1 .. Len(b) - 1 : kept[i] = b[1 + i]
      BY <1>1, <3>1, <3>2, <3>3
    <3> QED BY <1>1, <2>1, <3>1, <3>3, <3>4
  <2>2. CASE ~(Len(b) >= BufferSize)
    BY <1>1, <1>2, <2>2
  <2> QED BY <2>1, <2>2
<1>6. PICK off \in 0 .. 1 : /\ off <= Len(b) /\ Len(b) - off < BufferSize
                            /\ kept \in Seq(Nat) /\ Len(kept) = Len(b) - off
                            /\ \A i \in 1 .. Len(b) - off : kept[i] = b[off + i]
  BY <1>5
<1>7. PICK m \in Nat : m = Len(b) - off
  BY <1>1, <1>6
<1>8. /\ new \in Seq(Nat) /\ Len(new) = m + 1 /\ new[m + 1] = id
      /\ \A i \in 1 .. m : new[i] = b[off + i] /\ off + i \in 1 .. Len(b)
  BY <1>1, <1>3, <1>6, <1>7, AppendProperties
<1>9. Len(new) <= BufferSize
  BY <1>1, <1>6, <1>7, <1>8
<1>10. ASSUME Gapless(b, P), \A x \in P : x < id
       PROVE  Gapless(new, P \cup {id})
  <2>1. /\ \A i \in 1 .. Len(b) : b[i] \in P
        /\ \A i, j \in 1 .. Len(b) : i < j => b[i] < b[j]
        /\ \A x \in P : Len(b) > 0 => x < b[1] \/ \E i \in 1 .. Len(b) : b[i] = x
    <3>1. Len(b) > 0 => b # <<>>
      BY <1>1, EmptySeq
    <3> QED BY <1>10, <3>1 DEF Gapless
  <2>2. \A i \in 1 .. Len(new) : i = m + 1 \/ i \in 1 .. m
    BY <1>8
  <2>3. \A i \in 1 .. Len(new) : new[i] \in P \cup {id}
    BY <1>8, <2>1, <2>2
  <2>4. ASSUME NEW i \in 1 .. Len(new), NEW j \in 1 .. Len(new), i < j PROVE new[i] < new[j]
    <3>1. i \in 1 .. m
      BY <1>8, <2>4
    <3>2. CASE j = m + 1
      BY <1>8, <1>10, <2>1, <3>1, <3>2
    <3>3. CASE j \in 1 .. m
      <4>1. off + i < off + j
        BY <2>4
      <4> QED BY <1>8, <2>1, <3>1, <3>3, <4>1
    <3> QED BY <2>2, <3>2, <3>3
  <2>5. new[Len(new)] = id
    BY <1>8
  <2>6. ASSUME NEW x \in P PROVE x < new[1] \/ \E i \in 1 .. Len(new) : new[i] = x
    <3>1. CASE m = 0
      BY <1>8, <1>10, <3>1
    <3>2. CASE m > 0
      <4>1. new[1] = b[off + 1] /\ off + 1 \in 1 .. Len(b) /\ 1 \in 1 .. Len(b)
        BY <1>1, <1>7, <1>8, <3>2
      <4>2. \A i \in 1 .. Len(b) : b[i] \in Nat
        BY <1>1
      <4>3. CASE x < b[1]
        <5>1. b[1] <= b[off + 1]
          BY <2>1, <4>1, <4>2
        <5> QED BY <4>1, <4>2, <4>3, <5>1
      <4>4. ASSUME NEW i \in 1 .. Len(b), b[i] = x PROVE x < new[1] \/ \E k \in 1 .. Len(new) : new[k] = x
        <5>1. CASE i > off
          <6>1. i - off \in 1 .. m /\ off + (i - off) = i /\ i - off \in 1 .. Len(new)
            BY <1>1, <1>7, <1>8, <5>1
          <6>2. new[i - off] = x
            BY <1>8, <4>4, <6>1
          <6> QED BY <6>1, <6>2
        <5>2. CASE ~(i > off)
          <6>1. i < off + 1
            BY <5>2
          <6> QED BY <2>1, <4>1, <4>4, <6>1
        <5> QED BY <5>1, <5>2
      <4> QED BY <1>1, <2>1, <3>2, <4>1, <4>3, <4>4
    <3> QED BY <3>1, <3>2
  <2>7. \E i \in 1 .. Len(new) : new[i] = id
    BY <1>8
  <2>8. \A x \in P \cup {id} : /\ x <= new[Len(new)]
                               /\ x < new[1] \/ \E i \in 1 .. Len(new) : new[i] = x
    BY <1>10, <2>5, <2>6, <2>7
  <2> QED BY <2>3, <2>4, <2>8 DEF Gapless
<1> QED BY <1>4, <1>8, <1>9, <1>10

\* What a client that reconnects is told, when nothing was overtaken.
LEMMA ReplayIsComplete ==
    ASSUME EventInv, NEW last \in Nat, Replay(last), ~disordered
    PROVE  /\ replay'.result = "ok" =>
                /\ replay'.missed = {}
                /\ \A i, j \in DOMAIN replay'.events : i < j => replay'.events[i] < replay'.events[j]
           /\ replay'.result = "future" => replay'.cursor \notin replay'.known
<1>1. PICK events : events = EventsAfter(last)
  OBVIOUS
<1>2. PICK missed : missed = {id \in published : id > last} \ {events[i] : i \in DOMAIN events}
  OBVIOUS
<1>3. replay' = [cursor |-> last, result |-> ReplayResult(last),
                 events |-> IF ReplayResult(last) = "ok" THEN events ELSE <<>>,
                 known |-> published, missed |-> missed]
  BY <1>1, <1>2 DEF Replay
<1>4. /\ buffer \in Seq(Nat) /\ Len(buffer) \in Nat /\ event_counter \in Nat
      /\ \A x \in published : x \in Nat /\ x <= event_counter
      /\ Gapless(buffer, published) /\ \A i \in 1 .. Len(buffer) : buffer[i] \in Nat
  BY DEF EventInv
<1>5. events \in Seq(Nat) /\ \E at : LeftAt(at, events, buffer, 0 .. last, Len(buffer))
  BY <1>1, <1>4, WithoutProperties DEF EventsAfter
<1>6. PICK at : LeftAt(at, events, buffer, 0 .. last, Len(buffer))
  BY <1>5
<1>7. DOMAIN events = 1 .. Len(events) /\ Len(events) \in Nat
  BY <1>5
<1>8. \A i, j \in DOMAIN events : i < j => events[i] < events[j]
  <2> SUFFICES ASSUME NEW i \in DOMAIN events, NEW j \in DOMAIN events, i < j
               PROVE  events[i] < events[j]
    OBVIOUS
  <2>1. /\ at[i] \in 1 .. Len(buffer) /\ at[j] \in 1 .. Len(buffer) /\ at[i] < at[j]
        /\ events[i] = buffer[at[i]] /\ events[j] = buffer[at[j]]
    BY <1>6, <1>7 DEF LeftAt
  <2> QED BY <1>4, <2>1 DEF Gapless
<1>9. buffer # <<>> => /\ Len(buffer) > 0
                       /\ \A x \in published : /\ x <= buffer[Len(buffer)]
                                               /\ x < buffer[1] \/ \E i \in 1 .. Len(buffer) : buffer[i] = x
  BY <1>4, EmptySeq DEF Gapless
<1>10. ASSUME ReplayResult(last) = "ok" PROVE missed = {}
  <2> SUFFICES ASSUME NEW x \in published, x > last PROVE \E i \in DOMAIN events : events[i] = x
    BY <1>2
  <2>1. CASE buffer = <<>>
    <3>1. ~(last > event_counter) /\ ~(last < event_counter)
      BY <1>10, <2>1 DEF ReplayResult
    <3> QED BY <1>4, <3>1
  <2>2. CASE buffer # <<>>
    <3>1. ~(last < SaturatingDec(buffer[1]))
      BY <1>10, <2>2 DEF ReplayResult
    <3>2. ~(x < buffer[1])
      BY <1>4, <1>9, <2>2, <3>1 DEF SaturatingDec
    <3>3. PICK i \in 1 .. Len(buffer) : buffer[i] = x
      BY <1>9, <2>2, <3>2
    <3>4. x \notin 0 .. last
      BY <1>4
    <3>5. PICK k \in 1 .. Len(events) : at[k] = i
      BY <1>6, <3>3, <3>4 DEF LeftAt
    <3> QED BY <1>6, <1>7, <3>3, <3>5 DEF LeftAt
  <2> QED BY <2>1, <2>2
<1>11. ASSUME ReplayResult(last) = "future" PROVE last \notin published
  <2>1. CASE buffer = <<>>
    BY <1>4, <1>11, <2>1 DEF ReplayResult
  <2>2. CASE buffer # <<>>
    <3>1. last > buffer[Len(buffer)]
      BY <1>11, <2>2 DEF ReplayResult
    <3>2. buffer[Len(buffer)] \in Nat
      BY <1>4, <1>9, <2>2
    <3> QED BY <1>9, <2>2, <3>1, <3>2
  <2> QED BY <2>1, <2>2
<1> QED BY <1>3, <1>8, <1>10, <1>11

\* Ids are taken in order and buffered by whoever took them.
LEMMA EventStep == EventInv /\ [SseNext]_sseVars => EventInv'
<1> SUFFICES ASSUME EventInv, [SseNext]_sseVars PROVE EventInv'
  OBVIOUS
<1>1. /\ event_counter \in Nat /\ disordered \in BOOLEAN
      /\ buffer \in Seq(Nat) /\ Len(buffer) <= BufferSize
      /\ published \subseteq 1 .. event_counter
      /\ wpc \in [Writers -> {"idle", "formatted"}] /\ wevent \in [Writers -> 0 .. event_counter]
      /\ \A w \in Writers : wpc[w] = "formatted" => wevent[w] > 0 /\ wevent[w] \notin published
      /\ \A v, w \in Writers :
           wpc[v] = "formatted" /\ wpc[w] = "formatted" /\ wevent[v] = wevent[w] => v = w
      /\ ~disordered => Gapless(buffer, published)
  BY DEF EventInv
<1>2. 1 .. event_counter \subseteq 1 .. event_counter + 1 /\ 0 .. event_counter \subseteq 0 .. event_counter + 1
        /\ event_counter + 1 \in 0 .. event_counter + 1 /\ event_counter + 1 \in Nat
  BY <1>1
<1>3. CASE FormatEndpoint
  <2>1. /\ event_counter' = event_counter + 1
        /\ UNCHANGED <<buffer, wpc, wevent, published, disordered>>
    BY <1>3 DEF FormatEndpoint
  <2>2. published' \subseteq 1 .. event_counter' /\ wevent' \in [Writers -> 0 .. event_counter']
    BY <1>1, <1>2, <2>1
  <2> QED BY <1>1, <1>2, <2>1, <2>2 DEF EventInv
<1>4. ASSUME NEW w \in Writers, TakeEventId(w) PROVE EventInv'
  <2>1. /\ event_counter' = event_counter + 1 /\ wevent' = [wevent EXCEPT ![w] = event_counter + 1]
        /\ wpc' = [wpc EXCEPT ![w] = "formatted"] /\ UNCHANGED <<buffer, published, disordered>>
    BY <1>4 DEF TakeEventId
  <2>2. /\ wpc' \in [Writers -> {"idle", "formatted"}] /\ wevent' \in [Writers -> 0 .. event_counter']
        /\ wevent'[w] = event_counter + 1
        /\ \A v \in Writers : v # w => wpc'[v] = wpc[v] /\ wevent'[v] = wevent[v]
    <3>1. \A v \in Writers : wevent[v] \in 0 .. event_counter + 1
      BY <1>1, <1>2
    <3> QED BY <1>1, <1>2, <2>1, <3>1
  <2>3. published' \subseteq 1 .. event_counter' /\ event_counter + 1 \notin published
    BY <1>1, <1>2, <2>1
  <2>4. \A v \in Writers : wevent[v] # event_counter + 1
    BY <1>1
  <2>5. \A v \in Writers : wpc'[v] = "formatted" => wevent'[v] > 0 /\ wevent'[v] \notin published'
    BY <1>1, <2>1, <2>2, <2>3
  <2>6. \A v, x \in Writers :
          wpc'[v] = "formatted" /\ wpc'[x] = "formatted" /\ wevent'[v] = wevent'[x] => v = x
    BY <1>1, <2>2, <2>4
  <2> QED BY <1>1, <1>2, <2>1, <2>2, <2>3, <2>5, <2>6 DEF EventInv
<1>5. ASSUME NEW w \in Writers, BufferEvent(w) PROVE EventInv'
  <2>1. /\ wpc[w] = "formatted" /\ buffer' = PushEvent(buffer, wevent[w])
        /\ published' = published \cup {wevent[w]} /\ wpc' = [wpc EXCEPT ![w] = "idle"]
        /\ disordered' = (disordered \/ \E id \in published : id > wevent[w])
        /\ UNCHANGED <<event_counter, wevent>>
    BY <1>5 DEF BufferEvent
  <2>2. PICK id \in Nat : id = wevent[w] /\ id \in 1 .. event_counter /\ id \notin published
    BY <1>1, <2>1
  <2>3. /\ wpc' \in [Writers -> {"idle", "formatted"}] /\ wpc'[w] = "idle"
        /\ \A v \in Writers : v # w => wpc'[v] = wpc[v]
    BY <1>1, <2>1
  <2>4. disordered' \in BOOLEAN
    BY <2>1
  <2>5. ~disordered' => ~disordered /\ \A x \in published : x < id
    <3>1. ~disordered' => ~disordered /\ \A x \in published : ~(x > id)
      BY <1>1, <2>1, <2>2
    <3>2. \A x \in published : x \in Nat /\ x # id
      BY <1>1, <2>2
    <3> QED BY <3>1, <3>2
  <2>6. buffer' \in Seq(Nat) /\ Len(buffer') <= BufferSize /\ (~disordered' => Gapless(buffer', published'))
    <3>1. CASE BufferSize = 0
      <4>1. buffer' = buffer
        BY <2>1, <3>1 DEF PushEvent
      <4>2. buffer = <<>>
        BY <1>1, <3>1, EmptySeq
      <4>3. Gapless(<<>>, published')
        BY DEF Gapless
      <4> QED BY <1>1, <4>1, <4>2, <4>3
    <3>2. CASE BufferSize # 0
      <4>1. BufferSize > 0 /\ published \in SUBSET Nat
        BY <1>1, <3>2, SseAssumption
      <4>2. /\ PushEvent(buffer, id) \in Seq(Nat) /\ Len(PushEvent(buffer, id)) <= BufferSize
            /\ Gapless(buffer, published) /\ (\A x \in published : x < id)
                 => Gapless(PushEvent(buffer, id), published \cup {id})
        BY <1>1, <4>1, PushKeepsGapless
      <4> QED BY <1>1, <2>1, <2>2, <2>5, <4>2
    <3> QED BY <3>1, <3>2
  <2>7. published' \subseteq 1 .. event_counter'
    BY <1>1, <2>1, <2>2
  <2>8. \A v \in Writers : wpc'[v] = "formatted" => wevent'[v] > 0 /\ wevent'[v] \notin published'
    BY <1>1, <2>1, <2>3
  <2> QED BY <1>1, <2>1, <2>3, <2>4, <2>6, <2>7, <2>8 DEF EventInv
<1>6. CASE (\E last \in 0 .. MaxEvents : Replay(last)) \/ UNCHANGED eventVars
  <2>1. UNCHANGED <<event_counter, buffer, wpc, wevent, published, disordered>>
    BY <1>6 DEF Replay, eventVars
  <2> QED BY <1>1, <2>1 DEF EventInv
<1> QED BY <1>3, <1>4, <1>5, <1>6 DEF SseNext, EventsNext, sseVars

\* A replay that is not refused leaves nothing out and is in order, whatever the
\* size of the buffer, as long as no event was buffered after a later one
\* (checked_replay_events, EventBuffer::push and format_response).
THEOREM ReplaysAreComplete == SseSpec => []ReplayComplete
<1>1. SseInit => EventInv /\ ReplayComplete
  <2> SUFFICES ASSUME SseInit PROVE EventInv /\ ReplayComplete
    OBVIOUS
  <2>1. /\ event_counter = 0 /\ buffer = <<>> /\ published = {} /\ replay.result = "none"
        /\ wpc = [w \in Writers |-> "idle"] /\ wevent = [w \in Writers |-> 0]
    BY DEF SseInit, NoReplay
  <2>2. disordered \in BOOLEAN
    BY DEF SseInit
  <2>3. Gapless(buffer, published) /\ Len(buffer) <= BufferSize /\ buffer \in Seq(Nat)
    BY <2>1, SseAssumption DEF Gapless
  <2> QED BY <2>1, <2>2, <2>3 DEF EventInv, ReplayComplete
<1>2. EventInv /\ ReplayComplete /\ [SseNext]_sseVars => ReplayComplete'
  <2> SUFFICES ASSUME EventInv, ReplayComplete, [SseNext]_sseVars PROVE ReplayComplete'
    OBVIOUS
  <2>1. ASSUME NEW last \in 0 .. MaxEvents, Replay(last) PROVE ReplayComplete'
    <3>1. last \in Nat /\ disordered' = disordered
      BY <2>1, SseAssumption DEF Replay
    <3> QED BY <2>1, <3>1, ReplayIsComplete DEF ReplayComplete
  <2>2. ASSUME replay' = replay, ~disordered' => ~disordered PROVE ReplayComplete'
    BY <2>2 DEF ReplayComplete
  <2>3. ASSUME NEW w \in Writers, BufferEvent(w) PROVE ReplayComplete'
    BY <2>2, <2>3 DEF BufferEvent
  <2>4. ASSUME NEW w \in Writers, TakeEventId(w) PROVE ReplayComplete'
    BY <2>2, <2>4 DEF TakeEventId
  <2>5. CASE FormatEndpoint \/ UNCHANGED eventVars
    BY <2>2, <2>5 DEF FormatEndpoint, eventVars
  <2> QED BY <2>1, <2>3, <2>4, <2>5 DEF SseNext, EventsNext, sseVars
<1> QED BY <1>1, <1>2, EventStep, PTL DEF SseSpec

----------------------------------------------------------------------------
(* SseMessageHandler: the queue of POSTed messages *)

PostInv ==
    /\ responses \in Seq(PostPool) /\ taken \in Seq(PostPool) /\ accepted = taken \o responses
    /\ Len(responses) <= MaxPending /\ QueuedBytes <= MaxPendingBytes
    /\ \A i \in DOMAIN accepted :
         accepted[i].method \in SsePostMethods \ SseNotifications /\ ~PostIsNotification(accepted[i])

\* A message adds its size to the queue.
LEMMA QueuedBytesGrow ==
    ASSUME NEW m \in PostPool, responses \in Seq(PostPool), responses' = Append(responses, m)
    PROVE  QueuedBytes' = QueuedBytes + m.kept
<1>1. PICK n \in Nat : n = Len(responses) /\ DOMAIN responses = 1 .. n
  BY LenProperties
<1>2. PICK sizes : sizes = [i \in DOMAIN responses |-> responses[i].kept]
  OBVIOUS
<1>3. PICK k \in Nat : k = m.kept
  BY SseAssumption
<1>4. sizes \in Seq(Nat) /\ Len(sizes) = n
  <2>1. \A i \in 1 .. n : responses[i].kept \in Nat
    BY <1>1, SseAssumption
  <2> QED BY <1>1, <1>2, <2>1
<1>5. DOMAIN responses' = 1 .. n + 1 /\ responses'[n + 1] = m /\ \A i \in 1 .. n : responses'[i] = responses[i]
  BY <1>1, AppendProperties, LenProperties
<1>6. [i \in DOMAIN responses' |-> responses'[i].kept] = Append(sizes, k)
  <2>1. PICK more \in Seq(Nat) : more = Append(sizes, k)
    <3>1. Append(sizes, k) \in Seq(Nat)
      BY <1>4, AppendProperties
    <3> QED BY <3>1
  <2>2. DOMAIN more = 1 .. n + 1 /\ more[n + 1] = k /\ \A i \in 1 .. n : more[i] = sizes[i]
    BY <1>4, <2>1, AppendProperties, LenProperties
  <2>3. more = [i \in 1 .. n + 1 |-> more[i]]
    <3>1. more \in [1 .. Len(more) -> Nat]
      BY <2>1, LenProperties
    <3>2. Len(more) = n + 1
      BY <1>4, <2>1, AppendProperties
    <3> QED BY <3>1, <3>2
  <2>4. ASSUME NEW i \in 1 .. n + 1 PROVE responses'[i].kept = more[i]
    <3>1. CASE i = n + 1
      BY <3>1, <1>3, <1>5, <2>2
    <3>2. CASE i # n + 1
      <4>1. i \in 1 .. n
        BY <3>2
      <4> QED BY <4>1, <1>1, <1>2, <1>5, <2>2
    <3> QED BY <3>1, <3>2
  <2> QED BY <1>5, <2>1, <2>3, <2>4
<1>7. Total(Append(sizes, k)) = Total(sizes) + k
  BY <1>4, TotalProperties
<1> QED BY <1>2, <1>3, <1>6, <1>7 DEF QueuedBytes

\* handle_message, and take_responses.
LEMMA PostStep == PostInv /\ [SseNext]_sseVars => PostInv'
<1> SUFFICES ASSUME PostInv, [SseNext]_sseVars PROVE PostInv'
  OBVIOUS
<1>1. CASE UNCHANGED postVars
  BY <1>1 DEF postVars, PostInv, QueuedBytes
<1>2. CASE TakeResponses
  <2>1. taken' = taken \o responses /\ responses' = <<>> /\ accepted' = accepted
    BY <1>2 DEF TakeResponses
  <2>2. taken' \in Seq(PostPool) /\ responses' \in Seq(PostPool) /\ Len(responses') = 0
    BY <2>1, ConcatProperties DEF PostInv
  <2>3. accepted' = taken' \o responses'
    BY <2>1, <2>2, ConcatEmptySeq DEF PostInv
  <2>4. QueuedBytes' = 0
    <3>1. [i \in DOMAIN responses' |-> responses'[i].kept] = <<>>
      BY <2>1
    <3> QED BY <3>1, TotalProperties DEF QueuedBytes
  <2> QED BY <2>1, <2>2, <2>3, <2>4, SseAssumption DEF PostInv
<1>3. ASSUME NEW m \in PostPool, PostMessage(m) PROVE PostInv'
  <2>1. CASE UNCHANGED <<responses, accepted>>
    BY <1>3, <2>1, <1>1 DEF PostMessage, postVars
  <2>2. CASE /\ PostValid(m) /\ ~PostIsNotification(m) /\ FitsQueue(m)
             /\ responses' = Append(responses, m) /\ accepted' = Append(accepted, m)
    <3>1. taken' = taken
      BY <1>3 DEF PostMessage
    <3>2. QueuedBytes' <= MaxPendingBytes
      BY <2>2, QueuedBytesGrow DEF FitsQueue, PostInv
    <3>3. responses' \in Seq(PostPool) /\ Len(responses') <= MaxPending
      BY <2>2, SseAssumption, AppendProperties DEF FitsQueue, PostInv
    <3>4. accepted \in Seq(PostPool)
      BY ConcatProperties DEF PostInv
    <3>5. accepted' = taken' \o responses'
      <4>1. accepted' = (taken \o responses) \o <<m>> /\ responses' = responses \o <<m>>
        BY <2>2, <3>4, AppendIsConcat DEF PostInv
      <4>2. <<m>> \in Seq(PostPool)
        OBVIOUS
      <4> QED BY <3>1, <4>1, <4>2, ConcatAssociative DEF PostInv
    <3>6. m.method \in SsePostMethods \ SseNotifications
      BY <2>2 DEF PostValid
    <3>7. \A i \in DOMAIN accepted' : accepted'[i] = m \/ (i \in DOMAIN accepted /\ accepted'[i] = accepted[i])
      <4>1. PICK n \in Nat : n = Len(accepted) /\ DOMAIN accepted = 1 .. n
        BY <3>4, LenProperties
      <4>2. /\ DOMAIN accepted' = 1 .. n + 1 /\ accepted'[n + 1] = m
            /\ \A i \in 1 .. n : accepted'[i] = accepted[i]
        BY <2>2, <3>4, <4>1, AppendProperties, LenProperties
      <4>3. \A i \in 1 .. n + 1 : i = n + 1 \/ i \in 1 .. n
        OBVIOUS
      <4> QED BY <4>1, <4>2, <4>3
    <3>8. \A i \in DOMAIN accepted' :
            accepted'[i].method \in SsePostMethods \ SseNotifications /\ ~PostIsNotification(accepted'[i])
      BY <2>2, <3>6, <3>7 DEF PostInv
    <3> QED BY <3>1, <3>2, <3>3, <3>5, <3>8 DEF PostInv
  <2> QED BY <1>3, <2>1, <2>2 DEF PostMessage
<1> QED BY <1>1, <1>2, <1>3 DEF SseNext, PostNext, sseVars

\* SseMessageHandler: the queue keeps to both limits and hands out once and in
\* order what it accepted, for any messages, sizes and limits.
THEOREM PostsStayAccounted == SseSpec => []PostsAccounted
<1>1. SseInit => PostInv
  <2> SUFFICES ASSUME SseInit PROVE PostInv
    OBVIOUS
  <2>1. responses = <<>> /\ accepted = <<>> /\ taken = <<>>
    BY DEF SseInit
  <2>2. QueuedBytes = 0
    <3>1. [i \in DOMAIN responses |-> responses[i].kept] = <<>>
      BY <2>1
    <3> QED BY <3>1, TotalProperties DEF QueuedBytes
  <2>3. accepted = taken \o responses /\ DOMAIN accepted = {} /\ Len(responses) = 0
    BY <2>1, ConcatEmptySeq
  <2> QED BY <2>1, <2>2, <2>3, SseAssumption DEF PostInv
<1>2. PostInv => PostsAccounted
  BY DEF PostInv, PostsAccounted
<1> QED BY <1>1, <1>2, PostStep, PTL DEF SseSpec

----------------------------------------------------------------------------
(* LegacyAdapter.  That a tool runs at most once for each time its id came  *)
(* through the guard rests on the threads between guard and execution: they *)
(* are counted with what ran                                               *)

LegacySpec == LegacyInit /\ [][LegacyNext]_legacyVars

LegacyKeys == {m.key : m \in LegacyPool}

\* A name has one tool, a tool one name, and the two tables agree.
TablesPaired ==
    /\ name_ids \subseteq LegacyNames \X LegacyTools
    /\ \A p, q \in name_ids : p[1] = q[1] => p = q
    /\ \A p \in name_ids : <<p[2], p[1]>> \in id_names

\* What ran was negotiated and is in the table.
RanGranted ==
    \A i \in DOMAIN lran :
        /\ manifest # {} /\ \A tools \in manifest : lran[i][3] \in tools
        /\ <<lran[i][2], lran[i][3]>> \in name_ids

LegacyTypes ==
    /\ lstarted \in [tools : Nat, requests : Nat]
    /\ lthread \in [LegacyThreads -> {"idle", "execute"}]
    /\ lreq \in [LegacyThreads -> LegacyPool \cup {NoMessage}]
    /\ window \in Seq(LegacyKeys) /\ lrecorded \in Seq(LegacyKeys)
    /\ lran \in Seq(LegacyKeys \X LegacyNames \X LegacyTools)

\* A thread that executes a call has passed the checks and the guard.
ExecutingChecked ==
    \A t \in LegacyThreads : lthread[t] = "execute" =>
        lreq[t] \in LegacyPool /\ manifest # {} /\ lstarted.requests > 0

NothingYet == lstarted.requests = 0 => lran = <<>>

Executing(k) == {t \in LegacyThreads : lthread[t] = "execute" /\ lreq[t].key = k}
RanFor(k) == {i \in DOMAIN lran : lran[i][1] = k}
RecordedAs(k) == {i \in DOMAIN lrecorded : lrecorded[i] = k}

\* Every run, and every thread on its way to one, has its own pass of the guard.
PassesSuffice ==
    \A k \in LegacyKeys :
        Cardinality(RanFor(k)) + Cardinality(Executing(k)) <= Cardinality(RecordedAs(k))

LegacyInv ==
    /\ LegacyTypes /\ TablesPaired /\ RanGranted /\ ExecutingChecked /\ NothingYet
    /\ PassesSuffice
    /\ Windowed(window, lrecorded, LegacyWindow) /\ Spaced(lrecorded, LegacyWindow)

\* The three sets that are counted are finite.
LEMMA PassesFinite ==
    ASSUME LegacyTypes, NEW k
    PROVE  /\ IsFiniteSet(RanFor(k)) /\ IsFiniteSet(Executing(k)) /\ IsFiniteSet(RecordedAs(k))
           /\ Cardinality(RanFor(k)) \in Nat /\ Cardinality(Executing(k)) \in Nat
           /\ Cardinality(RecordedAs(k)) \in Nat
<1>1. /\ Len(lran) \in Nat /\ DOMAIN lran = 1 .. Len(lran)
      /\ Len(lrecorded) \in Nat /\ DOMAIN lrecorded = 1 .. Len(lrecorded)
  BY LenProperties DEF LegacyTypes
<1>2. IsFiniteSet(1 .. Len(lran)) /\ IsFiniteSet(1 .. Len(lrecorded))
  BY <1>1, FS_Interval
<1>3. /\ RanFor(k) \subseteq 1 .. Len(lran) /\ RecordedAs(k) \subseteq 1 .. Len(lrecorded)
      /\ Executing(k) \subseteq LegacyThreads
  BY <1>1 DEF RanFor, RecordedAs, Executing
<1>4. IsFiniteSet(RanFor(k)) /\ IsFiniteSet(Executing(k)) /\ IsFiniteSet(RecordedAs(k))
  BY <1>2, <1>3, FS_Subset, LegacyAssumption
<1> QED BY <1>4, FS_CardinalityType

\* Registration, before any request.
LEMMA LegacyRegisterPreserves ==
    ASSUME LegacyInv, NEW name \in LegacyNames, NEW tool \in LegacyTools, LegacyRegister(name, tool)
    PROVE  LegacyInv'
<1> USE DEF LegacyInv
<1>1. /\ lstarted.requests = 0 /\ lstarted' = [lstarted EXCEPT !.tools = @ + 1]
      /\ UNCHANGED <<manifest, window, lthread, lreq, lrecorded, lran>>
  BY DEF LegacyRegister
<1>2. /\ lstarted' \in [tools : Nat, requests : Nat] /\ lstarted'.requests = 0
      /\ lran = <<>> /\ lran' = <<>>
  BY <1>1 DEF LegacyTypes, NothingYet
<1>3. LegacyTypes' /\ NothingYet'
  BY <1>1, <1>2 DEF LegacyTypes, NothingYet
<1>4. ExecutingChecked'
  BY <1>1 DEF ExecutingChecked, LegacyTypes
<1>5. RanGranted'
  BY <1>2 DEF RanGranted
<1>6. PassesSuffice'
  BY <1>1 DEF PassesSuffice, RanFor, Executing, RecordedAs
<1>7. Windowed(window, lrecorded, LegacyWindow)' /\ Spaced(lrecorded, LegacyWindow)'
  BY <1>1 DEF Windowed, Spaced
<1>8. TablesPaired'
  <2>1. CASE LegacyRegistrable(name, tool)
    <3>1. /\ name_ids' = name_ids \cup {<<name, tool>>}
          /\ id_names' = {p \in id_names : p[1] # tool} \cup {<<tool, name>>}
      BY <2>1 DEF LegacyRegister
    <3>2. (\A p \in name_ids : p[1] # name) /\ (\A pair \in id_names : pair[1] # tool)
      BY <2>1 DEF LegacyRegistrable, ToolNamed
    <3>3. id_names \subseteq id_names'
      BY <3>1, <3>2
    <3>4. \A p, q \in name_ids' : p[1] = q[1] => p = q
      BY <3>1, <3>2 DEF TablesPaired
    <3> QED BY <3>1, <3>3, <3>4 DEF TablesPaired
  <2>2. CASE ~LegacyRegistrable(name, tool)
    BY <2>2 DEF LegacyRegister, TablesPaired
  <2> QED BY <2>1, <2>2
<1> QED BY <1>3, <1>4, <1>5, <1>6, <1>7, <1>8

\* The guard records a key that it does not hold.
LEMMA LegacyRecordSlides ==
    ASSUME LegacyInv, NEW k \in LegacyKeys, LegacyRecord(k),
           ~ \E i \in DOMAIN window : window[i] = k
    PROVE  /\ window' \in Seq(LegacyKeys) /\ lrecorded' \in Seq(LegacyKeys)
           /\ lrecorded' = Append(lrecorded, k)
           /\ Windowed(window', lrecorded', LegacyWindow) /\ Spaced(lrecorded', LegacyWindow)
<1> USE DEF LegacyInv
<1>1. /\ window \in Seq(LegacyKeys) /\ lrecorded \in Seq(LegacyKeys) /\ LegacyWindow \in Nat
      /\ Len(window) \in Nat /\ Len(window) <= LegacyWindow /\ DOMAIN window = 1 .. Len(window)
  BY LegacyAssumption, LenProperties DEF LegacyTypes, Windowed
<1>2. PICK grown : grown = Append(window, k)
  OBVIOUS
<1>3. grown \in Seq(LegacyKeys) /\ Len(grown) = Len(window) + 1
  BY <1>1, <1>2, AppendProperties
<1>4. /\ window' = SubSeq(grown, IF Len(grown) > LegacyWindow THEN 2 ELSE 1, Len(grown))
      /\ lrecorded' = Append(lrecorded, k)
  BY <1>2 DEF LegacyRecord
<1>5. window' = Slid(window, k, LegacyWindow)
  <2>1. CASE Len(grown) > LegacyWindow
    <3>1. Len(grown) - LegacyWindow + 1 = 2
      BY <1>1, <1>3, <2>1
    <3> QED BY <1>2, <1>4, <2>1, <3>1 DEF Slid
  <2>2. CASE ~(Len(grown) > LegacyWindow)
    <3>1. window' = SubSeq(grown, 1, Len(grown))
      BY <1>4, <2>2
    <3>2. SubSeq(grown, 1, Len(grown)) = grown
      BY <1>3, SubSeqFull
    <3> QED BY <1>2, <2>2, <3>1, <3>2 DEF Slid
  <2> QED BY <2>1, <2>2
<1>6. window' \in Seq(LegacyKeys) /\ Windowed(window', lrecorded', LegacyWindow)
  BY <1>1, <1>4, <1>5, WindowSlides
<1>7. Spaced(lrecorded', LegacyWindow)
  BY <1>1, <1>4, NewIsSpaced
<1>8. lrecorded' \in Seq(LegacyKeys)
  BY <1>1, <1>4, AppendProperties
<1> QED BY <1>4, <1>6, <1>7, <1>8

\* One element more is counted for the key that was recorded.
LEMMA OneMoreRecorded ==
    ASSUME LegacyTypes, NEW k \in LegacyKeys, lrecorded' = Append(lrecorded, k)
    PROVE  /\ Cardinality(RecordedAs(k)') = Cardinality(RecordedAs(k)) + 1
           /\ \A o \in LegacyKeys : o # k => RecordedAs(o)' = RecordedAs(o)
<1>1. PICK n \in Nat : n = Len(lrecorded) /\ DOMAIN lrecorded = 1 .. n
  BY LenProperties DEF LegacyTypes
<1>2. /\ DOMAIN lrecorded' = 1 .. n + 1 /\ lrecorded'[n + 1] = k
      /\ \A i \in 1 .. n : lrecorded'[i] = lrecorded[i]
  BY <1>1, AppendProperties, LenProperties DEF LegacyTypes
<1>3. RecordedAs(k)' = RecordedAs(k) \cup {n + 1} /\ n + 1 \notin RecordedAs(k)
  BY <1>1, <1>2 DEF RecordedAs
<1>4. \A o \in LegacyKeys : o # k => RecordedAs(o)' = RecordedAs(o)
  BY <1>1, <1>2 DEF RecordedAs
<1>5. IsFiniteSet(RecordedAs(k))
  BY PassesFinite
<1> QED BY <1>3, <1>4, <1>5, FS_AddElement

\* One element more is counted for the key of a call that ran.
LEMMA OneMoreRan ==
    ASSUME LegacyTypes, NEW k, NEW name, NEW tool, lran' = Append(lran, <<k, name, tool>>),
           k \in LegacyKeys, name \in LegacyNames, tool \in LegacyTools
    PROVE  /\ Cardinality(RanFor(k)') = Cardinality(RanFor(k)) + 1
           /\ \A o \in LegacyKeys : o # k => RanFor(o)' = RanFor(o)
           /\ lran' \in Seq(LegacyKeys \X LegacyNames \X LegacyTools)
           /\ \A i \in DOMAIN lran' : lran'[i] = <<k, name, tool>> \/ (i \in DOMAIN lran /\ lran'[i] = lran[i])
<1>1. PICK n \in Nat : n = Len(lran) /\ DOMAIN lran = 1 .. n
  BY LenProperties DEF LegacyTypes
<1>2. PICK e : e = <<k, name, tool>>
  OBVIOUS
<1>e. e \in LegacyKeys \X LegacyNames \X LegacyTools /\ e[1] = k
  BY <1>2
<1>3. /\ DOMAIN lran' = 1 .. n + 1 /\ lran'[n + 1] = e
      /\ \A i \in 1 .. n : lran'[i] = lran[i]
      /\ lran' \in Seq(LegacyKeys \X LegacyNames \X LegacyTools)
  BY <1>1, <1>2, <1>e, AppendProperties, LenProperties DEF LegacyTypes
<1>4. RanFor(k)' = RanFor(k) \cup {n + 1} /\ n + 1 \notin RanFor(k)
  BY <1>1, <1>e, <1>3 DEF RanFor
<1>5. \A o \in LegacyKeys : o # k => RanFor(o)' = RanFor(o)
  BY <1>1, <1>e, <1>3 DEF RanFor
<1>6. Cardinality(RanFor(k)') = Cardinality(RanFor(k)) + 1
  BY <1>4, PassesFinite, FS_AddElement
<1>7. \A i \in DOMAIN lran' : lran'[i] = e \/ (i \in DOMAIN lran /\ lran'[i] = lran[i])
  <2> SUFFICES ASSUME NEW i \in 1 .. n + 1 PROVE i = n + 1 \/ i \in 1 .. n
    BY <1>1, <1>3
  <2> QED BY <1>1
<1> QED BY <1>2, <1>3, <1>5, <1>6, <1>7

\* A request: refused, answered at once, or past the guard.
LEMMA LegacyRequestPreserves ==
    ASSUME LegacyInv, NEW t \in LegacyThreads, NEW m \in LegacyPool, LegacyRequest(t, m)
    PROVE  LegacyInv'
<1> USE DEF LegacyInv
<1>1. /\ lthread[t] = "idle" /\ lstarted' = [lstarted EXCEPT !.requests = @ + 1]
      /\ UNCHANGED <<name_ids, id_names, manifest, lran>>
  BY DEF LegacyRequest
<1>2. lstarted' \in [tools : Nat, requests : Nat] /\ lstarted'.requests > 0
  BY <1>1 DEF LegacyTypes
<1>3. NothingYet'
  BY <1>2 DEF NothingYet
<1>4. TablesPaired' /\ RanGranted'
  BY <1>1 DEF TablesPaired, RanGranted
<1>5. CASE m.method = "tools/call" /\ ~LegacyRefused(m)
  <2>1. /\ LegacyRecord(m.key) /\ lthread' = [lthread EXCEPT ![t] = "execute"]
        /\ lreq' = [lreq EXCEPT ![t] = m]
    BY <1>5 DEF LegacyRequest
  <2>2. manifest # {} /\ ~ \E i \in DOMAIN window : window[i] = m.key
    BY <1>5 DEF LegacyRefused, CallRefused
  <2>3. PICK k \in LegacyKeys : k = m.key
    BY DEF LegacyKeys
  <2>4. /\ window' \in Seq(LegacyKeys) /\ lrecorded' \in Seq(LegacyKeys)
        /\ lrecorded' = Append(lrecorded, k)
        /\ Windowed(window', lrecorded', LegacyWindow) /\ Spaced(lrecorded', LegacyWindow)
    BY <2>1, <2>2, <2>3, LegacyRecordSlides
  <2>5. LegacyTypes'
    BY <1>1, <1>2, <2>1, <2>4 DEF LegacyTypes
  <2>6. ExecutingChecked'
    BY <1>1, <1>2, <2>1, <2>2 DEF ExecutingChecked, LegacyTypes
  <2>7. PassesSuffice'
    <3>1. Executing(k)' = Executing(k) \cup {t} /\ t \notin Executing(k)
      BY <1>1, <2>1, <2>3 DEF Executing, LegacyTypes
    <3>2. Cardinality(Executing(k)') = Cardinality(Executing(k)) + 1
      BY <3>1, PassesFinite, FS_AddElement
    <3>3. \A o \in LegacyKeys : o # k => Executing(o)' = Executing(o)
      BY <1>1, <2>1, <2>3 DEF Executing, LegacyTypes
    <3>4. \A o \in LegacyKeys : RanFor(o)' = RanFor(o)
      BY <1>1 DEF RanFor
    <3>5. /\ Cardinality(RecordedAs(k)') = Cardinality(RecordedAs(k)) + 1
          /\ \A o \in LegacyKeys : o # k => RecordedAs(o)' = RecordedAs(o)
      BY <2>4, OneMoreRecorded
    <3>6. ASSUME NEW o \in LegacyKeys
          PROVE  Cardinality(RanFor(o)') + Cardinality(Executing(o)') <= Cardinality(RecordedAs(o)')
      <4>1. CASE o = k
        <5>1. /\ Cardinality(RanFor(k)) \in Nat /\ Cardinality(Executing(k)) \in Nat
              /\ Cardinality(RecordedAs(k)) \in Nat
              /\ Cardinality(RanFor(k)) + Cardinality(Executing(k)) <= Cardinality(RecordedAs(k))
          BY PassesFinite DEF PassesSuffice
        <5> QED BY <4>1, <5>1, <3>2, <3>4, <3>5
      <4>2. CASE o # k
        BY <4>2, <3>3, <3>4, <3>5 DEF PassesSuffice
      <4> QED BY <4>1, <4>2
    <3> QED BY <3>6 DEF PassesSuffice
  <2> QED BY <1>3, <1>4, <2>4, <2>5, <2>6, <2>7
<1>6. CASE ~(m.method = "tools/call" /\ ~LegacyRefused(m))
  <2>1. UNCHANGED <<window, lrecorded, lthread, lreq>>
    BY <1>6 DEF LegacyRequest
  <2>2. LegacyTypes'
    BY <1>1, <1>2, <2>1 DEF LegacyTypes
  <2>3. ExecutingChecked'
    BY <1>1, <1>2, <2>1 DEF ExecutingChecked
  <2>4. PassesSuffice'
    BY <1>1, <2>1 DEF PassesSuffice, RanFor, Executing, RecordedAs
  <2>5. Windowed(window, lrecorded, LegacyWindow)' /\ Spaced(lrecorded, LegacyWindow)'
    BY <2>1 DEF Windowed, Spaced
  <2> QED BY <1>3, <1>4, <2>2, <2>3, <2>4, <2>5
<1> QED BY <1>5, <1>6

\* The execution, of a negotiated tool or refused.
LEMMA LegacyExecutePreserves ==
    ASSUME LegacyInv, NEW t \in LegacyThreads, LegacyExecute(t)
    PROVE  LegacyInv'
<1> USE DEF LegacyInv
<1>1. /\ lthread[t] = "execute" /\ lthread' = [lthread EXCEPT ![t] = "idle"]
      /\ lreq' = [lreq EXCEPT ![t] = NoMessage]
      /\ UNCHANGED <<name_ids, id_names, manifest, window, lstarted, lrecorded>>
  BY DEF LegacyExecute
<1>2. PICK m \in LegacyPool : m = lreq[t] /\ manifest # {} /\ lstarted.requests > 0
  BY <1>1 DEF ExecutingChecked
<1>3. PICK k \in LegacyKeys : k = m.key
  BY DEF LegacyKeys
<1>4. \/ lran' = lran
      \/ \E tool \in ToolNamed(m.name) :
           (\A tools \in manifest : tool \in tools) /\ lran' = Append(lran, <<k, m.name, tool>>)
  BY <1>2, <1>3 DEF LegacyExecute
<1>5. TablesPaired'
  BY <1>1 DEF TablesPaired
<1>6. ExecutingChecked'
  BY <1>1 DEF ExecutingChecked, LegacyTypes
<1>7. NothingYet'
  BY <1>1, <1>2 DEF NothingYet, LegacyTypes
<1>8. Windowed(window, lrecorded, LegacyWindow)' /\ Spaced(lrecorded, LegacyWindow)'
  BY <1>1 DEF Windowed, Spaced
<1>9. lthread' \in [LegacyThreads -> {"idle", "execute"}] /\ lreq' \in [LegacyThreads -> LegacyPool \cup {NoMessage}]
  BY <1>1 DEF LegacyTypes
<1>10. Executing(k)' = Executing(k) \ {t} /\ t \in Executing(k)
  BY <1>1, <1>2, <1>3 DEF Executing, LegacyTypes
<1>11. Cardinality(Executing(k)') = Cardinality(Executing(k)) - 1
  BY <1>10, PassesFinite, FS_RemoveElement
<1>12. \A o \in LegacyKeys : o # k => Executing(o)' = Executing(o)
  BY <1>1, <1>2, <1>3 DEF Executing, LegacyTypes
<1>13. \A o \in LegacyKeys : RecordedAs(o)' = RecordedAs(o)
  BY <1>1 DEF RecordedAs
<1>14. /\ Cardinality(RanFor(k)) \in Nat /\ Cardinality(Executing(k)) \in Nat
       /\ Cardinality(RecordedAs(k)) \in Nat
       /\ Cardinality(RanFor(k)) + Cardinality(Executing(k)) <= Cardinality(RecordedAs(k))
  BY PassesFinite DEF PassesSuffice
<1>15. CASE lran' = lran
  <2>1. LegacyTypes' /\ RanGranted'
    BY <1>1, <1>9, <1>15 DEF LegacyTypes, RanGranted
  <2>2. \A o \in LegacyKeys : RanFor(o)' = RanFor(o)
    BY <1>15 DEF RanFor
  <2>3. ASSUME NEW o \in LegacyKeys
        PROVE  Cardinality(RanFor(o)') + Cardinality(Executing(o)') <= Cardinality(RecordedAs(o)')
    <3>1. CASE o = k
      BY <3>1, <2>2, <1>11, <1>13, <1>14
    <3>2. CASE o # k
      BY <3>2, <2>2, <1>12, <1>13 DEF PassesSuffice
    <3> QED BY <3>1, <3>2
  <2>4. PassesSuffice'
    BY <2>3 DEF PassesSuffice
  <2> QED BY <1>5, <1>6, <1>7, <1>8, <2>1, <2>4
<1>16. CASE \E tool \in ToolNamed(m.name) :
              (\A tools \in manifest : tool \in tools) /\ lran' = Append(lran, <<k, m.name, tool>>)
  <2>1. PICK tool \in ToolNamed(m.name) :
               (\A tools \in manifest : tool \in tools) /\ lran' = Append(lran, <<k, m.name, tool>>)
    BY <1>16
  <2>2. PICK name : name = m.name
    OBVIOUS
  <2>3. <<name, tool>> \in name_ids /\ name \in LegacyNames /\ tool \in LegacyTools
    <3>1. PICK p \in name_ids : p[1] = name /\ p[2] = tool
      BY <2>1, <2>2 DEF ToolNamed
    <3>2. p \in LegacyNames \X LegacyTools
      BY <3>1 DEF TablesPaired
    <3>3. p = <<name, tool>>
      BY <3>1, <3>2
    <3> QED BY <3>1, <3>2, <3>3
  <2>4. lran' = Append(lran, <<k, name, tool>>)
    BY <2>1, <2>2
  <2>5. /\ Cardinality(RanFor(k)') = Cardinality(RanFor(k)) + 1
        /\ \A o \in LegacyKeys : o # k => RanFor(o)' = RanFor(o)
        /\ lran' \in Seq(LegacyKeys \X LegacyNames \X LegacyTools)
        /\ \A i \in DOMAIN lran' : lran'[i] = <<k, name, tool>> \/ (i \in DOMAIN lran /\ lran'[i] = lran[i])
    BY <2>3, <2>4, OneMoreRan
  <2>6. LegacyTypes'
    BY <1>1, <1>9, <2>5 DEF LegacyTypes
  <2>7. RanGranted'
    <3>1. ASSUME NEW i \in DOMAIN lran'
          PROVE  /\ manifest # {} /\ \A tools \in manifest : lran'[i][3] \in tools
                 /\ <<lran'[i][2], lran'[i][3]>> \in name_ids
      <4>1. CASE lran'[i] = <<k, name, tool>>
        BY <4>1, <1>2, <2>1, <2>3
      <4>2. CASE i \in DOMAIN lran /\ lran'[i] = lran[i]
        BY <4>2, <1>2 DEF RanGranted
      <4> QED BY <4>1, <4>2, <2>5
    <3> QED BY <3>1, <1>1 DEF RanGranted
  <2>8. ASSUME NEW o \in LegacyKeys
        PROVE  Cardinality(RanFor(o)') + Cardinality(Executing(o)') <= Cardinality(RecordedAs(o)')
    <3>1. CASE o = k
      BY <3>1, <2>5, <1>11, <1>13, <1>14
    <3>2. CASE o # k
      BY <3>2, <2>5, <1>12, <1>13 DEF PassesSuffice
    <3> QED BY <3>1, <3>2
  <2>9. PassesSuffice'
    BY <2>8 DEF PassesSuffice
  <2> QED BY <1>5, <1>6, <1>7, <1>8, <2>6, <2>7, <2>9
<1> QED BY <1>4, <1>15, <1>16

\* The older adapter's guards, for any threads, tools, messages and any size of
\* the replay window: a tool runs only if negotiated and under its own name, an
\* id passes again only after LegacyWindow others, and each pass runs it at most
\* once.
THEOREM LegacyStaysGuarded == LegacySpec => []LegacyGuarded
<1>1. LegacyInit => LegacyInv
  <2> SUFFICES ASSUME LegacyInit PROVE LegacyInv
    OBVIOUS
  <2>1. /\ window = <<>> /\ lrecorded = <<>> /\ lran = <<>> /\ name_ids = {}
        /\ lthread = [t \in LegacyThreads |-> "idle"] /\ lreq = [t \in LegacyThreads |-> NoMessage]
        /\ lstarted = [tools |-> 0, requests |-> 0]
    BY DEF LegacyInit
  <2>2. LegacyTypes
    BY <2>1 DEF LegacyTypes
  <2>3. DOMAIN lran = {} /\ DOMAIN lrecorded = {} /\ Len(window) = 0 /\ Len(lrecorded) = 0
    BY <2>1
  <2>4. TablesPaired /\ RanGranted /\ ExecutingChecked /\ NothingYet
    BY <2>1, <2>3 DEF TablesPaired, RanGranted, ExecutingChecked, NothingYet
  <2>5. \A k \in LegacyKeys : RanFor(k) = {} /\ Executing(k) = {} /\ RecordedAs(k) = {}
    BY <2>1, <2>3 DEF RanFor, Executing, RecordedAs
  <2>6. Cardinality({}) = 0
    BY FS_EmptySet
  <2>7. PassesSuffice
    BY <2>5, <2>6 DEF PassesSuffice
  <2>8. Windowed(window, lrecorded, LegacyWindow) /\ Spaced(lrecorded, LegacyWindow)
    BY <2>1, <2>3, LegacyAssumption DEF Windowed, Spaced
  <2> QED BY <2>2, <2>4, <2>7, <2>8 DEF LegacyInv
<1>2. LegacyInv /\ [LegacyNext]_legacyVars => LegacyInv'
  <2> SUFFICES ASSUME LegacyInv, [LegacyNext]_legacyVars PROVE LegacyInv'
    OBVIOUS
  <2>1. CASE LegacyNext
    BY <2>1, LegacyRegisterPreserves, LegacyRequestPreserves, LegacyExecutePreserves DEF LegacyNext
  <2>2. CASE UNCHANGED legacyVars
    BY <2>2 DEF legacyVars, LegacyInv, LegacyTypes, TablesPaired, RanGranted, ExecutingChecked, NothingYet,
       PassesSuffice, RanFor, Executing, RecordedAs, Windowed, Spaced
  <2> QED BY <2>1, <2>2
<1>3. LegacyInv => LegacyGuarded
  <2> SUFFICES ASSUME LegacyInv PROVE LegacyGuarded
    OBVIOUS
  <2>1. \A i, j \in DOMAIN lrecorded : i < j /\ lrecorded[i] = lrecorded[j] => j - i > LegacyWindow
    BY DEF LegacyInv, Spaced
  <2>2. ASSUME NEW i \in DOMAIN lran
        PROVE  /\ manifest # {} /\ \A tools \in manifest : lran[i][3] \in tools
               /\ ToolNamed(lran[i][2]) = {lran[i][3]}
               /\ <<lran[i][3], lran[i][2]>> \in id_names
               /\ Count(lran, LAMBDA r : r[1] = lran[i][1]) <= Count(lrecorded, LAMBDA k : k = lran[i][1])
    <3>1. /\ manifest # {} /\ \A tools \in manifest : lran[i][3] \in tools
          /\ <<lran[i][2], lran[i][3]>> \in name_ids
      BY <2>2 DEF LegacyInv, RanGranted
    <3>2. PICK r : r = lran[i] /\ r \in LegacyKeys \X LegacyNames \X LegacyTools
      BY <2>2 DEF LegacyInv, LegacyTypes
    <3>3. <<r[3], r[2]>> \in id_names
      BY <3>1, <3>2 DEF LegacyInv, TablesPaired
    <3>4. ToolNamed(r[2]) = {r[3]}
      <4>1. PICK pair \in name_ids : pair = <<r[2], r[3]>>
        BY <3>1, <3>2
      <4>2. \A p \in name_ids : p[1] = r[2] => p = pair
        BY <4>1 DEF LegacyInv, TablesPaired
      <4>3. \A x : x \in ToolNamed(r[2]) <=> \E p \in name_ids : p[1] = r[2] /\ x = p[2]
        BY DEF ToolNamed
      <4>4. \A x : x \in ToolNamed(r[2]) <=> x = r[3]
        BY <4>1, <4>2, <4>3
      <4> QED BY <4>4
    <3>5. PICK key \in LegacyKeys : key = r[1]
      BY <3>2
    <3>6. Cardinality(RanFor(key)) <= Cardinality(RecordedAs(key))
      <4>1. /\ Cardinality(RanFor(key)) \in Nat /\ Cardinality(Executing(key)) \in Nat
            /\ Cardinality(RecordedAs(key)) \in Nat
            /\ Cardinality(RanFor(key)) + Cardinality(Executing(key)) <= Cardinality(RecordedAs(key))
        BY PassesFinite DEF LegacyInv, PassesSuffice
      <4> QED BY <4>1
    <3>7. Count(lran, LAMBDA x : x[1] = key) <= Count(lrecorded, LAMBDA x : x = key)
      BY <3>6 DEF Count, RanFor, RecordedAs
    <3> QED BY <3>1, <3>2, <3>3, <3>4, <3>5, <3>7
  <2> QED BY <2>1, <2>2 DEF LegacyGuarded
<1> QED BY <1>1, <1>2, <1>3, PTL DEF LegacySpec
=============================================================================
