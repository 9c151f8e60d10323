--------------------------- MODULE ShutdownProofs ---------------------------
(* Proofs about ShutdownCoordinator, for any sets of callers.               *)
EXTENDS ShutdownCoordinator, FiniteSetTheorems, TLAPS

\* The initial state is well typed.
LEMMA InitTyped == Init => TypeOK
<1> SUFFICES ASSUME Init PROVE TypeOK
  OBVIOUS
<1>1. initiated \in BOOLEAN /\ shutdown \in BOOLEAN /\ notified \in BOOLEAN
  BY DEF Init
<1>2. req \in [Callers -> AdmitStates] /\ unmatched \in BOOLEAN
  BY DEF Init, AdmitStates
<1>3. sig \in [SignalTasks -> SigStates] /\ drain \in [Drainers -> DrainStates]
  BY DEF Init, SigStates, DrainStates
<1>4. logger \in LogStates /\ wait \in [Waiters -> WaitStates]
  BY DEF Init, LogStates, WaitStates
<1> QED BY <1>1, <1>2, <1>3, <1>4 DEF Init, TypeOK

\* The type invariant of the coordinator and its callers is preserved by
\* every step of every method.
THEOREM TypeCorrect == Spec => []TypeOK
<1>1. Init => TypeOK
  BY InitTyped
<1>2. TypeOK /\ [Next]_vars => TypeOK'
  <2> SUFFICES ASSUME TypeOK, [Next]_vars PROVE TypeOK'
    OBVIOUS
  <2> USE DEF TypeOK, AdmitStates, SigStates, DrainStates, LogStates, WaitStates
  <2>1. ASSUME NEW s \in SignalTasks, SignalStep(s) PROVE TypeOK'
    <3>1. CASE ShutdownSwap(s)
      BY <3>1 DEF ShutdownSwap
    <3>2. CASE ShutdownStore(s)
      BY <3>2 DEF ShutdownStore
    <3>3. CASE ShutdownNotify(s)
      BY <3>3 DEF ShutdownNotify
    <3> QED BY <2>1, <3>1, <3>2, <3>3 DEF SignalStep
  <2>2. ASSUME NEW r \in Callers, RequestStep(r) PROVE TypeOK'
    <3>1. CASE RequestDone(r)
      <4>1. unmatched' \in BOOLEAN
        BY <3>1 DEF RequestDone
      <4> QED BY <3>1, <4>1 DEF RequestDone, CheckedSub
    <3> QED BY <2>2, <3>1 DEF RequestStep, RequestStart, RequestAdd, RequestRecheck,
                              RequestUndo, CheckedSub, Refused
  <2>4. ASSUME NEW d \in Drainers, DrainStep(d) PROVE TypeOK'
    BY <2>4 DEF DrainStep, DrainBegin, DrainSeesZero, DrainTimesOut
  <2>5. ASSUME NEW d \in Drainers \cup {LOGGER}, DeadlinePasses(d) PROVE TypeOK'
    BY <2>5 DEF DeadlinePasses
  <2>6. CASE LogStep
    <3>1. CASE LogReadCount
      <4>1. verdicts' \subseteq (Drainers \cup {LOGGER}) \X BOOLEAN
        BY <3>1 DEF LogReadCount
      <4> QED BY <3>1, <4>1 DEF LogReadCount
    <3> QED BY <2>6, <3>1 DEF LogStep, LogStart, LogReadFlag
  <2>7. ASSUME NEW w \in Waiters, WaitSubscribe(w) \/ WaitRecv(w) PROVE TypeOK'
    BY <2>7 DEF WaitSubscribe, WaitRecv
  <2>8. CASE UNCHANGED vars
    BY <2>8 DEF vars
  <2> QED BY <2>1, <2>2, <2>4, <2>5, <2>6, <2>7, <2>8 DEF Next
<1> QED BY <1>1, <1>2, PTL DEF Spec

\* There are finitely many callers.
LEMMA CallersFinite == IsFiniteSet(Callers)
BY CallersAssumption, FS_Union DEF Callers

\* One step moves caller r to pc without touching the counted set, or adds
\* r to it, or takes r out of it; the cardinality follows.
LEMMA CountedStep ==
    ASSUME NEW r \in Callers, NEW pc \in AdmitStates,
           req \in [Callers -> AdmitStates],
           req' = [req EXCEPT ![r] = pc]
    PROVE  /\ IsFiniteSet(Counted) /\ Cardinality(Counted) \in Nat
           /\ (req[r] \in {"recheck", "undo", "active"}) <=> r \in Counted
           /\ pc \in {"recheck", "undo", "active"} =>
                Counted' = Counted \cup {r}
           /\ pc \in {"idle", "add", "refused"} => Counted' = Counted \ {r}
           /\ r \in Counted => Cardinality(Counted) > 0
<1>1. IsFiniteSet(Counted)
  BY CallersFinite, FS_Subset DEF Counted
<1>2. Cardinality(Counted) \in Nat
  BY <1>1, FS_CardinalityType
<1>3. r \in Counted => Cardinality(Counted) > 0
  BY <1>1, <1>2, FS_EmptySet
<1>4. pc \in {"recheck", "undo", "active"} => Counted' = Counted \cup {r}
  BY DEF Counted
<1>5. pc \in {"idle", "add", "refused"} => Counted' = Counted \ {r}
  BY DEF Counted
<1> QED BY <1>1, <1>2, <1>3, <1>4, <1>5 DEF Counted

\* The strengthening of the safety properties: the counter is exact until a
\* refused caller decrements, and whoever saw the flag before a zero count saw
\* it truly.
SafeInv ==
    /\ TypeOK
    /\ InFlightExact
    /\ DrainSound
    /\ logger = "initiated" => shutdown

\* A zero count means no request is admitted.
LEMMA ZeroMeansIdle ==
    ASSUME SafeInv, in_flight = 0, ~unmatched
    PROVE  \A r \in Callers : req[r] # "active"
<1>1. IsFiniteSet(Counted)
  BY CallersFinite, FS_Subset DEF Counted
<1>2. Counted = {}
  BY <1>1, FS_EmptySet DEF SafeInv, InFlightExact
<1> QED BY <1>2 DEF Counted

\* A step that adds no verdict and admits nobody keeps the verdicts right.
LEMMA VerdictsStay ==
    ASSUME DrainSound, verdicts' = verdicts, shutdown => shutdown',
           \A r \in Callers : shutdown /\ req[r] # "active" => req'[r] # "active"
    PROVE  DrainSound'
BY DEF DrainSound, Verdict

\* SafeInv is an invariant.
LEMMA SafeInvHolds == Spec => []SafeInv
<1>1. Init => SafeInv
  <2> SUFFICES ASSUME Init PROVE SafeInv
    OBVIOUS
  <2>1. Counted = {}
    BY DEF Init, Counted
  <2>2. TypeOK
    BY InitTyped
  <2> QED BY <2>1, <2>2, FS_EmptySet DEF Init, SafeInv, InFlightExact, DrainSound, Verdict
<1>2. SafeInv /\ TypeOK' /\ [Next]_vars => SafeInv'
  <2> SUFFICES ASSUME SafeInv, TypeOK', [Next]_vars PROVE SafeInv'
    OBVIOUS
  <2> USE DEF SafeInv
  <2>1. ASSUME NEW s \in SignalTasks, SignalStep(s) PROVE SafeInv'
    <3>1. /\ Counted' = Counted /\ req' = req /\ in_flight' = in_flight
          /\ unmatched' = unmatched /\ verdicts' = verdicts /\ logger' = logger
          /\ shutdown => shutdown'
      BY <2>1 DEF SignalStep, ShutdownSwap, ShutdownStore, ShutdownNotify, Counted
    <3> QED BY <3>1, VerdictsStay DEF InFlightExact
  <2>2. ASSUME NEW r \in Callers, RequestStep(r) PROVE SafeInv'
    <3>0. req \in [Callers -> AdmitStates]
      BY DEF TypeOK
    <3>1. DrainSound' /\ (logger' = "initiated" => shutdown')
      <4>1. /\ verdicts' = verdicts /\ shutdown' = shutdown /\ logger' = logger
            /\ \A q \in Callers : shutdown /\ req[q] # "active" => req'[q] # "active"
        BY <2>2, <3>0 DEF RequestStep, RequestStart, RequestAdd, RequestRecheck,
                          RequestUndo, RequestDone, Refused
      <4> QED BY <4>1, VerdictsStay
    <3>2. InFlightExact'
      <4>1. CASE RequestStart(r) \/ RequestRecheck(r)
        <5>1. Counted' = Counted
          BY <4>1, <3>0 DEF RequestStart, RequestRecheck, Counted, Refused
        <5> QED BY <4>1, <5>1 DEF RequestStart, RequestRecheck, InFlightExact
      <4>2. CASE RequestAdd(r)
        <5>1. /\ IsFiniteSet(Counted) /\ Cardinality(Counted) \in Nat
              /\ r \notin Counted /\ Counted' = Counted \cup {r}
          BY <4>2, <3>0, CountedStep DEF RequestAdd, AdmitStates
        <5>2. Cardinality(Counted') = Cardinality(Counted) + 1
          BY <5>1, FS_AddElement
        <5> QED BY <4>2, <5>2 DEF RequestAdd, InFlightExact
      <4>3. CASE RequestUndo(r) \/ (RequestDone(r) /\ req[r] = "active")
        <5>1. /\ IsFiniteSet(Counted) /\ Cardinality(Counted) \in Nat
              /\ r \in Counted /\ Counted' = Counted \ {r}
              /\ Cardinality(Counted) > 0
          BY <4>3, <3>0, CountedStep DEF RequestUndo, RequestDone, AdmitStates, Refused
        <5>2. Cardinality(Counted') = Cardinality(Counted) - 1
          BY <5>1, FS_RemoveElement
        <5>3. unmatched' <=> unmatched
          <6>1. CASE RequestUndo(r)
            BY <6>1 DEF RequestUndo
          <6>2. CASE RequestDone(r) /\ req[r] = "active"
            <7>1. unmatched' = (unmatched \/ req[r] = "refused") /\ req[r] # "refused"
              BY <6>2 DEF RequestDone
            <7> QED BY <7>1
          <6> QED BY <4>3, <6>1, <6>2
        <5>4. in_flight' = CheckedSub(in_flight)
          BY <4>3 DEF RequestUndo, RequestDone
        <5> QED BY <5>1, <5>2, <5>3, <5>4 DEF CheckedSub, InFlightExact
      <4>4. CASE RequestDone(r) /\ req[r] = "refused"
        BY <4>4 DEF RequestDone, InFlightExact
      <4> QED BY <2>2, <4>1, <4>2, <4>3, <4>4 DEF RequestStep, RequestDone
    <3> QED BY <3>1, <3>2
  <2>3. ASSUME NEW d \in Drainers, DrainStep(d) PROVE SafeInv'
    <3>1. /\ Counted' = Counted /\ req' = req /\ in_flight' = in_flight
          /\ unmatched' = unmatched /\ logger' = logger /\ shutdown' = shutdown
      BY <2>3 DEF DrainStep, DrainBegin, DrainSeesZero, DrainTimesOut, Counted
    <3>2. DrainSound'
      <4>1. CASE verdicts' = verdicts
        BY <3>1, <4>1, VerdictsStay
      <4>2. CASE verdicts' # verdicts
        <5>1. in_flight = 0 /\ shutdown /\ verdicts' = verdicts \cup {<<d, unmatched>>}
          BY <2>3, <4>2 DEF DrainStep, DrainBegin, DrainSeesZero, DrainTimesOut
        <5>2. CASE ~unmatched
          BY <3>1, <5>1, <5>2, ZeroMeansIdle DEF DrainSound
        <5>3. CASE unmatched
          BY <3>1, <5>1, <5>3 DEF DrainSound, Verdict
        <5> QED BY <5>2, <5>3
      <4> QED BY <4>1, <4>2
    <3> QED BY <3>1, <3>2 DEF InFlightExact
  <2>4. ASSUME NEW d \in Drainers \cup {LOGGER}, DeadlinePasses(d) PROVE SafeInv'
    <3>1. Counted' = Counted
      BY <2>4 DEF DeadlinePasses, Counted
    <3> QED BY <2>4, <3>1 DEF DeadlinePasses, InFlightExact, DrainSound, Verdict
  <2>5. CASE LogStep
    <3>1. /\ Counted' = Counted /\ req' = req /\ in_flight' = in_flight
          /\ unmatched' = unmatched /\ shutdown' = shutdown
          /\ logger' = "initiated" => shutdown
      BY <2>5 DEF LogStep, LogStart, LogReadFlag, LogReadCount, Counted
    <3>2. DrainSound'
      <4>1. CASE verdicts' = verdicts
        BY <3>1, <4>1, VerdictsStay
      <4>2. CASE verdicts' # verdicts
        <5>1. /\ in_flight = 0 /\ shutdown
              /\ verdicts' = verdicts \cup {<<LOGGER, unmatched>>}
          BY <2>5, <4>2 DEF LogStep, LogStart, LogReadFlag, LogReadCount
        <5>2. CASE ~unmatched
          BY <3>1, <5>1, <5>2, ZeroMeansIdle DEF DrainSound
        <5>3. CASE unmatched
          BY <3>1, <5>1, <5>3 DEF DrainSound, Verdict
        <5> QED BY <5>2, <5>3
      <4> QED BY <4>1, <4>2
    <3> QED BY <3>1, <3>2 DEF InFlightExact
  <2>6. ASSUME NEW w \in Waiters, WaitSubscribe(w) \/ WaitRecv(w) PROVE SafeInv'
    <3>1. Counted' = Counted
      BY <2>6 DEF WaitSubscribe, WaitRecv, Counted
    <3> QED BY <2>6, <3>1 DEF WaitSubscribe, WaitRecv, InFlightExact, DrainSound, Verdict
  <2>7. CASE UNCHANGED vars
    <3>1. Counted' = Counted
      BY <2>7 DEF vars, Counted
    <3> QED BY <2>7, <3>1 DEF vars, InFlightExact, DrainSound, Verdict
  <2> QED BY <2>1, <2>2, <2>3, <2>4, <2>5, <2>6, <2>7 DEF Next
<1> QED BY <1>1, <1>2, TypeCorrect, PTL DEF Spec

\* Until a refused manual caller decrements no verdict is premature: neither
\* wait_drain nor the logger reports a finished shutdown while admitted work
\* runs.
THEOREM DrainIsSound == Spec => []DrainSound
<1>1. SafeInv => DrainSound
  BY DEF SafeInv
<1> QED BY <1>1, SafeInvHolds, PTL

\* in_flight is the number of callers that have added themselves and not yet
\* taken themselves off, however start_request, its undo and end_request
\* interleave, until a refused manual caller decrements.
THEOREM InFlightIsExact == Spec => []InFlightExact
<1>1. SafeInv => InFlightExact
  BY DEF SafeInv
<1> QED BY <1>1, SafeInvHolds, PTL

\* The coordinator implements the abstract gate: the callers it admits enter
\* while the flag is down, and its verdicts come when nothing is inside.
THEOREM GateRefinement == Spec => ImplementsGate
<1> DEFINE inside == {r \in Callers : req[r] = "active"}
<1>1. Init => Gate!Init
  BY DEF Init, Gate!Init, Verdict
<1>2. SafeInv /\ SafeInv' /\ [Next]_vars => [Gate!Next]_(Gate!gateVars)
  <2> SUFFICES ASSUME SafeInv, SafeInv', [Next]_vars
               PROVE  [Gate!Next]_(Gate!gateVars)
    OBVIOUS
  <2> USE DEF Gate!gateVars
  <2>0. verdicts' = verdicts => Verdict' = Verdict
    BY DEF Verdict
  <2>1. ASSUME NEW s \in SignalTasks, SignalStep(s) PROVE Gate!CloseGate \/ UNCHANGED Gate!gateVars
    BY <2>1, <2>0 DEF SignalStep, ShutdownSwap, ShutdownStore, ShutdownNotify, Gate!CloseGate
  <2>2. ASSUME NEW r \in Callers, RequestStep(r)
        PROVE  Gate!Enter(r) \/ Gate!Leave(r) \/ UNCHANGED Gate!gateVars
    <3>0. req \in [Callers -> AdmitStates]
      BY DEF SafeInv, TypeOK
    <3>5. Verdict' = Verdict /\ shutdown' = shutdown
      BY <2>2, <2>0 DEF RequestStep, RequestStart, RequestAdd, RequestRecheck,
                        RequestUndo, RequestDone
    <3>1. CASE \/ RequestStart(r) \/ RequestAdd(r) \/ RequestUndo(r)
               \/ (RequestDone(r) /\ req[r] = "refused")
      <4>1. inside' = inside
        BY <3>0, <3>1 DEF RequestStart, RequestAdd, RequestUndo, RequestDone, Refused
      <4> QED BY <3>5, <4>1
    <3>2. CASE RequestRecheck(r) /\ ~shutdown
      <4>1. inside' = inside \cup {r}
        BY <3>0, <3>2 DEF RequestRecheck
      <4> QED BY <3>2, <3>5, <4>1 DEF Gate!Enter
    <3>3. CASE RequestRecheck(r) /\ shutdown
      <4>1. inside' = inside
        BY <3>0, <3>3 DEF RequestRecheck
      <4> QED BY <3>5, <4>1
    <3>4. CASE RequestDone(r) /\ req[r] = "active"
      <4>1. inside' = inside \ {r} /\ r \in inside
        BY <3>0, <3>4 DEF RequestDone
      <4> QED BY <3>5, <4>1 DEF Gate!Leave
    <3> QED BY <2>2, <3>1, <3>2, <3>3, <3>4 DEF RequestStep, RequestDone
  <2>3. ASSUME NEW d \in Drainers, DrainStep(d)
        PROVE  Gate!DeclareDrained \/ UNCHANGED Gate!gateVars
    <3>1. shutdown' = shutdown /\ inside' = inside
      BY <2>3 DEF DrainStep, DrainBegin, DrainSeesZero, DrainTimesOut
    <3>2. CASE Verdict' = Verdict
      BY <3>1, <3>2
    <3>3. CASE Verdict' # Verdict
      <4>1. /\ in_flight = 0 /\ shutdown
            /\ verdicts' = verdicts \cup {<<d, unmatched>>}
        BY <2>3, <3>3, <2>0 DEF DrainStep, DrainBegin, DrainSeesZero, DrainTimesOut
      <4>2. ~unmatched
        BY <4>1, <3>3 DEF Verdict
      <4>3. inside = {}
        BY <4>1, <4>2, ZeroMeansIdle
      <4>4. Verdict'
        <5>1. <<d, FALSE>> \in verdicts'
          <6>1. unmatched = FALSE
            BY <4>2 DEF SafeInv, TypeOK
          <6> QED BY <4>1, <6>1
        <5> QED BY <5>1 DEF Verdict
      <4> QED BY <3>1, <4>1, <4>3, <4>4 DEF Gate!DeclareDrained
    <3> QED BY <3>2, <3>3
  <2>4. ASSUME NEW d \in Drainers \cup {LOGGER}, DeadlinePasses(d)
        PROVE  UNCHANGED Gate!gateVars
    BY <2>4, <2>0 DEF DeadlinePasses
  <2>5. CASE LogStep
    <3>1. shutdown' = shutdown /\ inside' = inside
      BY <2>5 DEF LogStep, LogStart, LogReadFlag, LogReadCount
    <3>2. CASE Verdict' = Verdict
      BY <3>1, <3>2
    <3>3. CASE Verdict' # Verdict
      <4>1. /\ in_flight = 0 /\ shutdown
            /\ verdicts' = verdicts \cup {<<LOGGER, unmatched>>}
        BY <2>5, <3>3, <2>0 DEF LogStep, LogStart, LogReadFlag, LogReadCount, SafeInv
      <4>2. ~unmatched
        BY <4>1, <3>3 DEF Verdict
      <4>3. inside = {}
        BY <4>1, <4>2, ZeroMeansIdle
      <4>4. Verdict'
        <5>1. <<LOGGER, FALSE>> \in verdicts'
          <6>1. unmatched = FALSE
            BY <4>2 DEF SafeInv, TypeOK
          <6> QED BY <4>1, <6>1
        <5> QED BY <5>1 DEF Verdict
      <4> QED BY <3>1, <4>1, <4>3, <4>4 DEF Gate!DeclareDrained, Gate!Next
    <3> QED BY <3>2, <3>3
  <2>6. ASSUME NEW w \in Waiters, WaitSubscribe(w) \/ WaitRecv(w)
        PROVE  UNCHANGED Gate!gateVars
    BY <2>6, <2>0 DEF WaitSubscribe, WaitRecv
  <2>7. CASE UNCHANGED vars
    BY <2>7, <2>0 DEF vars
  <2> QED BY <2>1, <2>2, <2>3, <2>4, <2>5, <2>6, <2>7 DEF Next, Gate!Next
<1> QED BY <1>1, <1>2, SafeInvHolds, PTL DEF Spec, ImplementsGate, Gate!Spec

\* After the flag's store no request_start and no increment_in_flight admits
\* work, with any number of signal loops and drainers around it.
THEOREM NoLateAdmission == Spec => AdmissionClosed
<1>1. TypeOK /\ [Next]_vars =>
        [\A r \in Callers : shutdown /\ req[r] # "active" => req'[r] # "active"]_vars
  <2> SUFFICES ASSUME TypeOK, Next, NEW r \in Callers, shutdown, req[r] # "active"
               PROVE  req'[r] # "active"
    OBVIOUS
  <2>1. ASSUME NEW q \in Callers, RequestStep(q) PROVE req'[r] # "active"
    BY <2>1 DEF TypeOK, RequestStep, RequestStart, RequestAdd, RequestRecheck,
                RequestUndo, RequestDone, Refused
  <2>2. CASE \/ \E s \in SignalTasks : SignalStep(s)
             \/ \E d \in Drainers : DrainStep(d)
             \/ \E d \in Drainers \cup {LOGGER} : DeadlinePasses(d)
             \/ LogStep
             \/ \E w \in Waiters : WaitSubscribe(w) \/ WaitRecv(w)
    <3>1. req' = req
      BY <2>2 DEF SignalStep, ShutdownSwap, ShutdownStore, ShutdownNotify,
           DrainStep, DrainBegin, DrainSeesZero, DrainTimesOut,
           DeadlinePasses, LogStep, LogStart, LogReadFlag, LogReadCount,
           WaitSubscribe, WaitRecv
    <3> QED BY <3>1
  <2> QED BY <2>1, <2>2 DEF Next
<1> QED BY <1>1, TypeCorrect, PTL DEF Spec, AdmissionClosed
=============================================================================
