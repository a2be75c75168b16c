------------------------ MODULE CircuitBreakerProofs ------------------------
(***************************************************************************)
(* The circuit breaker's safety properties for any number of requests, any *)
(* pool size, threshold, probe budget and counter cap.                     *)
(***************************************************************************)
EXTENDS CircuitBreaker, FiniteSetTheorems, TLAPS

\* The error counter stays in range, and counting one more error takes a
\* count below the threshold to at most the threshold.
LEMMA BumpFacts ==
    ASSUME NEW n \in 0..ErrCap
    PROVE  /\ Bump(n) \in 0..ErrCap
           /\ Bump(n) >= n
           /\ n < CB_OPEN_THRESHOLD => Bump(n) = n + 1
BY ErrCapAssumption, ThresholdAssumption DEF Bump

\* Type correctness of the breaker's own fields, which is all that the other
\* invariants need of TypeOK.
BreakerTypeOK ==
    /\ state \in Circuit
    /\ consecutiveErrs \in 0..ErrCap
    /\ halfOpenProbes \in 0..CB_HALF_OPEN_PROBES
    /\ gauge \in Circuit
    /\ admitted \in Nat
    /\ phantom \in Nat

\* The strengthened invariant of the breaker's fields.
BreakerInv ==
    /\ BreakerTypeOK
    /\ ClosedIffBelowThreshold
    /\ HalfOpenAdmissions
    /\ GaugeNeverAhead

\* Counting an error keeps BreakerInv, whoever counts it.
LEMMA CountErrorPreserves ==
    ASSUME BreakerInv, NEW published \in BOOLEAN, CountError(published),
           phantom' \in Nat
    PROVE  BreakerInv'
<1> DEFINE m == Bump(consecutiveErrs)
<1>1. m \in 0..ErrCap /\ m >= consecutiveErrs
  BY BumpFacts DEF BreakerInv, BreakerTypeOK
<1>2. consecutiveErrs' = m /\ UNCHANGED <<halfOpenProbes, admitted>>
  BY DEF CountError
<1>3. CASE state = "closed" /\ m >= CB_OPEN_THRESHOLD
  <2>1. state' = "open" /\ (gauge' = "open" \/ gauge' = gauge)
    BY <1>3 DEF CountError
  <2> QED
    BY <1>1, <1>2, <1>3, <2>1, ErrCapAssumption, ThresholdAssumption, ProbesAssumption
       DEF BreakerInv, BreakerTypeOK, Circuit, ClosedIffBelowThreshold,
           HalfOpenAdmissions, GaugeNeverAhead
<1>4. CASE ~(state = "closed" /\ m >= CB_OPEN_THRESHOLD)
  <2>1. UNCHANGED <<state, gauge>>
    BY <1>4 DEF CountError
  <2> QED
    BY <1>1, <1>2, <1>4, <2>1, ErrCapAssumption, ThresholdAssumption, ProbesAssumption
       DEF BreakerInv, BreakerTypeOK, Circuit, ClosedIffBelowThreshold,
           HalfOpenAdmissions, GaugeNeverAhead
<1> QED
  BY <1>3, <1>4

\* recordFailure counts one error and nothing else.
LEMMA RecordFailurePreserves ==
    ASSUME BreakerInv, NEW real \in BOOLEAN, RecordFailure(real)
    PROVE  BreakerInv'
<1>1. phantom' \in Nat
  BY DEF RecordFailure, BreakerInv, BreakerTypeOK
<1> QED
  BY <1>1, CountErrorPreserves DEF RecordFailure

\* A success resets the count exactly when it leaves the circuit closed; the
\* health check's success does the same but keeps the gauge and the probes.
LEMMA SuccessPreserves ==
    ASSUME BreakerInv, RecordSuccess \/ CheckApplyOK
    PROVE  BreakerInv'
<1> USE ErrCapAssumption, ThresholdAssumption, ProbesAssumption
        DEF BreakerInv, BreakerTypeOK, Circuit, ClosedIffBelowThreshold,
            HalfOpenAdmissions, GaugeNeverAhead
<1>1. CASE RecordSuccess
  <2>1. CASE state = "halfopen"
    BY <1>1, <2>1 DEF RecordSuccess
  <2>2. CASE state = "open"
    BY <1>1, <2>2 DEF RecordSuccess
  <2>3. CASE state = "closed"
    BY <1>1, <2>3 DEF RecordSuccess
  <2> QED
    BY <2>1, <2>2, <2>3
<1>2. CASE CheckApplyOK
  <2>0. UNCHANGED <<halfOpenProbes, gauge>>
    BY <1>2 DEF CheckApplyOK
  <2>1. CASE state = "halfopen"
    <3>1. state' = "closed" /\ consecutiveErrs' = 0 /\ phantom' = 0 /\ admitted' = 0
      BY <1>2, <2>1 DEF CheckApplyOK
    <3> QED
      BY <2>0, <2>1, <3>1
  <2>2. CASE state = "open"
    <3>1. UNCHANGED <<state, consecutiveErrs, phantom, admitted>>
      BY <1>2, <2>2 DEF CheckApplyOK
    <3> QED
      BY <2>0, <2>2, <3>1
  <2>3. CASE state = "closed"
    <3>1. /\ state' = "closed" /\ consecutiveErrs' = 0 /\ phantom' = 0
          /\ admitted' = admitted
      BY <1>2, <2>3 DEF CheckApplyOK
    <3> QED
      BY <2>0, <2>3, <3>1
  <2> QED
    BY <2>1, <2>2, <2>3
<1> QED
  BY <1>1, <1>2

\* canRequest keeps BreakerInv, whether it answers, opens the half-open phase or
\* takes a probe.
LEMMA CanRequestPreserves ==
    ASSUME BreakerInv, CanRequest
    PROVE  BreakerInv'
<1> USE ErrCapAssumption, ThresholdAssumption, ProbesAssumption
        DEF BreakerInv, BreakerTypeOK, Circuit, ClosedIffBelowThreshold,
            HalfOpenAdmissions, GaugeNeverAhead
<1>1. CASE UNCHANGED breakerVars
  BY <1>1 DEF breakerVars
<1>2. CASE EnterHalfOpen
  BY <1>2 DEF EnterHalfOpen
<1>3. CASE TakeProbe
  BY <1>3 DEF TakeProbe
<1> QED
  BY <1>1, <1>2, <1>3 DEF CanRequest

\* One step per action of the specification.
LEMMA StepPreserves == BreakerInv /\ [Next]_vars => BreakerInv'
<1> SUFFICES ASSUME BreakerInv, [Next]_vars PROVE BreakerInv'
  OBVIOUS
<1>0. ASSUME UNCHANGED <<state, consecutiveErrs, halfOpenProbes, gauge, admitted,
                         phantom>>
      PROVE  BreakerInv'
  BY <1>0 DEF BreakerInv, BreakerTypeOK, ClosedIffBelowThreshold,
              HalfOpenAdmissions, GaugeNeverAhead
<1>1. ASSUME NEW r \in Requests, Admit(r) PROVE BreakerInv'
  BY <1>1, CanRequestPreserves DEF Admit
<1>2. ASSUME NEW r \in Requests, Reject(r) \/ Attempt(r) \/ GiveUp(r)
      PROVE  BreakerInv'
  BY <1>0, <1>2 DEF Reject, Attempt, GiveUp, breakerVars
<1>3. ASSUME NEW r \in Requests, RecordRejection(r) PROVE BreakerInv'
  BY <1>3, RecordFailurePreserves DEF RecordRejection
<1>4. ASSUME NEW r \in Requests, Conclude(r) PROVE BreakerInv'
  <2>1. RecordSuccess \/ RecordFailure(TRUE) \/ UNCHANGED breakerVars
    BY <1>4 DEF Conclude
  <2> QED
    BY <1>0, <2>1, SuccessPreserves, RecordFailurePreserves DEF breakerVars
<1>5. CASE CheckEmpty \/ CheckApplyBad
  <2>1. CountError(FALSE) /\ phantom' \in Nat
    BY <1>5 DEF CheckEmpty, CheckApplyBad, BreakerInv, BreakerTypeOK
  <2> QED
    BY <2>1, CountErrorPreserves
<1>6. CASE CheckApplyOK
  BY <1>6, SuccessPreserves
<1>7. CASE CheckProbe \/ Elapse \/ Environment \/ UNCHANGED vars
  BY <1>0, <1>7 DEF CheckProbe, Elapse, Environment, vars, breakerVars
<1> QED
  BY <1>1, <1>2, <1>3, <1>4, <1>5, <1>6, <1>7 DEF Next, RequestStep, CheckStep

\* A fresh breaker satisfies BreakerInv.
LEMMA InitEstablishes == Init => BreakerInv
BY ErrCapAssumption, ThresholdAssumption, ProbesAssumption
   DEF Init, BreakerInv, BreakerTypeOK, Circuit, ClosedIffBelowThreshold,
       HalfOpenAdmissions, GaugeNeverAhead

\* The strengthened invariant holds in every reachable state.
THEOREM Invariance == Spec => []BreakerInv
BY InitEstablishes, StepPreserves, PTL DEF Spec

\* The circuit is closed exactly while the error count is below the
\* threshold, for every interleaving of requests and health checks.
THEOREM ClosedBelowThreshold == Spec => []ClosedIffBelowThreshold
BY Invariance, PTL DEF BreakerInv

\* A half-open phase admits at most CB_HALF_OPEN_PROBES + 1 requests.
THEOREM HalfOpenAdmissionBound == Spec => []HalfOpenAdmissions
BY Invariance, PTL DEF BreakerInv

\* The metric never shows an opening that is over, and shows every half-open
\* phase.
THEOREM GaugeLag == Spec => []GaugeNeverAhead
BY Invariance, PTL DEF BreakerInv

-----------------------------------------------------------------------------
(***************************************************************************)
(* Types of the rest of the state.                                         *)
(***************************************************************************)

OtherTypeOK ==
    /\ openElapsed \in BOOLEAN
    /\ pc \in [Requests -> RequestPC]
    /\ attempts \in [Requests -> 0..MaxAttempts]
    /\ checker \in {"idle", "answered ok", "answered bad"}
    /\ pool \in {"empty", "disabled", "some"}
    /\ probeOK \in BOOLEAN

\* openElapsed is only ever set to a truth value or left alone.
LEMMA ElapsedStep ==
    ASSUME [Next]_vars
    PROVE  openElapsed' \in BOOLEAN \/ openElapsed' = openElapsed
BY Zenon DEF Next, RequestStep, CheckStep, Admit, CanRequest, EnterHalfOpen, TakeProbe,
       Reject, RecordRejection, Attempt, GiveUp, Conclude, RecordFailure,
       RecordSuccess, CountError, CheckEmpty, CheckProbe, CheckApplyOK,
       CheckApplyBad, Elapse, Environment, vars, breakerVars

\* A loop that ends forgets its remaining attempts.
LEMMA ResetAttempts ==
    ASSUME NEW f \in [Requests -> 0..MaxAttempts], NEW r \in Requests
    PROVE  [f EXCEPT ![r] = 0] \in [Requests -> 0..MaxAttempts]
<1>1. 0 \in 0..MaxAttempts
  BY AttemptsAssumption
<1> QED
  BY <1>1

\* Every step keeps the types of the loops, the health check and the clock.
LEMMA OtherTypesStep == OtherTypeOK /\ [Next]_vars => OtherTypeOK'
<1> SUFFICES ASSUME OtherTypeOK, [Next]_vars PROVE OtherTypeOK'
  OBVIOUS
<1> USE DEF OtherTypeOK
<1>0. openElapsed' \in BOOLEAN
  BY ElapsedStep
<1>1. ASSUME NEW r \in Requests, Admit(r) PROVE OtherTypeOK'
  <2>1. PICK total \in 0..MaxAttempts : attempts' = [attempts EXCEPT ![r] = total]
    BY <1>1 DEF Admit
  <2> QED
    BY <1>0, <1>1, <2>1 DEF Admit, envVars, RequestPC
<1>2. ASSUME NEW r \in Requests, Reject(r) \/ RecordRejection(r) PROVE OtherTypeOK'
  BY <1>0, <1>2 DEF Reject, RecordRejection, envVars, RequestPC
<1>3. ASSUME NEW r \in Requests, Attempt(r) PROVE OtherTypeOK'
  <2>1. PICK o \in Outcome : pc' = [pc EXCEPT ![r] = o]
    BY <1>3 DEF Attempt
  <2>2. attempts' \in [Requests -> 0..MaxAttempts]
    <3>1. attempts[r] \in 0..MaxAttempts /\ attempts[r] > 0
      BY <1>3 DEF Attempt
    <3>2. attempts[r] - 1 \in 0..MaxAttempts
      <4> HIDE DEF OtherTypeOK
      <4> QED
        BY <3>1, AttemptsAssumption
    <3>3. attempts \in [Requests -> 0..MaxAttempts]
      OBVIOUS
    <3>4. attempts' = [attempts EXCEPT ![r] = attempts[r] - 1]
      BY <1>3 DEF Attempt
    <3> HIDE DEF OtherTypeOK
    <3> QED
      BY <3>2, <3>3, <3>4
  <2> QED
    BY <1>0, <1>3, <2>1, <2>2 DEF Attempt, envVars, RequestPC
<1>4. ASSUME NEW r \in Requests, GiveUp(r) PROVE OtherTypeOK'
  <2>1. pc' \in [Requests -> RequestPC]
    BY <1>4 DEF GiveUp, RequestPC
  <2>2. attempts' \in [Requests -> 0..MaxAttempts]
    BY <1>4, ResetAttempts DEF GiveUp
  <2> QED
    BY <1>0, <1>4, <2>1, <2>2 DEF GiveUp, envVars
<1>5. ASSUME NEW r \in Requests, Conclude(r) PROVE OtherTypeOK'
  <2>1. pc' = [pc EXCEPT ![r] = "idle"] \/ pc' = [pc EXCEPT ![r] = "loop"]
    BY <1>5 DEF Conclude
  <2>2. attempts' = attempts \/ attempts' = [attempts EXCEPT ![r] = 0]
    BY <1>5 DEF Conclude
  <2>3. pc' \in [Requests -> RequestPC]
    BY <2>1 DEF RequestPC
  <2>4. attempts' \in [Requests -> 0..MaxAttempts]
    <3>1. CASE attempts' = attempts
      BY <3>1
    <3>2. CASE attempts' = [attempts EXCEPT ![r] = 0]
      BY <3>2, ResetAttempts
    <3> QED
      BY <2>2, <3>1, <3>2
  <2>5. checker' = checker /\ pool' = pool /\ probeOK' = probeOK
    <3> HIDE DEF OtherTypeOK
    <3>1. UNCHANGED <<checker, envVars>>
      BY <1>5 DEF Conclude
    <3> QED
      BY <3>1 DEF envVars
  <2> QED
    <3> HIDE DEF RequestPC
    <3> QED
      BY <1>0, <2>3, <2>4, <2>5, Zenon
<1>6. CASE CheckStep \/ Elapse \/ Environment \/ UNCHANGED vars
  <2>1. checker' \in {"idle", "answered ok", "answered bad"}
    BY <1>6 DEF CheckStep, CheckEmpty, CheckProbe, CheckApplyOK, CheckApplyBad,
                Elapse, Environment, vars
  <2>2. pc' = pc /\ attempts' = attempts
    BY <1>6 DEF CheckStep, CheckEmpty, CheckProbe, CheckApplyOK, CheckApplyBad,
                Elapse, Environment, vars, requestVars
  <2>3. (pool' = pool /\ probeOK' = probeOK)
        \/ (pool' \in {"empty", "disabled", "some"} /\ probeOK' \in BOOLEAN)
    BY <1>6, Zenon DEF CheckStep, CheckEmpty, CheckProbe, CheckApplyOK, CheckApplyBad,
                Elapse, Environment, vars, envVars
  <2> QED
    BY <1>0, <2>1, <2>2, <2>3
<1> QED
  BY <1>1, <1>2, <1>3, <1>4, <1>5, <1>6 DEF Next, RequestStep

\* The initial types of the loops, the health check and the clock.
LEMMA OtherTypesInit == Init => OtherTypeOK
<1> SUFFICES ASSUME Init PROVE OtherTypeOK
  OBVIOUS
<1>1. attempts \in [Requests -> 0..MaxAttempts]
  <2>1. 0 \in 0..MaxAttempts
    BY AttemptsAssumption
  <2> QED
    BY <2>1 DEF Init
<1>2. pc \in [Requests -> RequestPC]
  BY DEF Init, RequestPC
<1>3. openElapsed \in BOOLEAN /\ probeOK \in BOOLEAN
  BY Zenon DEF Init
<1> QED
  BY <1>1, <1>2, <1>3 DEF Init, OtherTypeOK

\* Every variable keeps its type; in particular the probe counter never
\* exceeds CB_HALF_OPEN_PROBES and a retry loop never exceeds the pool length.
THEOREM TypeCorrect == Spec => []TypeOK
<1>1. Spec => []OtherTypeOK
  BY OtherTypesInit, OtherTypesStep, PTL DEF Spec
<1>2. BreakerInv /\ OtherTypeOK => TypeOK
  BY DEF BreakerInv, BreakerTypeOK, OtherTypeOK, TypeOK
<1> QED
  BY <1>1, <1>2, Invariance, PTL

\* No step takes an open circuit anywhere but to half-open, and only once
\* CB_OPEN_DURATION has passed.
THEOREM OpenLeavesToHalfOpen == Spec => OpenOnlyLeavesToHalfOpen
<1>1. ASSUME state = "open", [Next]_vars
      PROVE  state' = "open" \/ (state' = "halfopen" /\ openElapsed)
  BY <1>1
     DEF Next, RequestStep, CheckStep, Admit, CanRequest, EnterHalfOpen, TakeProbe,
         Reject, RecordRejection, Attempt, GiveUp, Conclude, RecordFailure,
         RecordSuccess, CountError, CheckEmpty, CheckProbe, CheckApplyOK,
         CheckApplyBad, Elapse, Environment, vars, breakerVars
<1>2. [Next]_vars =>
        [state = "open" => \/ state' = "open"
                           \/ state' = "halfopen" /\ openElapsed]_vars
  BY <1>1
<1> QED
  BY <1>2, PTL DEF Spec, OpenOnlyLeavesToHalfOpen

-----------------------------------------------------------------------------
(***************************************************************************)
(* Late rejections.                                                        *)
(***************************************************************************)

\* The requests that were turned away and have not recorded it yet.
Waiting == {r \in Requests : pc[r] = "rejected"}

\* There are at most as many as there are requests.
LEMMA WaitingSize ==
    /\ Cardinality(Requests) \in Nat
    /\ IsFiniteSet(Waiting) /\ Cardinality(Waiting) \in Nat
    /\ Cardinality(Waiting) <= Cardinality(Requests)
    /\ IsFiniteSet(Waiting') /\ Cardinality(Waiting') \in Nat
    /\ Cardinality(Waiting') <= Cardinality(Requests)
<1>1. Waiting \subseteq Requests /\ Waiting' \subseteq Requests
  BY DEF Waiting
<1>2. Cardinality(Requests) \in Nat
  BY RequestsAssumption, FS_CardinalityType
<1>3. ASSUME NEW S, S \subseteq Requests
      PROVE  IsFiniteSet(S) /\ Cardinality(S) \in Nat /\ Cardinality(S) <= Cardinality(Requests)
  BY <1>3, RequestsAssumption, FS_Subset, FS_CardinalityType
<1>4. QED
  BY <1>1, <1>2, <1>3

\* What a step may do to a circuit that is closed after it: close it and forget
\* the rejections, leave them and those waiting alone, or count one of them.
LEMMA ClosedStep ==
    ASSUME BreakerTypeOK, OtherTypeOK, [Next]_vars, state' = "closed"
    PROVE  \/ phantom' = 0
           \/ state = "closed" /\ phantom' = phantom /\ Waiting' \subseteq Waiting
           \/ /\ state = "closed" /\ phantom' = phantom + 1
              /\ \E r \in Waiting : Waiting' \subseteq Waiting \ {r}
<1>0. pc \in [Requests -> RequestPC] /\ state \in Circuit
  BY DEF OtherTypeOK, BreakerTypeOK
<1>a. ASSUME UNCHANGED <<state, phantom, pc>>
      PROVE  state = "closed" /\ phantom' = phantom /\ Waiting' \subseteq Waiting
  BY <1>a DEF Waiting
<1>b. ASSUME NEW r \in Requests, NEW where, where # "rejected", pc' = [pc EXCEPT ![r] = where]
      PROVE  Waiting' \subseteq Waiting \ {r}
  BY <1>0, <1>b DEF Waiting
<1>1. ASSUME NEW r \in Requests, Admit(r)
      PROVE  state = "closed" /\ phantom' = phantom /\ Waiting' \subseteq Waiting
  <2>1. pc' = [pc EXCEPT ![r] = "loop"]
    BY <1>1 DEF Admit
  <2>2. state = "closed" /\ phantom' = phantom
    BY <1>1 DEF Admit, CanRequest, EnterHalfOpen, TakeProbe, breakerVars
  <2>3. QED
    BY <1>b, <2>1, <2>2
<1>2. ASSUME NEW r \in Requests, Reject(r)
      PROVE  FALSE
  BY <1>2 DEF Reject, MustReject, breakerVars
<1>3. ASSUME NEW r \in Requests, RecordRejection(r)
      PROVE  /\ state = "closed" /\ phantom' = phantom + 1
             /\ r \in Waiting /\ Waiting' \subseteq Waiting \ {r}
  <2>1. pc' = [pc EXCEPT ![r] = "idle"] /\ r \in Waiting
    BY <1>3 DEF RecordRejection, Waiting
  <2>2. state = "closed" /\ phantom' = phantom + 1
    BY <1>3 DEF RecordRejection, RecordFailure, CountError
  <2>3. QED
    BY <1>b, <2>1, <2>2
<1>4. ASSUME NEW r \in Requests, Attempt(r) \/ GiveUp(r)
      PROVE  state = "closed" /\ phantom' = phantom /\ Waiting' \subseteq Waiting
  <2>1. PICK where \in Outcome \cup {"idle"} : pc' = [pc EXCEPT ![r] = where]
    BY <1>4 DEF Attempt, GiveUp
  <2>2. where # "rejected"
    BY <2>1 DEF Outcome
  <2>3. state = "closed" /\ phantom' = phantom
    BY <1>4 DEF Attempt, GiveUp, breakerVars
  <2>4. QED
    BY <1>b, <2>1, <2>2, <2>3
<1>5. ASSUME NEW r \in Requests, Conclude(r)
      PROVE  phantom' = 0 \/ (state = "closed" /\ phantom' = phantom /\ Waiting' \subseteq Waiting)
  <2>1. Waiting' \subseteq Waiting
    BY <1>b, <1>5 DEF Conclude
  <2>2. phantom' = 0 \/ (state = "closed" /\ phantom' = phantom)
    <3>1. CASE RecordSuccess
      BY <3>1 DEF RecordSuccess
    <3>2. CASE RecordFailure(TRUE)
      BY <3>2 DEF RecordFailure, CountError
    <3>3. CASE UNCHANGED breakerVars
      BY <3>3 DEF breakerVars
    <3>4. QED
      BY <1>5, <3>1, <3>2, <3>3 DEF Conclude
  <2>3. QED
    BY <2>1, <2>2
<1>6. CASE CheckEmpty \/ CheckApplyBad
  <2>1. UNCHANGED <<state, phantom, pc>>
    BY <1>6 DEF CheckEmpty, CheckApplyBad, CountError, requestVars
  <2>2. QED
    BY <1>a, <2>1
<1>7. CASE CheckApplyOK
  BY <1>7 DEF CheckApplyOK
<1>8. CASE CheckProbe \/ Elapse \/ Environment \/ UNCHANGED vars
  <2>1. UNCHANGED <<state, phantom, pc>>
    BY <1>8 DEF CheckProbe, Elapse, Environment, vars, breakerVars, requestVars
  <2>2. QED
    BY <1>a, <2>1
<1>9. QED
  BY <1>1, <1>2, <1>3, <1>4, <1>5, <1>6, <1>7, <1>8 DEF Next, RequestStep, CheckStep

\* A closed circuit has counted no more late rejections than there were requests
\* waiting to record one when it closed: a request comes to wait only while the
\* circuit is not closed, and each of them counts once.
THEOREM LateRejectionsBounded == Spec => []PhantomErrorsBounded
<1>1. Spec => []OtherTypeOK
  BY OtherTypesInit, OtherTypesStep, PTL DEF Spec
<1>2. Init => PhantomErrorsBounded
  <2>1. Init => phantom = 0
    BY DEF Init
  <2>2. QED
    BY <2>1, WaitingSize DEF PhantomErrorsBounded, Waiting
<1>3. BreakerInv /\ OtherTypeOK /\ PhantomErrorsBounded /\ [Next]_vars => PhantomErrorsBounded'
  <2> SUFFICES ASSUME BreakerInv, OtherTypeOK, PhantomErrorsBounded, [Next]_vars, state' = "closed"
               PROVE  phantom' + Cardinality(Waiting') <= Cardinality(Requests)
    BY DEF PhantomErrorsBounded, Waiting
  <2>0. BreakerTypeOK /\ phantom \in Nat
    BY DEF BreakerInv, BreakerTypeOK
  <2>1. state = "closed" => phantom + Cardinality(Waiting) <= Cardinality(Requests)
    BY DEF PhantomErrorsBounded, Waiting
  <2>2. CASE phantom' = 0
    BY <2>2, WaitingSize
  <2>3. CASE state = "closed" /\ phantom' = phantom /\ Waiting' \subseteq Waiting
    <3>1. Cardinality(Waiting') <= Cardinality(Waiting)
      BY <2>3, WaitingSize, FS_Subset
    <3>2. QED
      BY <2>0, <2>1, <2>3, <3>1, WaitingSize
  <2>4. ASSUME state = "closed", phantom' = phantom + 1,
               NEW r \in Waiting, Waiting' \subseteq Waiting \ {r}
        PROVE  phantom' + Cardinality(Waiting') <= Cardinality(Requests)
    <3>1. IsFiniteSet(Waiting \ {r}) /\ Cardinality(Waiting \ {r}) = Cardinality(Waiting) - 1
      BY WaitingSize, FS_RemoveElement
    <3>2. Cardinality(Waiting') <= Cardinality(Waiting) - 1
      BY <2>4, <3>1, FS_Subset
    <3>3. QED
      BY <2>0, <2>1, <2>4, <3>2, WaitingSize
  <2>5. QED
    BY <2>0, <2>2, <2>3, <2>4, ClosedStep
<1>4. QED
  BY <1>1, <1>2, <1>3, Invariance, PTL DEF Spec
=============================================================================
