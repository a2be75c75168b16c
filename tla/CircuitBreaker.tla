--------------------------- MODULE CircuitBreaker ---------------------------
(***************************************************************************)
(* The circuit breaker of one upstream (internal/upstream/health.go), with *)
(* the three kinds of goroutine that touch it:                             *)
(*                                                                         *)
(*   - requests: ProxyGrok and ProxyCodeBuddy ask CanRequest, then try one *)
(*     account after another and report outcomes with RecordRequest;       *)
(*   - the active health check (checkGrok, checkCB), which runs on a       *)
(*     ticker and changes the same fields under the same mutex;            *)
(*   - the passing of CB_OPEN_DURATION.                                    *)
(*                                                                         *)
(* Every critical section under h.mu is one step.  A call to the upstream  *)
(* and the section that records its outcome are two steps, since other     *)
(* goroutines run in between.                                              *)
(***************************************************************************)
EXTENDS Integers, FiniteSets

CONSTANTS
    Requests,             \* request goroutines that may be in flight together
    MaxAttempts,          \* largest pool size (the `total` of the retry loop)
    CB_OPEN_THRESHOLD,    \* consecutive errors that open the circuit
    CB_HALF_OPEN_PROBES,  \* probes admitted while half-open
    ErrCap                \* the error counter saturates here (see Bump)

ASSUME RequestsAssumption == IsFiniteSet(Requests)
ASSUME AttemptsAssumption == MaxAttempts \in Nat
ASSUME ThresholdAssumption == CB_OPEN_THRESHOLD \in Nat \ {0}
ASSUME ProbesAssumption == CB_HALF_OPEN_PROBES \in Nat
ASSUME ErrCapAssumption == ErrCap \in Nat /\ ErrCap >= CB_OPEN_THRESHOLD

VARIABLES
    state,            \* h.state
    consecutiveErrs,  \* h.consecutiveErrs
    openElapsed,      \* time.Since(h.openedAt) >= CB_OPEN_DURATION
    halfOpenProbes,   \* h.halfOpenProbes
    gauge,            \* the foxrouters_circuit_state metric
    pc,               \* where each request is
    attempts,         \* attempts each request has left
    checker,          \* where the active health check is
    pool,             \* what the check finds: no accounts, none enabled, some
    probeOK,          \* whether the upstream answers the check's probe 2xx/3xx
    admitted,         \* history: requests let in by the current half-open phase
    phantom           \* history: rejections counted since the circuit last closed

breakerVars == <<state, consecutiveErrs, openElapsed, halfOpenProbes, gauge,
                 admitted, phantom>>
requestVars == <<pc, attempts>>
envVars == <<pool, probeOK>>
vars == <<breakerVars, requestVars, checker, envVars>>

Circuit == {"closed", "open", "halfopen"}

\* What one attempt of the retry loop comes back with.  "skip" stands for
\* every outcome the loop moves on from without telling the breaker (a network
\* error, a 401/402/403/429 that disables the account); "refused" is
\* CodeBuddy's 400, recorded as an error and returned to the client.
Outcome == {"ok", "skip", "fail", "refused"}

RequestPC == {"idle", "rejected", "loop"} \cup Outcome

TypeOK ==
    /\ state \in Circuit
    /\ consecutiveErrs \in 0..ErrCap
    /\ openElapsed \in BOOLEAN
    /\ halfOpenProbes \in 0..CB_HALF_OPEN_PROBES
    /\ gauge \in Circuit
    /\ pc \in [Requests -> RequestPC]
    /\ attempts \in [Requests -> 0..MaxAttempts]
    /\ checker \in {"idle", "answered ok", "answered bad"}
    /\ pool \in {"empty", "disabled", "some"}
    /\ probeOK \in BOOLEAN
    /\ admitted \in Nat
    /\ phantom \in Nat

Init ==
    /\ state = "closed"
    /\ consecutiveErrs = 0
    /\ openElapsed = FALSE
    /\ halfOpenProbes = 0
    /\ gauge = "closed"
    /\ pc = [r \in Requests |-> "idle"]
    /\ attempts = [r \in Requests |-> 0]
    /\ checker = "idle"
    /\ pool \in {"empty", "disabled", "some"}
    /\ probeOK \in BOOLEAN
    /\ admitted = 0
    /\ phantom = 0

-----------------------------------------------------------------------------
(***************************************************************************)
(* The breaker's own operations.                                           *)
(***************************************************************************)

\* The code only ever compares the counter with the threshold, so counting
\* beyond ErrCap cannot be observed.
Bump(n) == IF n < ErrCap THEN n + 1 ELSE n

\* h.consecutiveErrs++, and the opening of a closed circuit at the threshold.
\* `published` says whether the caller also sets the gauge: RecordRequest
\* does, the health check does not.
CountError(published) ==
    LET opens == state = "closed" /\ Bump(consecutiveErrs) >= CB_OPEN_THRESHOLD
    IN  /\ consecutiveErrs' = Bump(consecutiveErrs)
        /\ state' = IF opens THEN "open" ELSE state
        /\ openElapsed' = IF opens THEN FALSE ELSE openElapsed
        /\ gauge' = IF opens /\ published THEN "open" ELSE gauge
        /\ UNCHANGED <<halfOpenProbes, admitted>>

\* RecordRequest(latency, err) with err # nil.  `real` is FALSE for the
\* "circuit open" error of a request that was turned away.
RecordFailure(real) ==
    /\ CountError(TRUE)
    /\ phantom' = IF real \/ state # "closed" THEN phantom ELSE phantom + 1

\* Faulty variant: a late success closes a circuit that is still open.
RecordSuccessClosesOpen ==
    /\ state' = "closed"
    /\ consecutiveErrs' = 0
    /\ halfOpenProbes' = 0
    /\ gauge' = IF state = "halfopen" THEN "closed" ELSE gauge
    /\ phantom' = 0
    /\ admitted' = 0
    /\ UNCHANGED openElapsed

\* RecordRequest(latency, nil).
RecordSuccess ==
    /\ state' = IF state = "halfopen" THEN "closed" ELSE state
    /\ consecutiveErrs' = IF state = "open" THEN consecutiveErrs ELSE 0
    /\ halfOpenProbes' = IF state = "halfopen" THEN 0 ELSE halfOpenProbes
    /\ gauge' = IF state = "halfopen" THEN "closed" ELSE gauge
    /\ phantom' = IF state = "open" THEN phantom ELSE 0
    /\ admitted' = IF state = "halfopen" THEN 0 ELSE admitted
    /\ UNCHANGED openElapsed

\* Faulty variant: the half-open transition is not published.
EnterHalfOpenUnpublished ==
    /\ state = "open"
    /\ openElapsed
    /\ state' = "halfopen"
    /\ halfOpenProbes' = 0
    /\ admitted' = 1
    /\ UNCHANGED <<consecutiveErrs, openElapsed, gauge, phantom>>

\* CanRequest on an open circuit whose open period is over.  The request that
\* moves it to half-open is let in without being counted as a probe.
EnterHalfOpen ==
    /\ state = "open"
    /\ openElapsed
    /\ state' = "halfopen"
    /\ halfOpenProbes' = 0
    /\ gauge' = "halfopen"
    /\ admitted' = 1
    /\ UNCHANGED <<consecutiveErrs, openElapsed, phantom>>

\* Faulty variant: off by one in the probe budget.
TakeProbeOffByOne ==
    /\ state = "halfopen"
    /\ halfOpenProbes <= CB_HALF_OPEN_PROBES
    /\ halfOpenProbes' = halfOpenProbes + 1
    /\ admitted' = admitted + 1
    /\ UNCHANGED <<state, consecutiveErrs, openElapsed, gauge, phantom>>

\* CanRequest on a half-open circuit with probes left.
TakeProbe ==
    /\ state = "halfopen"
    /\ halfOpenProbes < CB_HALF_OPEN_PROBES
    /\ halfOpenProbes' = halfOpenProbes + 1
    /\ admitted' = admitted + 1
    /\ UNCHANGED <<state, consecutiveErrs, openElapsed, gauge, phantom>>

\* CanRequest returning true, with what it changes.
CanRequest ==
    \/ state = "closed" /\ UNCHANGED breakerVars
    \/ EnterHalfOpen
    \/ TakeProbe

\* Faulty variant: rejects on any recent error instead of on the state.
MustRejectOnError == consecutiveErrs > 0

\* CanRequest returning false.
MustReject ==
    \/ state = "open" /\ ~openElapsed
    \/ state = "halfopen" /\ halfOpenProbes >= CB_HALF_OPEN_PROBES

-----------------------------------------------------------------------------
(***************************************************************************)
(* A request: the parts of ProxyGrok and ProxyCodeBuddy that matter here.  *)
(***************************************************************************)

\* Let in; `total` is the pool's length, read once before the loop.
Admit(r) ==
    /\ pc[r] = "idle"
    /\ CanRequest
    /\ pc' = [pc EXCEPT ![r] = "loop"]
    /\ \E total \in 0..MaxAttempts : attempts' = [attempts EXCEPT ![r] = total]
    /\ UNCHANGED <<checker, envVars>>

Reject(r) ==
    /\ pc[r] = "idle"
    /\ MustReject
    /\ pc' = [pc EXCEPT ![r] = "rejected"]
    /\ UNCHANGED <<breakerVars, attempts, checker, envVars>>

\* CanRequest has returned false and released the mutex; the rejection is now
\* recorded as one more consecutive error, whatever the circuit is by then.
RecordRejection(r) ==
    /\ pc[r] = "rejected"
    /\ RecordFailure(FALSE)
    /\ pc' = [pc EXCEPT ![r] = "idle"]
    /\ UNCHANGED <<attempts, checker, envVars>>

\* The next attempt: Next() returns an account and the upstream answers.
Attempt(r) ==
    /\ pc[r] = "loop"
    /\ attempts[r] > 0
    /\ attempts' = [attempts EXCEPT ![r] = @ - 1]
    /\ \E o \in Outcome : pc' = [pc EXCEPT ![r] = o]
    /\ UNCHANGED <<breakerVars, checker, envVars>>

\* The loop ends without an answer: attempts used up, Next() found nothing
\* (503, "all ... disabled") or the client went away.  Nothing is recorded.
GiveUp(r) ==
    /\ pc[r] = "loop"
    /\ pc' = [pc EXCEPT ![r] = "idle"]
    /\ attempts' = [attempts EXCEPT ![r] = 0]
    /\ UNCHANGED <<breakerVars, checker, envVars>>

\* The attempt's outcome reaches the breaker.
Conclude(r) ==
    /\ \/ /\ pc[r] = "ok"
          /\ RecordSuccess
          /\ pc' = [pc EXCEPT ![r] = "idle"]
          /\ attempts' = [attempts EXCEPT ![r] = 0]
       \/ /\ pc[r] = "fail"
          /\ RecordFailure(TRUE)
          /\ pc' = [pc EXCEPT ![r] = "loop"]
          /\ UNCHANGED attempts
       \/ /\ pc[r] = "refused"
          /\ RecordFailure(TRUE)
          /\ pc' = [pc EXCEPT ![r] = "idle"]
          /\ attempts' = [attempts EXCEPT ![r] = 0]
       \/ /\ pc[r] = "skip"
          /\ pc' = [pc EXCEPT ![r] = "loop"]
          /\ UNCHANGED <<breakerVars, attempts>>
    /\ UNCHANGED <<checker, envVars>>

-----------------------------------------------------------------------------
(***************************************************************************)
(* The active health check (checkGrok; checkCB is the same for CodeBuddy). *)
(***************************************************************************)

\* The pool is empty: counted as an error, in one critical section.
CheckEmpty ==
    /\ checker = "idle"
    /\ pool = "empty"
    /\ CountError(FALSE)
    /\ UNCHANGED <<phantom, requestVars, checker, envVars>>

\* Every account is disabled: only the lastCheck fields (and so nothing that
\* this module keeps) change.  Otherwise the first enabled one is used.
CheckProbe ==
    /\ checker = "idle"
    /\ pool = "some"
    /\ checker' = IF probeOK THEN "answered ok" ELSE "answered bad"
    /\ UNCHANGED <<breakerVars, requestVars, envVars>>

\* Faulty variant: closes the circuit but keeps the error count.
CheckApplyOKKeepsCount ==
    /\ checker = "answered ok"
    /\ checker' = "idle"
    /\ state' = IF state = "halfopen" THEN "closed" ELSE state
    /\ admitted' = IF state = "halfopen" THEN 0 ELSE admitted
    /\ UNCHANGED <<consecutiveErrs, phantom, openElapsed, halfOpenProbes,
                   gauge, requestVars, envVars>>

\* Faulty variant: leaves recovery from half-open to requests.
CheckApplyOKClosedOnly ==
    /\ checker = "answered ok"
    /\ checker' = "idle"
    /\ consecutiveErrs' = IF state = "closed" THEN 0 ELSE consecutiveErrs
    /\ phantom' = IF state = "closed" THEN 0 ELSE phantom
    /\ UNCHANGED <<state, admitted, openElapsed, halfOpenProbes, gauge,
                   requestVars, envVars>>

\* The probe's answer is applied.  Neither branch sets the gauge, and closing
\* leaves halfOpenProbes as it is: CanRequest clears it on the next opening.
CheckApplyOK ==
    /\ checker = "answered ok"
    /\ checker' = "idle"
    /\ state' = IF state = "halfopen" THEN "closed" ELSE state
    /\ consecutiveErrs' = IF state = "open" THEN consecutiveErrs ELSE 0
    /\ phantom' = IF state = "open" THEN phantom ELSE 0
    /\ admitted' = IF state = "halfopen" THEN 0 ELSE admitted
    /\ UNCHANGED <<openElapsed, halfOpenProbes, gauge, requestVars, envVars>>

CheckApplyBad ==
    /\ checker = "answered bad"
    /\ checker' = "idle"
    /\ CountError(FALSE)
    /\ UNCHANGED <<phantom, requestVars, envVars>>

-----------------------------------------------------------------------------
\* CB_OPEN_DURATION passes.
Elapse ==
    /\ state = "open"
    /\ ~openElapsed
    /\ openElapsed' = TRUE
    /\ UNCHANGED <<state, consecutiveErrs, halfOpenProbes, gauge, admitted,
                   phantom, requestVars, checker, envVars>>

\* The account pool and the upstream change for reasons outside this module.
Environment ==
    /\ pool' \in {"empty", "disabled", "some"}
    /\ probeOK' \in BOOLEAN
    /\ UNCHANGED <<breakerVars, requestVars, checker>>

RequestStep(r) ==
    \/ RecordRejection(r)
    \/ Attempt(r)
    \/ GiveUp(r)
    \/ Conclude(r)

CheckStep == CheckEmpty \/ CheckProbe \/ CheckApplyOK \/ CheckApplyBad

Next ==
    \/ \E r \in Requests : Admit(r) \/ Reject(r) \/ RequestStep(r)
    \/ CheckStep
    \/ Elapse
    \/ Environment

\* A request that has started finishes its steps (HTTP calls time out), the
\* check runs on a ticker for as long as the process lives, time passes.
\* Nothing makes clients send requests.
Fairness ==
    /\ \A r \in Requests : WF_vars(RequestStep(r))
    /\ WF_vars(CheckStep)
    /\ WF_vars(Elapse)

Spec == Init /\ [][Next]_vars /\ Fairness

-----------------------------------------------------------------------------
(***************************************************************************)
(* Properties.                                                             *)
(***************************************************************************)

\* The circuit is closed exactly while fewer than CB_OPEN_THRESHOLD errors
\* are counted.  Requests and the health check both move the state and the
\* count, each in its own critical section; if one of them closed the circuit
\* without clearing the count, the next single error would open it again.
ClosedIffBelowThreshold ==
    state = "closed" <=> consecutiveErrs < CB_OPEN_THRESHOLD

\* One half-open phase lets in at most CB_HALF_OPEN_PROBES + 1 requests,
\* however requests, late answers and health checks interleave: the one that
\* finds the open period over, and the counted probes.
HalfOpenAdmissions ==
    state = "halfopen" => /\ admitted = halfOpenProbes + 1
                          /\ admitted <= CB_HALF_OPEN_PROBES + 1

\* The metric never shows an opening the breaker has already left, and always
\* shows a half-open phase, although the health check changes the state
\* without touching the metric.
GaugeNeverAhead ==
    /\ gauge = "open" => state = "open"
    /\ state = "halfopen" => gauge = "halfopen"

\* Rejections recorded after the circuit has closed again are counted as
\* upstream errors; there are never more of them than requests that were
\* waiting to record a rejection when it closed.
PhantomErrorsBounded ==
    state = "closed" =>
        phantom + Cardinality({r \in Requests : pc[r] = "rejected"})
            <= Cardinality(Requests)

\* A success that was in flight when the circuit opened does not close it: an
\* open circuit is only left for half-open, after CB_OPEN_DURATION.
OpenOnlyLeavesToHalfOpen ==
    [][state = "open" => \/ state' = "open"
                         \/ state' = "halfopen" /\ openElapsed]_vars

\* A half-open circuit whose probes were used up without an answer (cancelled,
\* or no account left) is not stuck: once an enabled account answers the
\* active check, the circuit closes.
HalfOpenRecovers ==
    <>[](pool = "some" /\ probeOK) => (state = "halfopen" ~> state = "closed")
=============================================================================
