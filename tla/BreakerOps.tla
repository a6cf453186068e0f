------------------------------ MODULE BreakerOps ------------------------------
(***************************************************************************)
(* The state changes of one CircuitBreaker object                          *)
(* (packages/core/src/resilience/circuit.ts), as operators on a record.    *)
(* The clock enters only through the question "has resetTimeoutMs passed   *)
(* since the last failure?", which the caller answers: module              *)
(* CircuitBreaker from a clock, module Governor nondeterministically.      *)
(*                                                                         *)
(* Definitions named Mutant... are the mutated forms PROJECT.json lists.   *)
(***************************************************************************)
EXTENDS Naturals

CONSTANTS FailureThreshold,         \* config.failureThreshold
          HalfOpenSuccessThreshold  \* config.halfOpenSuccessThreshold

ASSUME ThresholdsAssumption ==
  /\ FailureThreshold \in Nat \ {0}
  /\ HalfOpenSuccessThreshold \in Nat \ {0}

CircuitState == {"closed", "open", "half-open"}

Breakers == [state : CircuitState,
             consecutiveFailures : 0 .. FailureThreshold,
             halfOpenSuccesses : 0 .. HalfOpenSuccessThreshold]

NewBreaker == [state |-> "closed", consecutiveFailures |-> 0,
               halfOpenSuccesses |-> 0]

(* transitionTo(): closing clears both counters, half-opening clears the   *)
(* success counter, opening keeps both.                                    *)
TransitionTo(b, s) ==
  [state |-> s,
   consecutiveFailures |-> IF s = "closed" THEN 0 ELSE b.consecutiveFailures,
   halfOpenSuccesses |-> IF s = "open" THEN b.halfOpenSuccesses ELSE 0]

MutantGetStateEager(b, timedOut) ==
  IF b.state = "open" THEN TransitionTo(b, "half-open") ELSE b

(* getState(): the lazy open -> half-open move, made when somebody looks   *)
(* after the reset timeout has elapsed.                                    *)
GetState(b, timedOut) ==
  IF b.state = "open" /\ timedOut THEN TransitionTo(b, "half-open") ELSE b

(* recordSuccess(): reads the raw state, not getState(). *)
RecordSuccess(b) ==
  IF b.state = "half-open"
  THEN LET c == [b EXCEPT !.halfOpenSuccesses = @ + 1]
       IN  IF c.halfOpenSuccesses >= HalfOpenSuccessThreshold
           THEN TransitionTo(c, "closed")
           ELSE c
  ELSE [b EXCEPT !.consecutiveFailures = 0]

(* recordFailure(): the failure count is raised in every state. The code   *)
(* compares it with failureThreshold only, so the model stops counting     *)
(* there.                                                                  *)
RecordFailure(b) ==
  LET c == [b EXCEPT !.consecutiveFailures =
              IF @ < FailureThreshold THEN @ + 1 ELSE @]
  IN  IF b.state = "half-open" \/ c.consecutiveFailures >= FailureThreshold
      THEN TransitionTo(c, "open")
      ELSE c

Reset(b) == TransitionTo(b, "closed")
=============================================================================
