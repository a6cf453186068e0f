---------------------------- MODULE CircuitBreaker ----------------------------
(***************************************************************************)
(* One breaker of packages/core/src/resilience/circuit.ts, with a clock    *)
(* and with callers whose outcomes arrive late: a request admitted while   *)
(* the breaker was closed may report its success or failure after it has   *)
(* opened, half-opened or been reset.                                      *)
(*                                                                         *)
(* The code reads the clock only as now() - lastFailureTime >=             *)
(* resetTimeoutMs, so the model keeps that difference, saturated at        *)
(* ResetTimeout, and no absolute time.                                     *)
(***************************************************************************)
EXTENDS BreakerOps, Integers

CONSTANTS ResetTimeout,   \* config.resetTimeoutMs, in ticks
          MaxOutstanding  \* bound: admitted requests whose outcome is still to come

ASSUME BreakerAssumption == ResetTimeout \in Nat \ {0} /\ MaxOutstanding \in Nat \ {0}

VARIABLES cb,            \* the breaker object
          sinceFailure,  \* now() - lastFailureTime, or Never (lastFailureTime = null)
          outstanding,   \* admitted requests that have not reported yet
          resets         \* flips at each explicit reset()

vars == <<cb, sinceFailure, outstanding, resets>>

Never == -1

TimedOut == sinceFailure >= ResetTimeout
Capped(n) == IF n > MaxOutstanding THEN MaxOutstanding ELSE n

Init == /\ cb = NewBreaker
        /\ sinceFailure = Never
        /\ outstanding = 0
        /\ resets = FALSE

Tick == /\ sinceFailure \in 0 .. ResetTimeout - 1
        /\ sinceFailure' = sinceFailure + 1
        /\ UNCHANGED <<cb, outstanding, resets>>

(* allowRequest(): looks (getState) and throws CircuitOpenError when the   *)
(* breaker is still open. A request admitted beyond MaxOutstanding goes    *)
(* through and never reports.                                              *)
AllowRequest ==
  LET seen == GetState(cb, TimedOut)
      admitted == seen.state # "open"
  IN  /\ cb' = seen
      /\ outstanding' = IF admitted THEN Capped(outstanding + 1) ELSE outstanding
      /\ UNCHANGED <<sinceFailure, resets>>

(* An outcome of an admitted request: cb.recordSuccess(), cb.recordFailure() *)
(* or neither (a hold that was given back).                                *)
SuccessReported ==
  /\ outstanding > 0
  /\ cb' = RecordSuccess(cb)
  /\ outstanding' = outstanding - 1
  /\ UNCHANGED <<sinceFailure, resets>>

FailureReported ==
  /\ outstanding > 0
  /\ cb' = RecordFailure(cb)
  /\ sinceFailure' = 0
  /\ outstanding' = outstanding - 1
  /\ UNCHANGED resets

GivenBack ==
  /\ outstanding > 0
  /\ outstanding' = outstanding - 1
  /\ UNCHANGED <<cb, sinceFailure, resets>>

(* reset() and CircuitBreakerRegistry.resetAll(). *)
ResetCalled ==
  /\ cb' = Reset(cb)
  /\ resets' = ~resets
  /\ UNCHANGED <<sinceFailure, outstanding>>

Next == \/ Tick \/ AllowRequest \/ SuccessReported \/ FailureReported
        \/ GivenBack \/ ResetCalled

Spec == Init /\ [][Next]_vars

(* Time passes, and the application keeps making calls. *)
FairSpec == Spec /\ WF_vars(Tick) /\ WF_vars(AllowRequest)

-----------------------------------------------------------------------------
(* Type correctness of the breaker's fields. *)
TypeOK ==
  /\ cb \in Breakers
  /\ sinceFailure \in {Never} \cup 0 .. ResetTimeout
  /\ outstanding \in 0 .. MaxOutstanding
  /\ resets \in BOOLEAN

(* Whatever the order in which late outcomes arrive, a closed breaker has  *)
(* seen fewer consecutive failures than the threshold, and a half-open one *)
(* fewer successes: no outcome can leave the breaker past a threshold it   *)
(* did not act on.                                                         *)
ThresholdsActedOn ==
  /\ cb.state = "closed" => cb.consecutiveFailures < FailureThreshold
  /\ cb.state = "half-open" => cb.halfOpenSuccesses < HalfOpenSuccessThreshold

(* getState() leaves an open breaker only when lastFailureTime is set: an  *)
(* open breaker without one would refuse every request for ever.           *)
OpenHasFailure == cb.state = "open" => sinceFailure # Never

Contract == INSTANCE BreakerContract
  WITH mode <- cb.state, cooled <- TimedOut

(* The breaker with late outcomes implements the contract its header       *)
(* states: no path out of "open" but a failure-free reset timeout.         *)
ImplementsContract == Contract!ContractSpec
=============================================================================
