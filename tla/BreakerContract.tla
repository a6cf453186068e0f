--------------------------- MODULE BreakerContract ---------------------------
(***************************************************************************)
(* What a circuit breaker promises the code that asks it                   *)
(* (packages/core/src/resilience/circuit.ts, header): closed -> open ->    *)
(* half-open -> closed, and an open breaker is left only after a full,     *)
(* failure-free reset timeout, or by an explicit reset(), which the        *)
(* contract sees as a flip of resets.                                      *)
(***************************************************************************)
VARIABLES mode,    \* "closed", "open" or "half-open"
          cooled,  \* a full reset timeout has passed since the last failure
          resets   \* flips at each explicit reset

contractVars == <<mode, cooled, resets>>

ContractInit == mode = "closed" /\ cooled = FALSE /\ resets = FALSE

CoolDown    == cooled' = TRUE /\ UNCHANGED <<mode, resets>>
LateFailure == mode # "half-open" /\ cooled' = FALSE /\ UNCHANGED <<mode, resets>>
Trip        == mode = "closed" /\ mode' = "open" /\ cooled' = FALSE /\ UNCHANGED resets
Reopen      == mode = "half-open" /\ mode' = "open" /\ cooled' = FALSE /\ UNCHANGED resets
Probe       == mode = "open" /\ cooled /\ mode' = "half-open" /\ UNCHANGED <<cooled, resets>>
Recover     == mode = "half-open" /\ mode' = "closed" /\ UNCHANGED <<cooled, resets>>
ForceReset  == mode' = "closed" /\ resets' = ~resets /\ UNCHANGED cooled

ContractNext == \/ CoolDown \/ LateFailure \/ Trip \/ Reopen
                \/ Probe \/ Recover \/ ForceReset

ContractSpec == ContractInit /\ [][ContractNext]_contractVars
=============================================================================
