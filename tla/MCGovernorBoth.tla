---------------------------- MODULE MCGovernorBoth ----------------------------
(* Two small instances of Governor in one state space: three calls race    *)
(* for one hold of a governor with a ledger, whose appends fail at will;   *)
(* or two holds, with two calls each, share the budget of a dry run, whose *)
(* spend ledger fails at will.                                             *)
EXTENDS Governor, TLC

CONSTANTS h1, h2, k1, k2, k3

VARIABLE engine   \* which of the two: with a ledger, or the dry run

Dry == INSTANCE Governor WITH
  Ledger <- FALSE, StartSpent <- 1, EstCosts <- {1, 2},
  AppendFaults <- FALSE, PersistFaults <- TRUE

RaceOnly == engine /\ Next /\ pc'[A(h2)] = "idle"
DryOnly  == ~engine /\ Dry!Next /\ \A h \in Holds : pc'[<<h, k3>>] = "idle"

BothSpec ==
  /\ engine \in BOOLEAN /\ (IF engine THEN Init ELSE Dry!Init)
  /\ [][(RaceOnly \/ DryOnly) /\ UNCHANGED engine]_<<vars, engine>>

CallerSymmetry == Permutations({k1, k2})

(* Of the governor with a ledger: what a call answers is true of the       *)
(* ledger, however three calls and the sweep race for the hold. Of the dry *)
(* run, where the governor alone keeps the money: the gate never           *)
(* over-commits the session, and no crash forgets spend that the chain     *)
(* shows (Governor).                                                       *)
MoneyAccounted ==
  IF engine THEN AnswersBacked ELSE Dry!NoOverAdmission /\ Dry!DiskCoversChain
=============================================================================
