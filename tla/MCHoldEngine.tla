---------------------------- MODULE MCHoldEngine -----------------------------
(* HoldEngine on small instances: holds of 2, of which a call may use      *)
(* nothing, a part, or more than all. Either h1 gets every call and every  *)
(* fault, or h2's reservation comes at any moment of h1's life.            *)
EXTENDS HoldEngine

CONSTANTS h1, h2

Settlements == {[post |-> 0, overage |-> 0], [post |-> 1, overage |-> 0],
                [post |-> 2, overage |-> 1]}

OneHold == {h1} \X (Settlers \cup {"reserve", "release", "sweep"})
Beside  == OneHold \cup {<<h2, "reserve">>}

FaultsOrTwo ==
  {[procs |-> OneHold, intents |-> Settlements,
    faults |-> {"crash", "deadline", "refused", "commit"}],
   [procs |-> Beside, intents |-> {[post |-> 1, overage |-> 0], [post |-> 2, overage |-> 1]},
    faults |-> {}]}
=============================================================================
