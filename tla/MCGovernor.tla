------------------------------ MODULE MCGovernor ------------------------------
(* Governor on small instances, up to destroy(): a hold on the session's   *)
(* budget and one on a cost-center envelope, whose terminals are all over  *)
(* by the deadline of destroy(); or the first alone, and the deadline may  *)
(* pass while its terminal is under way. The .cfg file gives the constants. *)
EXTENDS Governor

CONSTANTS h1, h2, k1

VARIABLE late   \* which of the two: the deadline may pass

Timely == INSTANCE Governor WITH DeadlineCanPass <- FALSE

TwoHolds == ~late /\ Timely!Next
OneHold  == late /\ Next /\ pc'[A(h2)] = "idle"

(* The event loop, as in FairSpec: the drain ends as the behaviour has it. *)
EitherSpec ==
  /\ late \in BOOLEAN /\ Init
  /\ [][(TwoHolds \/ OneHold) /\ UNCHANGED late]_<<vars, late>>
  /\ \A c \in Calls : /\ WF_vars(SettleMetered(c))
                      /\ WF_vars(LoopFree /\ (SettleStep(c) \/ EndStep(c)))
  /\ \A h \in Holds : /\ WF_vars(LoopFree /\ AuthorizeStep(h))
                      /\ WF_vars(LoopFree /\ SweepStep(h))
  /\ WF_vars(LoopFree /\ \/ late /\ Sweep
                         \/ ~late /\ Timely!Sweep
                         \/ SweepEngine \/ Close)
=============================================================================
