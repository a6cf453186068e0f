----------------------------- MODULE MCAuditTrail -----------------------------
(* Two parts that do not touch each other, on small instances in one state *)
(* space: a behaviour is one of the audit writer's lease or one of the     *)
(* anchor emitters. The .cfg file gives the lease's times in ticks.        *)
EXTENDS AuditLease

CONSTANTS e1, e2, Missing, Torn, None

VARIABLES
  part,   \* which of the two runs
  head, lock, mirror, outbox, high, store, pc, job, snap, rec, left, chain, ppc, todo,
  accepted, breach, faults

Anchors == INSTANCE Anchoring WITH
  Emitters <- {e1, e2}, Scheduled <- {e1}, MaxEvents <- 2, MaxFaults <- 1

anchorVars == <<head, lock, mirror, outbox, high, store, pc, job, snap, rec, left, chain, ppc,
                todo, accepted, breach, faults>>

(* An anchoring behaviour ends where its properties' exceptions begin. *)
Anchor(A) == part = "anchors" /\ breach = {} /\ A

LeaseNext  == part = "lease" /\ Next /\ UNCHANGED <<part, anchorVars>>
AnchorNext == Anchor(Anchors!Next) /\ UNCHANGED <<part, vars>>

PartsInit == part \in {"lease", "anchors"} /\ Init /\ Anchors!Init
PartsNext == LeaseNext \/ AnchorNext

(* The fairness of the two specifications, each for its own part. *)
PartsSpec ==
  /\ PartsInit /\ [][PartsNext]_<<part, vars, anchorVars>>
  /\ WF_vars(part = "lease" /\ Tick) /\ WF_vars(part = "lease" /\ OStep)
  /\ WF_anchorVars(Anchor(Anchors!RepairMirror))
  /\ \A e \in {e1, e2} : /\ WF_anchorVars(Anchor(Anchors!RunStep(e)))
                         /\ WF_anchorVars(Anchor(Anchors!PublishStep(e)))

(* What was minted is delivered in the end (Anchoring). *)
Delivered == Anchors!Delivered
=============================================================================
