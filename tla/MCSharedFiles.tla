----------------------------- MODULE MCSharedFiles ----------------------------
(* Three parts that processes share through files, on small instances in   *)
(* one state space: a behaviour is one of the spend ledger's clients, of   *)
(* the Claude Code plugin's hooks or of the anchor emitters.               *)
EXTENDS MCSpendLedger, SharedFiles

CONSTANTS k1, k2, s1, s2, e1, e2, Missing, Torn

VARIABLES
  part,   \* which of the three runs
  head, lock, mirror, outbox, high, store, step, job, snap, rec, left, chain, ppc, backlog,
  accepted, breach, failures

(* One call that may be deferred and resumed, with two faults, alone or    *)
(* beside what an earlier release left (in watch mode with one); two calls *)
(* of a host that sends no ids; two settle points at once.                 *)
Host(mode, ids, legacy, calls, stops, n) ==
  [mode |-> mode, ids |-> ids, legacy |-> legacy, calls |-> calls, stops |-> stops, faults |-> n]
Modes   == {"enforce", "watch"}
Resumed == {Host(m, TRUE, "none", {k1}, {s1}, 2) : m \in Modes}
Earlier == {Host(m, TRUE, "pending", {k1}, {s1}, IF m = "enforce" THEN 2 ELSE 1) : m \in Modes}
NoIds   == {Host("enforce", FALSE, l, {k1, k2}, {}, 1) : l \in {"none", "charged"}}
Racing  == {Host("watch", TRUE, "none", {k1}, {s1, s2}, 0)}
AllHosts == Resumed \cup Earlier \cup NoIds \cup Racing

Anchors == INSTANCE Anchoring WITH
  Emitters <- {e1, e2}, Scheduled <- {e1}, MaxEvents <- 2, MaxFaults <- 2,
  pc <- step, todo <- backlog, faults <- failures

hookVars == <<host, file, gated, ran, told, queue, srv, late, call, fires, at, hold, fresh,
              after, todo, of, charged, gap, excused, forgotten, faults>>

anchorVars == <<head, lock, mirror, outbox, high, store, step, job, snap, rec, left, chain,
                ppc, backlog, accepted, breach, failures>>

(* An anchoring behaviour ends where its properties' exceptions begin. *)
SpendNext  == part = "spend" /\ Next /\ UNCHANGED <<part, hookVars, anchorVars>>
HookNext   == part = "hooks" /\ Hooks!Next /\ UNCHANGED <<part, vars, anchorVars>>
AnchorNext == part = "anchors" /\ breach = {} /\ Anchors!Next /\ UNCHANGED <<part, vars, hookVars>>

(* A part that does not run stands still in one state. *)
PartsInit ==
  /\ part \in {"spend", "hooks", "anchors"} /\ Init /\ Hooks!Init /\ Anchors!Init
  /\ part # "hooks" => host = CHOOSE h \in Racing : TRUE

PartsNext == SpendNext \/ HookNext \/ AnchorNext
PartsSpec == PartsInit /\ [][PartsNext]_<<part, vars, hookVars, anchorVars>>

(* The store holds one chain, without a gap (Anchoring). *)
StoreIsOneChain == Anchors!StoreIsOneChain
=============================================================================
