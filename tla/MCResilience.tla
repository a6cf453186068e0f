----------------------------- MODULE MCResilience -----------------------------
(* The parts of Resilience in one state space: a behaviour is one of the   *)
(* circuit breaker, of the TigerBeetle client, of the server's ledger      *)
(* observer or of the audit log's torn-tail repair.                        *)
EXTENDS Resilience

VARIABLE part   \* which of the four runs

observerVars == <<started, closing, child, spawns, ready, sent, seq, probed, lastOutcome,
                  evicted, late, readyTimer, timers, respawn, proc, asked, outbox, exits,
                  given, answer>>

clientVars == <<native, generation, holds, closed, marked, released, droppedEvicted,
                reconnecting, attempt, pc, on, step, retried, healthAlerted, ending, probing,
                kind, replay, applied, told, unheard, direct, stuck, aborted>>

repairVars == <<log, tail, meta, evidence, synced, at, todo, faults, cut, anchored, skipped>>

(* The parts that do not run. *)
Others(p) ==
  /\ part = p /\ UNCHANGED part
  /\ p # "breaker"  => UNCHANGED vars
  /\ p # "observer" => UNCHANGED observerVars
  /\ p # "client"   => UNCHANGED clientVars
  /\ p # "repair"   => UNCHANGED repairVars

(* A destroy() that throws is tried among minted transfers only: what a   *)
(* supplied id adds begins at an answer.                                   *)
ThrowsAmongMinted == (\E r \in Transfers : kind[r] # "minted") => stuck' = {}

PartsNext ==
  \/ part = "breaker"  /\ Next          /\ Others("breaker")
  \/ part = "observer" /\ Observer!Next /\ Others("observer")
  \/ part = "client"   /\ Client!Next   /\ Others("client") /\ ThrowsAmongMinted
  \/ part = "repair"   /\ Repair!Next   /\ Others("repair")

(* A client that does not run keeps one kind: it adds no initial states. *)
PartsInit ==
  /\ part \in {"breaker", "observer", "client", "repair"}
  /\ Init /\ Observer!Init /\ Client!Init /\ Repair!Init
  /\ part # "client" => kind = [r \in Transfers |-> "minted"]

(* One part runs in a behaviour, under its own module's fairness. *)
PartsSpec ==
  /\ PartsInit /\ [][PartsNext]_<<part, vars, observerVars, clientVars, repairVars>>
  /\ WF_clientVars(part = "client" /\ Client!RunsOn)
  /\ WF_repairVars(part = "repair" /\ (Repair!AppendStep \/ Repair!RepairStep))
  /\ WF_repairVars(part = "repair" /\ Repair!RepairStarts)
  /\ WF_repairVars(part = "repair" /\ Repair!Terminate)

(* Run again after every fault, the repair converges (Quarantine). *)
Converges == part = "repair" => Repair!Converges
=============================================================================
