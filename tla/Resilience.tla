------------------------------ MODULE Resilience ------------------------------
(***************************************************************************)
(* Four parts that do not touch each other, side by side: the circuit      *)
(* breaker, the server's ledger observer, the TigerBeetle client and the   *)
(* audit log's torn-tail repair. A variable that two of them name is       *)
(* renamed in one.                                                         *)
(***************************************************************************)
EXTENDS CircuitBreaker

CONSTANTS
  LastChild, LastProbe,                            \* LedgerHealth
  Transfers, Ping, LastClient, MaxRetries, DestroyThrows,  \* LedgerClient
  Torn, Clean, MaxEvents, MaxFaults                \* Quarantine

(* The bounds are counts; the health check's lookup is not a transfer, and *)
(* a reconnect is tried at least once.                                     *)
ASSUME PartsAssumption ==
  /\ LastChild \in Nat /\ LastProbe \in Nat
  /\ Ping \notin Transfers
  /\ LastClient \in Nat /\ MaxRetries \in Nat \ {0} /\ DestroyThrows \in BOOLEAN

VARIABLES
  started, closing, child, spawns, ready, sent, seq, probed, lastOutcome, evicted,
  late, readyTimer, timers, respawn, proc, asked, outbox, exits, given, answer,
  native, generation, holds, closed, marked, released, droppedEvicted, reconnecting, attempt,
  pc, on, step, retried, healthAlerted, ending, probing, kind, replay, applied, told, unheard, direct,
  stuck, aborted,
  log, tail, meta, evidence, synced, at, todo, faults, cut, anchored, skipped

Observer == INSTANCE LedgerHealth WITH outstanding <- probed

Client == INSTANCE LedgerClient WITH evicted <- marked, closing <- ending, asked <- probing

Repair == INSTANCE Quarantine WITH pc <- at

(* A beginning of a line that does not parse is no line, and not the       *)
(* nothing that follows a newline.                                         *)
ASSUME RepairAssumption ==
  /\ Clean \notin Torn /\ Repair!Event \notin Torn \X Nat
  /\ (Torn \cup {Clean}) \cap ({Repair!Event} \cup (Torn \X Nat)) = {}

(* What /v1/health says of the ledger is so (LedgerHealth). *)
StateHonest == Observer!StateHonest

(* An eviction is not destroyed into an abort (LedgerClient). *)
NeverAborts == Client!NeverAborts

(* A transfer reaches the ledger once (LedgerClient). *)
TransferOnce == Client!TransferOnce

(* close() ends what is in flight (LedgerClient). *)
CloseEndsRequests == Client!CloseEndsRequests

(* What was cut is kept and recorded once, and the repair is not refused   *)
(* but in the case its exception names (Quarantine).                       *)
EvidenceKept == Repair!EvidenceKept
=============================================================================
