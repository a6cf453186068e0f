---------------------------- MODULE LedgerHealth ----------------------------
(***************************************************************************)
(* The server's ledger observer (packages/server/src/ledger-health.ts and  *)
(* cli/ledger-health-child.ts) for one ledger target: a child process that *)
(* holds one TigerBeetle session and answers probes over IPC, the timers   *)
(* that give it up and start it again, and what state() says. Targets do   *)
(* not touch each other.                                                   *)
(*                                                                         *)
(* An action is one callback of the server, or one step of a child. A      *)
(* child is the number of its spawn, a probe its sequence number.          *)
(*                                                                         *)
(* Definitions named Mutant... are the mutated forms PROJECT.json lists;   *)
(* no specification uses them.                                             *)
(***************************************************************************)
EXTENDS Naturals, Sequences

CONSTANTS
  LastChild,   \* bound: a spawn after this one throws
  LastProbe    \* bound on the probes

Children == 1 .. LastChild
Probes   == 1 .. LastProbe
None     == 0

VARIABLES
  started, closing,
  child, spawns,      \* t.child, and how many were started
  ready, sent, seq, outstanding, lastOutcome, evicted,
  late,               \* the outstanding probe is past ledgerTimeoutMs
  readyTimer,         \* the child whose ready deadline is armed
  timers, respawn,    \* respawn timers armed; t.respawn still names one
  proc,               \* each child process
  asked,              \* the probe a child works on
  outbox,             \* its messages on the way
  exits,              \* the children whose exit event is on the way
  given, answer       \* history: the loaded child a probe reached; its answer

targetVars == <<child, spawns, ready, sent, seq, outstanding, lastOutcome,
                evicted, late, readyTimer, timers, respawn>>
childVars  == <<asked, outbox, exits>>
vars == <<started, closing, targetVars, proc, childVars, given, answer>>

Init ==
  /\ started = FALSE /\ closing = FALSE
  /\ child = None /\ spawns = 0
  /\ ready = FALSE /\ sent = FALSE /\ seq = 0 /\ outstanding = None
  /\ lastOutcome = "none" /\ evicted = FALSE /\ late = FALSE
  /\ readyTimer = None /\ timers = 0 /\ respawn = FALSE
  /\ proc = [k \in Children |-> "unborn"]
  /\ asked = [k \in Children |-> None]
  /\ outbox = [k \in Children |-> <<>>]
  /\ exits = {}
  /\ given = [n \in Probes |-> None]
  /\ answer = [n \in Probes |-> "none"]

Alive(k) == proc[k] \in {"loading", "loaded"}

(* state(), as /v1/health reads it. *)
state ==
  IF outstanding # None /\ sent /\ late THEN "unreachable"
  ELSE IF lastOutcome = "reply" THEN "reachable" ELSE "unknown"

-----------------------------------------------------------------------------
(* The observer's own steps. *)

(* SIGKILL: the process is gone, and its exit event follows. *)
Killed(k) ==
  /\ proc' = IF k # None /\ Alive(k) THEN [proc EXCEPT ![k] = "dead"] ELSE proc
  /\ exits' = IF k # None /\ Alive(k) THEN exits \cup {k} ELSE exits

(* failed(): unknown, and a respawn timer is armed beside those that are.  *)
Failed(armed) ==
  /\ ready' = FALSE /\ outstanding' = None /\ lastOutcome' = "none" /\ late' = FALSE
  /\ timers' = armed + 1 /\ respawn' = TRUE

(* The deadline for child k to say that it is ready. *)
ArmReady(k) == readyTimer' = k

(* spawn(): the child starts, with its first probe pending and not sent;   *)
(* or spawnChild() throws, and the target failed.                          *)
Spawn(armed) ==
  \/ /\ spawns < LastChild /\ seq < LastProbe
     /\ spawns' = spawns + 1 /\ child' = spawns + 1
     /\ proc' = [proc EXCEPT ![spawns + 1] = "loading"]
     /\ seq' = seq + 1 /\ outstanding' = seq + 1
     /\ ready' = FALSE /\ sent' = FALSE /\ evicted' = FALSE /\ late' = FALSE
     /\ lastOutcome' = "none"
     /\ ArmReady(spawns + 1)
     /\ timers' = armed /\ respawn' = FALSE
  \/ /\ Failed(armed)
     /\ evicted' = FALSE
     /\ UNCHANGED <<child, spawns, sent, seq, readyTimer, proc>>

Start ==
  /\ ~started /\ ~closing /\ started' = TRUE
  /\ Spawn(0)
  /\ UNCHANGED <<closing, childVars, given, answer>>

RespawnFires ==
  /\ timers > 0
  /\ IF closing
     THEN timers' = timers - 1 /\ respawn' = FALSE
          /\ UNCHANGED <<child, spawns, ready, sent, seq, outstanding, lastOutcome,
                         evicted, late, readyTimer, proc>>
     ELSE Spawn(timers - 1)
  /\ UNCHANGED <<started, closing, childVars, given, answer>>

(* A child that is not ready in time is detached, killed and respawned. *)
ReadyTimeout ==
  /\ readyTimer # None /\ readyTimer' = None
  /\ IF ~closing /\ child = readyTimer /\ ~ready
     THEN child' = None /\ Killed(child) /\ Failed(timers)
     ELSE UNCHANGED <<child, ready, outstanding, lastOutcome, late, timers, respawn,
                      proc, exits>>
  /\ UNCHANGED <<started, closing, spawns, sent, seq, evicted, asked, outbox,
                 given, answer>>

(* send(): the probe reaches the current child; one not loaded misses it.  *)
Send(n) ==
  /\ sent' = TRUE
  /\ IF child # None /\ proc[child] = "loaded"
     THEN /\ asked' = [asked EXCEPT ![child] = n]
          /\ given' = [given EXCEPT ![n] = child]
     ELSE UNCHANGED <<asked, given>>

(* probe(), on the keep-alive tick or poke(): single-flight. *)
Probe ==
  /\ started /\ ~closing /\ child # None /\ ready /\ outstanding = None
  /\ seq < LastProbe
  /\ seq' = seq + 1 /\ outstanding' = seq + 1 /\ late' = FALSE
  /\ Send(seq + 1)
  /\ UNCHANGED <<started, closing, child, spawns, ready, lastOutcome, evicted,
                 readyTimer, timers, respawn, proc, outbox, exits, answer>>

(* ledgerTimeoutMs is over; a dead child's exit is reported before that. *)
TimePasses ==
  /\ outstanding # None /\ sent /\ ~late /\ child \notin exits
  /\ late' = TRUE
  /\ UNCHANGED <<started, closing, child, spawns, ready, sent, seq, outstanding,
                 lastOutcome, evicted, readyTimer, timers, respawn, proc, childVars,
                 given, answer>>

MutantHears(k) == ~closing

(* A message, an error or an exit counts only from the current child. *)
Hears(k) == ~closing /\ child = k

(* onMessage(): ready sends the pending first probe; an answer counts only *)
(* for the outstanding probe.                                              *)
Message(k) ==
  /\ outbox[k] # <<>>
  /\ outbox' = [outbox EXCEPT ![k] = Tail(@)]
  /\ LET m == Head(outbox[k])
     IN  CASE Hears(k) /\ m.what = "ready" ->
                /\ ready' = TRUE /\ readyTimer' = None /\ late' = FALSE
                /\ IF outstanding # None /\ ~sent
                   THEN Send(outstanding)
                   ELSE UNCHANGED <<sent, asked, given>>
                /\ UNCHANGED <<outstanding, lastOutcome, evicted>>
           [] Hears(k) /\ m.what \in {"reply", "error"} /\ outstanding = m.n ->
                /\ outstanding' = None /\ late' = FALSE /\ lastOutcome' = m.what
                /\ UNCHANGED <<ready, readyTimer, sent, asked, given, evicted>>
           [] Hears(k) /\ m.what = "evicted" ->
                /\ evicted' = TRUE
                /\ UNCHANGED <<ready, readyTimer, sent, asked, given, outstanding,
                               late, lastOutcome>>
           [] OTHER -> UNCHANGED <<ready, readyTimer, sent, asked, given,
                                   outstanding, late, lastOutcome, evicted>>
  /\ UNCHANGED <<started, closing, child, spawns, seq, timers, respawn, proc,
                 exits, answer>>

(* The error event: the child is detached first, so that the exit its kill *)
(* causes is ignored.                                                      *)
Error(k) ==
  /\ Hears(k) /\ proc[k] # "unborn"
  /\ child' = None /\ readyTimer' = None
  /\ Killed(k) /\ Failed(timers)
  /\ UNCHANGED <<started, closing, spawns, sent, seq, evicted, asked, outbox,
                 given, answer>>

Exit(k) ==
  /\ k \in exits
  /\ exits' = exits \ {k}
  /\ IF Hears(k) THEN child' = None /\ readyTimer' = None /\ Failed(timers)
     ELSE UNCHANGED <<child, readyTimer, ready, outstanding, lastOutcome, late,
                      timers, respawn>>
  /\ UNCHANGED <<started, closing, spawns, sent, seq, evicted, proc, asked, outbox,
                 given, answer>>

(* stop(): every timer t still names is cleared, the child killed. *)
Stop ==
  /\ ~closing /\ closing' = TRUE
  /\ timers' = IF respawn THEN timers - 1 ELSE timers
  /\ respawn' = FALSE /\ readyTimer' = None
  /\ outstanding' = None /\ lastOutcome' = "none" /\ late' = FALSE
  /\ ready' = FALSE /\ sent' = FALSE
  /\ child' = None /\ Killed(child)
  /\ UNCHANGED <<started, spawns, seq, evicted, asked, outbox, given, answer>>

-----------------------------------------------------------------------------
(* The child process. *)

Says(k, m) == outbox' = [outbox EXCEPT ![k] = Append(@, m)]

ChildLoads(k) ==
  /\ proc[k] = "loading"
  /\ proc' = [proc EXCEPT ![k] = "loaded"]
  /\ Says(k, [what |-> "ready", n |-> None])
  /\ UNCHANGED <<started, closing, targetVars, asked, exits, given, answer>>

(* probe(): the ledger answers, or the lookup fails. *)
ChildAnswers(k) ==
  /\ proc[k] = "loaded" /\ asked[k] # None
  /\ \E what \in {"reply", "error"} :
       /\ Says(k, [what |-> what, n |-> asked[k]])
       /\ answer' = [answer EXCEPT ![asked[k]] = what]
  /\ asked' = [asked EXCEPT ![k] = None]
  /\ UNCHANGED <<started, closing, targetVars, proc, exits, given>>

(* An eviction is said, and the child exits; it may also die at any time.  *)
ChildExits(k) ==
  /\ Alive(k)
  /\ \/ asked[k] # None /\ Says(k, [what |-> "evicted", n |-> None])
     \/ UNCHANGED outbox
  /\ proc' = [proc EXCEPT ![k] = "dead"]
  /\ exits' = exits \cup {k}
  /\ UNCHANGED <<started, closing, targetVars, asked, given, answer>>

-----------------------------------------------------------------------------
Next ==
  \/ Start \/ RespawnFires \/ ReadyTimeout \/ Probe \/ TimePasses \/ Stop
  \/ \E k \in Children : Message(k) \/ Error(k) \/ Exit(k)
  \/ \E k \in Children : ChildLoads(k) \/ ChildAnswers(k) \/ ChildExits(k)

Spec == Init /\ [][Next]_vars

-----------------------------------------------------------------------------
(* The variables have their types. *)
TypeOK ==
  /\ {started, closing, ready, sent, evicted, late, respawn} \subseteq BOOLEAN
  /\ child \in Children \cup {None} /\ spawns \in 0 .. LastChild
  /\ seq \in 0 .. LastProbe /\ outstanding \in Probes \cup {None}
  /\ lastOutcome \in {"none", "reply", "error"}
  /\ readyTimer \in Children \cup {None} /\ timers \in Nat
  /\ proc \in [Children -> {"unborn", "loading", "loaded", "dead"}]
  /\ asked \in [Children -> Probes \cup {None}]
  /\ exits \subseteq Children
  /\ given \in [Probes -> Children \cup {None}]
  /\ answer \in [Probes -> {"none", "reply", "error"}]

(* What /v1/health says is so: reachable, and the ledger answered the last *)
(* probe the current child was given; unreachable, and that child was      *)
(* loaded and given the probe that is overdue. No message of a replaced    *)
(* child and no late answer decides it (state, onMessage).                 *)
StateHonest ==
  /\ state = "reachable" =>
       LET n == IF outstanding = None THEN seq ELSE seq - 1
       IN  n \in Probes /\ given[n] = child /\ answer[n] = "reply"
  /\ state = "unreachable" => given[outstanding] = child
=============================================================================
