---------------------------- MODULE LedgerClient ----------------------------
(***************************************************************************)
(* TrustTBClient (packages/core/src/ledger/client.ts): the wrapper around  *)
(* the native TigerBeetle client. Requests run on the native client that   *)
(* is current when they are made; one that fails for a lost connection or  *)
(* an eviction replaces that client, once for all that failed on it, and   *)
(* is made once more on the new one. connectDeadline() opens, close() asks *)
(* the native client whether it was evicted and destroys it, and destroy() *)
(* may be called without asking.                                           *)
(*                                                                         *)
(* A native client is its generation, the number under which it was        *)
(* installed. A request is one operation: a transfer under a minted id, a  *)
(* reservation or a settlement under an id the caller supplied, or the     *)
(* health check's treasury lookup.                                         *)
(*                                                                         *)
(* The native client has a thread of its own: between an answer it gives   *)
(* and what the wrapper does on it, it may learn of an eviction.           *)
(*                                                                         *)
(* Definitions named Mutant... are the mutated forms PROJECT.json lists;   *)
(* no specification uses them.                                             *)
(***************************************************************************)
EXTENDS Integers, FiniteSets

CONSTANTS
  Transfers,                   \* the transfer operations
  Ping,                        \* the health check's request
  LastClient,                  \* bound: createClient() throws after this one
  MaxRetries,                  \* attempts of one reconnect (5 in the code)
  DestroyThrows                \* a native destroy() may throw; bound: one does

Requests  == Transfers \cup {Ping}
Clients   == 0 .. LastClient

VARIABLES
  native,          \* external: each native client, as tigerbeetle-node has it
  generation,      \* the current one
  holds,           \* this.client is not yet CLOSED_CLIENT
  closed, evicted, released, droppedEvicted,
  reconnecting, attempt,       \* reconnectPromise, and _doReconnect's loop
  pc, on, step, retried,       \* each request: where it is, and on which client
  healthAlerted,
  closing, asked,  \* connectDeadline() and close(): their probe's client
  kind,            \* each transfer: its id minted, or supplied, and for what
  replay,          \* the supplied ids a run before this one already used
  applied,         \* the ids under which the ledger applied each transfer
  told,            \* history: the clients a request failed on since they learned
  unheard,         \* history: the current one, if it learned after the answer
                   \* that is acted on next
  direct,          \* history: it aborted in a destroy() without close()
  stuck,           \* history: the clients whose native destroy() threw
  aborted          \* a learned eviction was destroyed: the process is gone

nativeVars    == <<native, generation, holds, evicted, released, droppedEvicted,
                   stuck, aborted>>
reconnectVars == <<reconnecting, attempt>>
requestVars   == <<pc, on, step, retried>>
closeVars     == <<closed, closing, asked, direct>>
ledgerVars    == <<kind, replay, applied>>
vars == <<nativeVars, reconnectVars, requestVars, healthAlerted, closeVars,
          ledgerVars, told, unheard>>

Init ==
  /\ native = [n \in Clients |-> IF n = 0 THEN "up" ELSE "none"]
  /\ generation = 0 /\ holds = TRUE
  /\ evicted = {} /\ released = {} /\ droppedEvicted = 0
  /\ reconnecting = "none" /\ attempt = 0
  /\ pc = [r \in Requests |-> "idle"]
  /\ on = [r \in Requests |-> 0]
  /\ step = [r \in Requests |-> "make"]
  /\ retried = [r \in Requests |-> FALSE]
  /\ healthAlerted = FALSE
  /\ closed = FALSE /\ closing = "dialing" /\ asked = 0 /\ direct = FALSE
  /\ kind \in [Transfers -> {"minted", "reserve", "settle"}]
  /\ replay \in SUBSET {r \in Transfers : kind[r] # "minted"}
  /\ applied = [r \in Transfers |-> IF r \in replay THEN {0} ELSE {}]
  /\ told = {} /\ unheard = {} /\ stuck = {} /\ aborted = FALSE

InFlight(r) == pc[r] \in {"sent", "waits", "retry"}
Ended(r)    == pc[r] \in {"ok", "replay", "failed"}

-----------------------------------------------------------------------------
(* The native client. external: tigerbeetle-node 0.17.9, as the comments   *)
(* of client.ts measure it.                                                *)

(* The cluster pushes a session out; the client learns of it later, from   *)
(* its own traffic or from a request. From then on its requests fail at    *)
(* once, and destroying it aborts the process.                             *)
Evict(n) ==
  /\ native[n] = "up"
  /\ native' = [native EXCEPT ![n] = "evicted"]
  /\ UNCHANGED <<generation, holds, evicted, released, droppedEvicted, stuck, aborted,
                 reconnectVars, requestVars, healthAlerted, closeVars, ledgerVars,
                 told, unheard>>

(* What the current client answered, or failed with, is about to be acted  *)
(* on: nothing is awaited between.                                         *)
AboutToAct(n) == n = generation /\ (reconnecting = "begun" \/ closing = "probed")

Learn(n) ==
  /\ native[n] = "evicted"
  /\ native' = [native EXCEPT ![n] = "learned"]
  /\ unheard' = IF AboutToAct(n) THEN unheard \cup {n} ELSE unheard
  /\ UNCHANGED <<generation, holds, evicted, released, droppedEvicted, stuck, aborted,
                 reconnectVars, requestVars, healthAlerted, closeVars, ledgerVars, told>>

FailsAtOnce(n) == native[n] \in {"learned", "destroyed"}

(* How a request on n can fail, and what that leaves of n. *)
Failure(n, err) ==
  \/ err = "evicted" /\ native[n] = "evicted"
  \/ err = "closed" /\ FailsAtOnce(n)
  \/ err \in {"connection", "other"} /\ native[n] \in {"up", "evicted"}

AfterFailure(n, err) ==
  IF err = "evicted" THEN [native EXCEPT ![n] = "learned"] ELSE native

(* send(): a failure that says n was evicted marks it, and it counts once. *)
Marks(n, err) == err = "evicted" \/ (err = "closed" /\ n \notin released)

Marked(n, err) == IF Marks(n, err) THEN evicted \cup {n} ELSE evicted

Count(n, err) ==
  droppedEvicted + (IF Marks(n, err) /\ n \notin evicted THEN 1 ELSE 0)

Told(n, err) ==
  IF native[n] = "learned" \/ err = "evicted" THEN told \cup {n} ELSE told

MutantKept(n, threw) == native

Destroyed(n, threw) ==
  IF n \in evicted \/ threw THEN native
  ELSE [native EXCEPT ![n] = IF @ = "learned" THEN "aborted" ELSE "destroyed"]

CanThrow(n) ==
  {FALSE} \cup (IF /\ DestroyThrows /\ stuck = {}
                   /\ n \notin evicted /\ native[n] \in {"up", "evicted"}
                THEN {TRUE} ELSE {})

(* An evicted client is left alone; any other is released, then destroyed. *)
Releases(n, threw) ==
  /\ released' = IF n \in evicted THEN released ELSE released \cup {n}
  /\ stuck' = IF threw THEN stuck \cup {n} ELSE stuck
  /\ aborted' = (Destroyed(n, threw)[n] = "aborted")
  /\ unheard' = IF aborted' THEN unheard ELSE {}

-----------------------------------------------------------------------------
(* Reconnecting. *)

(* The old client is released, or dropped if evicted, and a new one        *)
(* installed, unless createClient() throws; the last failure is final.     *)
Replace ==
  \E threw \in CanThrow(generation) :
    LET gone == Destroyed(generation, threw)
    IN  /\ Releases(generation, threw)
        /\ \/ /\ generation < LastClient
              /\ native' = [gone EXCEPT ![generation + 1] = "up"]
              /\ generation' = generation + 1
              /\ reconnecting' = "settled" /\ attempt' = 0
           \/ /\ native' = gone
              /\ IF attempt = MaxRetries - 1
                 THEN reconnecting' = "failed" /\ attempt' = 0
                 ELSE reconnecting' = "backoff" /\ attempt' = attempt + 1
              /\ UNCHANGED generation

(* One attempt of _doReconnect(), the first as soon as the failure is      *)
(* handled: no client is built once closed.                                *)
Attempt ==
  /\ reconnecting \in {"begun", "backoff"}
  /\ \/ /\ closed
        /\ reconnecting' = "failed" /\ attempt' = 0
        /\ UNCHANGED <<native, generation, released, stuck, aborted, unheard>>
     \/ ~closed /\ Replace
  /\ UNCHANGED <<holds, evicted, droppedEvicted, requestVars, healthAlerted, closeVars,
                 ledgerVars, told>>

(* The promise settles: it is forgotten, and those that joined it go on. *)
Cleanup ==
  /\ reconnecting \in {"settled", "failed"}
  /\ reconnecting' = "none"
  /\ LET after == IF reconnecting = "settled" THEN "retry" ELSE "failed"
     IN  pc' = [r \in Requests |-> IF pc[r] = "waits" THEN after ELSE pc[r]]
  /\ UNCHANGED <<attempt, nativeVars, on, step, retried, healthAlerted, closeVars,
                 ledgerVars, told, unheard>>

-----------------------------------------------------------------------------
(* Requests: withReconnect() around send(). *)

(* r is no longer out on a client, and its local variables are dead. *)
Goes(r, where) ==
  /\ pc' = [pc EXCEPT ![r] = where]
  /\ on' = [on EXCEPT ![r] = 0]
  /\ step' = [step EXCEPT ![r] = IF where \in {"waits", "retry"} THEN @ ELSE "make"]
  /\ retried' = [retried EXCEPT ![r] = FALSE]

(* native(), asked at each request, refuses one made once closed. *)
Sent(r, what, again) ==
  IF closed THEN Goes(r, "failed")
  ELSE /\ pc' = [pc EXCEPT ![r] = "sent"]
       /\ on' = [on EXCEPT ![r] = generation]
       /\ step' = [step EXCEPT ![r] = what]
       /\ retried' = [retried EXCEPT ![r] = again]

(* A transfer operation: assertOpen(), then its request. *)
Start(r) ==
  /\ r \in Transfers /\ pc[r] = "idle" /\ closing # "dialing"
  /\ Sent(r, "make", FALSE)
  /\ UNCHANGED <<nativeVars, reconnectVars, healthAlerted, closeVars, ledgerVars, told, unheard>>

Retry(r) ==
  /\ pc[r] = "retry"
  /\ Sent(r, step[r], TRUE)
  /\ UNCHANGED <<nativeVars, reconnectVars, healthAlerted, closeVars, ledgerVars, told, unheard>>

(* A retry in a fresh id. *)
MutantId(r) == IF retried[r] THEN 1 ELSE 0

(* The id under which r's request goes out: minted, or the caller's, before *)
(* withReconnect()'s closure, so a retry sends it again.                   *)
Id(r) == 0

(* external: the ledger applies an id once, answering exists to every      *)
(* later request under it.                                                 *)
Lands(r) == applied' = [applied EXCEPT ![r] = @ \cup {Id(r)}]

MutantAnswerTo(r, exists) == "ok"

(* exists is success under a minted id. A supplied id is looked up, and a  *)
(* reservation found there is a replay, never a live hold.                 *)
AnswerTo(r, exists) ==
  IF step[r] = "verify" THEN IF kind[r] = "reserve" THEN "replay" ELSE "ok"
  ELSE IF exists /\ kind[r] # "minted" THEN "verify" ELSE "ok"

Answers(r) ==
  /\ pc[r] = "sent" /\ native[on[r]] = "up"
  /\ IF r \in Transfers /\ step[r] = "make"
     THEN Lands(r) ELSE UNCHANGED applied
  /\ LET a == AnswerTo(r, r \in Transfers /\ Id(r) \in applied[r])
     IN  IF a = "verify" THEN Sent(r, "verify", FALSE)
         ELSE Goes(r, a)
  /\ UNCHANGED <<nativeVars, reconnectVars, healthAlerted, closeVars, kind, replay,
                 told, unheard>>

(* The ledger refuses: a transfer's status, or no treasury account. *)
Refuses(r) ==
  /\ pc[r] = "sent" /\ native[on[r]] = "up"
  /\ r \in Transfers => step[r] = "make" /\ Id(r) \notin applied[r]
  /\ Goes(r, "failed")
  /\ UNCHANGED <<nativeVars, reconnectVars, healthAlerted, closeVars, ledgerVars, told, unheard>>

(* The client a failed request ran on was replaced already. *)
Stale(from) == from # generation

(* What a failed first request does: its own error once closed or where no *)
(* connection was lost; join the reconnect in flight; retry on the client  *)
(* that replaced its own; or begin to replace the client.                  *)
Fails(r) ==
  \E err \in {"evicted", "closed", "connection", "other"} :
    LET n == on[r]
    IN  /\ pc[r] = "sent" /\ Failure(n, err)
        /\ \/ UNCHANGED applied
           \/ /\ r \in Transfers /\ step[r] = "make" /\ native[n] = "up"
              /\ err \in {"connection", "other"} /\ Lands(r)
        /\ native' = AfterFailure(n, err)
        /\ evicted' = Marked(n, err) /\ droppedEvicted' = Count(n, err)
        /\ told' = Told(n, err)
        /\ IF closed \/ retried[r] \/ err = "other"
           THEN Goes(r, "failed") /\ UNCHANGED reconnecting
           ELSE IF reconnecting # "none"
           THEN Goes(r, "waits") /\ UNCHANGED reconnecting
           ELSE IF Stale(n)
           THEN Goes(r, "retry") /\ UNCHANGED reconnecting
           ELSE Goes(r, "waits") /\ reconnecting' = "begun"
        /\ UNCHANGED <<attempt, generation, holds, released, stuck, aborted, healthAlerted,
                       closeVars, kind, replay, unheard>>

-----------------------------------------------------------------------------
(* The health check: a tick every 30 s, and what its answer says. *)

noteHealth(healthy) ==
  healthAlerted' = IF closed THEN healthAlerted ELSE ~healthy

(* Single-flight: a check still out at the next tick is a failed one. *)
HealthTick ==
  /\ ~closed /\ closing # "dialing"
  /\ \/ InFlight(Ping) /\ noteHealth(FALSE) /\ UNCHANGED requestVars
     \/ pc[Ping] = "idle" /\ Sent(Ping, "make", FALSE) /\ UNCHANGED healthAlerted
  /\ UNCHANGED <<nativeVars, reconnectVars, closeVars, ledgerVars, told, unheard>>

HealthNoted ==
  /\ Ended(Ping)
  /\ noteHealth(pc[Ping] = "ok")
  /\ pc' = [pc EXCEPT ![Ping] = "idle"]
  /\ UNCHANGED <<nativeVars, reconnectVars, on, step, retried, closeVars, ledgerVars,
                 told, unheard>>

-----------------------------------------------------------------------------
(* connectDeadline(), close() and destroy(). *)

(* The first probe is answered, and the client is in use. *)
Connected ==
  /\ closing = "dialing" /\ native[0] = "up"
  /\ closing' = "open"
  /\ UNCHANGED <<nativeVars, reconnectVars, requestVars, healthAlerted, closed, asked,
                 direct, ledgerVars, told, unheard>>

(* closed first, then the native destroy; CLOSED_CLIENT takes its place    *)
(* only where that returned, and destroying that one does nothing.         *)
Destroy ==
  /\ closed' = TRUE
  /\ \/ ~holds /\ UNCHANGED <<native, released, stuck, aborted, unheard, holds>>
     \/ /\ holds
        /\ \E threw \in CanThrow(generation) :
             /\ Releases(generation, threw)
             /\ native' = Destroyed(generation, threw) /\ holds' = threw

(* destroy(), called by a program that holds the client itself. *)
DestroyCalled ==
  /\ holds /\ Destroy /\ direct' = aborted'
  /\ closing' = IF closing \in {"open", "dialing"} THEN "done" ELSE closing
  /\ UNCHANGED <<generation, evicted, droppedEvicted, reconnectVars, requestVars,
                 healthAlerted, asked, ledgerVars, told>>

(* close() asks the current client first, unless it knows of an eviction.  *)
(* connectDeadline() takes the same path when its own probe got no answer  *)
(* or failed.                                                              *)
Close ==
  /\ closing \in {"open", "dialing"} /\ ~closed
  /\ \/ /\ generation \in evicted
        /\ closing' = "done" /\ Destroy /\ UNCHANGED asked
     \/ /\ generation \notin evicted
        /\ closing' = "asking" /\ asked' = generation
        /\ UNCHANGED <<native, holds, released, stuck, aborted, unheard, closed>>
  /\ UNCHANGED <<generation, evicted, droppedEvicted, reconnectVars, requestVars,
                 healthAlerted, direct, ledgerVars, told>>

(* The probe's failure marks nothing. *)
MutantProbed ==
  /\ closing = "asking" /\ closing' = "probed"
  /\ UNCHANGED <<nativeVars, reconnectVars, requestVars, healthAlerted, closed, asked,
                 direct, ledgerVars, told, unheard>>

(* The probe is answered, fails, or is not answered in time, which a       *)
(* client that learned of its eviction cannot do.                          *)
Probed ==
  /\ closing = "asking" /\ closing' = "probed"
  /\ \/ ~FailsAtOnce(asked) /\ UNCHANGED <<native, evicted, droppedEvicted, told>>
     \/ \E err \in {"evicted", "closed", "connection"} :
          /\ Failure(asked, err)
          /\ native' = AfterFailure(asked, err)
          /\ evicted' = Marked(asked, err) /\ droppedEvicted' = Count(asked, err)
          /\ told' = Told(asked, err)
  /\ UNCHANGED <<generation, holds, released, stuck, aborted, reconnectVars, requestVars,
                 healthAlerted, closed, asked, direct, ledgerVars, unheard>>

(* close() destroys what is current now. *)
Closes ==
  /\ closing = "probed" /\ closing' = "done"
  /\ Destroy
  /\ UNCHANGED <<generation, evicted, droppedEvicted, reconnectVars, requestVars,
                 healthAlerted, asked, direct, ledgerVars, told>>

-----------------------------------------------------------------------------
Next ==
  /\ ~aborted
  /\ \/ \E n \in Clients : Evict(n) \/ Learn(n)
     \/ \E r \in Requests : Start(r) \/ Retry(r) \/ Answers(r) \/ Refuses(r) \/ Fails(r)
     \/ Attempt \/ Cleanup
     \/ HealthTick \/ HealthNoted
     \/ Connected \/ Close \/ Probed \/ Closes \/ DestroyCalled

(* What runs without the cluster: timers, promises, and the requests of a  *)
(* client that was destroyed or has learned of its eviction.               *)
RunsOn ==
  /\ ~aborted
  /\ \/ Attempt \/ Cleanup
     \/ \E r \in Requests :
          Retry(r) \/ (pc[r] = "sent" /\ FailsAtOnce(on[r]) /\ Fails(r))

Spec == Init /\ [][Next]_vars

FairSpec == Spec /\ WF_vars(RunsOn) /\ WF_vars(~aborted /\ HealthTick)

-----------------------------------------------------------------------------
(* Destroying a client that has learned of its eviction aborts the         *)
(* process. It never takes one that any request failed on since it learned *)
(* (the probe included): that one is marked, and left open. What is left   *)
(* is a client that learned after the last answer acted on, in the instant *)
(* before its destroy; one that destroy() took unasked; and one that       *)
(* replaced, meanwhile, the client close() asked. (send, close, destroy,   *)
(* _doReconnect; a client whose destroy() threw may be destroyed again.)   *)
NeverAborts ==
  \A n \in Clients : native[n] = "aborted" /\ stuck = {} =>
    /\ n \notin told
    /\ n \in unheard \/ (closed /\ (direct \/ asked # n))

(* A transfer reaches the ledger once, however its request is retried; the *)
(* operation succeeds only if it did, and a reservation only if it was not *)
(* there already (withReconnect, settleCallerSuppliedStatus).              *)
TransferOnce ==
  \A r \in Transfers :
    /\ \A i, j \in applied[r] : i = j
    /\ pc[r] = "ok" => applied[r] # {} /\ ~(kind[r] = "reserve" /\ r \in replay)

(* close() and destroy() end every operation in flight although the ledger *)
(* never answers again (native, withReconnect).                            *)
CloseEndsRequests ==
  closed /\ stuck = {} ~> aborted \/ \A r \in Transfers : ~InFlight(r)
=============================================================================
