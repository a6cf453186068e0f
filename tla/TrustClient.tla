----------------------------- MODULE TrustClient -----------------------------
(***************************************************************************)
(* A client wrapped by trust() (packages/core/src/govern.ts) and the       *)
(* streams it hands back (packages/core/src/streaming.ts): the intercepted *)
(* calls, governed actions and streams of one governor, the engine's       *)
(* requests to TigerBeetle, and destroy().                                 *)
(*                                                                         *)
(* An action is one stretch of one handler up to its next await. A call    *)
(* is one of                                                               *)
(*   plain    a request and its response, or governAction()                *)
(*   google   the same behind the Google request gate's admission          *)
(*   iter     a response the caller iterates (createGovernedStream)        *)
(*   helper   an Anthropic MessageStream, settled on its emitter's events  *)
(*   none     never made                                                   *)
(* Token counts and prices are a cost out of Costs; the policy, PII and    *)
(* injection checks are a refusal that may happen.                         *)
(*                                                                         *)
(* Definitions named Mutant... are the mutated forms PROJECT.json lists;   *)
(* no specification uses them.                                             *)
(***************************************************************************)
EXTENDS Integers, FiniteSetsExt

CONSTANTS
  Calls,            \* the calls made through the client
  Kinds,            \* the kinds a call may have
  Attributed,       \* the calls made inside withCostCenter()
  Engines,          \* whether there may be an engine: FALSE is a dry run
  Budget,           \* config.budget, and the seed of the holding wallet
  EnvelopeFunds,    \* balance of the cost-center envelope's account
  EstCosts, Costs,  \* hold estimates; actual costs
  FailClosed,       \* config.audit.failClosed
  AppendFaults,     \* the calls whose audit appends may fail
  LedgerFaults,     \* those whose ledger requests may fail, applied or not
  HoldsExpire,      \* those whose pending transfer may reach its 300 s timeout
  LateSignals,      \* an emitter may report error or abort after a terminal
  DeadlineCanPass   \* destroy()'s drain may run into its 5 s

ASSUME TrustClientAssumption ==
  /\ "free" \notin Calls
  /\ Attributed \cup AppendFaults \cup LedgerFaults \cup HoldsExpire \subseteq Calls
  /\ Kinds \subseteq {"none", "plain", "google", "iter", "helper"}
  /\ Budget \in Nat /\ EnvelopeFunds \in Nat
  /\ EstCosts \subseteq Nat /\ Costs \subseteq Nat
  /\ Engines \cup {FailClosed, LateSignals, DeadlineCanPass} \subseteq BOOLEAN

VARIABLES
  engine,            \* engine is not null
  kind, pc,          \* what each call is, and what it waits for
  est, cost,         \* estimatedCost; actualCost or streamCost
  finalizeState,     \* the gate every terminal goes through
  holdActive,        \* this call's share is in inFlightHoldTotal
  settled,           \* the POST was confirmed, as far as the call knows
  receipt,           \* what the caller got, or its .receipt promise
  gen,               \* iter: the generator not started, in its body, done
  signals, late,     \* helper: the events emitted; one came after a terminal
  counted,           \* helper: streamCountReleased is still false
  lock,              \* budgetMutex: the call that awaits the ledger inside it
  inFlightCount, inFlightStreamCount, inFlightHoldTotal, budgetSpent,
  pendingMap,        \* the engine's entries
  op, ans,           \* the call's request to TigerBeetle, and its answer
  tb, posted,        \* the transfer in TigerBeetle, and the amount posted
  rec,               \* the kinds of audit record that name the call
  callAuditDegraded, auditDegraded,
  dpc, entries, missed, \* destroy(): its step, the sweep's rest, deadline passed
  faulty             \* history: a ledger request failed for no reason of the call

moneyVars  == <<inFlightHoldTotal, budgetSpent>>
countVars  == <<inFlightCount, inFlightStreamCount, counted>>
streamVars == <<gen, signals, late>>
tbVars     == <<tb, posted>>
auditVars  == <<rec, callAuditDegraded, auditDegraded>>
destroyVars == <<dpc, entries, missed, faulty>>
vars == <<engine, kind, pc, est, cost, finalizeState, holdActive, settled, receipt,
          streamVars, lock, countVars, moneyVars, pendingMap, op, ans, tbVars,
          auditVars, destroyVars>>

RecordKinds == {"denied", "llm_call", "llm_call_failed", "settlement_ambiguous",
                "settlement_shortfall", "stream_partial_delivery"}

Init ==
  /\ engine \in Engines
  /\ kind \in [Calls -> Kinds]
  /\ pc = [c \in Calls |-> "idle"]
  /\ est = [c \in Calls |-> 0]
  /\ cost = [c \in Calls |-> 0]
  /\ finalizeState = [c \in Calls |-> "pending"]
  /\ holdActive = [c \in Calls |-> FALSE]
  /\ settled = [c \in Calls |-> TRUE]
  /\ receipt = [c \in Calls |-> "none"]
  /\ gen = [c \in Calls |-> "start"]
  /\ signals = [c \in Calls |-> {}]
  /\ late = [c \in Calls |-> FALSE]
  /\ counted = [c \in Calls |-> FALSE]
  /\ lock = "free"
  /\ inFlightCount = 0 /\ inFlightStreamCount = 0
  /\ inFlightHoldTotal = 0 /\ budgetSpent = 0
  /\ pendingMap = {}
  /\ op = [c \in Calls |-> "none"]
  /\ ans = [c \in Calls |-> "none"]
  /\ tb = [c \in Calls |-> "none"]
  /\ posted = [c \in Calls |-> 0]
  /\ rec = [c \in Calls |-> {}]
  /\ callAuditDegraded = [c \in Calls |-> FALSE]
  /\ auditDegraded = FALSE
  /\ dpc = "up" /\ entries = {} /\ missed = FALSE /\ faulty = FALSE

-----------------------------------------------------------------------------
IsStream(c) == kind[c] \in {"iter", "helper"}
Destroyed == dpc # "up"
admissionsRevoked == dpc \notin {"up", "drain"}
Closed == dpc = "closed"

(* envelopeDebited: an attributed hold debits its cost center's envelope,  *)
(* and sessionShare() of any amount is then nothing.                       *)
EnvelopeDebited(c) == engine /\ c \in Attributed
sessionShare(c, amount) == IF EnvelopeDebited(c) THEN 0 ELSE amount

(* What TigerBeetle lets the account a call debits still hold. *)
Available(c) ==
  LET Debit(d) == CASE tb[d] = "pending" -> est[d]
                    [] tb[d] = "posted"  -> posted[d]
                    [] OTHER             -> 0
  IN  IF EnvelopeDebited(c)
      THEN EnvelopeFunds - MapThenSumSet(Debit, Attributed)
      ELSE Budget - MapThenSumSet(Debit, Calls \ Attributed)

gateRemaining(c) ==
  IF EnvelopeDebited(c) THEN Available(c)
  ELSE Budget - budgetSpent - inFlightHoldTotal

(* audit.appendEvent() of one record about c: it lands, or it rejects and  *)
(* the writer is degraded from then on. With notes, the rejection marks    *)
(* the call too.                                                           *)
Appended(c, k, notes) ==
  \/ /\ rec' = [rec EXCEPT ![c] = @ \cup {k}]
     /\ UNCHANGED <<callAuditDegraded, auditDegraded>>
  \/ /\ c \in AppendFaults
     /\ auditDegraded' = TRUE
     /\ callAuditDegraded' = [callAuditDegraded EXCEPT ![c] = @ \/ notes]
     /\ UNCHANGED rec

AppendFailed(c) == callAuditDegraded'[c] /\ ~callAuditDegraded[c]

(* A promise resolves or rejects once; a later answer changes nothing. *)
Answer(c, a) == receipt' = [receipt EXCEPT ![c] = IF @ = "none" THEN a ELSE @]

(* A request of the engine: it goes out if the client is open and the      *)
(* engine knows the entry, and otherwise throws.                           *)
Request(c, what, known) ==
  /\ op' = [op EXCEPT ![c] = what]
  /\ ans' = [ans EXCEPT ![c] = IF known /\ ~Closed THEN "wait" ELSE "err"]

EndRequest(c) ==
  /\ op' = [op EXCEPT ![c] = "none"]
  /\ ans' = [ans EXCEPT ![c] = "none"]

To(c, where) == pc' = [pc EXCEPT ![c] = where]

-----------------------------------------------------------------------------
(* Entering the governor.                                                  *)

(* The Google traps count the call before the request gate's first await.  *)
AdmitGoogleCall(c) ==
  /\ pc[c] = "idle" /\ kind[c] = "google"
  /\ ~Destroyed /\ ~(FailClosed /\ auditDegraded)
  /\ inFlightCount' = inFlightCount + 1
  /\ To(c, "admitted")
  /\ UNCHANGED <<engine, kind, est, cost, finalizeState, holdActive, settled, receipt,
                 streamVars, lock, inFlightStreamCount, counted, moneyVars,
                 pendingMap, op, ans, tbVars, auditVars, destroyVars>>

(* interceptCall() and governActionImpl() up to the wait for the mutex. An *)
(* admitted call is let in while destroy() drains, and is counted already. *)
Enter(c) ==
  /\ \/ pc[c] = "idle" /\ kind[c] \notin {"none", "google"} /\ ~Destroyed
        /\ inFlightCount' = inFlightCount + 1
     \/ pc[c] = "admitted" /\ ~(Destroyed /\ admissionsRevoked)
        /\ UNCHANGED inFlightCount
  /\ ~(FailClosed /\ auditDegraded)
  /\ \E e \in EstCosts : est' = [est EXCEPT ![c] = e]
  /\ To(c, "gate")
  /\ UNCHANGED <<engine, kind, cost, finalizeState, holdActive, settled, receipt,
                 streamVars, lock, inFlightStreamCount, counted, moneyVars,
                 pendingMap, op, ans, tbVars, auditVars, destroyVars>>

(* A call refused before it is counted, or an admitted one whose gate      *)
(* refuses it or that reaches interceptCall() after destroy()'s deadline.  *)
RefusedAtEntry(c) ==
  /\ \/ pc[c] = "idle" /\ kind[c] # "none" /\ (Destroyed \/ (FailClosed /\ auditDegraded))
        /\ UNCHANGED inFlightCount
     \/ pc[c] = "admitted" /\ inFlightCount' = inFlightCount - 1
  /\ Answer(c, "refused")
  /\ To(c, "over")
  /\ UNCHANGED <<engine, kind, est, cost, finalizeState, holdActive, settled,
                 streamVars, lock, inFlightStreamCount, counted, moneyVars,
                 pendingMap, op, ans, tbVars, auditVars, destroyVars>>

(* A refusal before the hold: the breaker, an unknown model, a policy rule,*)
(* PII, an injection, the budget rules, an envelope that cannot be read. A *)
(* governance denial is appended after the lock is released.               *)
Denied(c) ==
  /\ pc[c] = "gate" /\ lock = "free"
  /\ Appended(c, "denied", FALSE)
  /\ Answer(c, "refused")
  /\ inFlightCount' = inFlightCount - 1
  /\ To(c, "over")
  /\ UNCHANGED <<engine, kind, est, cost, finalizeState, holdActive, settled,
                 streamVars, lock, inFlightStreamCount, counted, moneyVars,
                 pendingMap, op, ans, tbVars, destroyVars>>

(* The budget section: the gate lets the call through and, with an engine, *)
(* the hold is requested with the mutex still taken.                       *)
Gate(c) ==
  /\ pc[c] = "gate" /\ lock = "free"
  /\ gateRemaining(c) - est[c] >= 0
  /\ IF engine
     THEN /\ Request(c, "hold", TRUE)
          /\ lock' = c
          /\ To(c, "hold")
          /\ UNCHANGED <<holdActive, inFlightHoldTotal>>
     ELSE /\ inFlightHoldTotal' = inFlightHoldTotal + sessionShare(c, est[c])
          /\ holdActive' = [holdActive EXCEPT ![c] = TRUE]
          /\ To(c, "provider")
          /\ UNCHANGED <<lock, op, ans>>
  /\ UNCHANGED <<engine, kind, est, cost, finalizeState, settled, receipt, streamVars,
                 countVars, budgetSpent, pendingMap, tbVars, auditVars,
                 destroyVars>>

HoldPlaced(c) ==
  /\ pc[c] = "hold" /\ ans[c] = "ok"
  /\ EndRequest(c)
  /\ pendingMap' = pendingMap \cup {c}
  /\ inFlightHoldTotal' = inFlightHoldTotal + sessionShare(c, est[c])
  /\ holdActive' = [holdActive EXCEPT ![c] = TRUE]
  /\ lock' = "free"
  /\ To(c, "provider")
  /\ UNCHANGED <<engine, kind, est, cost, finalizeState, settled, receipt, streamVars,
                 countVars, budgetSpent, tbVars, auditVars, destroyVars>>

(* InsufficientBalanceError is a denial, any other failure an outage; the  *)
(* hold may stand in the ledger, where only its timeout ends it.           *)
HoldRefused(c) ==
  /\ pc[c] = "hold" /\ ans[c] \in {"no", "err"}
  /\ IF ans[c] = "no" THEN Appended(c, "denied", FALSE) ELSE UNCHANGED auditVars
  /\ EndRequest(c)
  /\ Answer(c, "refused")
  /\ inFlightCount' = inFlightCount - 1
  /\ lock' = "free"
  /\ To(c, "over")
  /\ UNCHANGED <<engine, kind, est, cost, finalizeState, holdActive, settled,
                 streamVars, inFlightStreamCount, counted, moneyVars, pendingMap,
                 tbVars, destroyVars>>

-----------------------------------------------------------------------------
(* The provider, and the terminals of a stream.                            *)

ProviderFails(c) ==
  /\ pc[c] = "provider"
  /\ To(c, "release")
  /\ UNCHANGED <<engine, kind, est, cost, finalizeState, holdActive, settled, receipt,
                 streamVars, lock, countVars, moneyVars, pendingMap, op, ans,
                 tbVars, auditVars, destroyVars>>

ProviderReplies(c) ==
  /\ pc[c] = "provider" /\ ~IsStream(c)
  /\ \E x \in Costs : cost' = [cost EXCEPT ![c] = x]
  /\ To(c, "record")
  /\ UNCHANGED <<engine, kind, est, finalizeState, holdActive, settled, receipt,
                 streamVars, lock, countVars, moneyVars, pendingMap, op, ans,
                 tbVars, auditVars, destroyVars>>

(* The stream is handed to the caller: the call is over, the stream counts.*)
StreamReturned(c) ==
  /\ pc[c] = "provider" /\ IsStream(c)
  /\ inFlightCount' = inFlightCount - 1
  /\ inFlightStreamCount' = inFlightStreamCount + 1
  /\ counted' = [counted EXCEPT ![c] = kind[c] = "helper"]
  /\ gen' = [gen EXCEPT ![c] = IF kind[c] = "helper" THEN "body" ELSE "start"]
  /\ To(c, "live")
  /\ UNCHANGED <<engine, kind, est, cost, finalizeState, holdActive, settled, receipt,
                 signals, late, lock, moneyVars, pendingMap, op, ans, tbVars,
                 auditVars, destroyVars>>

MutantClaimSettle(c) ==
  /\ finalizeState[c] # "settled"
  /\ finalizeState' = [finalizeState EXCEPT ![c] = "settled"]
  /\ \E x \in Costs : cost' = [cost EXCEPT ![c] = x]
  /\ To(c, "commit")
  /\ UNCHANGED receipt

(* finalizeOnce(): the first terminal claims the one outcome of the hold.  *)
ClaimSettle(c) ==
  /\ finalizeState[c] = "pending"
  /\ finalizeState' = [finalizeState EXCEPT ![c] = "settled"]
  /\ \E x \in Costs : cost' = [cost EXCEPT ![c] = x]
  /\ To(c, "commit")
  /\ UNCHANGED receipt

(* .receipt rejects in the same tick as the claim. *)
ClaimVoid(c) ==
  /\ finalizeState[c] = "pending"
  /\ finalizeState' = [finalizeState EXCEPT ![c] = "voided"]
  /\ To(c, "release")
  /\ Answer(c, "rejected")
  /\ UNCHANGED cost

(* The count of live streams drops when a terminal's promise settles:      *)
(* once per terminal of an iterated stream, at most once for a helper.     *)
StreamDone(c) ==
  /\ inFlightStreamCount' =
       IF kind[c] = "iter" \/ counted[c] THEN inFlightStreamCount - 1
                                         ELSE inFlightStreamCount
  /\ counted' = [counted EXCEPT ![c] = FALSE]

(* The caller's first next() starts the generator's body. *)
IterNext(c) ==
  /\ pc[c] = "live" /\ kind[c] = "iter" /\ gen[c] = "start"
  /\ gen' = [gen EXCEPT ![c] = "body"]
  /\ UNCHANGED <<engine, kind, pc, est, cost, finalizeState, holdActive, settled,
                 receipt, signals, late, lock, countVars, moneyVars, pendingMap,
                 op, ans, tbVars, auditVars, destroyVars>>

MutantIterUnstarted(c) ==
  /\ pc[c] = "live" /\ kind[c] = "iter" /\ gen[c] = "start"
  /\ gen' = [gen EXCEPT ![c] = "done"]
  /\ UNCHANGED <<engine, kind, pc, est, cost, finalizeState, holdActive, settled,
                 receipt, signals, late, lock, countVars, moneyVars, pendingMap,
                 op, ans, tbVars, auditVars, destroyVars>>

(* endsBeforeStart(): return() or throw() on a generator not yet started   *)
(* never runs its body; the source is closed first.                        *)
IterUnstarted(c) ==
  /\ pc[c] = "live" /\ kind[c] = "iter" /\ gen[c] = "start"
  /\ gen' = [gen EXCEPT ![c] = "done"]
  /\ \/ To(c, "returning")
     \/ To(c, "throwing")
  /\ UNCHANGED <<engine, kind, est, cost, finalizeState, holdActive, settled, receipt,
                 signals, late, lock, countVars, moneyVars, pendingMap, op, ans,
                 tbVars, auditVars, destroyVars>>

(* The terminal of an iterated stream: its end, a break and the caller's   *)
(* own abort settle; any other throw, the anomaly hook's included, voids.  *)
IterTerminal(c) ==
  /\ kind[c] = "iter"
  /\ \/ pc[c] = "live" /\ gen[c] = "body" /\ (ClaimSettle(c) \/ ClaimVoid(c))
     \/ pc[c] = "returning" /\ ClaimSettle(c)
     \/ pc[c] = "throwing" /\ ClaimVoid(c)
  /\ gen' = [gen EXCEPT ![c] = "done"]
  /\ UNCHANGED <<engine, kind, est, holdActive, settled, signals, late, lock, countVars,
                 moneyVars, pendingMap, op, ans, tbVars, auditVars, destroyVars>>

(* An event of a MessageStream the caller holds. external: the SDK emits   *)
(* one of finalMessage, error and abort, or none, and end last; LateSignals*)
(* adds an error or an abort after the first.                              *)
Emits(c, s) ==
  /\ kind[c] = "helper" /\ gen[c] = "body"
  /\ s \notin signals[c]
  /\ s = "finalMessage" => signals[c] = {}
  /\ s \in {"error", "abort"} /\ ~LateSignals => signals[c] = {}
  /\ signals' = [signals EXCEPT ![c] = @ \cup {s}]
  /\ gen' = [gen EXCEPT ![c] = IF s = "end" THEN "done" ELSE @]

(* settleViaMessageStream()'s listeners: finalMessage, a caller's abort and*)
(* an end with no other terminal settle; an error and an abort after an    *)
(* anomaly void.                                                           *)
HelperTerminal(c) ==
  /\ \E s \in {"finalMessage", "error", "abort", "end"} :
       /\ Emits(c, s)
       /\ \/ s # "error" /\ ClaimSettle(c)
          \/ s \in {"error", "abort"} /\ ClaimVoid(c)
  /\ UNCHANGED <<engine, kind, est, holdActive, settled, late, lock, countVars,
                 moneyVars, pendingMap, op, ans, tbVars, auditVars, destroyVars>>

(* A signal after the claim changes no outcome. One that goes through      *)
(* voidVia() still ends in releaseStreamCount(): the stream stops counting *)
(* though the winning terminal may be under way.                           *)
HelperLate(c) ==
  /\ finalizeState[c] # "pending"
  /\ \E s \in {"error", "abort", "end"} :
       /\ Emits(c, s)
       /\ \/ s # "error" /\ UNCHANGED <<countVars, late>>
          \/ s # "end" /\ StreamDone(c) /\ UNCHANGED inFlightCount
             /\ late' = [late EXCEPT ![c] = TRUE]
  /\ UNCHANGED <<engine, kind, pc, est, cost, finalizeState, holdActive, settled, receipt,
                 lock, moneyVars, pendingMap, op, ans, tbVars, auditVars,
                 destroyVars>>

-----------------------------------------------------------------------------
(* Settling. A request and response records llm_call first and claims      *)
(* after it; a stream claims first and records last.                       *)

Record(c) ==
  /\ pc[c] = "record"
  /\ Appended(c, "llm_call", TRUE)
  /\ CASE IsStream(c) -> To(c, "check") /\ UNCHANGED finalizeState
       [] ~IsStream(c) /\ FailClosed /\ AppendFailed(c) ->
            To(c, "release") /\ UNCHANGED finalizeState
       [] OTHER ->
            /\ finalizeState' = [finalizeState EXCEPT ![c] = "settled"]
            /\ To(c, "commit")
  /\ UNCHANGED <<engine, kind, est, cost, holdActive, settled, receipt, streamVars, lock,
                 countVars, moneyVars, pendingMap, op, ans, tbVars, destroyVars>>

AfterPost(c) == IF IsStream(c) THEN "record" ELSE "check"

(* The hold becomes spend under the budget mutex, then is persisted.       *)
Commit(c) ==
  /\ pc[c] = "commit" /\ lock = "free"
  /\ inFlightHoldTotal' =
       inFlightHoldTotal - (IF holdActive[c] THEN sessionShare(c, est[c]) ELSE 0)
  /\ budgetSpent' = budgetSpent + sessionShare(c, cost[c])
  /\ holdActive' = [holdActive EXCEPT ![c] = FALSE]
  /\ To(c, IF engine THEN "post" ELSE AfterPost(c))
  /\ UNCHANGED <<engine, kind, est, cost, finalizeState, settled, receipt, streamVars,
                 lock, countVars, pendingMap, op, ans, tbVars, auditVars,
                 destroyVars>>

(* postPendingSpend(): the entry leaves the map only when the POST answers.*)
Post(c) ==
  /\ pc[c] = "post"
  /\ Request(c, "post", c \in pendingMap)
  /\ To(c, "posting")
  /\ UNCHANGED <<engine, kind, est, cost, finalizeState, holdActive, settled, receipt,
                 streamVars, lock, countVars, moneyVars, pendingMap, tbVars,
                 auditVars, destroyVars>>

MutantPosted(c) ==
  /\ pc[c] = "posting" /\ ans[c] \in {"ok", "err"}
  /\ pendingMap' = pendingMap \ {c}
  /\ UNCHANGED <<settled, auditVars>>
  /\ EndRequest(c)
  /\ To(c, AfterPost(c))
  /\ UNCHANGED <<engine, kind, est, cost, finalizeState, holdActive, receipt, streamVars,
                 lock, countVars, moneyVars, tbVars, destroyVars>>

(* A POST that fails is ambiguous: the charge stands, and the record says  *)
(* so. It is never retried and never voided.                               *)
Posted(c) ==
  /\ pc[c] = "posting" /\ ans[c] \in {"ok", "err"}
  /\ IF ans[c] = "ok"
     THEN pendingMap' = pendingMap \ {c} /\ UNCHANGED <<settled, auditVars>>
     ELSE /\ settled' = [settled EXCEPT ![c] = FALSE]
          /\ Appended(c, "settlement_ambiguous", TRUE)
          /\ UNCHANGED pendingMap
  /\ EndRequest(c)
  /\ To(c, AfterPost(c))
  /\ UNCHANGED <<engine, kind, est, cost, finalizeState, holdActive, receipt, streamVars,
                 lock, countVars, moneyVars, tbVars, destroyVars>>

(* The records that follow, the fail-closed refusal, and the receipt.      *)
Check(c) ==
  /\ pc[c] = "check"
  /\ IF engine /\ settled[c] /\ cost[c] > est[c]
     THEN Appended(c, "settlement_shortfall", TRUE) ELSE UNCHANGED auditVars
  /\ IF FailClosed /\ (callAuditDegraded'[c] \/ auditDegraded')
     THEN /\ Answer(c, "refused")
          /\ To(c, IF IsStream(c) THEN "over" ELSE "failed")
     ELSE /\ Answer(c, IF settled[c] THEN "settled" ELSE "unsettled")
          /\ To(c, "over")
  /\ IF IsStream(c) THEN StreamDone(c) /\ UNCHANGED inFlightCount
     ELSE /\ inFlightCount' = inFlightCount - (IF pc'[c] = "over" THEN 1 ELSE 0)
          /\ UNCHANGED <<inFlightStreamCount, counted>>
  /\ UNCHANGED <<engine, kind, est, cost, finalizeState, holdActive, settled, streamVars,
                 lock, moneyVars, pendingMap, op, ans, tbVars, destroyVars>>

-----------------------------------------------------------------------------
(* Voiding. *)

(* releaseInFlightHold(), guarded so that no second path gives the share   *)
(* back again.                                                             *)
ReleaseHold(c) ==
  /\ inFlightHoldTotal' =
       inFlightHoldTotal - (IF holdActive[c] THEN sessionShare(c, est[c]) ELSE 0)
  /\ holdActive' = [holdActive EXCEPT ![c] = FALSE]

(* The catch of interceptCall(): nothing has claimed yet; the void is      *)
(* awaited.                                                                *)
VoidCall(c) ==
  /\ pc[c] = "release" /\ finalizeState[c] = "pending" /\ lock = "free"
  /\ ReleaseHold(c)
  /\ finalizeState' = [finalizeState EXCEPT ![c] = "voided"]
  /\ IF engine THEN Request(c, "void", c \in pendingMap) /\ To(c, "voiding")
               ELSE To(c, "failed") /\ UNCHANGED <<op, ans>>
  /\ UNCHANGED <<engine, kind, est, cost, settled, receipt, streamVars, lock, countVars,
                 budgetSpent, pendingMap, tbVars, auditVars, destroyVars>>

(* finalizeStreamVoid(): the record and the void are not awaited. *)
VoidStream(c) ==
  /\ pc[c] = "release" /\ finalizeState[c] = "voided" /\ lock = "free"
  /\ ReleaseHold(c)
  /\ Appended(c, "stream_partial_delivery", FALSE)
  /\ IF engine THEN Request(c, "void", c \in pendingMap) ELSE UNCHANGED <<op, ans>>
  /\ StreamDone(c)
  /\ To(c, "over")
  /\ UNCHANGED <<engine, kind, est, cost, finalizeState, settled, receipt, streamVars,
                 lock, inFlightCount, budgetSpent, pendingMap, tbVars,
                 destroyVars>>

Voided(c) ==
  /\ op[c] = "void" /\ ans[c] \in {"ok", "err"}
  /\ pendingMap' = IF ans[c] = "ok" THEN pendingMap \ {c} ELSE pendingMap
  /\ EndRequest(c)
  /\ To(c, IF pc[c] = "voiding" THEN "failed" ELSE pc[c])
  /\ UNCHANGED <<engine, kind, est, cost, finalizeState, holdActive, settled, receipt,
                 streamVars, lock, countVars, moneyVars, tbVars, auditVars,
                 destroyVars>>

Failed(c) ==
  /\ pc[c] = "failed"
  /\ Appended(c, "llm_call_failed", TRUE)
  /\ Answer(c, "refused")
  /\ inFlightCount' = inFlightCount - 1
  /\ To(c, "over")
  /\ UNCHANGED <<engine, kind, est, cost, finalizeState, holdActive, settled, streamVars,
                 lock, inFlightStreamCount, counted, moneyVars, pendingMap, op,
                 ans, tbVars, destroyVars>>

-----------------------------------------------------------------------------
(* TigerBeetle, as the engine uses it.                                     *)

(* What a request does to the transfer, where the ledger accepts it. *)
Applies(c) ==
  CASE op[c] = "hold" -> /\ Available(c) >= est[c]
                         /\ tb' = [tb EXCEPT ![c] = "pending"]
                         /\ UNCHANGED posted
    [] op[c] = "post" -> /\ tb[c] = "pending"
                         /\ tb' = [tb EXCEPT ![c] = "posted"]
                         /\ posted' = [posted EXCEPT ![c] = Min({cost[c], est[c]})]
    [] op[c] = "void" -> /\ tb[c] \in {"pending", "expired"}
                         /\ tb' = [tb EXCEPT ![c] = "voided"]
                         /\ UNCHANGED posted

LedgerAnswers(c) ==
  /\ ans[c] = "wait"
  /\ \/ Applies(c) /\ ans' = [ans EXCEPT ![c] = "ok"]
     \/ /\ \/ op[c] = "hold" /\ Available(c) < est[c]
           \/ op[c] = "post" /\ tb[c] # "pending"
           \/ op[c] = "void" /\ tb[c] \notin {"pending", "expired"}
        /\ ans' = [ans EXCEPT ![c] = IF op[c] = "hold" THEN "no" ELSE "err"]
        /\ UNCHANGED tbVars
  /\ UNCHANGED <<engine, kind, pc, est, cost, finalizeState, holdActive, settled,
                 receipt, streamVars, lock, countVars, moneyVars, pendingMap, op,
                 auditVars, destroyVars>>

(* A request fails with its effect in doubt: an outage, or the client      *)
(* closed while the request was out.                                       *)
LedgerFails(c) ==
  /\ ans[c] = "wait" /\ (c \in LedgerFaults \/ Closed)
  /\ Applies(c) \/ UNCHANGED tbVars
  /\ ans' = [ans EXCEPT ![c] = "err"]
  /\ faulty' = TRUE
  /\ UNCHANGED <<engine, kind, pc, est, cost, finalizeState, holdActive, settled,
                 receipt, streamVars, lock, countVars, moneyVars, pendingMap, op,
                 auditVars, dpc, entries, missed>>

HoldExpires(c) ==
  /\ c \in HoldsExpire /\ tb[c] = "pending"
  /\ tb' = [tb EXCEPT ![c] = "expired"]
  /\ UNCHANGED <<engine, kind, pc, est, cost, finalizeState, holdActive, settled,
                 receipt, streamVars, lock, countVars, moneyVars, pendingMap, op,
                 ans, posted, auditVars, destroyVars>>

-----------------------------------------------------------------------------
(* destroy(): drain, void what is left, close the ledger client.           *)
callVars == <<engine, kind, pc, est, cost, finalizeState, holdActive, settled, receipt,
              streamVars, lock, countVars, moneyVars, op, ans, posted, auditVars>>

DestroyStarts ==
  /\ dpc = "up" /\ dpc' = "drain"
  /\ UNCHANGED <<callVars, pendingMap, tb, entries, missed, faulty>>

(* The wait ends when nothing is in flight, or at its deadline. *)
DrainEnds ==
  /\ dpc = "drain"
  /\ \/ inFlightCount <= 0 /\ inFlightStreamCount <= 0 /\ UNCHANGED missed
     \/ DeadlineCanPass /\ missed' = TRUE
  /\ dpc' = "sweep"
  /\ entries' = pendingMap
  /\ UNCHANGED <<callVars, pendingMap, tb, faulty>>

MutantSweep(c) ==
  /\ dpc = "sweep" /\ c \in entries
  /\ entries' = entries \ {c}
  /\ pendingMap' = pendingMap \ {c}
  /\ UNCHANGED <<callVars, tb, dpc, missed, faulty>>

(* voidAllPending(): one entry after another, failures ignored. *)
Sweep(c) ==
  /\ dpc = "sweep" /\ c \in entries
  /\ \/ /\ tb' = [tb EXCEPT ![c] = IF @ \in {"pending", "expired"} THEN "voided" ELSE @]
        /\ UNCHANGED faulty
     \/ c \in LedgerFaults /\ faulty' = TRUE /\ UNCHANGED tb
  /\ entries' = entries \ {c}
  /\ pendingMap' = pendingMap \ {c}
  /\ UNCHANGED <<callVars, dpc, missed>>

(* The flush of the audit writer and the release of its lock change no     *)
(* state of this module; then the client is closed.                        *)
Close ==
  /\ dpc = "sweep" /\ entries = {}
  /\ dpc' = "closed"
  /\ UNCHANGED <<callVars, pendingMap, tb, entries, missed, faulty>>

-----------------------------------------------------------------------------
(* What the governor, its promises and the ledger do on their own. *)
Proceeds(c) ==
  \/ Gate(c) \/ Denied(c) \/ HoldPlaced(c) \/ HoldRefused(c)
  \/ Record(c) \/ Commit(c) \/ Post(c) \/ Posted(c) \/ Check(c)
  \/ VoidCall(c) \/ VoidStream(c) \/ Voided(c) \/ Failed(c)
  \/ LedgerAnswers(c)
  \/ pc[c] \in {"returning", "throwing"} /\ IterTerminal(c)

DestroyStep == DrainEnds \/ Close \/ \E c \in Calls : Sweep(c)

Next ==
  \/ \E c \in Calls :
       \/ AdmitGoogleCall(c) \/ Enter(c) \/ RefusedAtEntry(c)
       \/ Gate(c) \/ Denied(c) \/ HoldPlaced(c) \/ HoldRefused(c)
       \/ ProviderFails(c) \/ ProviderReplies(c) \/ StreamReturned(c)
       \/ IterNext(c) \/ IterUnstarted(c) \/ IterTerminal(c)
       \/ HelperTerminal(c) \/ HelperLate(c)
       \/ Record(c) \/ Commit(c) \/ Post(c) \/ Posted(c) \/ Check(c)
       \/ VoidCall(c) \/ VoidStream(c) \/ Voided(c) \/ Failed(c)
       \/ LedgerAnswers(c) \/ LedgerFails(c) \/ HoldExpires(c)
       \/ Sweep(c)
  \/ DestroyStarts \/ DrainEnds \/ Close

Spec == Init /\ [][Next]_vars

(* Promises run on, and the ledger answers. Nothing is assumed of the      *)
(* provider, of the consumer of a stream or of who calls destroy().        *)
FairSpec ==
  /\ Spec
  /\ WF_vars(DestroyStep \/ \E c \in Calls : Proceeds(c))

-----------------------------------------------------------------------------
(* The variables have their types. *)
TypeOK ==
  /\ engine \in BOOLEAN
  /\ kind \in [Calls -> {"none", "plain", "google", "iter", "helper"}]
  /\ pc \in [Calls -> {"idle", "admitted", "gate", "hold", "provider", "live",
                       "returning", "throwing", "record", "commit", "post",
                       "posting", "check", "release", "voiding", "failed", "over"}]
  /\ est \in [Calls -> Nat] /\ cost \in [Calls -> Nat]
  /\ finalizeState \in [Calls -> {"pending", "settled", "voided"}]
  /\ holdActive \in [Calls -> BOOLEAN] /\ settled \in [Calls -> BOOLEAN]
  /\ receipt \in [Calls -> {"none", "refused", "rejected", "settled", "unsettled"}]
  /\ gen \in [Calls -> {"start", "body", "done"}]
  /\ signals \in [Calls -> SUBSET {"finalMessage", "error", "abort", "end"}]
  /\ late \in [Calls -> BOOLEAN] /\ counted \in [Calls -> BOOLEAN]
  /\ lock \in Calls \cup {"free"}
  /\ {inFlightCount, inFlightStreamCount, inFlightHoldTotal, budgetSpent} \subseteq Int
  /\ pendingMap \subseteq Calls /\ entries \subseteq Calls
  /\ op \in [Calls -> {"none", "hold", "post", "void"}]
  /\ ans \in [Calls -> {"none", "wait", "ok", "no", "err"}]
  /\ tb \in [Calls -> {"none", "pending", "posted", "voided", "expired"}]
  /\ posted \in [Calls -> Nat]
  /\ rec \in [Calls -> SUBSET RecordKinds]
  /\ callAuditDegraded \in [Calls -> BOOLEAN] /\ auditDegraded \in BOOLEAN
  /\ dpc \in {"up", "drain", "sweep", "closed"}
  /\ missed \in BOOLEAN /\ faulty \in BOOLEAN

(* A hold that was voided, or whose stream's .receipt rejected, is never   *)
(* charged: no later terminal of the stream posts it (finalizeOnce).       *)
VoidedNeverCharged ==
  \A c \in Calls : finalizeState[c] = "voided" \/ receipt[c] = "rejected" =>
    tb[c] # "posted" /\ receipt[c] \notin {"settled", "unsettled"}

(* A call that charged the session and did not charge the ledger says so   *)
(* in the chain, unless the chain itself could not be written.             *)
ChargeExplained ==
  \A c \in Calls :
    engine /\ pc[c] = "over" /\ finalizeState[c] = "settled" /\ tb[c] # "posted" =>
      "settlement_ambiguous" \in rec[c] \/ auditDegraded

(* Once the client is closed nothing is left pending in the ledger, voids  *)
(* still in flight included, unless the drain gave up or the ledger failed *)
(* a request: whoever could still place a hold was waited for, and the     *)
(* sweep took the rest.                                                    *)
NothingLeftPending ==
  Closed /\ ~missed /\ ~faulty => \A c \in Calls : tb[c] # "pending"

(* A stream that ended, was broken out of or was closed before its first   *)
(* chunk resolves or rejects .receipt (wrapStream, endsBeforeStart).       *)
StreamsAnswer == \A c \in Calls : gen[c] = "done" ~> receipt[c] # "none"
=============================================================================
