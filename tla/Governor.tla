------------------------------- MODULE Governor -------------------------------
(***************************************************************************)
(* The headless governor (packages/core/src/headless.ts): authorize,       *)
(* settle, abort, release and destroy over one in-memory state, one        *)
(* TigerBeetle engine and one audit writer.                                *)
(*                                                                         *)
(* JavaScript runs a handler without interruption up to its next await, so *)
(* an action is one such stretch of one handler. A process is a call in    *)
(* flight: <<h, "auth">> is the authorize() that creates hold h, <<h, k>>  *)
(* with k in Callers one settle(), abort() or release() on it, and         *)
(* <<h, "sweep">> what destroy() does about h.                             *)
(*                                                                         *)
(* Definitions named Mutant... are the mutated forms PROJECT.json lists;   *)
(* no specification uses them.                                             *)
(***************************************************************************)
EXTENDS Integers, Sequences, FiniteSetsExt, BreakerOps

CONSTANTS
  Holds,            \* transfer ids
  Callers,          \* terminal calls that may be made on one hold
  Attributed,       \* the holds authorized inside withCostCenter()
  Ledger,           \* FALSE: dry run, no engine
  Budget,           \* config.budget
  StartSpent,       \* what loadSpendLedger() restored
  EnvelopeFunds,    \* balance of the cost-center envelope's account
  EstCosts,         \* estimates authorize() may compute
  Costs,            \* actual costs settle() may compute
  DeadlineCanPass,  \* destroy()'s drain may run into destroyDrainMs
  AppendFaults,     \* an audit append may fail and leave no record
  PersistFaults     \* a write of the spend ledger may fail

ASSUME GovernorAssumption ==
  /\ {"auth", "sweep"} \cap Callers = {}
  /\ Attributed \subseteq Holds
  /\ Budget \in Nat /\ StartSpent \in Nat /\ EnvelopeFunds \in Nat
  /\ EstCosts \subseteq Nat /\ Costs \subseteq Nat
  /\ {Ledger, DeadlineCanPass, AppendFaults, PersistFaults} \subseteq BOOLEAN

VARIABLES
  pc,                 \* where each process stands, named for what it awaits
  op, result,         \* of a terminal call: what it is, and its answer
  est, charge,        \* auth.estimatedCost; settle()'s actualCost
  destroyed, sweeping, \* the two flags
  td, snap,           \* how far tearDown() got; voidAllPending()'s entries
  lockQ,              \* budgetMutex: its holder, then the waiters in order
  inFlightHoldTotal, budgetSpent,
  lastPersistedSpent, diskSpent,    \* diskSpent: what the spend ledger file says
  activeAuths, unpostedHolds, settling, inFlight,
  entries,            \* the engine's pendingMap
  tb, posted,         \* the pending transfer in TigerBeetle; the amount posted
  net,                \* a process's ledger request
  rec,                \* the audit records that name the hold, in order
  cb                  \* the "headless" circuit breaker

Calls == Holds \X Callers
Procs == Holds \X (Callers \cup {"auth", "sweep"})
A(h) == <<h, "auth">>
S(h) == <<h, "sweep">>

callVars   == <<op, result>>
moneyVars  == <<inFlightHoldTotal, budgetSpent>>
diskVars   == <<lastPersistedSpent, diskSpent>>
holdVars   == <<activeAuths, unpostedHolds, settling, inFlight>>
ledgerVars == <<tb, posted>>
tdVars     == <<destroyed, sweeping, td, snap>>
vars == <<pc, callVars, est, charge, tdVars, lockQ, moneyVars, diskVars,
          holdVars, entries, ledgerVars, net, rec, cb>>

Kinds == {"policy_denied", "ledger_rejected", "settlement_ambiguous", "llm_call",
          "llm_call_unsettled", "settlement_shortfall", "llm_call_failed",
          "hold_released"}

(* The records that end a hold. llm_call_unsettled is kind llm_call with   *)
(* data.settled = false.                                                   *)
Terminal == {"llm_call", "llm_call_unsettled", "llm_call_failed", "hold_released"}

Init ==
  /\ pc = [p \in Procs |-> "idle"]
  /\ op = [c \in Calls |-> "none"]
  /\ result = [c \in Calls |-> "none"]
  /\ est = [h \in Holds |-> 0]
  /\ charge = [h \in Holds |-> 0]
  /\ destroyed = FALSE /\ sweeping = FALSE
  /\ td = "up" /\ snap = {}
  /\ lockQ = <<>>
  /\ inFlightHoldTotal = 0
  /\ budgetSpent = StartSpent
  /\ lastPersistedSpent = StartSpent /\ diskSpent = StartSpent
  /\ activeAuths = {} /\ unpostedHolds = {} /\ settling = {} /\ inFlight = {}
  /\ entries = {}
  /\ tb = [h \in Holds |-> "none"]
  /\ posted = [h \in Holds |-> 0]
  /\ net = [p \in Procs |-> "none"]
  /\ rec = [h \in Holds |-> <<>>]
  /\ cb = NewBreaker

-----------------------------------------------------------------------------
(* AuthorizationCapture.sessionAccounted = !envelopeDebited: the hold is   *)
(* counted in the session's own budget, not in a cost-center envelope.     *)
SessionAccounted(h) == ~(Ledger /\ h \in Attributed)

(* AsyncMutex: first come, first served. *)
HoldsLock(p) == lockQ # <<>> /\ Head(lockQ) = p

(* audit.appendEvent(): the record lands, or the append rejects. *)
RecordAppended(h, kind) ==
  \/ rec' = [rec EXCEPT ![h] = Append(@, kind)]
  \/ AppendFaults /\ UNCHANGED rec

(* A ledger request leaves only through an open client (assertOpen()) and  *)
(* only for an engine entry the request can name; otherwise it fails.      *)
Sent(p, entryKnown) ==
  net' = [net EXCEPT ![p] = IF entryKnown /\ td # "closed" THEN "sent" ELSE "none"]

MutantAnswered(p) == net[p] \in {"applied", "refused"} /\ td # "closed"

(* A good answer reaches the caller only while the client is open. Any     *)
(* request may also fail: refused, its reply lost, or the client closed.   *)
Answered(p) == net[p] = "applied" /\ td # "closed"

Debit(h) == CASE tb[h] = "pending" -> est[h]
              [] tb[h] = "posted"  -> posted[h]
              [] OTHER             -> 0

(* accountBalance(): credits less posted and pending debits. *)
SessionFunds == IF Budget > StartSpent THEN Budget - StartSpent ELSE 0
Available(h) ==
  IF h \in Attributed
  THEN EnvelopeFunds - MapThenSumSet(Debit, Attributed)
  ELSE SessionFunds - MapThenSumSet(Debit, Holds \ Attributed)

-----------------------------------------------------------------------------
(* TigerBeetle: one request of one process is decided, whether or not its  *)
(* sender still waits for the answer.                                      *)
LedgerReserve(h) ==
  /\ net[A(h)] = "sent"
  /\ IF est[h] <= Available(h)
     THEN /\ tb' = [tb EXCEPT ![h] = "pending"]
          /\ net' = [net EXCEPT ![A(h)] = "applied"]
     ELSE /\ net' = [net EXCEPT ![A(h)] = "refused"]
          /\ UNCHANGED tb
  /\ UNCHANGED <<pc, callVars, est, charge, tdVars, lockQ, moneyVars, diskVars,
                 holdVars, entries, posted, rec, cb>>

(* post_pending_transfer of min(actualAmount, heldAmount). *)
LedgerPost(c) ==
  LET h == c[1] IN
  /\ op[c] = "settle" /\ net[c] = "sent"
  /\ IF tb[h] = "pending"
     THEN /\ tb' = [tb EXCEPT ![h] = "posted"]
          /\ posted' = [posted EXCEPT ![h] = IF charge[h] < est[h] THEN charge[h] ELSE est[h]]
          /\ net' = [net EXCEPT ![c] = "applied"]
     ELSE /\ net' = [net EXCEPT ![c] = "refused"]
          /\ UNCHANGED ledgerVars
  /\ UNCHANGED <<pc, callVars, est, charge, tdVars, lockQ, moneyVars, diskVars,
                 holdVars, entries, rec, cb>>

(* void_pending_transfer. voidPendingSpend() takes pending_transfer_expired *)
(* for success.                                                            *)
LedgerVoid(p) ==
  LET h == p[1] IN
  /\ net[p] = "sent"
  /\ p = S(h) \/ (p \in Calls /\ op[p] \in {"abort", "release"})
  /\ tb' = IF tb[h] = "pending" THEN [tb EXCEPT ![h] = "voided"] ELSE tb
  /\ net' = [net EXCEPT ![p] = IF tb[h] \in {"pending", "expired"} THEN "applied" ELSE "refused"]
  /\ UNCHANGED <<pc, callVars, est, charge, tdVars, lockQ, moneyVars, diskVars,
                 holdVars, entries, posted, rec, cb>>

(* The pending transfer's own timeout (LEDGER_HOLD_TIMEOUT_MS and up). *)
LedgerExpire(h) ==
  /\ tb[h] = "pending"
  /\ tb' = [tb EXCEPT ![h] = "expired"]
  /\ UNCHANGED <<pc, callVars, est, charge, tdVars, lockQ, moneyVars, diskVars,
                 holdVars, entries, posted, net, rec, cb>>

-----------------------------------------------------------------------------
(* authorize(), up to its wait for the budget lock: the destroyed check,   *)
(* the circuit breaker, the unknown-model denial, the estimate.            *)
AuthorizeCall(h) ==
  /\ pc[A(h)] = "idle"
  /\ \/ /\ destroyed
        /\ pc' = [pc EXCEPT ![A(h)] = "refused"]
        /\ UNCHANGED <<cb, est, lockQ, rec>>
     \/ /\ ~destroyed
        /\ \E timedOut \in BOOLEAN : cb' = GetState(cb, timedOut)
        /\ \/ /\ cb'.state = "open"
              /\ pc' = [pc EXCEPT ![A(h)] = "refused"]
              /\ UNCHANGED <<est, lockQ, rec>>
           \/ /\ cb'.state # "open"
              /\ pc' = [pc EXCEPT ![A(h)] = "refused"]
              /\ RecordAppended(h, "policy_denied")
              /\ UNCHANGED <<est, lockQ>>
           \/ /\ cb'.state # "open"
              /\ \E e \in EstCosts : est' = [est EXCEPT ![h] = e]
              /\ pc' = [pc EXCEPT ![A(h)] = "queued"]
              /\ lockQ' = Append(lockQ, A(h))
              /\ UNCHANGED rec
  /\ UNCHANGED <<callVars, charge, tdVars, moneyVars, diskVars, holdVars, entries,
                 ledgerVars, net>>

MutantHoldAlwaysCounted(h) == inFlightHoldTotal' = inFlightHoldTotal + est[h]

(* A granted hold of the session's own budget joins inFlightHoldTotal. *)
HoldCounted(h) ==
  inFlightHoldTotal' = IF SessionAccounted(h) THEN inFlightHoldTotal + est[h]
                                              ELSE inFlightHoldTotal

(* The end of a granted authorize(): the session's hold total, the lock's  *)
(* release, the second destroyed check and the registration, with no await *)
(* between them. A destroyed governor gives the session's share back under *)
(* the lock, voids nothing and records nothing.                            *)
Granted(h) ==
  /\ HoldCounted(h)
  /\ \/ /\ ~destroyed
        /\ activeAuths' = activeAuths \cup {h}
        /\ pc' = [pc EXCEPT ![A(h)] = "granted"]
        /\ lockQ' = Tail(lockQ)
     \/ /\ destroyed /\ SessionAccounted(h)
        /\ pc' = [pc EXCEPT ![A(h)] = "undo"]
        /\ lockQ' = Append(Tail(lockQ), A(h))
        /\ UNCHANGED activeAuths
     \/ /\ destroyed /\ ~SessionAccounted(h)
        /\ pc' = [pc EXCEPT ![A(h)] = "refused"]
        /\ lockQ' = Tail(lockQ)
        /\ UNCHANGED activeAuths
  /\ UNCHANGED <<budgetSpent, unpostedHolds, settling, inFlight>>

MutantFits(h, remaining) == remaining > 0

(* What the default rules leave through: block-budget-overshoot and        *)
(* block-budget-exhausted.                                                 *)
Fits(h, remaining) == remaining > 0 /\ remaining - est[h] >= 0

(* The policy gate on what remains, then the reserve. Any other rule, or   *)
(* the PII check, may deny what fits.                                      *)
Gate(h, remaining) ==
  \/ /\ pc' = [pc EXCEPT ![A(h)] = "refused"]
     /\ lockQ' = Tail(lockQ)
     /\ RecordAppended(h, "policy_denied")
     /\ UNCHANGED <<moneyVars, holdVars, net>>
  \/ /\ Fits(h, remaining)
     /\ IF Ledger
        THEN /\ pc' = [pc EXCEPT ![A(h)] = "reserve"]
             /\ Sent(A(h), TRUE)
             /\ UNCHANGED <<lockQ, moneyVars, holdVars>>
        ELSE Granted(h) /\ UNCHANGED net
     /\ UNCHANGED rec

(* authorize() gets the budget lock. An attributed call reads its envelope *)
(* first; any other is gated on the session's remaining budget.            *)
AuthorizeLocked(h) ==
  /\ pc[A(h)] = "queued" /\ HoldsLock(A(h))
  /\ IF SessionAccounted(h)
     THEN Gate(h, Budget - budgetSpent - inFlightHoldTotal)
     ELSE /\ pc' = [pc EXCEPT ![A(h)] = "preflight"]
          /\ UNCHANGED <<lockQ, moneyVars, holdVars, net, rec>>
  /\ UNCHANGED <<callVars, est, charge, tdVars, diskVars, entries, ledgerVars, cb>>

(* preflightEnvelopeRemaining(): the balance, or a refusal when it cannot  *)
(* be read.                                                                *)
AuthorizePreflight(h) ==
  /\ pc[A(h)] = "preflight"
  /\ \/ Gate(h, Available(h))
     \/ /\ pc' = [pc EXCEPT ![A(h)] = "refused"]
        /\ lockQ' = Tail(lockQ)
        /\ UNCHANGED <<moneyVars, holdVars, net, rec>>
  /\ UNCHANGED <<callVars, est, charge, tdVars, diskVars, entries, ledgerVars, cb>>

(* engine.spendPending() resolves: the engine keeps its entry. *)
AuthorizeReserved(h) ==
  /\ pc[A(h)] = "reserve" /\ Answered(A(h))
  /\ entries' = entries \cup {h}
  /\ Granted(h)
  /\ UNCHANGED <<callVars, est, charge, tdVars, diskVars, ledgerVars, net, rec, cb>>

(* engine.spendPending() rejects: InsufficientBalanceError is a recorded   *)
(* denial, anything else is LedgerUnavailableError and is not.             *)
AuthorizeRejected(h) ==
  /\ pc[A(h)] = "reserve"
  /\ pc' = [pc EXCEPT ![A(h)] = "refused"]
  /\ lockQ' = Tail(lockQ)
  /\ \/ net[A(h)] = "refused" /\ RecordAppended(h, "ledger_rejected")
     \/ UNCHANGED rec
  /\ UNCHANGED <<callVars, est, charge, tdVars, moneyVars, diskVars, holdVars,
                 entries, ledgerVars, net, cb>>

(* The give-back of an authorize() that found the governor destroyed. *)
AuthorizeUndone(h) ==
  /\ pc[A(h)] = "undo" /\ HoldsLock(A(h))
  /\ inFlightHoldTotal' = inFlightHoldTotal - est[h]
  /\ pc' = [pc EXCEPT ![A(h)] = "refused"]
  /\ lockQ' = Tail(lockQ)
  /\ UNCHANGED <<callVars, est, charge, tdVars, budgetSpent, diskVars, holdVars,
                 entries, ledgerVars, net, rec, cb>>

-----------------------------------------------------------------------------
(* settle(), up to its claim: refused once sweeping, and for a hold that   *)
(* is no longer active.                                                    *)
SettleCall(c) ==
  LET h == c[1] IN
  /\ pc[c] = "idle" /\ pc[A(h)] = "granted"
  /\ op' = [op EXCEPT ![c] = "settle"]
  /\ IF sweeping \/ h \notin activeAuths
     THEN /\ pc' = [pc EXCEPT ![c] = "returned"]
          /\ result' = [result EXCEPT ![c] = "lost"]
          /\ UNCHANGED holdVars
     ELSE /\ pc' = [pc EXCEPT ![c] = "metering"]
          /\ activeAuths' = activeAuths \ {h}
          /\ unpostedHolds' = unpostedHolds \cup {h}
          /\ settling' = settling \cup {h}
          /\ UNCHANGED <<result, inFlight>>
  /\ UNCHANGED <<est, charge, tdVars, lockQ, moneyVars, diskVars, entries,
                 ledgerVars, net, rec, cb>>

(* After its POST section: settle() queues for the budget lock if the hold *)
(* is the session's, and goes on to its record if it is an envelope's.     *)
QueuedToCharge(c) ==
  IF SessionAccounted(c[1])
  THEN pc' = [pc EXCEPT ![c] = "charge"] /\ lockQ' = Append(lockQ, c)
  ELSE pc' = [pc EXCEPT ![c] = "record"] /\ UNCHANGED lockQ

(* Pricing reads the caller's objects: it may throw, and their getters may *)
(* call the governor again. A throw hands the hold back (unpostedHolds);   *)
(* otherwise the breaker hears of the success, the hold leaves             *)
(* unpostedHolds and the POST leaves.                                      *)
SettleMetered(c) ==
  LET h == c[1] IN
  /\ pc[c] = "metering"
  /\ \/ /\ pc' = [pc EXCEPT ![c] = "returned"]
        /\ result' = [result EXCEPT ![c] = "threw"]
        /\ settling' = settling \ {h}
        /\ UNCHANGED <<charge, unpostedHolds, lockQ, net, cb>>
     \/ /\ \E cost \in Costs : charge' = [charge EXCEPT ![h] = cost]
        /\ cb' = RecordSuccess(cb)
        /\ unpostedHolds' = unpostedHolds \ {h}
        /\ IF Ledger
           THEN /\ pc' = [pc EXCEPT ![c] = "post"]
                /\ Sent(c, h \in entries)
                /\ UNCHANGED <<result, lockQ>>
           ELSE /\ result' = [result EXCEPT ![c] = "settled"]
                /\ QueuedToCharge(c)
                /\ UNCHANGED net
        /\ UNCHANGED settling
  /\ UNCHANGED <<op, est, tdVars, moneyVars, diskVars, activeAuths, inFlight,
                 entries, ledgerVars, rec>>

(* engine.postPendingSpend() resolves. *)
SettlePosted(c) ==
  /\ pc[c] = "post" /\ Answered(c)
  /\ entries' = entries \ {c[1]}
  /\ result' = [result EXCEPT ![c] = "settled"]
  /\ QueuedToCharge(c)
  /\ UNCHANGED <<op, est, charge, tdVars, moneyVars, diskVars, holdVars,
                 ledgerVars, net, rec, cb>>

MutantSettlePostFailed(c) ==
  /\ pc[c] = "post"
  /\ result' = [result EXCEPT ![c] = "ambiguous"]
  /\ RecordAppended(c[1], "settlement_ambiguous")
  /\ pc' = [pc EXCEPT ![c] = "ambiguous"]
  /\ unpostedHolds' = unpostedHolds \cup {c[1]}
  /\ UNCHANGED <<op, est, charge, tdVars, lockQ, moneyVars, diskVars, activeAuths,
                 settling, inFlight, entries, ledgerVars, net, cb>>

(* engine.postPendingSpend() rejects, whatever the ledger did: recorded as *)
(* ambiguous, settled = false.                                             *)
SettlePostFailed(c) ==
  /\ pc[c] = "post"
  /\ result' = [result EXCEPT ![c] = "ambiguous"]
  /\ RecordAppended(c[1], "settlement_ambiguous")
  /\ pc' = [pc EXCEPT ![c] = "ambiguous"]
  /\ UNCHANGED <<op, est, charge, tdVars, lockQ, moneyVars, diskVars, holdVars,
                 entries, ledgerVars, net, cb>>

SettleAmbiguous(c) ==
  /\ pc[c] = "ambiguous"
  /\ QueuedToCharge(c)
  /\ UNCHANGED <<callVars, est, charge, tdVars, moneyVars, diskVars, holdVars,
                 entries, ledgerVars, net, rec, cb>>

(* What a settle adds to budgetSpent: the actual cost in full, even when   *)
(* the POST is ambiguous or was capped at the hold.                        *)
SpendAdded(c) == charge[c[1]]

(* Under the budget lock the hold's estimate becomes spend. *)
SettleCharged(c) ==
  LET h == c[1] IN
  /\ pc[c] = "charge" /\ HoldsLock(c)
  /\ inFlightHoldTotal' = inFlightHoldTotal - est[h]
  /\ budgetSpent' = budgetSpent + SpendAdded(c)
  /\ lockQ' = Tail(lockQ)
  /\ pc' = [pc EXCEPT ![c] = "persist"]
  /\ UNCHANGED <<callVars, est, charge, tdVars, diskVars, holdVars, entries,
                 ledgerVars, net, rec, cb>>

(* persistSpend() writes only a total above the last one it tried. *)
PersistDue == budgetSpent > lastPersistedSpent

(* persistSpend(), serialized by its own mutex. A failed write is          *)
(* swallowed, and its total counts as tried.                               *)
PersistSpend ==
  IF PersistDue
  THEN /\ lastPersistedSpent' = budgetSpent
       /\ \/ diskSpent' = budgetSpent
          \/ PersistFaults /\ UNCHANGED diskSpent
  ELSE UNCHANGED diskVars

SettlePersisted(c) ==
  /\ pc[c] = "persist"
  /\ PersistSpend
  /\ pc' = [pc EXCEPT ![c] = "record"]
  /\ UNCHANGED <<callVars, est, charge, tdVars, lockQ, moneyVars, holdVars,
                 entries, ledgerVars, net, rec, cb>>

(* The llm_call record, with the settled flag. *)
SettleRecorded(c) ==
  LET h == c[1] IN
  /\ pc[c] = "record"
  /\ RecordAppended(h, IF result[c] = "settled" THEN "llm_call" ELSE "llm_call_unsettled")
  /\ pc' = [pc EXCEPT ![c] =
              IF Ledger /\ result[c] = "settled" /\ charge[h] > est[h]
              THEN "shortfall" ELSE "receipt"]
  /\ UNCHANGED <<callVars, est, charge, tdVars, lockQ, moneyVars, diskVars,
                 holdVars, entries, ledgerVars, net, cb>>

(* A POST capped at the hold has its own record, after the call's. *)
SettleShortfall(c) ==
  /\ pc[c] = "shortfall"
  /\ RecordAppended(c[1], "settlement_shortfall")
  /\ pc' = [pc EXCEPT ![c] = "receipt"]
  /\ UNCHANGED <<callVars, est, charge, tdVars, lockQ, moneyVars, diskVars,
                 holdVars, entries, ledgerVars, net, cb>>

MutantSettleReturned(c) ==
  /\ pc[c] = "receipt"
  /\ pc' = [pc EXCEPT ![c] = "returned"]
  /\ UNCHANGED <<callVars, est, charge, tdVars, lockQ, moneyVars, diskVars,
                 holdVars, entries, ledgerVars, net, rec, cb>>

(* The receipt is returned and the settle lets go of the hold (finally). *)
SettleReturned(c) ==
  /\ pc[c] = "receipt"
  /\ pc' = [pc EXCEPT ![c] = "returned"]
  /\ settling' = settling \ {c[1]}
  /\ UNCHANGED <<callVars, est, charge, tdVars, lockQ, moneyVars, diskVars,
                 activeAuths, unpostedHolds, inFlight, entries, ledgerVars, net, rec, cb>>

-----------------------------------------------------------------------------
(* abort() hears of a failure; release() is neutral to the breaker. *)
BreakerHears(c) == IF op'[c] = "abort" THEN cb' = RecordFailure(cb) ELSE UNCHANGED cb

(* abort() and release() refuse once sweeping, while a settle owns the     *)
(* hold, and for a hold in neither map.                                    *)
Endable(h) == ~sweeping /\ h \notin settling /\ h \in activeAuths \cup unpostedHolds

(* abort() and release(), up to the claim. The claimed hold is in flight   *)
(* until its record.                                                       *)
EndCall(c, kind) ==
  LET h == c[1] IN
  /\ pc[c] = "idle" /\ pc[A(h)] = "granted"
  /\ op' = [op EXCEPT ![c] = kind]
  /\ IF ~Endable(h)
     THEN /\ pc' = [pc EXCEPT ![c] = "returned"]
          /\ result' = [result EXCEPT ![c] = "lost"]
          /\ UNCHANGED <<holdVars, lockQ, net, cb>>
     ELSE /\ activeAuths' = activeAuths \ {h}
          /\ unpostedHolds' = unpostedHolds \ {h}
          /\ inFlight' = inFlight \cup {h}
          /\ IF SessionAccounted(h)
             THEN /\ pc' = [pc EXCEPT ![c] = "giveback"]
                  /\ lockQ' = Append(lockQ, c)
                  /\ UNCHANGED <<net, cb>>
             ELSE /\ pc' = [pc EXCEPT ![c] = "void"]
                  /\ BreakerHears(c)
                  /\ Sent(c, h \in entries)
                  /\ UNCHANGED lockQ
          /\ UNCHANGED <<result, settling>>
  /\ UNCHANGED <<est, charge, tdVars, moneyVars, diskVars, entries, ledgerVars, rec>>

MutantEnded(c, outcome) ==
  /\ result' = [result EXCEPT ![c] = outcome]
  /\ inFlight' = inFlight \ {c[1]}
  /\ RecordAppended(c[1], IF op[c] = "abort" THEN "llm_call_failed" ELSE "hold_released")
  /\ pc' = [pc EXCEPT ![c] = "logged"]

(* The void has an outcome. A hold destroy() has taken out of inFlight is  *)
(* destroy()'s to record; otherwise this call records it.                  *)
Ended(c, outcome) ==
  LET h == c[1] IN
  /\ result' = [result EXCEPT ![c] = outcome]
  /\ IF h \in inFlight
     THEN /\ inFlight' = inFlight \ {h}
          /\ RecordAppended(h, IF op[c] = "abort" THEN "llm_call_failed" ELSE "hold_released")
          /\ pc' = [pc EXCEPT ![c] = "logged"]
     ELSE /\ pc' = [pc EXCEPT ![c] = "returned"]
          /\ UNCHANGED <<inFlight, rec>>

(* Under the budget lock the session's share is given back; then the       *)
(* breaker, and the void (none in a dry run).                              *)
GivenBack(c) ==
  LET h == c[1] IN
  /\ pc[c] = "giveback" /\ HoldsLock(c)
  /\ inFlightHoldTotal' = inFlightHoldTotal - est[h]
  /\ lockQ' = Tail(lockQ)
  /\ UNCHANGED op /\ BreakerHears(c)
  /\ IF Ledger
     THEN /\ pc' = [pc EXCEPT ![c] = "void"]
          /\ Sent(c, h \in entries)
          /\ UNCHANGED <<result, inFlight, rec>>
     ELSE Ended(c, "ended") /\ UNCHANGED net
  /\ UNCHANGED <<est, charge, tdVars, budgetSpent, diskVars, activeAuths,
                 unpostedHolds, settling, entries, ledgerVars>>

(* engine.voidPendingSpend() resolves, or rejects (voidError). *)
EndVoided(c) ==
  /\ pc[c] = "void" /\ Answered(c)
  /\ entries' = entries \ {c[1]}
  /\ Ended(c, "ended")
  /\ UNCHANGED <<op, est, charge, tdVars, lockQ, moneyVars, diskVars, activeAuths,
                 unpostedHolds, settling, ledgerVars, net, cb>>

EndVoidFailed(c) ==
  /\ pc[c] = "void"
  /\ Ended(c, "endedVoidError")
  /\ UNCHANGED <<op, est, charge, tdVars, lockQ, moneyVars, diskVars, activeAuths,
                 unpostedHolds, settling, entries, ledgerVars, net, cb>>

EndReturned(c) ==
  /\ pc[c] = "logged"
  /\ pc' = [pc EXCEPT ![c] = "returned"]
  /\ inFlight' = inFlight \ {c[1]}
  /\ UNCHANGED <<callVars, est, charge, tdVars, lockQ, moneyVars, diskVars,
                 activeAuths, unpostedHolds, settling, entries, ledgerVars, net, rec, cb>>

-----------------------------------------------------------------------------
(* destroy(): one teardown, shared by every caller (destroying ??= ...). *)
Destroy ==
  /\ td = "up"
  /\ td' = "drain" /\ destroyed' = TRUE
  /\ UNCHANGED <<pc, callVars, est, charge, sweeping, snap, lockQ, moneyVars, diskVars,
                 holdVars, entries, ledgerVars, net, rec, cb>>

MutantLeftover(h) == h \in activeAuths

(* The holds destroy() takes beside the ones in flight: still active, or   *)
(* handed back by a settle that threw.                                     *)
Leftover(h) == h \in activeAuths \cup unpostedHolds

(* The drain ends, empty or at its deadline, and in one synchronous step   *)
(* every hold still the governor's is taken.                               *)
Sweep ==
  /\ td = "drain"
  /\ settling \cup inFlight = {} \/ DeadlineCanPass
  /\ td' = "records" /\ sweeping' = TRUE
  /\ pc' = [p \in Procs |->
              CASE p[2] = "sweep" /\ p[1] \in inFlight -> "inflight"
                [] p[2] = "sweep" /\ Leftover(p[1]) -> "leftover"
                [] OTHER -> pc[p]]
  /\ inFlight' = {} /\ activeAuths' = {} /\ unpostedHolds' = {}
  /\ UNCHANGED <<callVars, est, charge, destroyed, snap, lockQ, moneyVars, diskVars,
                 settling, entries, ledgerVars, net, rec, cb>>

(* A terminal still in flight at the deadline is left to record its hold. *)
MutantSweepInFlight(h) ==
  /\ td = "records" /\ pc[S(h)] = "inflight"
  /\ pc' = [pc EXCEPT ![S(h)] = "done"]
  /\ UNCHANGED <<callVars, est, charge, tdVars, lockQ, moneyVars, diskVars, holdVars,
                 entries, ledgerVars, net, rec, cb>>

(* First the holds of terminals still in flight: recorded, not voided. *)
SweepInFlight(h) ==
  /\ td = "records" /\ pc[S(h)] = "inflight"
  /\ RecordAppended(h, "hold_released")
  /\ pc' = [pc EXCEPT ![S(h)] = "done"]
  /\ UNCHANGED <<callVars, est, charge, tdVars, lockQ, moneyVars, diskVars, holdVars,
                 entries, ledgerVars, net, cb>>

(* Then, one after the other, the holds nobody ended: voided and recorded. *)
SweepLeftover(h) ==
  /\ td = "records" /\ pc[S(h)] = "leftover"
  /\ \A g \in Holds : pc[S(g)] \notin {"inflight", "voiding"}
  /\ IF Ledger
     THEN /\ pc' = [pc EXCEPT ![S(h)] = "voiding"]
          /\ Sent(S(h), h \in entries)
          /\ UNCHANGED rec
     ELSE /\ pc' = [pc EXCEPT ![S(h)] = "done"]
          /\ RecordAppended(h, "hold_released")
          /\ UNCHANGED net
  /\ UNCHANGED <<callVars, est, charge, tdVars, lockQ, moneyVars, diskVars, holdVars,
                 entries, ledgerVars, cb>>

SweepVoided(h) ==
  /\ td = "records" /\ pc[S(h)] = "voiding"
  /\ entries' = IF Answered(S(h)) THEN entries \ {h} ELSE entries
  /\ RecordAppended(h, "hold_released")
  /\ pc' = [pc EXCEPT ![S(h)] = "done"]
  /\ UNCHANGED <<callVars, est, charge, tdVars, lockQ, moneyVars, diskVars, holdVars,
                 ledgerVars, net, cb>>

(* engine.voidAllPending(): a snapshot of the engine's entries, voided one *)
(* by one with every failure swallowed.                                    *)
SweepEngine ==
  /\ td = "records"
  /\ \A h \in Holds : pc[S(h)] \in {"idle", "done"}
  /\ td' = "engine" /\ snap' = entries
  /\ UNCHANGED <<pc, callVars, est, charge, destroyed, sweeping, lockQ, moneyVars,
                 diskVars, holdVars, entries, ledgerVars, net, rec, cb>>

EngineVoid(h) ==
  /\ td = "engine" /\ h \in snap
  /\ \A g \in Holds : pc[S(g)] # "voiding"
  /\ pc' = [pc EXCEPT ![S(h)] = "voiding"]
  /\ Sent(S(h), TRUE)
  /\ UNCHANGED <<callVars, est, charge, tdVars, lockQ, moneyVars, diskVars, holdVars,
                 entries, ledgerVars, rec, cb>>

EngineVoided(h) ==
  /\ td = "engine" /\ pc[S(h)] = "voiding"
  /\ snap' = snap \ {h}
  /\ entries' = entries \ {h}
  /\ pc' = [pc EXCEPT ![S(h)] = "done"]
  /\ UNCHANGED <<callVars, est, charge, destroyed, sweeping, td, lockQ, moneyVars,
                 diskVars, holdVars, ledgerVars, net, rec, cb>>

(* The flush, the releases and engine.close(). *)
Close ==
  /\ td = "engine" /\ snap = {}
  /\ td' = "closed"
  /\ UNCHANGED <<pc, callVars, est, charge, destroyed, sweeping, snap, lockQ, moneyVars,
                 diskVars, holdVars, entries, ledgerVars, net, rec, cb>>

-----------------------------------------------------------------------------
(* What application code may call at any moment, from inside a getter that *)
(* settle() reads too.                                                     *)
Call == \/ \E h \in Holds : AuthorizeCall(h)
        \/ \E c \in Calls : SettleCall(c) \/ EndCall(c, "abort") \/ EndCall(c, "release")
        \/ Destroy

(* What runs only when the event loop is free. *)
AuthorizeStep(h) == \/ AuthorizeLocked(h) \/ AuthorizePreflight(h) \/ AuthorizeReserved(h)
                    \/ AuthorizeRejected(h) \/ AuthorizeUndone(h)
SettleStep(c) == \/ SettlePosted(c) \/ SettlePostFailed(c) \/ SettleAmbiguous(c)
                 \/ SettleCharged(c) \/ SettlePersisted(c) \/ SettleRecorded(c)
                 \/ SettleShortfall(c) \/ SettleReturned(c)
EndStep(c) == GivenBack(c) \/ EndVoided(c) \/ EndVoidFailed(c) \/ EndReturned(c)
SweepStep(h) == \/ SweepInFlight(h) \/ SweepLeftover(h) \/ SweepVoided(h)
                \/ EngineVoid(h) \/ EngineVoided(h)
LoopFree == \A c \in Calls : pc[c] # "metering"

LoopStep == /\ LoopFree
            /\ \/ \E h \in Holds : AuthorizeStep(h) \/ SweepStep(h)
               \/ \E c \in Calls : SettleStep(c) \/ EndStep(c)
               \/ Sweep \/ SweepEngine \/ Close

LedgerStep == \/ \E h \in Holds : LedgerReserve(h) \/ LedgerExpire(h)
              \/ \E c \in Calls : LedgerPost(c)
              \/ \E p \in Procs : LedgerVoid(p)

Next == Call \/ (\E c \in Calls : SettleMetered(c)) \/ LoopStep \/ LedgerStep

Spec == Init /\ [][Next]_vars

(* The event loop runs what is ready, timers fire, and every ledger        *)
(* request is answered or fails. Nobody has to call anything.              *)
FairSpec ==
  /\ Spec
  /\ \A c \in Calls : /\ WF_vars(SettleMetered(c))
                      /\ WF_vars(LoopFree /\ (SettleStep(c) \/ EndStep(c)))
  /\ \A h \in Holds : /\ WF_vars(LoopFree /\ AuthorizeStep(h))
                      /\ WF_vars(LoopFree /\ SweepStep(h))
  /\ WF_vars(LoopFree /\ (Sweep \/ SweepEngine \/ Close))

-----------------------------------------------------------------------------
AuthPcs  == {"idle", "queued", "preflight", "reserve", "undo", "granted", "refused"}
CallPcs  == {"idle", "metering", "post", "ambiguous", "charge", "persist", "record",
             "shortfall", "receipt", "giveback", "void", "logged", "returned"}
SweepPcs == {"idle", "inflight", "leftover", "voiding", "done"}
Results  == {"none", "lost", "threw", "settled", "ambiguous", "ended", "endedVoidError"}

(* Type correctness of the governor's state. The two totals are naturals:  *)
(* no interleaving gives back more than was taken.                         *)
TypeOK ==
  /\ pc \in [Procs -> AuthPcs \cup CallPcs \cup SweepPcs]
  /\ op \in [Calls -> {"none", "settle", "abort", "release"}]
  /\ result \in [Calls -> Results]
  /\ est \in [Holds -> Nat] /\ charge \in [Holds -> Nat] /\ posted \in [Holds -> Nat]
  /\ destroyed \in BOOLEAN /\ sweeping \in BOOLEAN
  /\ td \in {"up", "drain", "records", "engine", "closed"}
  /\ lockQ \in Seq(Procs)
  /\ inFlightHoldTotal \in Nat /\ budgetSpent \in Nat
  /\ lastPersistedSpent \in Nat /\ diskSpent \in Nat
  /\ activeAuths \subseteq Holds /\ unpostedHolds \subseteq Holds
  /\ settling \subseteq Holds /\ inFlight \subseteq Holds
  /\ entries \subseteq Holds /\ snap \subseteq Holds
  /\ tb \in [Holds -> {"none", "pending", "posted", "voided", "expired"}]
  /\ net \in [Procs -> {"none", "sent", "applied", "refused"}]
  /\ rec \in [Holds -> Seq(Kinds)]
  /\ cb \in Breakers

(* However settle, abort, release and destroy race for a hold, and         *)
(* wherever destroy()'s deadline falls, the chain gets at most one record  *)
(* that ends it.                                                           *)
OneTerminalRecord ==
  \A h \in Holds : \A i, j \in DOMAIN rec[h] :
    rec[h][i] \in Terminal /\ rec[h][j] \in Terminal => i = j

Won(c) == result[c] \in {"settled", "ambiguous", "ended", "endedVoidError"}

(* "{ aborted: true } only when THIS call ended the hold" (and so for      *)
(* release and settle): of all the calls on one hold at most one wins,     *)
(* re-entrant calls from a getter of the settle's own input included.      *)
OneWinner ==
  \A c, d \in Calls : c[1] = d[1] /\ Won(c) /\ Won(d) => c = d

(* A receipt with settled = true is backed by the ledger: the transfer is  *)
(* posted, for the actual cost capped at the hold.                         *)
SettledIsPosted ==
  Ledger => \A c \in Calls : result[c] = "settled" =>
    /\ tb[c[1]] = "posted"
    /\ posted[c[1]] = IF charge[c[1]] < est[c[1]] THEN charge[c[1]] ELSE est[c[1]]

(* A hold the chain calls failed or released is never charged: no POST of  *)
(* it has landed, not even one whose sender stopped waiting for the answer.*)
ReleasedNeverCharged ==
  \A h \in Holds : \A i \in DOMAIN rec[h] :
    rec[h][i] \in {"llm_call_failed", "hold_released"} => tb[h] # "posted"

(* An abort or release that reports no voidError has really returned the   *)
(* funds: the pending transfer is voided, or the ledger had expired it.    *)
CleanEndIsGivenBack ==
  Ledger => \A c \in Calls : result[c] = "ended" => tb[c[1]] \in {"voided", "expired"}

(* What a call answers is true of the ledger, however requests, sweeps and *)
(* the ledger's own timeout come in between (settle, abort, release).      *)
AnswersBacked == SettledIsPosted /\ CleanEndIsGivenBack

(* Whether call c has taken its hold's estimate off inFlightHoldTotal. *)
TakenOff(c) ==
  \/ pc[c] \in {"persist", "record", "shortfall", "receipt", "void", "logged"}
  \/ pc[c] = "returned" /\ Won(c)

Counted(h) ==
  /\ SessionAccounted(h)
  /\ pc[A(h)] \in {"granted", "undo"}
  /\ \A c \in Calls : c[1] = h => ~TakenOff(c)

(* inFlightHoldTotal is the sum of the estimates of the session's holds    *)
(* that are neither charged nor given back: nothing leaks budget and       *)
(* nothing is counted twice, on any path of any race.                      *)
HoldTotalExact ==
  LET Est(h) == est[h]
  IN  inFlightHoldTotal = MapThenSumSet(Est, {h \in Holds : Counted(h)})

Charged == {h \in Holds : \E c \in Calls :
              /\ c[1] = h /\ op[c] = "settle" /\ SessionAccounted(h) /\ TakenOff(c)}

(* The gate never over-commits the session: spent and held together pass   *)
(* the budget only by what settled calls cost above their own estimate.    *)
NoOverAdmission ==
  LET Overrun(h) == IF charge[h] > est[h] THEN charge[h] - est[h] ELSE 0
      Ceiling == IF StartSpent > Budget THEN StartSpent ELSE Budget
  IN  budgetSpent + inFlightHoldTotal <= Ceiling + MapThenSumSet(Overrun, Charged)

(* A crash never forgets spend the chain shows: whenever the llm_call      *)
(* records of session holds are on the chain, the spend ledger on disk     *)
(* already includes their cost (as long as its last write succeeded).      *)
DiskCoversChain ==
  LET Cost(h) == charge[h]
      OnChain == {h \in Holds : /\ SessionAccounted(h)
                                /\ \E i \in DOMAIN rec[h] :
                                     rec[h][i] \in {"llm_call", "llm_call_unsettled"}}
  IN  diskSpent = lastPersistedSpent =>
        StartSpent + MapThenSumSet(Cost, OnChain) <= diskSpent

(* destroy() ends, whatever is in flight when it is called. *)
DestroyEnds == destroyed ~> td = "closed"

(* "Graceful shutdown: voids all pending holds, records each one": every   *)
(* hold the governor granted has its terminal record some time after       *)
(* destroy() was called.                                                   *)
EveryHoldRecorded ==
  \A h \in Holds :
    (destroyed /\ pc[A(h)] = "granted") ~>
      (\E i \in DOMAIN rec[h] : rec[h][i] \in Terminal)
=============================================================================
