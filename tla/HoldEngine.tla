------------------------------ MODULE HoldEngine ------------------------------
(***************************************************************************)
(* The OpenShell hold engine (packages/openshell/src): reserve, settle,    *)
(* release and sweep of engine.ts over the SQLite journal of journal.ts    *)
(* and TigerBeetle behind ledger.ts.                                       *)
(*                                                                         *)
(* A process <<h, k>> is a call in flight on hold h: k is "reserve",       *)
(* "release", "sweep" or one of Settlers; every call may be made again     *)
(* once it has ended. An action is a journal transaction or a ledger call  *)
(* with its answer. A call that runs into its deadline is abandoned, and   *)
(* may still reach the ledger later (stray). reserve() holds the journal's *)
(* one write transaction across its ledger calls.                          *)
(*                                                                         *)
(* The sweeper works through its rows one after the other; here each hold  *)
(* has a sweeper of its own, which allows all of that and more.            *)
(*                                                                         *)
(* Definitions named Mutant... are the mutated forms PROJECT.json lists.   *)
(***************************************************************************)
EXTENDS Integers, FiniteSetsExt

CONSTANTS
  Holds,         \* hold keys
  Settlers,      \* names of settle() calls that may run at once on a hold
  Procs,         \* the calls made: <<h, k>>, every hold with its "reserve"
  Amount,        \* what a hold reserves
  Intents,       \* settlements a caller may report: [post, overage]
  Budget,        \* the wallet's funds
  Loads,         \* what may be asked and go wrong in one behaviour
  None           \* no intent, no lock

ASSUME HoldEngineAssumption ==
  /\ Holds \X {"reserve"} \subseteq Procs
  /\ Procs \subseteq Holds \X (Settlers \cup {"reserve", "release", "sweep"})
  /\ Amount \in Nat \ {0} /\ Budget \in Nat
  /\ \A i \in Intents :
       /\ i.post \in 0 .. Amount /\ i.overage \in Nat
       /\ i.overage > 0 => i.post = Amount
  /\ \A l \in Loads : /\ l.procs \subseteq Procs /\ l.intents \subseteq Intents
                      /\ l.faults \subseteq {"crash", "deadline", "refused", "commit"}

VARIABLES
  row,      \* the journal's row of each hold
  applied,  \* the journal's applied table: <<h, role>> with its delta in debt
  debt,     \* the budget's debt row
  lock,     \* the hold whose reserve() has the write transaction, or None
  clock,    \* of a hold: 0 .. 3, see Advance
  led,      \* of a hold: its pending transfer in the ledger
  posted,   \* what was posted of it
  retired,  \* <<h, role>>: transfer ids TigerBeetle answers id_already_failed to
  charged,  \* <<h, role>>: the debt charges in the ledger
  stray,    \* <<h, op>>: abandoned ledger calls that may still be applied
  pc, arg,  \* where a call stands, and the intent it works on
  load      \* the calls that are made, and the faults that happen

journalVars == <<row, applied, debt>>
ledgerVars  == <<led, posted, retired, charged>>
vars == <<row, applied, debt, lock, clock, led, posted, retired, charged, stray, pc, arg, load>>

R(h) == <<h, "reserve">>
W(h) == <<h, "sweep">>

NoRow == [st |-> "none", intent |-> None, late |-> "none", lateAmount |-> 0, incident |-> {}]

Init ==
  /\ row = [h \in Holds |-> NoRow] /\ applied = {} /\ debt = 0
  /\ lock = None /\ clock = [h \in Holds |-> 0]
  /\ led = [h \in Holds |-> "none"] /\ posted = [h \in Holds |-> 0]
  /\ retired = {} /\ charged = {} /\ stray = {}
  /\ pc = [p \in Procs |-> "idle"] /\ arg = [p \in Procs |-> None]
  /\ load \in Loads

-----------------------------------------------------------------------------
(* The ledger, as ledger.ts uses it.                                       *)

Due(h) == IF led[h] = "pending" THEN Amount ELSE posted[h]

(* lookupBalance(): what holds and posts leave of the wallet. *)
Balance == Budget - MapThenSumSet(Due, Holds)

(* available(): a transfer already under the hold's own id is added back. *)
Available(h) == Balance + (IF led[h] = "none" THEN 0 ELSE Amount)

(* A pending transfer is placed unless its id was used or has failed, and  *)
(* within the wallet's balance; a refusal retires the id.                  *)
CanPlace(h) == led[h] = "none" /\ <<h, "reserve">> \notin retired
ApplyPlace(h) ==
  /\ led' = [led EXCEPT ![h] = IF CanPlace(h) /\ Amount <= Balance THEN "pending" ELSE @]
  /\ retired' = IF CanPlace(h) /\ Amount > Balance THEN retired \cup {<<h, "reserve">>}
                ELSE retired
  /\ UNCHANGED <<posted, charged>>

(* post() with the amount of the intent stored with the claim. *)
ApplyPost(h) ==
  /\ led' = [led EXCEPT ![h] = IF @ = "pending" THEN "posted" ELSE @]
  /\ posted' = [posted EXCEPT ![h] = IF led[h] = "pending" THEN row[h].intent.post ELSE @]
  /\ UNCHANGED <<retired, charged>>

MutantPostAnswer(h) ==
  [none |-> "not_found", pending |-> "done", posted |-> "done",
   voided |-> "voided", expired |-> "done"][led[h]]

PostAnswer(h) ==
  [none |-> "not_found", pending |-> "done", posted |-> "done",
   voided |-> "voided", expired |-> "expired"][led[h]]

(* release(): a void that found no transfer has retired the void id; once  *)
(* the transfer is there after all, it is voided under the void-late id.   *)
ApplyVoid(h) ==
  /\ led' = [led EXCEPT ![h] = IF @ = "pending" THEN "voided" ELSE @]
  /\ UNCHANGED <<posted, retired, charged>>

VoidAnswer(h) ==
  [none |-> "not_found", pending |-> "done", posted |-> "posted",
   voided |-> "done", expired |-> "expired"][led[h]]

(* chargeDebt(): a charge under the role's id or its -retry id, or both    *)
(* ids retired.                                                            *)
ChargeLands(h, role) ==
  /\ <<h, role>> \notin retired
  /\ charged' = charged \cup {<<h, role>>}
  /\ UNCHANGED <<led, posted, retired>>

ChargeRefused(h, role) ==
  /\ <<h, role>> \notin charged
  /\ "refused" \in load.faults \/ <<h, role>> \in retired
  /\ retired' = retired \cup {<<h, role>>}
  /\ UNCHANGED <<led, posted, charged>>

(* TigerBeetle releases a pending transfer at its timeout, which runs from *)
(* its placement: not before admitBy, for the hold an admitted row has.    *)
LedgerExpires(h) ==
  /\ led[h] = "pending"
  /\ clock[h] > 0 \/ (row[h].st \in {"none", "voiding", "voided"} /\ pc[R(h)] # "placed")
  /\ led' = [led EXCEPT ![h] = "expired"]
  /\ UNCHANGED <<journalVars, lock, clock, posted, retired, charged, stray, pc, arg>>

(* An abandoned call reaches the ledger, or is lost. *)
StrayApplied(h, o) ==
  /\ <<h, o>> \in stray
  /\ stray' = stray \ {<<h, o>>}
  /\ \/ o = "place" /\ ApplyPlace(h)
     \/ o = "post" /\ ApplyPost(h)
     \/ o = "void" /\ ApplyVoid(h)
     \/ o \in {"overage", "late"} /\ ChargeLands(h, o)
  /\ UNCHANGED <<journalVars, lock, clock, pc, arg>>

StrayLost(h, o) ==
  /\ <<h, o>> \in stray
  /\ stray' = stray \ {<<h, o>>}
  /\ UNCHANGED <<journalVars, lock, clock, ledgerVars, pc, arg>>

-----------------------------------------------------------------------------
(* Time, deadlines and crashes.                                            *)

(* Past admitBy (1), past ttlAt and the sweeper's grace (2), past the      *)
(* placement horizon (3): an abandoned placement has landed or is lost by  *)
(* then, which placementGraceMs is there for.                              *)
Advance(h) ==
  /\ clock[h] < 3 /\ (row[h].st # "none" \/ pc[R(h)] # "idle")
  /\ clock[h] = 2 => <<h, "place">> \notin stray
  /\ clock' = [clock EXCEPT ![h] = @ + 1]
  /\ UNCHANGED <<journalVars, lock, ledgerVars, stray, pc, arg>>

(* The ledger call a process is waiting for. *)
Waiting(p) ==
  CASE pc[p] = "placing"               -> {"place"}
    [] pc[p] = "post"                  -> {"post"}
    [] pc[p] \in {"void", "expiryVoid"} -> {"void"}
    [] pc[p] = "overage"               -> {"overage"}
    [] pc[p] = "late"                  -> {"late"}
    [] OTHER                           -> {}

(* The process dies: its transaction is rolled back, its calls are strays. *)
Crash ==
  /\ "crash" \in load.faults /\ \E p \in Procs : pc[p] # "idle"
  /\ pc' = [p \in Procs |-> "idle"] /\ arg' = [p \in Procs |-> None]
  /\ lock' = None
  /\ stray' = stray \cup UNION {{p[1]} \X Waiting(p) : p \in Procs}
  /\ UNCHANGED <<journalVars, clock, ledgerVars>>

(* A ledger call runs into its deadline and is abandoned (reserve() goes   *)
(* on to commit the doubtful placement); or the write lock is busy for     *)
(* longer than the retries, and the call throws.                           *)
To(p, where) ==
  /\ pc' = [pc EXCEPT ![p] = where]
  /\ arg' = [arg EXCEPT ![p] = IF where = "idle" THEN None ELSE @]

TimedOut(p) ==
  /\ "deadline" \in load.faults /\ Waiting(p) # {}
  /\ stray' = stray \cup ({p[1]} \X Waiting(p))
  /\ To(p, IF pc[p] = "placing" THEN "unplaced" ELSE "idle")
  /\ UNCHANGED <<journalVars, lock, clock, ledgerVars>>

TxPcs == {"expired", "chargeFailed", "final", "lateTx", "markLate", "answer",
          "voidFinal", "voidMissing", "disagrees", "expiryFinal"}

JournalBusy(p) ==
  /\ pc[p] \in TxPcs /\ lock # None
  /\ To(p, "idle")
  /\ UNCHANGED <<journalVars, lock, clock, ledgerVars, stray>>

-----------------------------------------------------------------------------
(* HoldEngine.reserve() and HoldJournal.reserve(), of a hold that has no   *)
(* row; one that has is answered from it and changes nothing.              *)
ReserveBegin(h) ==
  /\ R(h) \in load.procs /\ pc[R(h)] = "idle" /\ lock = None /\ row[h].st = "none"
  /\ lock' = h /\ clock' = [clock EXCEPT ![h] = 0]
  /\ To(R(h), "credit")
  /\ UNCHANGED <<journalVars, ledgerVars, stray>>

MutantFits(h) == Available(h) >= Amount

(* The credit must cover the hold beside the budget's debt. *)
Fits(h) == Available(h) - debt >= Amount

(* The debt was read under the lock; the credit is asked for now. It is    *)
(* too small, the question fails, or the hold is placed: unless placeBy    *)
(* has passed, when nothing is sent and the row is doubtful all the same.  *)
ReserveCredit(h) ==
  /\ pc[R(h)] = "credit"
  /\ \/ To(R(h), "idle") /\ lock' = None
     \/ /\ Fits(h)
        /\ \E next \in {"placing", "unplaced"} : To(R(h), next)
        /\ UNCHANGED lock
  /\ UNCHANGED <<journalVars, clock, ledgerVars, stray>>

(* placeHold(): a transfer that is there already is a replay, and refused. *)
PlaceAnswered(h) ==
  /\ pc[R(h)] = "placing"
  /\ ApplyPlace(h)
  /\ To(R(h), IF led'[h] # led[h] THEN "placed" ELSE "unplaced")
  /\ UNCHANGED <<journalVars, lock, clock, stray>>

Admits(h) == pc[R(h)] = "placed" /\ clock[h] = 0

(* The row is committed: voiding if the placement is doubtful, or was      *)
(* answered at or past admitBy.                                            *)
ReserveCommit(h) ==
  /\ pc[R(h)] \in {"placed", "unplaced"}
  /\ row' = [row EXCEPT ![h].st = IF Admits(h) THEN "open" ELSE "voiding"]
  /\ lock' = None
  /\ To(R(h), "idle")
  /\ UNCHANGED <<applied, debt, clock, ledgerVars, stray>>

(* The insert or the COMMIT fails: a hold without a row (OrphanRiskError). *)
ReserveLost(h) ==
  /\ "commit" \in load.faults /\ pc[R(h)] \in {"placed", "unplaced"}
  /\ lock' = None
  /\ To(R(h), "idle")
  /\ UNCHANGED <<journalVars, clock, ledgerVars, stray>>

-----------------------------------------------------------------------------
(* The journal's transactions.                                             *)

MutantCas(h, from) == row[h].st # "none" /\ row[h].incident = {}

(* cas(): only from the state named, and never of a row with an incident. *)
Cas(h, from) == row[h].st = from /\ row[h].incident = {}

(* applyDebt() takes effect once for each transfer id. *)
Fresh(h, role, delta) == IF <<h, role>> \in applied THEN 0 ELSE delta
Marked(h, role, delta) == IF delta = 0 THEN {} ELSE {<<h, role>>}

Actual(i) == i.post + i.overage

MutantRecordLate(h, r, amount) ==
  IF r.late # "charged" /\ r.incident = {} /\ r.st \in {"expiring", "expired"}
  THEN [r EXCEPT !.late = IF amount > 0 THEN "recorded" ELSE "zero", !.lateAmount = amount]
  ELSE r

(* recordLate(), on top of what else the transaction did. *)
RecordLate(h, r, amount) ==
  IF r.late = "none" /\ r.incident = {} /\ r.st \in {"expiring", "expired"}
  THEN [r EXCEPT !.late = IF amount > 0 THEN "recorded" ELSE "zero", !.lateAmount = amount]
  ELSE r

(* settle()'s claim, by the row's state; where it does not say, settle()   *)
(* answers without a change.                                               *)
SettleClaim(p) ==
  LET h == p[1] IN
  /\ p \in load.procs /\ p[2] \in Settlers /\ pc[p] = "idle" /\ lock = None
  /\ \E i \in load.intents :
       \/ /\ Cas(h, "open")
          /\ row' = [row EXCEPT ![h].st = "settling", ![h].intent = i]
          /\ debt' = debt + Fresh(h, "overage", i.overage)
          /\ applied' = applied \cup Marked(h, "overage", i.overage)
          /\ pc' = [pc EXCEPT ![p] = "check"] /\ arg' = [arg EXCEPT ![p] = i]
       \/ /\ row[h].st = "settling"
          /\ pc' = [pc EXCEPT ![p] = "check"] /\ arg' = [arg EXCEPT ![p] = row[h].intent]
          /\ UNCHANGED journalVars
       \/ /\ row[h].st \in {"expiring", "expired"}
          /\ pc' = [pc EXCEPT ![p] = "lateTx"] /\ arg' = [arg EXCEPT ![p] = i]
          /\ UNCHANGED journalVars
  /\ UNCHANGED <<lock, clock, ledgerVars, stray>>

(* completeSettlement() looks at the row again before it posts. *)
CompleteCheck(p) ==
  LET r == row[p[1]] IN
  /\ pc[p] = "check"
  /\ To(p, IF r.st = "settled" \/ r.incident # {} THEN "idle" ELSE "post")
  /\ UNCHANGED <<journalVars, lock, clock, ledgerVars, stray>>

PostAnswered(p) ==
  LET h == p[1] IN
  /\ pc[p] = "post"
  /\ ApplyPost(h)
  /\ To(p, CASE PostAnswer(h) = "done"    -> IF arg[p].overage > 0 THEN "overage" ELSE "final"
             [] PostAnswer(h) = "expired" -> "expired"
             [] OTHER                     -> "idle")
  /\ UNCHANGED <<journalVars, lock, clock, stray>>

(* The ledger's timeout came first: the overage's debt is reversed, and    *)
(* what the call cost is recorded as a late settlement.                    *)
SettlementExpired(p) ==
  LET h == p[1]
      i == arg[p]
      r == RecordLate(h, [row[h] EXCEPT !.st = "expired"], Actual(i))
  IN
  /\ pc[p] = "expired" /\ lock = None
  /\ \/ /\ Cas(h, "settling")
        /\ row' = [row EXCEPT ![h] = r]
        /\ debt' = debt - Fresh(h, "reversed", i.overage) + Fresh(h, "late", Actual(i))
        /\ applied' = applied \cup Marked(h, "reversed", i.overage)
                              \cup Marked(h, "late", Actual(i))
     \/ ~Cas(h, "settling") /\ UNCHANGED journalVars
  /\ To(p, "chargeLate")
  /\ UNCHANGED <<lock, clock, ledgerVars, stray>>

OverageAnswered(p) ==
  /\ pc[p] = "overage"
  /\ \/ ChargeLands(p[1], "overage") /\ To(p, "final")
     \/ ChargeRefused(p[1], "overage") /\ To(p, "chargeFailed")
  /\ UNCHANGED <<journalVars, lock, clock, stray>>

(* recordIncident(): the first one stays. *)
WithIncident(h, kind) == [row EXCEPT ![h].incident = IF @ = {} THEN {kind} ELSE @]

(* debt_charge_failed, of an overage or of a late settlement. *)
ChargeFailed(p) ==
  /\ pc[p] = "chargeFailed" /\ lock = None
  /\ row' = WithIncident(p[1], "debt_charge_failed")
  /\ To(p, "idle")
  /\ UNCHANGED <<applied, debt, lock, clock, ledgerVars, stray>>

(* finalTransition() *)
Moved(h, from, to) == IF Cas(h, from) THEN [row EXCEPT ![h].st = to] ELSE row

Finish(p, from, to) ==
  /\ lock = None
  /\ row' = Moved(p[1], from, to)
  /\ To(p, "idle")
  /\ UNCHANGED <<applied, debt, lock, clock, ledgerVars, stray>>

Settled(p) == pc[p] = "final" /\ Finish(p, "settling", "settled")

-----------------------------------------------------------------------------
(* settleLate(), chargeLate() and lateAnswer().                            *)
LateTx(p) ==
  LET h == p[1]
      r == RecordLate(h, row[h], Actual(arg[p]))
  IN
  /\ pc[p] = "lateTx" /\ lock = None
  /\ row' = [row EXCEPT ![h] = r]
  /\ debt' = IF r # row[h] THEN debt + Fresh(h, "late", Actual(arg[p])) ELSE debt
  /\ applied' = IF r # row[h] THEN applied \cup Marked(h, "late", Actual(arg[p])) ELSE applied
  /\ To(p, "chargeLate")
  /\ UNCHANGED <<lock, clock, ledgerVars, stray>>

(* A sweep that only charges has nothing to answer. *)
AfterLate(p) == IF arg[p] = None THEN "idle" ELSE "answer"

ChargeLateCheck(p) ==
  LET r == row[p[1]] IN
  /\ pc[p] = "chargeLate"
  /\ To(p, IF r.late = "recorded" /\ r.incident = {} THEN "late" ELSE AfterLate(p))
  /\ UNCHANGED <<journalVars, lock, clock, ledgerVars, stray>>

LateAnswered(p) ==
  /\ pc[p] = "late"
  /\ \/ ChargeLands(p[1], "late") /\ To(p, "markLate")
     \/ ChargeRefused(p[1], "late") /\ To(p, "chargeFailed")
  /\ UNCHANGED <<journalVars, lock, clock, stray>>

(* markLateCharged(), or recordLedgerChargedOnIncident(). *)
MarkLate(p) ==
  LET h == p[1] IN
  /\ pc[p] = "markLate" /\ lock = None
  /\ row' = [row EXCEPT ![h].late = IF @ = "recorded" /\ row[h].incident = {} THEN "charged" ELSE @,
                        ![h].incident = IF @ # {} THEN @ \cup {"charged_on_ledger"} ELSE @]
  /\ To(p, AfterLate(p))
  /\ UNCHANGED <<applied, debt, lock, clock, ledgerVars, stray>>

(* recordUnbilled() on a row that has an incident. *)
LateAnswer(p) ==
  LET h == p[1] IN
  /\ pc[p] = "answer" /\ lock = None
  /\ row' = [row EXCEPT ![h].incident = IF @ # {} THEN @ \cup {"unbilled"} ELSE @]
  /\ To(p, "idle")
  /\ UNCHANGED <<applied, debt, lock, clock, ledgerVars, stray>>

-----------------------------------------------------------------------------
(* release(): claims an open row, or resumes a voiding one. *)
ReleaseClaim(p) ==
  LET h == p[1] IN
  /\ p \in load.procs /\ p[2] = "release" /\ pc[p] = "idle" /\ lock = None
  /\ \/ Cas(h, "open") /\ row' = [row EXCEPT ![h].st = "voiding"]
     \/ row[h].st = "voiding" /\ UNCHANGED row
  /\ To(p, "void")
  /\ UNCHANGED <<applied, debt, lock, clock, ledgerVars, stray>>

VoidAnswered(p) ==
  LET answer == VoidAnswer(p[1]) IN
  /\ pc[p] \in {"void", "expiryVoid"}
  /\ ApplyVoid(p[1])
  /\ \/ /\ pc[p] = "void"
        /\ To(p, [done |-> "voidFinal", expired |-> "voidFinal",
                  not_found |-> "voidMissing", posted |-> "idle"][answer])
     \/ /\ pc[p] = "expiryVoid"
        /\ To(p, [done |-> "expiryFinal", expired |-> "expiryFinal",
                  not_found |-> "disagrees", posted |-> "disagrees"][answer])
  /\ UNCHANGED <<journalVars, lock, clock, stray>>

Voided(p) == pc[p] = "voidFinal" /\ Finish(p, "voiding", "voided")

(* voided_not_found is refused before the placement horizon. *)
VoidedNotFound(p) ==
  /\ pc[p] = "voidMissing"
  /\ \/ clock[p[1]] = 3 /\ Finish(p, "voiding", "voided")
     \/ /\ clock[p[1]] < 3 /\ lock = None
        /\ To(p, "idle")
        /\ UNCHANGED <<journalVars, lock, clock, ledgerVars, stray>>

-----------------------------------------------------------------------------
MutantInFlight(r) == r.incident = {} /\ r.st \in {"settling", "expiring"}

(* inFlight(), lateUncharged(): rows with an incident are left alone. *)
InFlight(r) == r.incident = {} /\ r.st \in {"settling", "voiding", "expiring"}

LateUncharged(r) == r.incident = {} /\ r.late = "recorded"

(* sweep(): claims an open row past its time, or resumes one in flight, or *)
(* a late settlement not charged yet.                                      *)
Sweep(p) ==
  LET h == p[1]
      r == row[h]
  IN
  /\ p \in load.procs /\ p[2] = "sweep" /\ pc[p] = "idle"
  /\ \/ /\ Cas(h, "open") /\ clock[h] >= 2 /\ lock = None
        /\ row' = [row EXCEPT ![h].st = "expiring"]
        /\ To(p, "expiryVoid")
     \/ /\ InFlight(r)
        /\ pc' = [pc EXCEPT ![p] =
                    [settling |-> "check", voiding |-> "void", expiring |-> "expiryVoid"][r.st]]
        /\ arg' = [arg EXCEPT ![p] = r.intent]
        /\ UNCHANGED row
     \/ /\ LateUncharged(r)
        /\ To(p, "chargeLate")
        /\ UNCHANGED row
  /\ UNCHANGED <<applied, debt, lock, clock, ledgerVars, stray>>

(* finishExpiry(): a ledger that says posted, or knows of no transfer, is   *)
(* an incident.                                                            *)
ExpiryFinished(p) ==
  LET h == p[1] IN
  /\ pc[p] \in {"expiryFinal", "disagrees"} /\ lock = None
  /\ row' = IF pc[p] = "disagrees" THEN WithIncident(h, "expiry_ledger_disagrees")
            ELSE Moved(h, "expiring", "expired")
  /\ To(p, "idle")
  /\ UNCHANGED <<applied, debt, lock, clock, ledgerVars, stray>>

-----------------------------------------------------------------------------
Reserve(h) == ReserveBegin(h) \/ ReserveCredit(h) \/ PlaceAnswered(h) \/ ReserveCommit(h)

Journal(p) ==
  \/ CompleteCheck(p) \/ SettlementExpired(p) \/ ChargeFailed(p) \/ Settled(p)
  \/ LateTx(p) \/ ChargeLateCheck(p) \/ MarkLate(p) \/ LateAnswer(p)
  \/ Voided(p) \/ VoidedNotFound(p) \/ ExpiryFinished(p)

Answered(p) == PostAnswered(p) \/ OverageAnswered(p) \/ LateAnswered(p) \/ VoidAnswered(p)

Ops == {"place", "post", "void", "overage", "late"}
Stray(h, o) == StrayApplied(h, o) \/ StrayLost(h, o)

Next ==
  /\ UNCHANGED load
  /\ \/ Crash
     \/ \E h \in Holds : \/ LedgerExpires(h) \/ Advance(h) \/ (\E o \in Ops : Stray(h, o))
                         \/ Reserve(h) \/ ReserveLost(h)
     \/ \E p \in Procs : \/ SettleClaim(p) \/ ReleaseClaim(p) \/ Sweep(p)
                         \/ Journal(p) \/ Answered(p) \/ TimedOut(p) \/ JournalBusy(p)

Spec == Init /\ [][Next]_vars

(* Time passes, abandoned calls end, a reserve() under way goes on, and    *)
(* the sweeper runs on its timer. Calls fail at will, until at last there  *)
(* is a time without crashes, missed deadlines and a busy journal.         *)
Fault == Crash \/ \E p \in Procs : TimedOut(p) \/ JournalBusy(p)

Sweeper(p) == Sweep(p) \/ Journal(p) \/ Answered(p)

(* The holds whose sweep the instance includes. *)
Swept == {h \in Holds : W(h) \in Procs}

Elapses(h) == Advance(h) \/ \E o \in Ops : Stray(h, o)

FairSpec ==
  /\ Spec
  /\ <>[][~Fault]_vars
  /\ \A h \in Swept : WF_vars(UNCHANGED load /\ Elapses(h))
  /\ WF_vars(UNCHANGED load /\ \E h \in Holds : pc[R(h)] # "idle" /\ Reserve(h))
  /\ \A h \in Swept : SF_vars(UNCHANGED load /\ Sweeper(W(h)))

-----------------------------------------------------------------------------
Pcs == {"idle", "credit", "placing", "placed", "unplaced", "check", "post", "overage",
        "chargeLate", "late", "void", "expiryVoid"} \cup TxPcs

(* Type correctness; the debt table's CHECK (amount >= 0), and the write   *)
(* lock belongs to the reserve() that is between its begin and its commit. *)
TypeOK ==
  /\ \A h \in Holds :
       /\ row[h].st \in {"none", "open", "settling", "settled", "voiding", "voided",
                         "expiring", "expired"}
       /\ row[h].intent \in Intents \cup {None}
       /\ row[h].late \in {"none", "recorded", "charged", "zero"}
       /\ (row[h].late = "zero" \/ row[h].late = "none") <=> row[h].lateAmount = 0
       /\ lock = h <=> pc[R(h)] \in {"credit", "placing", "placed", "unplaced"}
  /\ debt \in Nat /\ lock \in Holds \cup {None}
  /\ led \in [Holds -> {"none", "pending", "posted", "voided", "expired"}]
  /\ clock \in [Holds -> 0 .. 3] /\ pc \in [Procs -> Pcs]

(* A call is paid for once: an overage is charged on top of a posted hold, *)
(* a late settlement only in place of one, whatever was replayed,          *)
(* abandoned or expired in between.                                        *)
BilledOnce ==
  \A h \in Holds : /\ <<h, "overage">> \in charged => led[h] = "posted"
                   /\ <<h, "late">> \in charged => led[h] # "posted"

(* "Exactly one terminal", and the one the ledger agrees with: a settled   *)
(* hold was posted at its intent and its overage charged, an expired one   *)
(* is neither posted nor still pending, and one that was never settled is  *)
(* never posted, by an abandoned call of an earlier settlement either.     *)
TerminalAgrees ==
  \A h \in Holds :
    /\ row[h].st = "settled" => /\ led[h] = "posted" /\ posted[h] = row[h].intent.post
                                /\ row[h].intent.overage > 0 => <<h, "overage">> \in charged
    /\ row[h].st = "expired" => led[h] \in {"voided", "expired"}
    /\ row[h].st \notin {"settling", "settled"} => led[h] # "posted"

Part(h, role, entries, amount) == IF <<h, role>> \in entries THEN amount ELSE 0

(* What the journal's debt table says of one hold. *)
Owed(h) ==
  Part(h, "overage", applied, row[h].intent.overage)
    - Part(h, "reversed", applied, row[h].intent.overage)
    + Part(h, "late", applied, row[h].lateAmount)

(* What the ledger has charged of it beyond its post. *)
Billed(h) ==
  Part(h, "overage", charged, row[h].intent.overage)
    + Part(h, "late", charged, row[h].lateAmount)

AtRest(h) ==
  /\ row[h].st \in {"settled", "voided", "expired"}
  /\ row[h].late # "recorded" /\ row[h].incident = {}

(* Of every hold at rest the journal's debt is what the ledger charged.    *)
RestingAgrees == \A h \in Holds : AtRest(h) => Owed(h) = Billed(h)

(* The debt that the next reservation is judged by is what the holds have  *)
(* cost beyond their posts, of a hold at rest as the ledger charged it.    *)
DebtAgrees == debt = MapThenSumSet(Owed, Holds) /\ RestingAgrees

Admitted(h) == row[h].st \in {"open", "settling", "settled"}

(* A reservation is admitted only while the budget has room for it beside  *)
(* the holds and posts of the admitted ones and the whole debt.            *)
AdmittedWithinBudget ==
  [][\A h \in Holds : row[h].st = "none" /\ row'[h].st = "open" =>
       MapThenSumSet(Due, {g \in Holds : Admitted(g)})' + debt' <= Budget]_vars

(* Every hold comes to rest, and every late settlement recorded is         *)
(* charged, or there is an incident.                                       *)
Resolves ==
  \A h \in Swept :
    /\ row[h].st # "none" ~>
         (row[h].st \in {"settled", "voided", "expired"} \/ row[h].incident # {})
    /\ row[h].late = "recorded" ~> (row[h].late = "charged" \/ row[h].incident # {})
=============================================================================
