--------------------------- MODULE HoldEngineProofs ---------------------------
(***************************************************************************)
(* One bill per hold, one terminal the ledger agrees with, and a debt that *)
(* is what the holds owe: proofs about HoldEngine for any number of holds  *)
(* and of calls on each, any amounts and any mix of crashes, missed        *)
(* deadlines, refused charges and failed commits.                          *)
(*                                                                         *)
(* The invariant ties three things together for each hold: how far its row *)
(* got, what the ledger has applied, and what is still on its way, in a    *)
(* call or in an abandoned one that may yet land. The row only ever goes   *)
(* forward, and an answered transfer never changes again; so what a call   *)
(* was told stays true however long it waits to write it down.             *)
(***************************************************************************)
EXTENDS HoldEngine, TLAPS

USE HoldEngineAssumption DEF HoldEngineAssumption

Roles     == {"overage", "reversed", "late"}
States    == {"none", "open", "settling", "settled", "voiding", "voided", "expiring",
              "expired"}
Incidents == {"debt_charge_failed", "expiry_ledger_disagrees", "charged_on_ledger",
              "unbilled"}
Row == [st : States, intent : Intents \cup {None},
        late : {"none", "recorded", "charged", "zero"}, lateAmount : Nat,
        incident : SUBSET Incidents]

RowTypes    == row \in [Holds -> Row]
LedgerTypes == /\ led \in [Holds -> {"none", "pending", "posted", "voided", "expired"}]
               /\ posted \in [Holds -> 0 .. Amount]
CallTypes   == pc \in [Procs -> Pcs] /\ arg \in [Procs -> Intents \cup {None}]
Types       == RowTypes /\ LedgerTypes /\ CallTypes

Calls(h) == {p \in Procs : p[1] = h}

(* A settle has claimed the row, or the ledger's timeout has ended it.     *)
Claimed == {"settling", "settled", "expired"}

(* A late settlement is recorded only of a hold that expires, and a claim  *)
(* has an intent.                                                          *)
RowInv(h) ==
  /\ row[h].late # "none" => row[h].st \in {"expiring", "expired"}
  /\ row[h].st \in {"settling", "settled"} => row[h].intent \in Intents

(* The debt entries of a hold are those its row accounts for.              *)
DebtInv(h) ==
  /\ row[h].lateAmount = 0 <=> row[h].late \in {"none", "zero"}
  /\ <<h, "late">> \in applied <=> row[h].late \in {"recorded", "charged"}
  /\ row[h].late = "charged" => <<h, "late">> \in charged
  /\ <<h, "overage">> \in applied => row[h].st \in Claimed /\ row[h].intent \in Intents
  /\ row[h].st \in {"settling", "settled"} =>
       (<<h, "overage">> \in applied <=> row[h].intent.overage > 0)
  /\ <<h, "reversed">> \in applied <=> <<h, "overage">> \in applied /\ row[h].st = "expired"

(* What the ledger did to the hold is what its row stands for.             *)
LedgerInv(h) ==
  /\ led[h] = "posted" =>
       row[h].st \in {"settling", "settled"} /\ posted[h] = row[h].intent.post
  /\ row[h].st = "settled" =>
       led[h] = "posted" /\ (row[h].intent.overage > 0 => <<h, "overage">> \in charged)
  /\ row[h].st = "expired" => led[h] \in {"voided", "expired"}

ChargeInv(h) ==
  /\ <<h, "overage">> \in charged => led[h] = "posted"
  /\ <<h, "late">> \in charged => row[h].late # "none"

(* An abandoned call was made for the same reason as one that is waited for.*)
StrayInv(h) ==
  /\ <<h, "post">> \in stray => row[h].st \in Claimed
  /\ <<h, "overage">> \in stray => led[h] = "posted"
  /\ <<h, "late">> \in stray => row[h].late # "none"

(* What a call has been told, and goes by.                                 *)
Reserving == {"credit", "placing", "placed", "unplaced"}
CallInv(h, p) ==
  /\ pc[p] \in Reserving => p = R(h) /\ row[h].st = "none"
  /\ pc[p] \in {"check", "post", "overage", "final", "expired"} =>
       row[h].st \in Claimed /\ arg[p] = row[h].intent /\ arg[p] \in Intents
  /\ pc[p] = "lateTx" => arg[p] \in Intents
  /\ pc[p] \in {"overage", "final"} => led[h] = "posted"
  /\ pc[p] = "final" /\ arg[p].overage > 0 => <<h, "overage">> \in charged
  /\ pc[p] = "expired" => led[h] = "expired"
  /\ pc[p] \in {"late", "markLate"} => row[h].late # "none"
  /\ pc[p] = "markLate" => <<h, "late">> \in charged
  /\ pc[p] = "expiryFinal" => led[h] \in {"voided", "expired"}

HoldInv(h) ==
  /\ RowInv(h) /\ DebtInv(h) /\ LedgerInv(h) /\ ChargeInv(h) /\ StrayInv(h)
  /\ \A p \in Calls(h) : CallInv(h, p)

IInv == Types /\ \A h \in Holds : HoldInv(h)

-----------------------------------------------------------------------------
(* Whose hold a call is about.                                             *)
LEMMA CallFacts ==
  /\ \A p \in Procs : p[1] \in Holds /\ p \in Calls(p[1])
  /\ \A h \in Holds : R(h) \in Procs /\ R(h) \in Calls(h) /\ R(h)[1] = h
<1>1. \A p \in Procs : p[1] \in Holds
  OBVIOUS
<1>2. \A h \in Holds : R(h) \in Procs /\ R(h)[1] = h
  BY DEF R
<1>3. QED
  BY <1>1, <1>2 DEF Calls

(* What a step leaves alone of every hold but h.                           *)
Elsewhere(h) ==
  \A g \in Holds \ {h} :
    /\ row'[g] = row[g] /\ led'[g] = led[g] /\ posted'[g] = posted[g]
    /\ \A role \in Roles : /\ <<g, role>> \in applied' <=> <<g, role>> \in applied
                           /\ <<g, role>> \in charged' <=> <<g, role>> \in charged
    /\ \A o \in Ops : <<g, o>> \in stray' => <<g, o>> \in stray

(* The calls other than p stay where they are.                             *)
OthersStay(p) ==
  \A q \in Procs \ {p} : pc'[q] = pc[q] /\ arg'[q] = arg[q]

(* What a call was told about its hold stays true.                         *)
Grows(h) ==
  /\ row[h].st \in Claimed => row'[h].st \in Claimed /\ row'[h].intent = row[h].intent
  /\ row[h].late # "none" => row'[h].late # "none"
  /\ led[h] \in {"posted", "voided", "expired"} => led'[h] = led[h]
  /\ \A role \in Roles : <<h, role>> \in charged => <<h, role>> \in charged'

LEMMA OtherCallKeeps ==
  ASSUME NEW h, NEW q, CallInv(h, q), Grows(h), pc'[q] = pc[q], arg'[q] = arg[q],
         pc[q] \in Reserving => row'[h].st = "none"
  PROVE  CallInv(h, q)'
<1>1. /\ pc'[q] \in Reserving => q = R(h)' /\ row'[h].st = "none"
      /\ pc'[q] \in {"check", "post", "overage", "final", "expired"} =>
           row'[h].st \in Claimed /\ arg'[q] = row'[h].intent /\ arg'[q] \in Intents
      /\ pc'[q] = "lateTx" => arg'[q] \in Intents
  BY DEF CallInv, Grows, R
<1>2. /\ pc'[q] \in {"overage", "final"} => led'[h] = "posted"
      /\ pc'[q] = "expired" => led'[h] = "expired"
      /\ pc'[q] \in {"late", "markLate"} => row'[h].late # "none"
      /\ pc'[q] = "expiryFinal" => led'[h] \in {"voided", "expired"}
  BY DEF CallInv, Grows
<1>3. /\ pc'[q] = "final" /\ arg'[q].overage > 0 => <<h, "overage">> \in charged'
      /\ pc'[q] = "markLate" => <<h, "late">> \in charged'
  BY DEF CallInv, Grows, Roles
<1>4. QED
  BY <1>1, <1>2, <1>3 DEF CallInv

(* A step of call p, about its hold only.                                  *)
LEMMA StepKeeps ==
  ASSUME IInv, NEW h \in Holds, NEW p \in Calls(h), Types', OthersStay(p), Elsewhere(h), Grows(h),
         row'[h].st = "none" \/ row[h].st # "none" \/ p = R(h),
         RowInv(h)', DebtInv(h)', LedgerInv(h)', ChargeInv(h)', StrayInv(h)',
         CallInv(h, p)'
  PROVE  IInv'
<1>1. ASSUME NEW g \in Holds \ {h}
      PROVE  HoldInv(g)'
  <2>1. HoldInv(g) /\ p \in Procs /\ \A q \in Calls(g) : q \in Procs \ {p}
    BY DEF IInv, Calls
  <2>2. /\ row'[g] = row[g] /\ led'[g] = led[g] /\ posted'[g] = posted[g]
        /\ \A role \in Roles : /\ <<g, role>> \in applied' <=> <<g, role>> \in applied
                               /\ <<g, role>> \in charged' <=> <<g, role>> \in charged
        /\ \A o \in Ops : <<g, o>> \in stray' => <<g, o>> \in stray
    BY DEF Elsewhere
  <2>3. RowInv(g)' /\ LedgerInv(g)'
    BY <2>1, <2>2 DEF HoldInv, RowInv, LedgerInv, Roles
  <2>4. DebtInv(g)' /\ ChargeInv(g)'
    BY <2>1, <2>2 DEF HoldInv, DebtInv, ChargeInv, Roles
  <2>5. StrayInv(g)'
    BY <2>1, <2>2 DEF HoldInv, StrayInv, Ops
  <2>6. Grows(g)
    BY <2>2 DEF Grows
  <2>7. ASSUME NEW q \in Calls(g)
        PROVE  CallInv(g, q)'
    <3>1. CallInv(g, q) /\ pc'[q] = pc[q] /\ arg'[q] = arg[q]
      BY <2>1 DEF HoldInv, OthersStay
    <3>2. pc[q] \in Reserving => row'[g].st = "none"
      BY <3>1, <2>2 DEF CallInv
    <3>3. QED
      BY <2>6, <3>1, <3>2, OtherCallKeeps
  <2>8. Calls(g)' = Calls(g)
    BY DEF Calls
  <2>9. QED
    BY <2>3, <2>4, <2>5, <2>7, <2>8 DEF HoldInv
<1>2. HoldInv(h)'
  <2>1. HoldInv(h) /\ h \in Holds
    BY DEF IInv
  <2>2. ASSUME NEW q \in Calls(h), q # p
        PROVE  CallInv(h, q)'
    <3>1. CallInv(h, q) /\ pc'[q] = pc[q] /\ arg'[q] = arg[q]
      BY <2>1, <2>2 DEF HoldInv, OthersStay, Calls
    <3>2. pc[q] \in Reserving => row'[h].st = "none"
      BY <2>2, <3>1 DEF CallInv
    <3>3. QED
      BY <3>1, <3>2, OtherCallKeeps
  <2>3. Calls(h)' = Calls(h)
    BY DEF Calls
  <2>4. QED
    BY <2>2, <2>3 DEF HoldInv
<1>3. QED
  BY <1>1, <1>2 DEF IInv

(* A call that changes neither the journal nor the ledger; it may abandon  *)
(* the call it waits for.                                                  *)
LEMMA QuietKeeps ==
  ASSUME IInv, NEW h \in Holds, NEW p \in Calls(h), UNCHANGED <<journalVars, led, posted, charged>>,
         CallTypes', OthersStay(p), CallInv(h, p)' \/ UNCHANGED <<pc, arg>>,
         stray' \subseteq stray \cup ({h} \X Waiting(p))
  PROVE  IInv'
<1>1. Types /\ HoldInv(h) /\ CallInv(h, p) /\ h \in Holds
  BY DEF IInv, HoldInv
<1>2. UNCHANGED <<row, applied, led, posted, charged>>
  BY DEF journalVars
<1>3. Types'
  BY <1>1, <1>2 DEF Types, RowTypes, LedgerTypes
<1>4. Elsewhere(h) /\ Grows(h)
  BY <1>2 DEF Elsewhere, Grows
<1>5. RowInv(h)' /\ DebtInv(h)' /\ LedgerInv(h)' /\ ChargeInv(h)'
  BY <1>1, <1>2 DEF HoldInv, RowInv, DebtInv, LedgerInv, ChargeInv
<1>6. StrayInv(h)'
  <2>1. /\ "post" \in Waiting(p) => row[h].st \in Claimed
        /\ "overage" \in Waiting(p) => led[h] = "posted"
        /\ "late" \in Waiting(p) => row[h].late # "none"
    BY <1>1 DEF CallInv, Waiting
  <2>2. \A o : <<h, o>> \in stray' => <<h, o>> \in stray \/ o \in Waiting(p)
    OBVIOUS
  <2>3. QED
    BY <1>1, <1>2, <2>1, <2>2 DEF HoldInv, StrayInv
<1>7. CallInv(h, p)'
  <2>1. pc[p] \in Reserving => row'[h].st = "none"
    BY <1>1, <1>2 DEF CallInv
  <2>2. QED
    BY <1>1, <1>4, <2>1, OtherCallKeeps
<1>8. QED
  BY <1>2, <1>3, <1>4, <1>5, <1>6, <1>7, StepKeeps

(* What the ledger may do to a hold, and why.                              *)
Applies(h) ==
  \/ ApplyPlace(h)
  \/ ApplyPost(h) /\ row[h].st \in Claimed
  \/ ApplyVoid(h)
  \/ ChargeLands(h, "overage") /\ led[h] = "posted"
  \/ ChargeLands(h, "late") /\ row[h].late # "none"
  \/ led[h] = "pending" /\ led' = [led EXCEPT ![h] = "expired"] /\ UNCHANGED <<posted, charged>>
  \/ UNCHANGED <<led, posted, charged>>

LEMMA AppliesFacts ==
  ASSUME IInv, NEW h \in Holds, Applies(h)
  PROVE  /\ LedgerTypes'
         /\ \A g \in Holds \ {h} : led'[g] = led[g] /\ posted'[g] = posted[g]
         /\ \A g \in Holds, role \in Roles :
              \/ <<g, role>> \in charged' <=> <<g, role>> \in charged
              \/ g = h /\ role = "overage" /\ led[h] = "posted"
              \/ g = h /\ role = "late" /\ row[h].late # "none"
         /\ charged \subseteq charged'
         /\ led[h] \in {"posted", "voided", "expired"} =>
              led'[h] = led[h] /\ posted'[h] = posted[h]
         /\ led'[h] = "posted" /\ led[h] # "posted" =>
              row[h].st = "settling" /\ posted'[h] = row[h].intent.post
<1>1. Types /\ HoldInv(h)
  BY DEF IInv
<1>2. CASE ApplyPost(h) /\ row[h].st \in Claimed
  <2>1. led[h] = "pending" => /\ row[h].st = "settling" /\ row[h].intent \in Intents
                              /\ row[h].intent.post \in 0 .. Amount
    BY <1>1, <1>2 DEF HoldInv, RowInv, LedgerInv, Claimed
  <2>2. QED
    BY <1>1, <1>2, <2>1 DEF ApplyPost, Types, LedgerTypes
<1>3. CASE ApplyPlace(h)
  BY <1>1, <1>3 DEF ApplyPlace, CanPlace, Types, LedgerTypes
<1>4. CASE ApplyVoid(h)
  BY <1>1, <1>4 DEF ApplyVoid, Types, LedgerTypes
<1>5. ASSUME NEW role \in {"overage", "late"}, ChargeLands(h, role),
             role = "overage" => led[h] = "posted", role = "late" => row[h].late # "none"
      PROVE  /\ UNCHANGED <<led, posted>> /\ charged \subseteq charged'
             /\ \A g \in Holds, r \in Roles :
                  \/ <<g, r>> \in charged' <=> <<g, r>> \in charged
                  \/ g = h /\ r = "overage" /\ led[h] = "posted"
                  \/ g = h /\ r = "late" /\ row[h].late # "none"
  BY <1>5 DEF ChargeLands
<1>6. CASE /\ led[h] = "pending" /\ led' = [led EXCEPT ![h] = "expired"]
           /\ UNCHANGED <<posted, charged>>
  BY <1>1, <1>6 DEF Types, LedgerTypes
<1>7. CASE UNCHANGED <<led, posted, charged>>
  BY <1>1, <1>7 DEF Types, LedgerTypes
<1>8. UNCHANGED <<led, posted>> => LedgerTypes'
  BY <1>1 DEF Types, LedgerTypes
<1>9. QED
  BY <1>2, <1>3, <1>4, <1>5, <1>6, <1>7, <1>8 DEF Applies

(* A call that changes the ledger only, or an abandoned one that lands.    *)
LEMMA LedgerKeeps ==
  ASSUME IInv, NEW h \in Holds, NEW p \in Calls(h), UNCHANGED journalVars, Applies(h),
         CallTypes', OthersStay(p), CallInv(h, p)' \/ UNCHANGED <<pc, arg>>,
         stray' \subseteq stray
  PROVE  IInv'
<1>1. Types /\ HoldInv(h) /\ h \in Holds
  BY DEF IInv
<1>2. UNCHANGED <<row, applied>>
  BY DEF journalVars
<1>3. /\ LedgerTypes'
      /\ \A g \in Holds \ {h} : led'[g] = led[g] /\ posted'[g] = posted[g]
      /\ \A g \in Holds, role \in Roles :
           \/ <<g, role>> \in charged' <=> <<g, role>> \in charged
           \/ g = h /\ role = "overage" /\ led[h] = "posted"
           \/ g = h /\ role = "late" /\ row[h].late # "none"
      /\ charged \subseteq charged'
      /\ led[h] \in {"posted", "voided", "expired"} =>
           led'[h] = led[h] /\ posted'[h] = posted[h]
      /\ led'[h] = "posted" /\ led[h] # "posted" =>
           row[h].st = "settling" /\ posted'[h] = row[h].intent.post
  BY <1>1, AppliesFacts
<1>4. Types'
  BY <1>1, <1>2, <1>3 DEF Types, RowTypes
<1>5. Elsewhere(h)
  BY <1>2, <1>3 DEF Elsewhere
<1>6. Grows(h)
  BY <1>2, <1>3 DEF Grows
<1>7. RowInv(h)' /\ DebtInv(h)'
  BY <1>1, <1>2, <1>3 DEF HoldInv, RowInv, DebtInv
<1>8. LedgerInv(h)'
  BY <1>1, <1>2, <1>3 DEF HoldInv, LedgerInv, Types, LedgerTypes
<1>9. ChargeInv(h)'
  BY <1>1, <1>2, <1>3 DEF HoldInv, ChargeInv, Roles
<1>10. StrayInv(h)'
  BY <1>1, <1>2, <1>3 DEF HoldInv, StrayInv
<1>11. CallInv(h, p)'
  <2>1. CallInv(h, p) /\ (pc[p] \in Reserving => row'[h].st = "none")
    BY <1>1, <1>2 DEF HoldInv, CallInv
  <2>2. QED
    BY <1>6, <2>1, OtherCallKeeps
<1>12. QED
  BY <1>2, <1>4, <1>5, <1>6, <1>7, <1>8, <1>9, <1>10, <1>11, StepKeeps

(* A transaction of the journal: the row becomes r, the debt table gets    *)
(* the entries new.                                                        *)
LEMMA JournalKeeps ==
  ASSUME IInv, NEW h \in Holds, NEW p \in Calls(h), NEW r \in Row,
         NEW new, new \subseteq {h} \X Roles,
         row' = [row EXCEPT ![h] = r], applied' = applied \cup new,
         UNCHANGED <<led, posted, charged, stray>>,
         row[h].st \in Claimed => r.st \in Claimed /\ r.intent = row[h].intent,
         row[h].late # "none" => r.late # "none",
         r.st = "none" \/ row[h].st # "none" \/ p = R(h),
         CallTypes', OthersStay(p), CallInv(h, p)',
         RowInv(h)', DebtInv(h)', LedgerInv(h)'
  PROVE  IInv'
<1>1. Types /\ HoldInv(h) /\ h \in Holds
  BY DEF IInv
<1>2. row'[h] = r /\ \A g \in Holds \ {h} : row'[g] = row[g]
  BY <1>1 DEF Types, RowTypes
<1>3. Types'
  BY <1>1 DEF Types, RowTypes, LedgerTypes
<1>4. Elsewhere(h)
  BY <1>2 DEF Elsewhere
<1>5. Grows(h)
  BY <1>2 DEF Grows
<1>6. ChargeInv(h)' /\ StrayInv(h)'
  BY <1>1, <1>2 DEF HoldInv, ChargeInv, StrayInv
<1>7. QED
  BY <1>2, <1>3, <1>4, <1>5, <1>6, StepKeeps

(* Where a call goes.                                                      *)
LEMMA ToFacts ==
  ASSUME CallTypes, NEW p \in Procs, NEW where \in Pcs, To(p, where)
  PROVE  /\ CallTypes' /\ OthersStay(p) /\ pc'[p] = where
         /\ where # "idle" => arg'[p] = arg[p]
  BY DEF CallTypes, To, OthersStay

USE DEF journalVars, ledgerVars

-----------------------------------------------------------------------------
(* The ledger, time and faults.                                            *)
LEMMA LedgerExpiresKeeps ==
  ASSUME IInv, NEW h \in Holds, LedgerExpires(h)
  PROVE  IInv'
<1>1. Applies(h)
  BY DEF Applies, LedgerExpires
<1>2. CallTypes' /\ OthersStay(R(h))
  BY DEF IInv, Types, CallTypes, OthersStay, LedgerExpires
<1>3. QED
  BY <1>1, <1>2, LedgerKeeps, CallFacts DEF LedgerExpires

LEMMA StrayKeeps ==
  ASSUME IInv, NEW h \in Holds, NEW o \in Ops, Stray(h, o)
  PROVE  IInv'
<1>1. StrayInv(h)
  BY DEF IInv, HoldInv
<1>2. CallTypes' /\ OthersStay(R(h)) /\ UNCHANGED <<journalVars, pc, arg>> /\ stray' \subseteq stray
  BY DEF IInv, Types, CallTypes, OthersStay, Stray, StrayApplied, StrayLost
<1>3. Applies(h)
  BY <1>1 DEF Applies, StrayInv, Stray, StrayApplied, StrayLost
<1>4. QED
  BY <1>2, <1>3, LedgerKeeps, CallFacts

LEMMA AdvanceKeeps ==
  ASSUME IInv, NEW h \in Holds, Advance(h)
  PROVE  IInv'
<1>1. CallTypes' /\ OthersStay(R(h))
  BY DEF IInv, Types, CallTypes, OthersStay, Advance
<1>2. QED
  BY <1>1, QuietKeeps, CallFacts DEF Advance

LEMMA TimedOutKeeps ==
  ASSUME IInv, NEW p \in Procs, TimedOut(p)
  PROVE  IInv'
<1> DEFINE h == p[1]
<1> DEFINE where == IF pc[p] = "placing" THEN "unplaced" ELSE "idle"
<1>1. CallTypes /\ h \in Holds /\ p \in Calls(h) /\ CallInv(h, p) /\ where \in Pcs
  BY CallFacts DEF IInv, HoldInv, Types, Pcs
<1>2. CallTypes' /\ OthersStay(p) /\ pc'[p] = where
  BY <1>1, ToFacts DEF TimedOut
<1>3. CallInv(h, p)'
  BY <1>1, <1>2 DEF CallInv, TimedOut, Reserving, R
<1>4. QED
  BY <1>1, <1>2, <1>3, QuietKeeps DEF TimedOut

LEMMA JournalBusyKeeps ==
  ASSUME IInv, NEW p \in Procs, JournalBusy(p)
  PROVE  IInv'
<1> DEFINE h == p[1]
<1>1. CallTypes /\ h \in Holds /\ p \in Calls(h) /\ "idle" \in Pcs
  BY CallFacts DEF IInv, Types, Pcs
<1>2. CallTypes' /\ OthersStay(p) /\ pc'[p] = "idle"
  BY <1>1, ToFacts DEF JournalBusy
<1>3. CallInv(h, p)'
  BY <1>2 DEF CallInv, Reserving
<1>4. QED
  BY <1>1, <1>2, <1>3, QuietKeeps DEF JournalBusy

(* A crash ends every call at once; those that waited are strays.          *)
LEMMA CrashKeeps ==
  ASSUME IInv, Crash
  PROVE  IInv'
<1>1. Types /\ UNCHANGED <<row, applied, led, posted, charged>>
  BY DEF IInv, Crash
<1>2. Types' /\ \A p \in Procs : pc'[p] = "idle"
  BY <1>1 DEF Types, RowTypes, LedgerTypes, CallTypes, Crash, Pcs
<1>3. ASSUME NEW h \in Holds
      PROVE  HoldInv(h)'
  <2>1. HoldInv(h)
    BY DEF IInv
  <2>2. RowInv(h)' /\ DebtInv(h)' /\ LedgerInv(h)' /\ ChargeInv(h)'
    BY <1>1, <2>1 DEF HoldInv, RowInv, DebtInv, LedgerInv, ChargeInv
  <2>3. \A p \in Calls(h)' : CallInv(h, p)'
    BY <1>2 DEF CallInv, Reserving, Calls
  <2>4. ASSUME NEW o \in Ops, <<h, o>> \in stray', <<h, o>> \notin stray
        PROVE  \E p \in Calls(h) : o \in Waiting(p)
    <3>1. PICK p \in Procs : <<h, o>> \in {p[1]} \X Waiting(p)
      BY <2>4 DEF Crash
    <3>2. QED
      BY <3>1 DEF Calls
  <2>5. \A p \in Calls(h) : /\ "post" \in Waiting(p) => row[h].st \in Claimed
                            /\ "overage" \in Waiting(p) => led[h] = "posted"
                            /\ "late" \in Waiting(p) => row[h].late # "none"
    BY <2>1 DEF HoldInv, CallInv, Waiting
  <2>6. StrayInv(h)'
    BY <1>1, <2>1, <2>4, <2>5 DEF HoldInv, StrayInv, Ops
  <2>7. QED
    BY <2>2, <2>3, <2>6 DEF HoldInv
<1>4. QED
  BY <1>2, <1>3 DEF IInv

-----------------------------------------------------------------------------
(* reserve().                                                              *)
LEMMA ReserveKeeps ==
  ASSUME IInv, NEW h \in Holds, Reserve(h) \/ ReserveLost(h)
  PROVE  IInv'
<1> DEFINE p == R(h)
<1>1. /\ Types /\ HoldInv(h) /\ p \in Procs /\ p \in Calls(h) /\ CallInv(h, p)
      /\ \A x \in {"idle", "credit", "placing", "placed", "unplaced"} : x \in Pcs
  BY CallFacts DEF IInv, HoldInv, Pcs
<1>2. ASSUME NEW x \in Reserving \cup {"idle"}, To(p, x), row[h].st = "none",
             UNCHANGED <<journalVars, led, posted, charged, stray>>
      PROVE  IInv'
  <2>1. CallTypes' /\ OthersStay(p) /\ pc'[p] = x
    BY <1>1, <1>2, ToFacts DEF Types, Reserving
  <2>2. CallInv(h, p)'
    BY <1>2, <2>1 DEF CallInv, Reserving, R
  <2>3. QED
    BY <1>1, <1>2, <2>1, <2>2, QuietKeeps
<1>3. CASE ReserveBegin(h)
  BY <1>2, <1>3 DEF ReserveBegin, Reserving
<1>4. CASE ReserveCredit(h)
  <2>1. row[h].st = "none" /\ UNCHANGED <<journalVars, ledgerVars, stray>>
    BY <1>1, <1>4 DEF CallInv, Reserving, ReserveCredit
  <2>2. \E x \in {"idle", "placing", "unplaced"} : To(p, x)
    BY <1>4 DEF ReserveCredit
  <2>3. QED
    BY <1>2, <2>1, <2>2 DEF Reserving
<1>5. CASE ReserveLost(h)
  <2>1. row[h].st = "none" /\ UNCHANGED <<journalVars, ledgerVars, stray>> /\ To(p, "idle")
    BY <1>1, <1>5 DEF CallInv, Reserving, ReserveLost
  <2>2. QED
    BY <1>2, <2>1
<1>6. CASE PlaceAnswered(h)
  <2>1. PICK x \in {"placed", "unplaced"} : To(p, x)
    BY <1>6 DEF PlaceAnswered
  <2>2. CallTypes' /\ OthersStay(p) /\ pc'[p] = x
    BY <1>1, <2>1, ToFacts DEF Types
  <2>3. row[h].st = "none" /\ UNCHANGED <<journalVars, stray>> /\ Applies(h)
    BY <1>1, <1>6 DEF CallInv, Reserving, PlaceAnswered, Applies
  <2>4. CallInv(h, p)'
    BY <2>2, <2>3 DEF CallInv, Reserving, R
  <2>5. QED
    BY <1>1, <2>2, <2>3, <2>4, LedgerKeeps
<1>7. CASE ReserveCommit(h)
  <2>1. PICK s \in {"open", "voiding"} : row' = [row EXCEPT ![h].st = s]
    BY <1>7 DEF ReserveCommit
  <2>2. /\ row[h].st = "none" /\ To(p, "idle")
        /\ UNCHANGED <<applied, debt, led, posted, charged, stray>>
    BY <1>1, <1>7 DEF CallInv, Reserving, ReserveCommit
  <2>3. CallTypes' /\ OthersStay(p) /\ pc'[p] = "idle"
    BY <1>1, <2>2, ToFacts DEF Types
  <2>4. CallInv(h, p)'
    BY <2>3 DEF CallInv, Reserving
  <2> DEFINE r == [row[h] EXCEPT !.st = s]
  <2>5. /\ r \in Row /\ r.st = s /\ r.late = row[h].late /\ r.lateAmount = row[h].lateAmount
        /\ row' = [row EXCEPT ![h] = r] /\ row'[h] = r
    BY <1>1, <2>1 DEF Types, RowTypes, Row, States
  <2>6. RowInv(h)' /\ DebtInv(h)' /\ LedgerInv(h)'
    BY <1>1, <2>2, <2>5 DEF HoldInv, RowInv, DebtInv, LedgerInv, Claimed
  <2>7. applied' = applied \cup {}
    BY <2>2
  <2>8. QED
    BY <1>1, <2>2, <2>3, <2>4, <2>5, <2>6, <2>7, JournalKeeps DEF Claimed
<1>8. QED
  BY <1>3, <1>4, <1>5, <1>6, <1>7 DEF Reserve

(* At these places a call goes by nothing it was told.                     *)
Free == {"idle", "chargeLate", "chargeFailed", "void", "expiryVoid", "voidFinal",
         "voidMissing", "disagrees", "answer"}

LEMMA FreeFacts ==
  ASSUME NEW h, NEW p, pc'[p] \in Free
  PROVE  CallInv(h, p)'
  BY DEF CallInv, Free, Reserving

LEMMA FreePcs == Free \subseteq Pcs
  BY DEF Free, Pcs, TxPcs

(* recordLate() records a late settlement of an expiring hold, once.       *)
LEMMA RecordLateFacts ==
  ASSUME NEW h, NEW r \in Row, NEW amount \in Nat
  PROVE  LET s == RecordLate(h, r, amount) IN
         /\ s \in Row /\ s.st = r.st /\ s.intent = r.intent /\ s.incident = r.incident
         /\ \/ s = r
            \/ /\ s # r /\ r.late = "none" /\ r.st \in {"expiring", "expired"}
               /\ s.late = (IF amount > 0 THEN "recorded" ELSE "zero") /\ s.lateAmount = amount
         /\ r.late = "none" /\ r.incident = {} /\ r.st \in {"expiring", "expired"} => s # r
  BY DEF RecordLate, Row

-----------------------------------------------------------------------------
(* settle().                                                               *)
LEMMA SettleClaimKeeps ==
  ASSUME IInv, load \in Loads, NEW p \in Procs, SettleClaim(p)
  PROVE  IInv'
<1> DEFINE h == p[1]
<1>1. /\ Types /\ HoldInv(h) /\ h \in Holds /\ p \in Calls(h) /\ CallInv(h, p)
      /\ row[h] \in Row
  BY CallFacts DEF IInv, HoldInv, Types, RowTypes
<1>2. OthersStay(p) /\ UNCHANGED <<led, posted, charged, stray>>
  BY <1>1 DEF SettleClaim, OthersStay, Types, CallTypes
<1>3. \A x \in {"check", "lateTx"} : x \in Pcs
  BY DEF Pcs, TxPcs
<1>4. ASSUME NEW i \in Intents, Cas(h, "open"),
             row' = [row EXCEPT ![h].st = "settling", ![h].intent = i],
             applied' = applied \cup Marked(h, "overage", i.overage),
             pc' = [pc EXCEPT ![p] = "check"], arg' = [arg EXCEPT ![p] = i]
      PROVE  IInv'
  <2> DEFINE r == [row[h] EXCEPT !.st = "settling", !.intent = i]
  <2>1. /\ r \in Row /\ r.st = "settling" /\ r.intent = i
        /\ r.late = row[h].late /\ r.lateAmount = row[h].lateAmount
        /\ row' = [row EXCEPT ![h] = r] /\ row'[h] = r
    BY <1>1, <1>4 DEF Types, RowTypes, Row, States
  <2>2. CallTypes' /\ pc'[p] = "check" /\ arg'[p] = i
    BY <1>1, <1>3, <1>4 DEF Types, CallTypes
  <2>3. CallInv(h, p)'
    BY <2>1, <2>2 DEF CallInv, Claimed, Reserving
  <2>4. row[h].st = "open" /\ row[h].late = "none"
    BY <1>1, <1>4 DEF Cas, HoldInv, RowInv
  <2>5. RowInv(h)' /\ LedgerInv(h)'
    BY <1>1, <1>2, <2>1, <2>4 DEF HoldInv, RowInv, LedgerInv
  <2>6. Marked(h, "overage", i.overage) = IF i.overage > 0 THEN {<<h, "overage">>} ELSE {}
    BY DEF Marked
  <2>7. DebtInv(h)'
    <3>1. row'[h].lateAmount = 0 <=> row'[h].late \in {"none", "zero"}
      BY <1>1, <2>1 DEF HoldInv, DebtInv
    <3>2. /\ <<h, "late">> \in applied' <=> row'[h].late \in {"recorded", "charged"}
          /\ row'[h].late = "charged" => <<h, "late">> \in charged'
      <4>1. row'[h].late = "none" /\ <<h, "late">> \notin applied
        BY <1>1, <2>1, <2>4 DEF HoldInv, DebtInv
      <4>2. <<h, "late">> \notin applied'
        BY <1>4, <2>6, <4>1
      <4>3. QED
        BY <4>1, <4>2
    <3>3. <<h, "overage">> \in applied' <=> i.overage > 0
      BY <1>1, <1>4, <2>4, <2>6 DEF HoldInv, DebtInv, Claimed
    <3>4. <<h, "reversed">> \notin applied'
      BY <1>1, <1>4, <2>4, <2>6 DEF HoldInv, DebtInv
    <3>5. QED
      BY <2>1, <3>1, <3>2, <3>3, <3>4, ZenonT(30) DEF DebtInv, Claimed
  <2>8. Marked(h, "overage", i.overage) \subseteq {h} \X Roles
    BY <2>6 DEF Roles
  <2>9. row[h].st \notin Claimed /\ row[h].late = r.late
    BY <2>1, <2>4 DEF Claimed
  <2>10. QED
    BY <1>1, <1>2, <1>4, <2>1, <2>2, <2>3, <2>4, <2>5, <2>7, <2>8, <2>9, JournalKeeps
<1>5. ASSUME row[h].st = "settling", UNCHANGED journalVars,
             pc' = [pc EXCEPT ![p] = "check"], arg' = [arg EXCEPT ![p] = row[h].intent]
      PROVE  IInv'
  <2>1. row[h].intent \in Intents
    BY <1>1, <1>5 DEF HoldInv, RowInv
  <2>2. CallTypes' /\ pc'[p] = "check" /\ arg'[p] = row[h].intent
    BY <1>1, <1>3, <1>5, <2>1 DEF Types, CallTypes
  <2>3. CallInv(h, p)'
    BY <1>5, <2>1, <2>2 DEF CallInv, Claimed, Reserving
  <2>4. QED
    BY <1>1, <1>2, <1>5, <2>2, <2>3, QuietKeeps
<1>6. ASSUME NEW i \in Intents, UNCHANGED journalVars,
             pc' = [pc EXCEPT ![p] = "lateTx"], arg' = [arg EXCEPT ![p] = i]
      PROVE  IInv'
  <2>1. CallTypes' /\ pc'[p] = "lateTx" /\ arg'[p] = i
    BY <1>1, <1>3, <1>6 DEF Types, CallTypes
  <2>2. CallInv(h, p)'
    BY <2>1 DEF CallInv, Reserving
  <2>3. QED
    BY <1>1, <1>2, <1>6, <2>1, <2>2, QuietKeeps
<1>7. load.intents \subseteq Intents
  OBVIOUS
<1>8. QED
  BY <1>4, <1>5, <1>6, <1>7 DEF SettleClaim

LEMMA CompleteCheckKeeps ==
  ASSUME IInv, NEW p \in Procs, CompleteCheck(p)
  PROVE  IInv'
<1> DEFINE h == p[1]
<1>1. /\ Types /\ HoldInv(h) /\ h \in Holds /\ p \in Calls(h) /\ CallInv(h, p)
      /\ row[h] \in Row
  BY CallFacts DEF IInv, HoldInv, Types, RowTypes
<1>2. PICK x \in {"idle", "post"} : To(p, x)
  BY DEF CompleteCheck
<1>3. CallTypes' /\ OthersStay(p) /\ pc'[p] = x /\ (x # "idle" => arg'[p] = arg[p])
  BY <1>1, <1>2, ToFacts DEF Types, Pcs
<1>4. CallInv(h, p)'
  BY <1>1, <1>3 DEF CallInv, CompleteCheck, Reserving
<1>5. QED
  BY <1>1, <1>3, <1>4, QuietKeeps DEF CompleteCheck

LEMMA PostAnsweredKeeps ==
  ASSUME IInv, NEW p \in Procs, PostAnswered(p)
  PROVE  IInv'
<1> DEFINE h == p[1]
<1>1. /\ Types /\ HoldInv(h) /\ h \in Holds /\ p \in Calls(h) /\ CallInv(h, p)
      /\ row[h] \in Row
  BY CallFacts DEF IInv, HoldInv, Types, RowTypes
<1>2. PICK x \in {"overage", "final", "expired", "idle"} :
        /\ To(p, x)
        /\ x \in {"overage", "final"} => PostAnswer(h) = "done"
        /\ x = "final" => ~(arg[p].overage > 0)
        /\ x = "expired" => PostAnswer(h) = "expired"
  BY DEF PostAnswered
<1>3. CallTypes' /\ OthersStay(p) /\ pc'[p] = x /\ (x # "idle" => arg'[p] = arg[p])
  BY <1>1, <1>2, ToFacts DEF Types, Pcs, TxPcs
<1>4. /\ pc[p] = "post" /\ ApplyPost(h) /\ UNCHANGED <<journalVars, stray>>
      /\ row[h].st \in Claimed /\ arg[p] = row[h].intent /\ arg[p] \in Intents
  BY <1>1 DEF CallInv, PostAnswered
<1>5. /\ PostAnswer(h) = "done" => led[h] \in {"pending", "posted"}
      /\ PostAnswer(h) = "expired" => led[h] = "expired"
  BY <1>1 DEF PostAnswer, Types, LedgerTypes
<1>6. /\ led[h] \in {"pending", "posted"} => led'[h] = "posted"
      /\ led[h] = "expired" => led'[h] = "expired"
  BY <1>1, <1>4 DEF ApplyPost, Types, LedgerTypes
<1>7. CallInv(h, p)'
  BY <1>2, <1>3, <1>4, <1>5, <1>6 DEF CallInv, Reserving
<1>8. Applies(h)
  BY <1>4 DEF Applies
<1>9. QED
  BY <1>1, <1>3, <1>4, <1>7, <1>8, LedgerKeeps

LEMMA SettlementExpiredKeeps ==
  ASSUME IInv, NEW p \in Procs, SettlementExpired(p)
  PROVE  IInv'
<1> DEFINE h == p[1]
<1>1. /\ Types /\ HoldInv(h) /\ h \in Holds /\ p \in Calls(h) /\ CallInv(h, p)
      /\ row[h] \in Row
  BY CallFacts DEF IInv, HoldInv, Types, RowTypes
<1> DEFINE i == arg[p]
<1>2. /\ i \in Intents /\ i = row[h].intent /\ i.post \in Nat /\ i.overage \in Nat
      /\ row[h].st \in Claimed /\ led[h] = "expired" /\ Actual(i) \in Nat
  BY <1>1 DEF CallInv, SettlementExpired, Actual
<1>3. CallTypes' /\ OthersStay(p) /\ CallInv(h, p)'
  BY <1>1, ToFacts, FreeFacts, FreePcs DEF SettlementExpired, Types, Free
<1>4. UNCHANGED <<led, posted, charged, stray>>
  BY DEF SettlementExpired
<1>5. CASE ~Cas(h, "settling") /\ UNCHANGED journalVars
  BY <1>1, <1>3, <1>4, <1>5, QuietKeeps
<1>6. ASSUME Cas(h, "settling"),
             row' = [row EXCEPT ![h] = RecordLate(h, [row[h] EXCEPT !.st = "expired"], Actual(i))],
             applied' = applied \cup Marked(h, "reversed", i.overage)
                                \cup Marked(h, "late", Actual(i))
      PROVE  IInv'
  <2> DEFINE q == [row[h] EXCEPT !.st = "expired"]
  <2> DEFINE r == RecordLate(h, q, Actual(i))
  <2>1. row[h].st = "settling" /\ row[h].incident = {} /\ row[h].late = "none"
    BY <1>1, <1>6 DEF Cas, HoldInv, RowInv
  <2>2. /\ q \in Row /\ q.st = "expired" /\ q.intent = i /\ q.late = "none" /\ q.incident = {}
        /\ row' = [row EXCEPT ![h] = r]
    BY <1>1, <1>2, <1>6, <2>1 DEF Row, States
  <2> HIDE DEF q
  <2>3. /\ r \in Row /\ r.st = "expired" /\ r.intent = i /\ r.lateAmount = Actual(i)
        /\ r.late = IF Actual(i) > 0 THEN "recorded" ELSE "zero"
    BY <1>2, <2>2, RecordLateFacts
  <2> HIDE DEF r
  <2>4. row' = [row EXCEPT ![h] = r] /\ row'[h] = r
    BY <1>1, <2>2 DEF Types, RowTypes
  <2> DEFINE new == Marked(h, "reversed", i.overage) \cup Marked(h, "late", Actual(i))
  <2>5. applied' = applied \cup new
    BY <1>6
  <2>6. /\ new \subseteq {h} \X Roles /\ <<h, "overage">> \notin new
        /\ <<h, "reversed">> \in new <=> i.overage > 0
        /\ <<h, "late">> \in new <=> Actual(i) > 0
    BY <1>2 DEF Marked, Roles
  <2> HIDE DEF new
  <2>7. RowInv(h)' /\ LedgerInv(h)'
    BY <1>1, <1>2, <1>4, <2>3, <2>4 DEF RowInv, LedgerInv
  <2>8. DebtInv(h)'
    <3>1. row'[h].lateAmount = 0 <=> row'[h].late \in {"none", "zero"}
      BY <1>2, <2>3, <2>4
    <3>2. <<h, "late">> \in applied' <=> row'[h].late \in {"recorded", "charged"}
      BY <1>1, <1>2, <2>1, <2>3, <2>4, <2>5, <2>6 DEF HoldInv, DebtInv
    <3>3. <<h, "overage">> \in applied' <=> i.overage > 0
      BY <1>1, <1>2, <2>1, <2>5, <2>6 DEF HoldInv, DebtInv
    <3>4. <<h, "reversed">> \in applied' <=> i.overage > 0
      BY <1>1, <2>1, <2>5, <2>6 DEF HoldInv, DebtInv
    <3>5. QED
      BY <1>2, <2>3, <2>4, <3>1, <3>2, <3>3, <3>4 DEF DebtInv, Claimed
  <2>9. /\ r \in Row /\ r.st \in Claimed /\ r.intent = row[h].intent
        /\ r.late # "none" /\ row[h].st # "none" /\ new \subseteq {h} \X Roles
    BY <1>2, <2>1, <2>3, <2>6 DEF Claimed
  <2>10. QED
    BY <1>1, <1>3, <1>4, <2>4, <2>5, <2>7, <2>8, <2>9, JournalKeeps
<1>7. QED
  BY <1>5, <1>6 DEF SettlementExpired

LEMMA OverageAnsweredKeeps ==
  ASSUME IInv, NEW p \in Procs, OverageAnswered(p)
  PROVE  IInv'
<1> DEFINE h == p[1]
<1>1. /\ Types /\ HoldInv(h) /\ h \in Holds /\ p \in Calls(h) /\ CallInv(h, p)
      /\ row[h] \in Row
  BY CallFacts DEF IInv, HoldInv, Types, RowTypes
<1>2. PICK x \in {"final", "chargeFailed"} :
        /\ To(p, x) /\ (x = "final" => ChargeLands(h, "overage"))
        /\ ChargeLands(h, "overage") \/ ChargeRefused(h, "overage")
  BY DEF OverageAnswered
<1>3. CallTypes' /\ OthersStay(p) /\ pc'[p] = x /\ arg'[p] = arg[p]
  BY <1>1, <1>2, ToFacts DEF Types, Pcs, TxPcs
<1>4. /\ row[h].st \in Claimed /\ arg[p] = row[h].intent /\ arg[p] \in Intents
      /\ led[h] = "posted" /\ UNCHANGED <<journalVars, stray>>
  BY <1>1 DEF CallInv, OverageAnswered
<1>5. Applies(h) /\ led'[h] = "posted"
  BY <1>2, <1>4 DEF Applies, ChargeLands, ChargeRefused
<1>6. x = "final" => <<h, "overage">> \in charged'
  BY <1>2 DEF ChargeLands
<1>7. CallInv(h, p)'
  BY <1>3, <1>4, <1>5, <1>6 DEF CallInv, Reserving
<1>8. QED
  BY <1>1, <1>3, <1>4, <1>5, <1>7, LedgerKeeps

(* A row whose incidents change, and nothing else.                         *)
LEMMA IncidentKeeps ==
  ASSUME IInv, NEW h \in Holds, NEW p \in Calls(h), NEW found, found \subseteq Incidents,
         row' = [row EXCEPT ![h].incident = found],
         UNCHANGED <<applied, led, posted, charged, stray>>,
         CallTypes', OthersStay(p), CallInv(h, p)'
  PROVE  IInv'
<1> DEFINE r == [row[h] EXCEPT !.incident = found]
<1>1. Types /\ HoldInv(h) /\ row[h] \in Row
  BY DEF IInv, Types, RowTypes
<1>2. /\ r \in Row /\ r.st = row[h].st /\ r.intent = row[h].intent
      /\ r.late = row[h].late /\ r.lateAmount = row[h].lateAmount
      /\ row' = [row EXCEPT ![h] = r] /\ row'[h] = r
  BY <1>1 DEF Types, RowTypes, Row
<1>3. RowInv(h)' /\ DebtInv(h)' /\ LedgerInv(h)'
  BY <1>1, <1>2 DEF HoldInv, RowInv, DebtInv, LedgerInv
<1>4. applied' = applied \cup {}
  OBVIOUS
<1>5. QED
  BY <1>2, <1>3, <1>4, JournalKeeps

LEMMA ChargeFailedKeeps ==
  ASSUME IInv, NEW p \in Procs, ChargeFailed(p)
  PROVE  IInv'
<1> DEFINE h == p[1]
<1>1. /\ Types /\ HoldInv(h) /\ h \in Holds /\ p \in Calls(h) /\ CallInv(h, p)
      /\ row[h] \in Row
  BY CallFacts DEF IInv, HoldInv, Types, RowTypes
<1>2. CallTypes' /\ OthersStay(p) /\ CallInv(h, p)'
  BY <1>1, ToFacts, FreeFacts, FreePcs DEF ChargeFailed, Types, Free
<1>3. PICK found \in SUBSET Incidents : row' = [row EXCEPT ![h].incident = found]
  BY <1>1 DEF ChargeFailed, WithIncident, Row, Incidents
<1>4. QED
  BY <1>1, <1>2, <1>3, IncidentKeeps DEF ChargeFailed

(* finalTransition(): the row is moved where the ledger agrees.            *)
LEMMA FinishKeeps ==
  ASSUME IInv, NEW h \in Holds, NEW p \in Calls(h), NEW from \in States, NEW to \in States,
         Cas(h, from), row' = [row EXCEPT ![h].st = to],
         UNCHANGED <<applied, led, posted, charged, stray>>,
         CallTypes', OthersStay(p), CallInv(h, p)',
         \/ from = "settling" /\ to = "settled" /\ led[h] = "posted"
            /\ (row[h].intent.overage > 0 => <<h, "overage">> \in charged)
         \/ from = "voiding" /\ to = "voided"
         \/ from = "open" /\ to \in {"voiding", "expiring"}
         \/ from = "expiring" /\ to = "expired" /\ led[h] \in {"voided", "expired"}
  PROVE  IInv'
<1> DEFINE r == [row[h] EXCEPT !.st = to]
<1>1. Types /\ HoldInv(h) /\ row[h] \in Row /\ row[h].st = from
  BY DEF IInv, Types, RowTypes, Cas
<1>2. /\ r \in Row /\ r.st = to /\ r.intent = row[h].intent
      /\ r.late = row[h].late /\ r.lateAmount = row[h].lateAmount
      /\ row' = [row EXCEPT ![h] = r] /\ row'[h] = r
  BY <1>1 DEF Types, RowTypes, Row
<1>3. RowInv(h)' /\ LedgerInv(h)'
  BY <1>1, <1>2 DEF HoldInv, RowInv, LedgerInv
<1>4. DebtInv(h)'
  BY <1>1, <1>2 DEF HoldInv, DebtInv, Claimed
<1>5. applied' = applied \cup {} /\ from # "none"
  OBVIOUS
<1>6. row[h].st \in Claimed => r.st \in Claimed
  BY <1>1, <1>2 DEF Claimed
<1>7. QED
  BY <1>1, <1>2, <1>3, <1>4, <1>5, <1>6, JournalKeeps

LEMMA SettledKeeps ==
  ASSUME IInv, NEW p \in Procs, Settled(p)
  PROVE  IInv'
<1> DEFINE h == p[1]
<1>1. /\ Types /\ HoldInv(h) /\ h \in Holds /\ p \in Calls(h) /\ CallInv(h, p)
      /\ row[h] \in Row
  BY CallFacts DEF IInv, HoldInv, Types, RowTypes
<1>2. CallTypes' /\ OthersStay(p) /\ CallInv(h, p)'
  BY <1>1, ToFacts, FreeFacts, FreePcs DEF Settled, Finish, Types, Free
<1>3. UNCHANGED <<applied, led, posted, charged, stray>> /\ row' = Moved(h, "settling", "settled")
  BY DEF Settled, Finish
<1>4. CASE ~Cas(h, "settling")
  BY <1>1, <1>2, <1>3, <1>4, QuietKeeps DEF Moved, Settled, Finish
<1>5. CASE Cas(h, "settling")
  <2>1. led[h] = "posted" /\ (row[h].intent.overage > 0 => <<h, "overage">> \in charged)
    BY <1>1 DEF CallInv, Settled
  <2>2. QED
    BY <1>1, <1>2, <1>3, <1>5, <2>1, FinishKeeps DEF Moved, States
<1>6. QED
  BY <1>4, <1>5

LEMMA VoidedKeeps ==
  ASSUME IInv, NEW p \in Procs, Voided(p)
  PROVE  IInv'
<1> DEFINE h == p[1]
<1>1. /\ Types /\ HoldInv(h) /\ h \in Holds /\ p \in Calls(h) /\ CallInv(h, p)
      /\ row[h] \in Row
  BY CallFacts DEF IInv, HoldInv, Types, RowTypes
<1>2. CallTypes' /\ OthersStay(p) /\ CallInv(h, p)'
  BY <1>1, ToFacts, FreeFacts, FreePcs DEF Voided, Finish, Types, Free
<1>3. UNCHANGED <<applied, led, posted, charged, stray>> /\ row' = Moved(h, "voiding", "voided")
  BY DEF Voided, Finish
<1>4. CASE ~Cas(h, "voiding")
  BY <1>1, <1>2, <1>3, <1>4, QuietKeeps DEF Moved, Voided, Finish
<1>5. CASE Cas(h, "voiding")
  BY <1>1, <1>2, <1>3, <1>5, FinishKeeps DEF Moved, States
<1>6. QED
  BY <1>4, <1>5


-----------------------------------------------------------------------------
(* settleLate(), chargeLate() and lateAnswer().                            *)
LEMMA LateTxKeeps ==
  ASSUME IInv, NEW p \in Procs, LateTx(p)
  PROVE  IInv'
<1> DEFINE h == p[1]
<1>1. /\ Types /\ HoldInv(h) /\ h \in Holds /\ p \in Calls(h) /\ CallInv(h, p)
      /\ row[h] \in Row
  BY CallFacts DEF IInv, HoldInv, Types, RowTypes
<1> DEFINE r == RecordLate(h, row[h], Actual(arg[p]))
<1> DEFINE new == IF r # row[h] THEN Marked(h, "late", Actual(arg[p])) ELSE {}
<1>2. arg[p] \in Intents /\ Actual(arg[p]) \in Nat
  BY <1>1 DEF CallInv, LateTx, Actual
<1>3. CallTypes' /\ OthersStay(p) /\ CallInv(h, p)'
  BY <1>1, ToFacts, FreeFacts, FreePcs DEF LateTx, Types, Free
<1>4. /\ row' = [row EXCEPT ![h] = r] /\ applied' = applied \cup new
      /\ UNCHANGED <<led, posted, charged, stray>>
  BY DEF LateTx
<1>5. /\ r \in Row /\ r.st = row[h].st /\ r.intent = row[h].intent
      /\ \/ r = row[h] /\ new = {}
         \/ /\ row[h].late = "none" /\ r.st \in {"expiring", "expired"}
            /\ r.late = IF Actual(arg[p]) > 0 THEN "recorded" ELSE "zero"
            /\ r.lateAmount = Actual(arg[p])
            /\ new = IF Actual(arg[p]) > 0 THEN {<<h, "late">>} ELSE {}
  <2>1. /\ r \in Row /\ r.st = row[h].st /\ r.intent = row[h].intent
        /\ \/ r = row[h]
           \/ /\ r # row[h]
              /\ row[h].late = "none" /\ r.st \in {"expiring", "expired"}
              /\ r.late = IF Actual(arg[p]) > 0 THEN "recorded" ELSE "zero"
              /\ r.lateAmount = Actual(arg[p])
    BY <1>1, <1>2, RecordLateFacts
  <2>2. Marked(h, "late", Actual(arg[p])) = IF Actual(arg[p]) > 0 THEN {<<h, "late">>} ELSE {}
    BY <1>2 DEF Marked
  <2>3. QED
    BY <2>1, <2>2
<1> HIDE DEF r, new
<1>6. row'[h] = r
  BY <1>1, <1>4 DEF Types, RowTypes
<1>7. RowInv(h)' /\ LedgerInv(h)'
  BY <1>1, <1>4, <1>5, <1>6 DEF HoldInv, RowInv, LedgerInv
<1>8. DebtInv(h)'
  <2>1. row'[h].lateAmount = 0 <=> row'[h].late \in {"none", "zero"}
    BY <1>1, <1>2, <1>5, <1>6 DEF HoldInv, DebtInv
  <2>2. /\ <<h, "late">> \in applied' <=> row'[h].late \in {"recorded", "charged"}
        /\ row'[h].late = "charged" => <<h, "late">> \in charged'
    BY <1>1, <1>2, <1>4, <1>5, <1>6 DEF HoldInv, DebtInv
  <2>3. \A role \in {"overage", "reversed"} : <<h, role>> \in applied' <=> <<h, role>> \in applied
    BY <1>4, <1>5
  <2>4. QED
    BY <1>1, <1>5, <1>6, <2>1, <2>2, <2>3 DEF HoldInv, DebtInv
<1>9. new \subseteq {h} \X Roles
  BY <1>5 DEF Roles
<1>10. row[h].late # "none" => r.late # "none"
  BY <1>5
<1>11. row[h].st \in Claimed => r.st \in Claimed
  BY <1>5
<1>12. r.st = "none" \/ row[h].st # "none"
  BY <1>5
<1>13. QED
  BY <1>1, <1>3, <1>4, <1>5, <1>7, <1>8, <1>9, <1>10, <1>11, <1>12, JournalKeeps

LEMMA ChargeLateCheckKeeps ==
  ASSUME IInv, NEW p \in Procs, ChargeLateCheck(p)
  PROVE  IInv'
<1> DEFINE h == p[1]
<1>1. /\ Types /\ HoldInv(h) /\ h \in Holds /\ p \in Calls(h) /\ CallInv(h, p)
      /\ row[h] \in Row
  BY CallFacts DEF IInv, HoldInv, Types, RowTypes
<1>2. PICK x \in {"late", "idle", "answer"} :
        To(p, x) /\ (x = "late" => row[h].late = "recorded")
  BY DEF ChargeLateCheck, AfterLate
<1>3. CallTypes' /\ OthersStay(p) /\ pc'[p] = x
  BY <1>1, <1>2, ToFacts DEF Types, Pcs, TxPcs
<1>4. CallInv(h, p)'
  BY <1>2, <1>3 DEF CallInv, Reserving, ChargeLateCheck
<1>5. QED
  BY <1>1, <1>3, <1>4, QuietKeeps DEF ChargeLateCheck

LEMMA LateAnsweredKeeps ==
  ASSUME IInv, NEW p \in Procs, LateAnswered(p)
  PROVE  IInv'
<1> DEFINE h == p[1]
<1>1. /\ Types /\ HoldInv(h) /\ h \in Holds /\ p \in Calls(h) /\ CallInv(h, p)
      /\ row[h] \in Row
  BY CallFacts DEF IInv, HoldInv, Types, RowTypes
<1>2. PICK x \in {"markLate", "chargeFailed"} :
        /\ To(p, x) /\ (x = "markLate" => ChargeLands(h, "late"))
        /\ ChargeLands(h, "late") \/ ChargeRefused(h, "late")
  BY DEF LateAnswered
<1>3. CallTypes' /\ OthersStay(p) /\ pc'[p] = x
  BY <1>1, <1>2, ToFacts DEF Types, Pcs, TxPcs
<1>4. row[h].late # "none" /\ UNCHANGED <<journalVars, stray>>
  BY <1>1 DEF CallInv, LateAnswered
<1>5. Applies(h)
  BY <1>2, <1>4 DEF Applies, ChargeRefused
<1>6. x = "markLate" => <<h, "late">> \in charged'
  BY <1>2 DEF ChargeLands
<1>7. CallInv(h, p)'
  BY <1>3, <1>4, <1>6 DEF CallInv, Reserving
<1>8. QED
  BY <1>1, <1>3, <1>4, <1>5, <1>7, LedgerKeeps

LEMMA MarkLateKeeps ==
  ASSUME IInv, NEW p \in Procs, MarkLate(p)
  PROVE  IInv'
<1> DEFINE h == p[1]
<1>1. /\ Types /\ HoldInv(h) /\ h \in Holds /\ p \in Calls(h) /\ CallInv(h, p)
      /\ row[h] \in Row
  BY CallFacts DEF IInv, HoldInv, Types, RowTypes
<1>2. \A x \in {"idle", "answer"} : To(p, x) => CallTypes' /\ OthersStay(p) /\ CallInv(h, p)'
  BY <1>1, ToFacts, FreeFacts, FreePcs DEF Types, Free
<1>3. CallTypes' /\ OthersStay(p) /\ CallInv(h, p)'
  BY <1>2 DEF MarkLate, AfterLate
<1> DEFINE late  == IF row[h].late = "recorded" /\ row[h].incident = {} THEN "charged"
                    ELSE row[h].late
           found == IF row[h].incident # {} THEN row[h].incident \cup {"charged_on_ledger"}
                    ELSE row[h].incident
<1>4. /\ row' = [row EXCEPT ![h].late = late, ![h].incident = found]
      /\ late = row[h].late \/ (row[h].late = "recorded" /\ late = "charged")
      /\ found \subseteq Incidents
  <2>1. row' = [row EXCEPT ![h].late = late, ![h].incident = found]
    BY DEF MarkLate
  <2>2. found \subseteq Incidents
    BY <1>1 DEF Row, Incidents
  <2>3. QED
    BY <2>1, <2>2
<1> HIDE DEF late, found
<1>5. UNCHANGED <<applied, led, posted, charged, stray>>
  BY DEF MarkLate
<1>6. <<h, "late">> \in charged
  BY <1>1 DEF CallInv, MarkLate
<1> DEFINE r == [row[h] EXCEPT !.late = late, !.incident = found]
<1>7. /\ r \in Row /\ r.st = row[h].st /\ r.intent = row[h].intent /\ r.late = late
      /\ r.lateAmount = row[h].lateAmount
      /\ row' = [row EXCEPT ![h] = r] /\ row'[h] = r
  BY <1>1, <1>4 DEF Types, RowTypes, Row
<1>8. RowInv(h)' /\ LedgerInv(h)'
  BY <1>1, <1>4, <1>5, <1>7 DEF HoldInv, RowInv, LedgerInv
<1>9. DebtInv(h)'
  BY <1>1, <1>4, <1>5, <1>6, <1>7 DEF HoldInv, DebtInv
<1>10. applied' = applied \cup {} /\ (row[h].late # "none" => r.late # "none")
  BY <1>4, <1>5, <1>7
<1>11. QED
  BY <1>1, <1>3, <1>5, <1>7, <1>8, <1>9, <1>10, JournalKeeps

LEMMA LateAnswerKeeps ==
  ASSUME IInv, NEW p \in Procs, LateAnswer(p)
  PROVE  IInv'
<1> DEFINE h == p[1]
<1>1. /\ Types /\ HoldInv(h) /\ h \in Holds /\ p \in Calls(h) /\ CallInv(h, p)
      /\ row[h] \in Row
  BY CallFacts DEF IInv, HoldInv, Types, RowTypes
<1>2. CallTypes' /\ OthersStay(p) /\ CallInv(h, p)'
  BY <1>1, ToFacts, FreeFacts, FreePcs DEF LateAnswer, Types, Free
<1>3. PICK found \in SUBSET Incidents : row' = [row EXCEPT ![h].incident = found]
  BY <1>1 DEF LateAnswer, Row, Incidents
<1>4. QED
  BY <1>1, <1>2, <1>3, IncidentKeeps DEF LateAnswer

-----------------------------------------------------------------------------
(* release() and sweep().                                                  *)
LEMMA ReleaseClaimKeeps ==
  ASSUME IInv, NEW p \in Procs, ReleaseClaim(p)
  PROVE  IInv'
<1> DEFINE h == p[1]
<1>1. /\ Types /\ HoldInv(h) /\ h \in Holds /\ p \in Calls(h) /\ CallInv(h, p)
      /\ row[h] \in Row
  BY CallFacts DEF IInv, HoldInv, Types, RowTypes
<1>2. CallTypes' /\ OthersStay(p) /\ CallInv(h, p)'
  BY <1>1, ToFacts, FreeFacts, FreePcs DEF ReleaseClaim, Types, Free
<1>3. UNCHANGED <<applied, debt, led, posted, charged, stray>>
  BY DEF ReleaseClaim
<1>4. CASE Cas(h, "open") /\ row' = [row EXCEPT ![h].st = "voiding"]
  BY <1>1, <1>2, <1>3, <1>4, FinishKeeps DEF States
<1>5. CASE UNCHANGED row
  BY <1>1, <1>2, <1>3, <1>5, QuietKeeps
<1>6. QED
  BY <1>4, <1>5 DEF ReleaseClaim

LEMMA VoidAnsweredKeeps ==
  ASSUME IInv, NEW p \in Procs, VoidAnswered(p)
  PROVE  IInv'
<1> DEFINE h == p[1]
<1>1. /\ Types /\ HoldInv(h) /\ h \in Holds /\ p \in Calls(h) /\ CallInv(h, p)
      /\ row[h] \in Row
  BY CallFacts DEF IInv, HoldInv, Types, RowTypes
<1>2. /\ VoidAnswer(h) \in {"done", "expired", "not_found", "posted"}
      /\ VoidAnswer(h) = "done" => led[h] \in {"pending", "voided"}
      /\ VoidAnswer(h) = "expired" => led[h] = "expired"
  BY <1>1 DEF VoidAnswer, Types, LedgerTypes
<1>3. PICK x \in {"voidFinal", "voidMissing", "idle", "expiryFinal", "disagrees"} :
        To(p, x) /\ (x = "expiryFinal" => VoidAnswer(h) \in {"done", "expired"})
  BY <1>2 DEF VoidAnswered
<1>4. CallTypes' /\ OthersStay(p) /\ pc'[p] = x
  BY <1>1, <1>3, ToFacts DEF Types, Pcs, TxPcs
<1>5. ApplyVoid(h) /\ UNCHANGED <<journalVars, stray>>
  BY DEF VoidAnswered
<1>6. x = "expiryFinal" => led'[h] \in {"voided", "expired"}
  BY <1>1, <1>2, <1>3, <1>5 DEF ApplyVoid, Types, LedgerTypes
<1>7. CallInv(h, p)'
  BY <1>4, <1>6 DEF CallInv, Reserving
<1>8. Applies(h)
  BY <1>5 DEF Applies
<1>9. QED
  BY <1>1, <1>4, <1>5, <1>7, <1>8, LedgerKeeps

LEMMA VoidedNotFoundKeeps ==
  ASSUME IInv, NEW p \in Procs, VoidedNotFound(p)
  PROVE  IInv'
<1> DEFINE h == p[1]
<1>1. /\ Types /\ HoldInv(h) /\ h \in Holds /\ p \in Calls(h) /\ CallInv(h, p)
      /\ row[h] \in Row
  BY CallFacts DEF IInv, HoldInv, Types, RowTypes
<1>2. CallTypes' /\ OthersStay(p) /\ CallInv(h, p)'
  BY <1>1, ToFacts, FreeFacts, FreePcs DEF VoidedNotFound, Finish, Types, Free
<1>3. UNCHANGED <<applied, debt, led, posted, charged, stray>>
  BY DEF VoidedNotFound, Finish
<1>4. CASE Cas(h, "voiding") /\ row' = [row EXCEPT ![h].st = "voided"]
  BY <1>1, <1>2, <1>3, <1>4, FinishKeeps DEF States
<1>5. CASE UNCHANGED row
  BY <1>1, <1>2, <1>3, <1>5, QuietKeeps
<1>6. QED
  BY <1>4, <1>5 DEF VoidedNotFound, Finish, Moved

LEMMA SweepKeeps ==
  ASSUME IInv, NEW p \in Procs, Sweep(p)
  PROVE  IInv'
<1> DEFINE h == p[1]
<1>1. /\ Types /\ HoldInv(h) /\ h \in Holds /\ p \in Calls(h) /\ CallInv(h, p)
      /\ row[h] \in Row
  BY CallFacts DEF IInv, HoldInv, Types, RowTypes
<1>2. UNCHANGED <<applied, debt, led, posted, charged, stray>>
  BY DEF Sweep
<1>3. CASE Cas(h, "open") /\ row' = [row EXCEPT ![h].st = "expiring"] /\ To(p, "expiryVoid")
  <2>1. CallTypes' /\ OthersStay(p) /\ CallInv(h, p)'
    BY <1>1, <1>3, ToFacts, FreeFacts, FreePcs DEF Types, Free
  <2>2. QED
    BY <1>1, <1>2, <1>3, <2>1, FinishKeeps DEF States
<1>4. CASE LateUncharged(row[h]) /\ To(p, "chargeLate") /\ UNCHANGED row
  <2>1. CallTypes' /\ OthersStay(p) /\ CallInv(h, p)'
    BY <1>1, <1>4, ToFacts, FreeFacts, FreePcs DEF Types, Free
  <2>2. QED
    BY <1>1, <1>2, <1>4, <2>1, QuietKeeps
<1>5. ASSUME InFlight(row[h]), UNCHANGED row,
             pc' = [pc EXCEPT ![p] = [settling |-> "check", voiding |-> "void",
                                      expiring |-> "expiryVoid"][row[h].st]],
             arg' = [arg EXCEPT ![p] = row[h].intent]
      PROVE  IInv'
  <2> DEFINE next(x) == /\ pc' = [pc EXCEPT ![p] = x]
                        /\ x = "check" => row[h].st = "settling"
  <2>1. PICK x \in {"check", "void", "expiryVoid"} : next(x)
    <3>1. CASE row[h].st = "settling"
      <4>1. next("check")
        BY <1>5, <3>1
      <4>2. QED
        BY <4>1
    <3>2. CASE row[h].st = "voiding"
      <4>1. next("void")
        BY <1>5, <3>2
      <4>2. QED
        BY <4>1
    <3>3. CASE row[h].st = "expiring"
      <4>1. next("expiryVoid")
        BY <1>5, <3>3
      <4>2. QED
        BY <4>1
    <3>4. QED
      BY <1>5, <3>1, <3>2, <3>3 DEF InFlight
  <2>2. row[h].intent \in Intents \cup {None} /\ x \in Pcs
    BY <1>1 DEF Row, Pcs
  <2>3. CallTypes' /\ OthersStay(p) /\ pc'[p] = x /\ arg'[p] = row[h].intent
    BY <1>1, <1>5, <2>1, <2>2 DEF Types, CallTypes, OthersStay
  <2>4. x = "check" => row[h].st \in Claimed /\ row[h].intent \in Intents
    BY <1>1, <2>1 DEF HoldInv, RowInv, Claimed
  <2>5. CallInv(h, p)'
    BY <1>5, <2>3, <2>4 DEF CallInv, Reserving
  <2>6. QED
    BY <1>1, <1>2, <1>5, <2>3, <2>5, QuietKeeps
<1>6. QED
  BY <1>3, <1>4, <1>5 DEF Sweep

LEMMA ExpiryFinishedKeeps ==
  ASSUME IInv, NEW p \in Procs, ExpiryFinished(p)
  PROVE  IInv'
<1> DEFINE h == p[1]
<1>1. /\ Types /\ HoldInv(h) /\ h \in Holds /\ p \in Calls(h) /\ CallInv(h, p)
      /\ row[h] \in Row
  BY CallFacts DEF IInv, HoldInv, Types, RowTypes
<1>2. CallTypes' /\ OthersStay(p) /\ CallInv(h, p)'
  BY <1>1, ToFacts, FreeFacts, FreePcs DEF ExpiryFinished, Types, Free
<1>3. UNCHANGED <<applied, debt, led, posted, charged, stray>>
  BY DEF ExpiryFinished
<1>4. CASE pc[p] = "disagrees"
  <2>1. PICK found \in SUBSET Incidents : row' = [row EXCEPT ![h].incident = found]
    BY <1>1, <1>4 DEF ExpiryFinished, WithIncident, Row, Incidents
  <2>2. QED
    BY <1>1, <1>2, <1>3, <2>1, IncidentKeeps
<1>5. CASE pc[p] = "expiryFinal"
  <2>1. led[h] \in {"voided", "expired"} /\ row' = Moved(h, "expiring", "expired")
    BY <1>1, <1>5 DEF CallInv, ExpiryFinished
  <2>2. CASE Cas(h, "expiring")
    BY <1>1, <1>2, <1>3, <2>1, <2>2, FinishKeeps DEF Moved, States
  <2>3. CASE ~Cas(h, "expiring")
    BY <1>1, <1>2, <1>3, <2>1, <2>3, QuietKeeps DEF Moved
  <2>4. QED
    BY <2>2, <2>3
<1>6. QED
  BY <1>4, <1>5 DEF ExpiryFinished

-----------------------------------------------------------------------------
LEMMA InitIInv == Init => IInv
<1> SUFFICES ASSUME Init PROVE IInv
  OBVIOUS
<1>1. NoRow \in Row
  BY DEF NoRow, Row, States
<1>2. Types
  BY <1>1 DEF Init, Types, RowTypes, LedgerTypes, CallTypes, Pcs
<1>3. ASSUME NEW h \in Holds
      PROVE  HoldInv(h)
  <2>1. /\ row[h].st = "none" /\ row[h].late = "none" /\ row[h].lateAmount = 0
        /\ led[h] = "none" /\ applied = {} /\ charged = {} /\ stray = {}
    BY DEF Init, NoRow
  <2>2. RowInv(h) /\ DebtInv(h) /\ LedgerInv(h) /\ ChargeInv(h) /\ StrayInv(h)
    BY <2>1 DEF RowInv, DebtInv, LedgerInv, ChargeInv, StrayInv
  <2>3. \A p \in Calls(h) : CallInv(h, p)
    BY DEF Init, CallInv, Reserving, Calls
  <2>4. QED
    BY <2>2, <2>3 DEF HoldInv
<1>4. QED
  BY <1>2, <1>3 DEF IInv

LEMMA NextIInv == IInv /\ load \in Loads /\ [Next]_vars => IInv'
<1> SUFFICES ASSUME IInv, load \in Loads, [Next]_vars PROVE IInv'
  OBVIOUS
<1>1. CASE Crash
  BY <1>1, CrashKeeps
<1>2. ASSUME NEW h \in Holds,
             \/ LedgerExpires(h) \/ Advance(h) \/ (\E o \in Ops : Stray(h, o))
             \/ Reserve(h) \/ ReserveLost(h)
      PROVE  IInv'
  BY <1>2, LedgerExpiresKeeps, AdvanceKeeps, StrayKeeps, ReserveKeeps
<1>3. ASSUME NEW p \in Procs, Journal(p)
      PROVE  IInv'
  BY <1>3, CompleteCheckKeeps, SettlementExpiredKeeps, ChargeFailedKeeps, SettledKeeps,
     LateTxKeeps, ChargeLateCheckKeeps, MarkLateKeeps, LateAnswerKeeps, VoidedKeeps,
     VoidedNotFoundKeeps, ExpiryFinishedKeeps DEF Journal
<1>4. ASSUME NEW p \in Procs, Answered(p)
      PROVE  IInv'
  BY <1>4, PostAnsweredKeeps, OverageAnsweredKeeps, LateAnsweredKeeps, VoidAnsweredKeeps
     DEF Answered
<1>5. ASSUME NEW p \in Procs,
             SettleClaim(p) \/ ReleaseClaim(p) \/ Sweep(p) \/ TimedOut(p) \/ JournalBusy(p)
      PROVE  IInv'
  BY <1>5, SettleClaimKeeps, ReleaseClaimKeeps, SweepKeeps, TimedOutKeeps, JournalBusyKeeps
<1>6. CASE UNCHANGED vars
  <2>1. /\ UNCHANGED <<row, applied, led, posted, charged, stray, pc, arg>>
        /\ \A h \in Holds : Calls(h)' = Calls(h)
    BY <1>6 DEF vars, Calls
  <2>2. Types'
    BY <2>1 DEF IInv, Types, RowTypes, LedgerTypes, CallTypes
  <2>3. ASSUME NEW h \in Holds
        PROVE  HoldInv(h)'
    <3>1. HoldInv(h) /\ Grows(h)
      BY <2>1 DEF IInv, Grows
    <3>2. RowInv(h)' /\ DebtInv(h)' /\ LedgerInv(h)' /\ ChargeInv(h)' /\ StrayInv(h)'
      BY <2>1, <3>1 DEF HoldInv, RowInv, DebtInv, LedgerInv, ChargeInv, StrayInv
    <3>3. \A p \in Calls(h) : CallInv(h, p)'
      <4>1. \A p \in Calls(h) : CallInv(h, p) /\ (pc[p] \in Reserving => row'[h].st = "none")
        BY <2>1, <3>1 DEF HoldInv, CallInv
      <4>2. QED
        BY <2>1, <3>1, <4>1, OtherCallKeeps
    <3>4. QED
      BY <2>1, <3>2, <3>3 DEF HoldInv
  <2>4. QED
    BY <2>2, <2>3 DEF IInv
<1>7. QED
  BY <1>1, <1>2, <1>3, <1>4, <1>5, <1>6 DEF Next

LEMMA Invariant == Spec => []IInv
<1>1. Init => IInv /\ load \in Loads
  BY InitIInv DEF Init
<1>2. IInv /\ load \in Loads /\ [Next]_vars => (IInv /\ load \in Loads)'
  <2>1. [Next]_vars => load' = load
    BY DEF Next, vars
  <2>2. QED
    BY <2>1, NextIInv
<1>3. QED
  BY <1>1, <1>2, PTL DEF Spec

-----------------------------------------------------------------------------
(* Whatever is replayed, abandoned, lost or expires in between, a hold     *)
(* that was posted is never charged as a late settlement, and an overage   *)
(* is only charged on top of a post (settle, settleLate, chargeDebt).      *)
THEOREM ChargedOneWay == Spec => []BilledOnce
<1>1. IInv => BilledOnce
  <2> SUFFICES ASSUME IInv, NEW h \in Holds
               PROVE  /\ <<h, "overage">> \in charged => led[h] = "posted"
                      /\ <<h, "late">> \in charged => led[h] # "posted"
    BY DEF BilledOnce
  <2>1. HoldInv(h)
    BY DEF IInv
  <2>2. QED
    BY <2>1 DEF HoldInv, RowInv, LedgerInv, ChargeInv
<1>2. QED
  BY <1>1, Invariant, PTL

(* A row reaches one terminal, and the ledger agrees with it: neither an   *)
(* abandoned call that lands late, nor the ledger's own timeout, nor a     *)
(* crash between the two can make them differ (finalTransition).           *)
THEOREM LedgerAgrees == Spec => []TerminalAgrees
<1>1. IInv => TerminalAgrees
  <2> SUFFICES ASSUME IInv, NEW h \in Holds
               PROVE  /\ row[h].st = "settled" =>
                           /\ led[h] = "posted" /\ posted[h] = row[h].intent.post
                           /\ row[h].intent.overage > 0 => <<h, "overage">> \in charged
                      /\ row[h].st = "expired" => led[h] \in {"voided", "expired"}
                      /\ row[h].st \notin {"settling", "settled"} => led[h] # "posted"
    BY DEF TerminalAgrees
  <2>1. HoldInv(h)
    BY DEF IInv
  <2>2. QED
    BY <2>1 DEF HoldInv, LedgerInv
<1>2. QED
  BY <1>1, Invariant, PTL

(* Of every hold at rest, what the journal's debt table says it owes is    *)
(* what the ledger has charged for it (applyDebt, chargeDebt): the part of *)
(* DebtAgrees that is about one hold.                                      *)
THEOREM DebtIsCharged == Spec => []RestingAgrees
<1>1. IInv => RestingAgrees
  <2> SUFFICES ASSUME IInv, NEW h \in Holds, AtRest(h)
               PROVE  Owed(h) = Billed(h)
    BY DEF RestingAgrees
  <2>1. HoldInv(h) /\ row[h] \in Row
    BY DEF IInv, Types, RowTypes
  <2>2. row[h].lateAmount \in Nat /\ (row[h].intent \in Intents => row[h].intent.overage \in Nat)
    BY <2>1 DEF Row
  <2>3. Part(h, "late", applied, row[h].lateAmount) = Part(h, "late", charged, row[h].lateAmount)
    BY <2>1, <2>2 DEF HoldInv, DebtInv, ChargeInv, AtRest, Part, Row
  <2>4. CASE row[h].st = "settled"
    <3>1. <<h, "reversed">> \notin applied /\ row[h].intent \in Intents
      BY <2>1, <2>4 DEF HoldInv, RowInv, DebtInv
    <3>2. Part(h, "overage", applied, row[h].intent.overage)
            = Part(h, "overage", charged, row[h].intent.overage)
      BY <2>1, <2>2, <2>4, <3>1 DEF HoldInv, DebtInv, LedgerInv, Part
    <3>3. Part(h, "overage", charged, row[h].intent.overage) \in Nat
      BY <2>2, <3>1 DEF Part
    <3>4. Part(h, "reversed", applied, row[h].intent.overage) = 0
      BY <3>1 DEF Part
    <3>5. Part(h, "late", charged, row[h].lateAmount) \in Nat
      BY <2>2 DEF Part
    <3>6. QED
      BY <2>3, <3>2, <3>3, <3>4, <3>5 DEF Owed, Billed
  <2>5. CASE row[h].st \in {"voided", "expired"}
    <3>1. <<h, "overage">> \notin charged
      BY <2>1, <2>5 DEF HoldInv, LedgerInv, ChargeInv
    <3>2. Part(h, "overage", charged, row[h].intent.overage) = 0
      BY <3>1 DEF Part
    <3>3. <<h, "overage">> \in applied <=> <<h, "reversed">> \in applied
      BY <2>1, <2>5 DEF HoldInv, DebtInv, Claimed
    <3>4. <<h, "overage">> \in applied => row[h].intent.overage \in Nat
      BY <2>1, <2>2 DEF HoldInv, DebtInv
    <3>5. Part(h, "overage", applied, row[h].intent.overage)
            - Part(h, "reversed", applied, row[h].intent.overage) = 0
      BY <3>3, <3>4 DEF Part
    <3>6. Part(h, "late", charged, row[h].lateAmount) \in Nat
      BY <2>2 DEF Part
    <3>7. QED
      BY <2>3, <3>2, <3>5, <3>6 DEF Owed, Billed
  <2>6. QED
    BY <2>4, <2>5 DEF AtRest
<1>2. QED
  BY <1>1, Invariant, PTL

-----------------------------------------------------------------------------
(* The debt row moves with the entries of the holds (applyDebt): by what   *)
(* one hold owes more or less after the step, and not at all when no hold  *)
(* does.                                                                   *)
DebtMoves ==
  \/ debt' = debt /\ \A g \in Holds : Owed(g)' = Owed(g)
  \/ \E h \in Holds : /\ debt' = debt + (Owed(h)' - Owed(h))
                      /\ \A g \in Holds \ {h} : Owed(g)' = Owed(g)

(* The steps that leave what the holds owe alone.                          *)
Unowed ==
  /\ UNCHANGED <<applied, debt>>
  /\ \A g \in Holds : row'[g].intent = row[g].intent /\ row'[g].lateAmount = row[g].lateAmount

LEMMA UnowedFacts == Unowed => DebtMoves
  BY DEF Unowed, DebtMoves, Owed, Part

(* What a step that enters a debt does to the other holds.                 *)
LEMMA OwedElsewhere ==
  ASSUME NEW h \in Holds, NEW r, row \in [Holds -> Row], row' = [row EXCEPT ![h] = r],
         NEW new, new \subseteq {h} \X Roles, applied' = applied \cup new
  PROVE  \A g \in Holds \ {h} : Owed(g)' = Owed(g)
<1> SUFFICES ASSUME NEW g \in Holds \ {h}
             PROVE  Owed(g)' = Owed(g)
  OBVIOUS
<1>1. row'[g] = row[g]
  OBVIOUS
<1>2. \A role : <<g, role>> \in applied' <=> <<g, role>> \in applied
  OBVIOUS
<1>3. QED
  BY <1>1, <1>2 DEF Owed, Part

LEMMA SettleClaimMoves ==
  ASSUME IInv, debt \in Int, load \in Loads, NEW p \in Procs, SettleClaim(p)
  PROVE  DebtMoves /\ debt' \in Int
<1> DEFINE h == p[1]
<1>1. HoldInv(h) /\ h \in Holds /\ row \in [Holds -> Row] /\ row[h] \in Row
  BY CallFacts DEF IInv, Types, RowTypes
<1>2. CASE UNCHANGED journalVars
  BY <1>2, UnowedFacts DEF Unowed, journalVars
<1>3. ASSUME NEW i \in Intents, Cas(h, "open"),
             row' = [row EXCEPT ![h].st = "settling", ![h].intent = i],
             debt' = debt + Fresh(h, "overage", i.overage),
             applied' = applied \cup Marked(h, "overage", i.overage)
      PROVE  DebtMoves /\ debt' \in Int
  <2> DEFINE r == [row[h] EXCEPT !.st = "settling", !.intent = i]
  <2>1. /\ r.intent = i /\ i.overage \in Nat
        /\ row' = [row EXCEPT ![h] = r] /\ row'[h] = r
    BY <1>1, <1>3 DEF Row
  <2>2. \A role \in Roles : <<h, role>> \notin applied
    BY <1>1, <1>3 DEF Cas, HoldInv, RowInv, DebtInv, Claimed, Roles
  <2>3. /\ Fresh(h, "overage", i.overage) = i.overage
        /\ Marked(h, "overage", i.overage) \subseteq {h} \X Roles
    BY <2>2 DEF Fresh, Marked, Roles
  <2>4. Owed(h) = 0
    BY <2>2 DEF Owed, Part, Roles
  <2>5. /\ <<h, "overage">> \in applied' <=> i.overage > 0
        /\ <<h, "reversed">> \notin applied' /\ <<h, "late">> \notin applied'
    BY <1>3, <2>1, <2>2 DEF Marked, Roles
  <2> HIDE DEF r
  <2>6. Owed(h)' = i.overage
    <3>1. (IF <<h, "overage">> \in applied' THEN i.overage ELSE 0) = i.overage
      BY <2>1, <2>5
    <3>2. QED
      BY <2>1, <2>5, <3>1 DEF Owed, Part
  <2>7. \A g \in Holds \ {h} : Owed(g)' = Owed(g)
    BY <1>1, <1>3, <2>1, <2>3, OwedElsewhere
  <2>8. QED
    BY <1>1, <1>3, <2>1, <2>3, <2>4, <2>6, <2>7 DEF DebtMoves
<1>4. QED
  BY <1>2, <1>3 DEF SettleClaim

LEMMA SettlementExpiredMoves ==
  ASSUME IInv, debt \in Int, NEW p \in Procs, SettlementExpired(p)
  PROVE  DebtMoves /\ debt' \in Int
<1> DEFINE h == p[1]
<1> DEFINE i == arg[p]
<1>1. /\ HoldInv(h) /\ h \in Holds /\ row \in [Holds -> Row] /\ CallInv(h, p)
  BY CallFacts DEF IInv, HoldInv, Types, RowTypes
<1>2. /\ i \in Intents /\ i = row[h].intent /\ i.overage \in Nat /\ Actual(i) \in Nat
  BY <1>1 DEF CallInv, SettlementExpired, Actual
<1>3. CASE UNCHANGED journalVars
  BY <1>3, UnowedFacts DEF Unowed, journalVars
<1>4. ASSUME Cas(h, "settling"),
             row' = [row EXCEPT ![h] = RecordLate(h, [row[h] EXCEPT !.st = "expired"], Actual(i))],
             debt' = debt - Fresh(h, "reversed", i.overage) + Fresh(h, "late", Actual(i)),
             applied' = applied \cup Marked(h, "reversed", i.overage)
                                \cup Marked(h, "late", Actual(i))
      PROVE  DebtMoves /\ debt' \in Int
  <2> DEFINE q == [row[h] EXCEPT !.st = "expired"]
  <2> DEFINE r == RecordLate(h, q, Actual(i))
  <2>1. row[h].st = "settling" /\ row[h].incident = {} /\ row[h].late = "none"
    BY <1>1, <1>4 DEF Cas, HoldInv, RowInv
  <2>2. /\ q \in Row /\ q.st = "expired" /\ q.intent = i /\ q.late = "none" /\ q.incident = {}
        /\ row' = [row EXCEPT ![h] = r]
    BY <1>1, <1>2, <1>4, <2>1 DEF Row, States
  <2> HIDE DEF q
  <2>3. r.intent = i /\ r.lateAmount = Actual(i)
    BY <1>2, <2>2, RecordLateFacts
  <2> HIDE DEF r
  <2>4. row'[h] = r
    BY <1>1, <2>2
  <2> DEFINE new == Marked(h, "reversed", i.overage) \cup Marked(h, "late", Actual(i))
  <2>5. /\ applied' = applied \cup new /\ new \subseteq {h} \X Roles
        /\ <<h, "overage">> \notin new
        /\ <<h, "reversed">> \in new <=> i.overage > 0
        /\ <<h, "late">> \in new <=> Actual(i) > 0
    BY <1>2, <1>4 DEF Marked, Roles
  <2> HIDE DEF new
  <2>6. /\ <<h, "overage">> \in applied <=> i.overage > 0
        /\ <<h, "reversed">> \notin applied /\ <<h, "late">> \notin applied
    BY <1>1, <1>2, <2>1 DEF HoldInv, DebtInv
  <2>7. Owed(h) = i.overage
    BY <1>2, <2>6 DEF Owed, Part
  <2>8. Owed(h)' = Actual(i)
    BY <1>2, <2>3, <2>4, <2>5, <2>6 DEF Owed, Part
  <2>9. debt' = debt - i.overage + Actual(i)
    BY <1>4, <2>6 DEF Fresh
  <2>10. \A g \in Holds \ {h} : Owed(g)' = Owed(g)
    BY <1>1, <2>2, <2>5, OwedElsewhere
  <2>11. QED
    BY <1>1, <1>2, <2>7, <2>8, <2>9, <2>10 DEF DebtMoves
<1>5. QED
  BY <1>3, <1>4 DEF SettlementExpired

LEMMA LateTxMoves ==
  ASSUME IInv, debt \in Int, NEW p \in Procs, LateTx(p)
  PROVE  DebtMoves /\ debt' \in Int
<1> DEFINE h == p[1]
<1> DEFINE r == RecordLate(h, row[h], Actual(arg[p]))
<1>1. /\ HoldInv(h) /\ h \in Holds /\ row \in [Holds -> Row] /\ row[h] \in Row /\ CallInv(h, p)
  BY CallFacts DEF IInv, HoldInv, Types, RowTypes
<1>2. arg[p] \in Intents /\ Actual(arg[p]) \in Nat
  BY <1>1 DEF CallInv, LateTx, Actual
<1>3. /\ r.intent = row[h].intent
      /\ r = row[h] \/ (row[h].late = "none" /\ r.lateAmount = Actual(arg[p]))
  BY <1>1, <1>2, RecordLateFacts
<1>4. row' = [row EXCEPT ![h] = r]
  BY DEF LateTx
<1> DEFINE amount == Actual(arg[p])
<1>5. CASE r = row[h]
  <2>1. UNCHANGED <<row, applied, debt>>
    BY <1>1, <1>4, <1>5 DEF LateTx
  <2>2. QED
    BY <2>1, UnowedFacts DEF Unowed
<1>6. CASE r # row[h]
  <2>1. /\ debt' = debt + Fresh(h, "late", amount)
        /\ applied' = applied \cup Marked(h, "late", amount)
    BY <1>6 DEF LateTx
  <2> HIDE DEF r
  <2>2. row'[h] = r /\ row[h].late = "none" /\ r.lateAmount = amount
    BY <1>1, <1>3, <1>4, <1>6
  <2>3. <<h, "late">> \notin applied
    BY <1>1, <2>2 DEF HoldInv, DebtInv
  <2> HIDE DEF amount
  <2>4. /\ Marked(h, "late", amount) \subseteq {h} \X Roles
        /\ <<h, "late">> \in applied' <=> amount > 0
        /\ \A role \in {"overage", "reversed"} :
             <<h, role>> \in applied' <=> <<h, role>> \in applied
    BY <1>2, <2>1, <2>3 DEF Marked, Roles, amount
  <2>5. debt' = debt + amount /\ amount \in Nat
    BY <1>2, <2>1, <2>3 DEF Fresh, amount
  <2> DEFINE rest == Part(h, "overage", applied, row[h].intent.overage)
                       - Part(h, "reversed", applied, row[h].intent.overage)
  <2>6. rest \in Int
    BY <1>1 DEF HoldInv, DebtInv, Part
  <2>7. Owed(h) = rest
    BY <2>3, <2>6 DEF Owed, Part
  <2>8. Owed(h)' = rest + amount
    BY <1>3, <2>2, <2>4, <2>5, <2>6 DEF Owed, Part
  <2> HIDE DEF rest
  <2>9. \A g \in Holds \ {h} : Owed(g)' = Owed(g)
    BY <1>1, <1>4, <2>1, <2>4, OwedElsewhere
  <2>10. QED
    BY <1>1, <2>5, <2>6, <2>7, <2>8, <2>9 DEF DebtMoves
<1>7. QED
  BY <1>5, <1>6

LEMMA Moves ==
  ASSUME row \in [Holds -> Row], NEW h \in Holds, NEW to, UNCHANGED <<applied, debt>>,
         row' = [row EXCEPT ![h].st = to]
  PROVE  Unowed
  BY DEF Unowed, Row

(* Every other step of a call leaves the intents and the amounts alone.    *)
LEMMA OthersUnowed ==
  ASSUME IInv, [Next]_vars,
         \A p \in Procs : ~SettleClaim(p) /\ ~SettlementExpired(p) /\ ~LateTx(p)
  PROVE  Unowed
<1>1. row \in [Holds -> Row] /\ \A p \in Procs : p[1] \in Holds
  BY CallFacts DEF IInv, Types, RowTypes
<1>2. CASE UNCHANGED journalVars
  BY <1>2 DEF Unowed, journalVars
<1>3. ASSUME NEW h \in Holds, Reserve(h) \/ ReserveLost(h)
      PROVE  Unowed
  <2>1. CASE ReserveCommit(h)
    BY <1>1, <2>1, Moves DEF ReserveCommit
  <2>2. CASE ReserveBegin(h) \/ ReserveCredit(h) \/ PlaceAnswered(h) \/ ReserveLost(h)
    BY <1>2, <2>2 DEF ReserveLost, ReserveBegin, ReserveCredit, PlaceAnswered
  <2>3. QED
    BY <1>3, <2>1, <2>2 DEF Reserve
<1>4. ASSUME NEW p \in Procs, Journal(p)
      PROVE  Unowed
  <2>1. CASE ChargeFailed(p)
    BY <1>1, <2>1 DEF ChargeFailed, WithIncident, Unowed
  <2>2. CASE Settled(p) \/ Voided(p) \/ VoidedNotFound(p)
    <3>1. ASSUME NEW from, NEW to, Finish(p, from, to)
          PROVE  Unowed
      <4>1. /\ UNCHANGED <<applied, debt>>
            /\ row' = row \/ row' = [row EXCEPT ![p[1]].st = to]
        BY <3>1 DEF Finish, Moved
      <4>2. QED
        BY <1>1, <1>2, <4>1, Moves DEF journalVars
    <3>2. QED
      BY <1>2, <2>2, <3>1 DEF Settled, Voided, VoidedNotFound
  <2>3. CASE MarkLate(p)
    BY <1>1, <2>3 DEF MarkLate, Unowed
  <2>4. CASE LateAnswer(p)
    BY <1>1, <2>4 DEF LateAnswer, Unowed
  <2>5. CASE ExpiryFinished(p)
    BY <1>1, <2>5 DEF ExpiryFinished, WithIncident, Moved, Unowed
  <2>6. CASE CompleteCheck(p) \/ ChargeLateCheck(p)
    BY <2>6, <1>2 DEF CompleteCheck, ChargeLateCheck
  <2>7. QED
    BY <1>4, <2>1, <2>2, <2>3, <2>4, <2>5, <2>6 DEF Journal
<1>5. ASSUME NEW p \in Procs, ReleaseClaim(p) \/ Sweep(p)
      PROVE  Unowed
  <2>1. /\ UNCHANGED <<applied, debt>>
        /\ row' = row \/ \E to : row' = [row EXCEPT ![p[1]].st = to]
    BY <1>5 DEF ReleaseClaim, Sweep
  <2>2. QED
    BY <1>1, <1>2, <2>1, Moves DEF journalVars
<1>6. ASSUME NEW p \in Procs, Answered(p) \/ TimedOut(p) \/ JournalBusy(p)
      PROVE  Unowed
  BY <1>2, <1>6 DEF Answered, PostAnswered, OverageAnswered, LateAnswered, VoidAnswered,
     TimedOut, JournalBusy
<1>7. ASSUME NEW h \in Holds, LedgerExpires(h) \/ Advance(h) \/ (\E o \in Ops : Stray(h, o))
      PROVE  Unowed
  BY <1>2, <1>7 DEF LedgerExpires, Advance, Stray, StrayApplied, StrayLost
<1>8. CASE Crash \/ UNCHANGED vars
  BY <1>2, <1>8 DEF Crash, vars, journalVars
<1>9. QED
  BY <1>3, <1>4, <1>5, <1>6, <1>7, <1>8 DEF Next

(* The debt row that the next reservation is judged by is a running total  *)
(* of the holds: it starts at nothing with no hold owing anything, and     *)
(* each step moves it by what one hold comes to owe (settle's claim, the   *)
(* settlement the ledger's timeout overtook, settleLate). That is the      *)
(* induction step of DebtAgrees.                                           *)
THEOREM DebtFollowsTheHolds ==
  /\ Init => debt = 0 /\ \A h \in Holds : Owed(h) = 0
  /\ Spec => [][DebtMoves]_vars
<1>1. Init => debt = 0 /\ \A h \in Holds : Owed(h) = 0
  BY DEF Init, Owed, Part
<1>2. IInv /\ load \in Loads /\ debt \in Int /\ [Next]_vars => DebtMoves /\ (debt \in Int)'
  <2> SUFFICES ASSUME IInv, load \in Loads, debt \in Int, [Next]_vars
               PROVE  DebtMoves /\ debt' \in Int
    OBVIOUS
  <2>1. CASE \E p \in Procs : SettleClaim(p) \/ SettlementExpired(p) \/ LateTx(p)
    BY <2>1, SettleClaimMoves, SettlementExpiredMoves, LateTxMoves
  <2>2. CASE \A p \in Procs : ~SettleClaim(p) /\ ~SettlementExpired(p) /\ ~LateTx(p)
    BY <2>2, OthersUnowed, UnowedFacts DEF Unowed
  <2>3. QED
    BY <2>1, <2>2
<1>3. Init => debt \in Int /\ load \in Loads
  BY DEF Init
<1>4. [Next]_vars /\ load \in Loads => (load \in Loads)'
  BY DEF Next, vars
<1>5. Spec => [][DebtMoves]_vars
  BY <1>2, <1>3, <1>4, Invariant, PTL DEF Spec
<1>6. QED
  BY <1>1, <1>5
=============================================================================
