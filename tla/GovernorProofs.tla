---------------------------- MODULE GovernorProofs ----------------------------
(***************************************************************************)
(* Who ends a hold: proofs about Governor for any number of holds and of   *)
(* concurrent calls, with or without a ledger, with appends that fail and  *)
(* a drain that runs into its deadline.                                    *)
(*                                                                         *)
(* The inductive invariant says where the right to end a hold is: in       *)
(* activeAuths or unpostedHolds, with the one call that claimed it (Mine), *)
(* or with destroy(); and that a terminal record leaves it nowhere. Two    *)
(* more sections rest on it: what a call answers is true of the ledger     *)
(* (LedgerSide), and inFlightHoldTotal follows the holds (SessionSide).    *)
(***************************************************************************)
EXTENDS Governor, TLAPS

USE GovernorAssumption DEF GovernorAssumption

(* Call c has claimed its hold and has not handed it back. *)
Mine(c) == pc[c] \notin {"idle", "returned"} \/ (pc[c] = "returned" /\ Won(c))

BeforeRecord == {"metering", "post", "ambiguous", "charge", "persist", "record"}
SettlePcs    == BeforeRecord \cup {"shortfall", "receipt"}
EndPcs       == {"giveback", "void", "logged"}

(* The calls made on hold h, and what the chain says of it. *)
Of(h)         == {c \in Calls : c[1] = h}
Terminated(h) == \E i \in DOMAIN rec[h] : rec[h][i] \in Terminal
Released(h)   == \E i \in DOMAIN rec[h] : rec[h][i] \in {"llm_call_failed", "hold_released"}
Single(h)     == \A i, j \in DOMAIN rec[h] :
                   rec[h][i] \in Terminal /\ rec[h][j] \in Terminal => i = j

(* Types, of the variables the argument is about. *)
TypeInv ==
  /\ pc \in [Procs -> AuthPcs \cup CallPcs \cup SweepPcs]
  /\ op \in [Calls -> {"none", "settle", "abort", "release"}]
  /\ result \in [Calls -> Results]
  /\ rec \in [Holds -> Seq(Kinds)]
  /\ net \in [Procs -> {"none", "sent", "applied", "refused"}]
  /\ tb \in [Holds -> {"none", "pending", "posted", "voided", "expired"}]

(* destroy()'s two flags and its phase move together. *)
FlagInv == (td # "up" => destroyed) /\ (td \in {"up", "drain"} <=> ~sweeping)

(* What a call's place in its code says of its kind, answer and request. *)
CallInv(h) ==
  \A c \in Of(h) :
    /\ pc[c] \in CallPcs
    /\ pc[c] = "idle" => result[c] = "none" /\ net[c] = "none" /\ op[c] = "none"
    /\ pc[c] \in SettlePcs => op[c] = "settle"
    /\ pc[c] \in EndPcs => op[c] \in {"abort", "release"}
    /\ pc[c] \in {"ambiguous", "charge", "persist", "record", "shortfall",
                  "receipt", "logged"} => Won(c)
    /\ pc[c] # "idle" => pc[A(h)] = "granted"
    /\ op[c] = "settle" /\ net[c] # "none" => Mine(c) /\ pc[c] # "metering"

(* One owner, and nobody else can claim what it owns. *)
OwnerInv(h) ==
  /\ \A c, d \in Of(h) : Mine(c) /\ Mine(d) => c = d
  /\ \A c \in Of(h) : Mine(c) => h \notin activeAuths
  /\ \A c \in Of(h) : Mine(c) /\ pc[c] # "metering" => h \notin unpostedHolds
  /\ \A c \in Of(h) : pc[c] \in SettlePcs => h \in settling
  /\ h \in activeAuths \/ h \in unpostedHolds => pc[A(h)] = "granted"

(* What destroy() took: in flight, it is an abort's or a release's; left   *)
(* over, it is no call's. Once sweeping, no map has the hold.              *)
SweepInv(h) ==
  /\ pc[S(h)] \in SweepPcs
  /\ ~sweeping => pc[S(h)] = "idle"
  /\ sweeping => h \notin activeAuths /\ h \notin unpostedHolds /\ h \notin inFlight
  /\ h \in inFlight => \E c \in Of(h) : pc[c] \in {"giveback", "void"}
  /\ pc[S(h)] = "inflight" => \E c \in Of(h) : Mine(c) /\ op[c] # "settle"
  /\ pc[S(h)] = "leftover" \/ (pc[S(h)] = "voiding" /\ td = "records") =>
       pc[A(h)] = "granted" /\ \A c \in Of(h) : ~Mine(c)

(* A hold with its terminal record is where nothing can record it again. *)
RecordInv(h) ==
  /\ Single(h)
  /\ Terminated(h) =>
       /\ pc[A(h)] = "granted"
       /\ h \notin activeAuths /\ h \notin unpostedHolds /\ h \notin inFlight
       /\ pc[S(h)] \notin {"inflight", "leftover"}
       /\ td = "records" => pc[S(h)] # "voiding"
       /\ \A c \in Of(h) : pc[c] \notin BeforeRecord

(* A posted transfer is a settle's; a released hold is no settle's. *)
ChargeInv(h) ==
  /\ tb[h] = "posted" => \E c \in Of(h) : op[c] = "settle" /\ Mine(c) /\ pc[c] # "metering"
  /\ Released(h) => \A c \in Of(h) : op[c] = "settle" => ~Mine(c)

HoldInv(h) == CallInv(h) /\ OwnerInv(h) /\ SweepInv(h) /\ RecordInv(h) /\ ChargeInv(h)

IInv == TypeInv /\ FlagInv /\ \A h \in Holds : HoldInv(h)

(* A step that has nothing to do with hold h. *)
Untouched(h) ==
  /\ pc'[A(h)] = pc[A(h)] /\ pc'[S(h)] = pc[S(h)]
  /\ \A c \in Of(h) : pc'[c] = pc[c] /\ op'[c] = op[c] /\ result'[c] = result[c] /\ net'[c] = net[c]
  /\ h \in activeAuths' <=> h \in activeAuths
  /\ h \in unpostedHolds' <=> h \in unpostedHolds
  /\ h \in settling' <=> h \in settling
  /\ h \in inFlight' <=> h \in inFlight
  /\ tb'[h] = tb[h] /\ rec'[h] = rec[h]

-----------------------------------------------------------------------------
(* The processes of different kinds are different, and know their hold. *)
LEMMA ProcFacts ==
  /\ \A h \in Holds : A(h) \in Procs /\ S(h) \in Procs /\ S(h)[1] = h /\ S(h)[2] = "sweep"
                      /\ A(h)[2] # "sweep"
  /\ \A g, h \in Holds : A(g) # S(h) /\ (A(g) = A(h) => g = h) /\ (S(g) = S(h) => g = h)
  /\ \A c \in Calls : c \in Procs /\ c[1] \in Holds /\ c \in Of(c[1]) /\ c[2] # "sweep"
  /\ \A c \in Calls, h \in Holds : c # A(h) /\ c # S(h) /\ (c \in Of(h) <=> c[1] = h)
  /\ \A h \in Holds : Of(h) \subseteq Calls
  BY DEF A, S, Procs, Calls, Of

(* What a step leaves alone keeps its invariant. *)
LEMMA Frame ==
  ASSUME NEW h \in Holds, HoldInv(h), Untouched(h), sweeping' = sweeping,
         td' = "records" => td = "records"
  PROVE  HoldInv(h)'
<1>1. /\ \A c \in Of(h) : (Mine(c)' <=> Mine(c)) /\ (Won(c)' <=> Won(c))
      /\ (Terminated(h)' <=> Terminated(h)) /\ (Released(h)' <=> Released(h))
      /\ Single(h)' <=> Single(h)
  BY DEF Untouched, Mine, Won, Terminated, Released, Single
<1>2. Of(h)' = Of(h) /\ A(h)' = A(h) /\ S(h)' = S(h)
  BY DEF Of, A, S
<1>3. CallInv(h)'
  BY <1>1, <1>2 DEF HoldInv, CallInv, Untouched
<1>4. OwnerInv(h)'
  BY <1>1, <1>2 DEF HoldInv, OwnerInv, Untouched
<1>5. SweepInv(h)'
  BY <1>1, <1>2 DEF HoldInv, SweepInv, Untouched
<1>6. RecordInv(h)'
  BY <1>1, <1>2 DEF HoldInv, RecordInv, Untouched
<1>7. ChargeInv(h)'
  BY <1>1, <1>2 DEF HoldInv, ChargeInv, Untouched
<1>8. QED
  BY <1>3, <1>4, <1>5, <1>6, <1>7 DEF HoldInv

(* A step about one hold has only that hold's invariant to keep. *)
LEMMA OneHold ==
  ASSUME IInv, NEW h \in Holds, \A g \in Holds \ {h} : Untouched(g),
         sweeping' = sweeping, destroyed' = destroyed, td' = td, TypeInv', HoldInv(h)'
  PROVE  IInv'
<1>1. FlagInv'
  BY DEF IInv, FlagInv
<1>2. \A g \in Holds \ {h} : HoldInv(g)'
  BY Frame DEF IInv
<1>3. QED
  BY <1>1, <1>2 DEF IInv

(* What an append that lands does to the records of its hold, and of the   *)
(* other holds.                                                            *)
LEMMA RecAppend ==
  ASSUME rec \in [Holds -> Seq(Kinds)], NEW h \in Holds, NEW kind \in Kinds,
         rec' = [rec EXCEPT ![h] = Append(@, kind)]
  PROVE  /\ rec' \in [Holds -> Seq(Kinds)]
         /\ \A g \in Holds \ {h} : rec'[g] = rec[g]
         /\ \A i \in DOMAIN rec'[h] : \/ i \in DOMAIN rec[h] /\ rec'[h][i] = rec[h][i]
                                      \/ i = Len(rec[h]) + 1 /\ rec'[h][i] = kind
         /\ \A i \in DOMAIN rec[h] : i \in DOMAIN rec'[h] /\ rec'[h][i] = rec[h][i]
<1>1. rec' \in [Holds -> Seq(Kinds)] /\ \A g \in Holds \ {h} : rec'[g] = rec[g]
  OBVIOUS
<1>2. /\ Len(rec'[h]) = Len(rec[h]) + 1 /\ Len(rec[h]) \in Nat
      /\ rec'[h][Len(rec[h]) + 1] = kind
      /\ \A i \in 1 .. Len(rec[h]) : rec'[h][i] = rec[h][i]
      /\ DOMAIN rec[h] = 1 .. Len(rec[h]) /\ DOMAIN rec'[h] = 1 .. Len(rec[h]) + 1
  OBVIOUS
<1>3. ASSUME NEW i \in DOMAIN rec'[h]
      PROVE  (i \in DOMAIN rec[h] /\ rec'[h][i] = rec[h][i]) \/ (i = Len(rec[h]) + 1 /\ rec'[h][i] = kind)
  <2>1. i \in 1 .. Len(rec[h]) \/ i = Len(rec[h]) + 1
    BY <1>2
  <2>2. CASE i \in 1 .. Len(rec[h])
    BY <2>2, <1>2, Zenon
  <2>3. CASE i = Len(rec[h]) + 1
    BY <2>3, <1>2, Zenon
  <2>4. QED
    BY <2>1, <2>2, <2>3, Zenon
<1>4. \A i \in DOMAIN rec[h] : i \in DOMAIN rec'[h] /\ rec'[h][i] = rec[h][i]
  BY <1>2
<1>5. QED
  BY <1>1, <1>3, <1>4, Zenon

(* A record that ends nothing changes nothing about ending. *)
LEMMA RecOther ==
  ASSUME rec \in [Holds -> Seq(Kinds)], NEW h \in Holds, Single(h),
         NEW kind \in Kinds \ Terminal, RecordAppended(h, kind) \/ UNCHANGED rec
  PROVE  /\ rec' \in [Holds -> Seq(Kinds)]
         /\ \A g \in Holds \ {h} : rec'[g] = rec[g]
         /\ Single(h)' /\ (Terminated(h)' <=> Terminated(h)) /\ (Released(h)' <=> Released(h))
<1>1. CASE UNCHANGED rec
  BY <1>1 DEF Single, Terminated, Released
<1>2. CASE rec' = [rec EXCEPT ![h] = Append(@, kind)]
  <2>1. /\ rec' \in [Holds -> Seq(Kinds)]
        /\ \A g \in Holds \ {h} : rec'[g] = rec[g]
    BY <1>2, RecAppend
  <2>2. /\ \A i \in DOMAIN rec'[h] : \/ i \in DOMAIN rec[h] /\ rec'[h][i] = rec[h][i]
                                     \/ i = Len(rec[h]) + 1 /\ rec'[h][i] = kind
        /\ \A i \in DOMAIN rec[h] : i \in DOMAIN rec'[h] /\ rec'[h][i] = rec[h][i]
    BY <1>2, RecAppend
  <2>3. kind \notin Terminal /\ kind \notin {"llm_call_failed", "hold_released"}
    BY DEF Terminal
  <2>4. Single(h)'
    BY <2>2, <2>3, Zenon DEF Single
  <2>5. (Terminated(h)' <=> Terminated(h)) /\ (Released(h)' <=> Released(h))
    BY <2>2, <2>3, Zenon DEF Terminated, Released
  <2>6. QED
    BY <2>1, <2>4, <2>5
<1>3. QED
  BY <1>1, <1>2 DEF RecordAppended

(* A terminal record of a hold that has none keeps the records single. *)
LEMMA RecTerminal ==
  ASSUME rec \in [Holds -> Seq(Kinds)], NEW h \in Holds, Single(h), ~Terminated(h),
         NEW kind \in Terminal, RecordAppended(h, kind)
  PROVE  /\ rec' \in [Holds -> Seq(Kinds)]
         /\ \A g \in Holds \ {h} : rec'[g] = rec[g]
         /\ Single(h)'
         /\ Released(h)' => kind \in {"llm_call_failed", "hold_released"}
<1>0. ~Released(h)
  BY DEF Terminated, Released, Terminal
<1>1. CASE UNCHANGED rec
  BY <1>0, <1>1 DEF Single, Released
<1>2. CASE rec' = [rec EXCEPT ![h] = Append(@, kind)]
  <2>0. kind \in Kinds
    BY DEF Kinds, Terminal
  <2>1. /\ rec' \in [Holds -> Seq(Kinds)]
        /\ \A g \in Holds \ {h} : rec'[g] = rec[g]
    BY <1>2, <2>0, RecAppend
  <2>2. /\ \A i \in DOMAIN rec'[h] : \/ i \in DOMAIN rec[h] /\ rec'[h][i] = rec[h][i]
                                     \/ i = Len(rec[h]) + 1 /\ rec'[h][i] = kind
        /\ \A i \in DOMAIN rec[h] : i \in DOMAIN rec'[h] /\ rec'[h][i] = rec[h][i]
    BY <1>2, <2>0, RecAppend
  <2>3. Single(h)'
    BY <2>2, Zenon DEF Single, Terminated
  <2>4. Released(h)' => kind \in {"llm_call_failed", "hold_released"}
    BY <1>0, <2>2, Zenon DEF Released
  <2>5. QED
    BY <2>1, <2>3, <2>4
<1>3. QED
  BY <1>1, <1>2 DEF RecordAppended

-----------------------------------------------------------------------------
(* The six steps of authorize(): they move their own process, may register *)
(* the hold, and touch no call, no teardown and no terminal record.        *)
LEMMA AuthorizeInv ==
  ASSUME IInv, NEW h \in Holds, AuthorizeCall(h) \/ AuthorizeStep(h)
  PROVE  IInv'
<1> USE DEF tdVars, holdVars, callVars, ledgerVars, moneyVars
<1> USE ProcFacts
<1>t. TypeInv /\ FlagInv /\ HoldInv(h) /\ Single(h)
  BY DEF IInv, HoldInv, RecordInv
<1>1. UNCHANGED <<op, result, destroyed, sweeping, td, unpostedHolds, settling, inFlight, tb>>
  BY DEF AuthorizeCall, AuthorizeStep, AuthorizeLocked, AuthorizePreflight, AuthorizeReserved,
         AuthorizeRejected, AuthorizeUndone, Gate, Granted
<1>2. \E kind \in Kinds \ Terminal : RecordAppended(h, kind) \/ UNCHANGED rec
  BY DEF AuthorizeCall, AuthorizeStep, AuthorizeLocked, AuthorizePreflight, AuthorizeReserved,
         AuthorizeRejected, AuthorizeUndone, Gate, Kinds, Terminal
<1>3. net' = net \/ \E v \in {"none", "sent"} : net' = [net EXCEPT ![A(h)] = v]
  BY DEF AuthorizeCall, AuthorizeStep, AuthorizeLocked, AuthorizePreflight, AuthorizeReserved,
         AuthorizeRejected, AuthorizeUndone, Gate, Sent
<1>4. pc[A(h)] # "granted"
  BY DEF AuthorizeCall, AuthorizeStep, AuthorizeLocked, AuthorizePreflight, AuthorizeReserved,
         AuthorizeRejected, AuthorizeUndone
<1>5. \E x \in AuthPcs : /\ pc' = [pc EXCEPT ![A(h)] = x]
                         /\ \/ x = "granted" /\ ~destroyed /\ activeAuths' = activeAuths \cup {h}
                            \/ activeAuths' = activeAuths
  BY DEF AuthorizeCall, AuthorizeStep, AuthorizeLocked, AuthorizePreflight, AuthorizeReserved,
         AuthorizeRejected, AuthorizeUndone, Gate, Granted, AuthPcs
<1>6. PICK x \in AuthPcs : /\ pc' = [pc EXCEPT ![A(h)] = x]
                           /\ \/ x = "granted" /\ ~destroyed /\ activeAuths' = activeAuths \cup {h}
                              \/ activeAuths' = activeAuths
  BY <1>5
<1>7. /\ \A p \in Procs \ {A(h)} : pc'[p] = pc[p] /\ net'[p] = net[p]
      /\ pc'[A(h)] = x /\ pc' \in [Procs -> AuthPcs \cup CallPcs \cup SweepPcs]
      /\ net' \in [Procs -> {"none", "sent", "applied", "refused"}]
  BY <1>3, <1>6, <1>t DEF TypeInv
<1>8. /\ rec' \in [Holds -> Seq(Kinds)]
      /\ \A g \in Holds \ {h} : rec'[g] = rec[g]
      /\ Single(h)' /\ (Terminated(h)' <=> Terminated(h)) /\ (Released(h)' <=> Released(h))
  BY <1>2, <1>t, RecOther DEF TypeInv
<1>9. TypeInv'
  BY <1>1, <1>7, <1>8, <1>t DEF TypeInv
<1>10. \A g \in Holds \ {h} : Untouched(g)
  BY <1>1, <1>6, <1>7, <1>8 DEF Untouched
<1>11. \A c \in Of(h) : /\ pc[c] = "idle" /\ ~Mine(c) /\ ~Mine(c)'
                        /\ pc'[c] = pc[c] /\ net'[c] = net[c] /\ op'[c] = op[c] /\ result'[c] = result[c]
  BY <1>1, <1>4, <1>7, <1>t DEF HoldInv, CallInv, Mine
<1>12. HoldInv(h)'
  <2>1. CallInv(h)'
    BY <1>11, <1>t DEF HoldInv, CallInv, SettlePcs, BeforeRecord, EndPcs
  <2>2. OwnerInv(h)'
    BY <1>1, <1>4, <1>6, <1>7, <1>11, <1>t DEF HoldInv, OwnerInv, SettlePcs, BeforeRecord
  <2>3. SweepInv(h)'
    BY <1>1, <1>4, <1>6, <1>7, <1>11, <1>t DEF HoldInv, SweepInv, FlagInv
  <2>4. RecordInv(h)'
    BY <1>4, <1>8, <1>t DEF HoldInv, RecordInv
  <2>5. ChargeInv(h)'
    BY <1>1, <1>8, <1>11, <1>t DEF HoldInv, ChargeInv
  <2>6. QED
    BY <2>1, <2>2, <2>3, <2>4, <2>5 DEF HoldInv
<1>13. QED
  BY <1>1, <1>9, <1>10, <1>12, OneHold

-----------------------------------------------------------------------------
(* A step of call c, which is about no other hold than c[1]. *)
CallStep(c) ==
  /\ \A p \in Procs \ {c} : pc'[p] = pc[p] /\ net'[p] = net[p]
  /\ \A d \in Calls \ {c} : op'[d] = op[d] /\ result'[d] = result[d]
  /\ \A g \in Holds \ {c[1]} : /\ g \in activeAuths' <=> g \in activeAuths
                               /\ g \in unpostedHolds' <=> g \in unpostedHolds
                               /\ g \in settling' <=> g \in settling
                               /\ g \in inFlight' <=> g \in inFlight
                               /\ rec'[g] = rec[g]
  /\ UNCHANGED <<destroyed, sweeping, td, tb>>

LEMMA CallLocal ==
  ASSUME IInv, NEW c \in Calls, CallStep(c), TypeInv', HoldInv(c[1])'
  PROVE  IInv'
<1>1. \A g \in Holds \ {c[1]} : Untouched(g)
  BY ProcFacts DEF CallStep, Untouched
<1>2. QED
  BY <1>1, ProcFacts, OneHold DEF CallStep

(* A settle past its pricing moves on towards its receipt: it still owns   *)
(* the hold, and nothing else moves.                                       *)
LEMMA SettleMoves ==
  ASSUME IInv, NEW c \in Calls, pc[c] \in SettlePcs \ {"metering"},
         NEW x \in SettlePcs \ {"metering", "post"}, pc' = [pc EXCEPT ![c] = x],
         x \in BeforeRecord => pc[c] \in BeforeRecord,
         result' = result \/ result' = [result EXCEPT ![c] = "settled"]
                          \/ result' = [result EXCEPT ![c] = "ambiguous"],
         Won(c)',
         UNCHANGED <<op, destroyed, sweeping, td, activeAuths, unpostedHolds, settling,
                     inFlight, tb, net>>,
         NEW kind \in Kinds \ Terminal, RecordAppended(c[1], kind) \/ UNCHANGED rec
  PROVE  IInv'
<1> DEFINE h == c[1]
<1> USE ProcFacts
<1>t. TypeInv /\ HoldInv(h) /\ Single(h) /\ h \in Holds /\ c \in Of(h)
  BY DEF IInv, HoldInv, RecordInv
<1>1. /\ rec' \in [Holds -> Seq(Kinds)]
      /\ \A g \in Holds \ {h} : rec'[g] = rec[g]
      /\ Single(h)' /\ (Terminated(h)' <=> Terminated(h)) /\ (Released(h)' <=> Released(h))
  BY <1>t, RecOther DEF TypeInv
<1>2. /\ \A p \in Procs \ {c} : pc'[p] = pc[p]
      /\ \A d \in Calls \ {c} : result'[d] = result[d]
      /\ pc'[c] = x
  BY <1>t DEF TypeInv
<1>3. TypeInv'
  BY <1>t, <1>1 DEF TypeInv, SettlePcs, BeforeRecord, CallPcs, Results
<1>4. CallStep(c)
  BY <1>1, <1>2 DEF CallStep
<1>5. /\ \A d \in Of(h) \ {c} : /\ pc'[d] = pc[d] /\ op'[d] = op[d] /\ net'[d] = net[d]
                                /\ (Won(d)' <=> Won(d)) /\ (Mine(d)' <=> Mine(d))
      /\ Mine(c) /\ Mine(c)' /\ op[c] = "settle" /\ op'[c] = "settle" /\ net'[c] = net[c]
      /\ pc'[A(h)] = pc[A(h)] /\ pc'[S(h)] = pc[S(h)]
  BY <1>2, <1>t DEF Mine, Won, SettlePcs, BeforeRecord, HoldInv, CallInv
<1>6. \A d \in Of(h) : d # c => ~Mine(d)
  BY <1>5, <1>t DEF HoldInv, OwnerInv
<1>7. CallInv(h)'
  BY <1>2, <1>5, <1>t DEF HoldInv, CallInv, SettlePcs, BeforeRecord, EndPcs, CallPcs
<1>8. OwnerInv(h)'
  BY <1>2, <1>5, <1>t DEF HoldInv, OwnerInv, SettlePcs, BeforeRecord
<1>9. SweepInv(h)'
  <2>1. h \notin inFlight
    BY <1>5, <1>6, <1>t DEF HoldInv, SweepInv, Mine, SettlePcs, BeforeRecord
  <2>2. pc[S(h)] # "inflight" /\ pc[S(h)] # "leftover" /\ ~(pc[S(h)] = "voiding" /\ td = "records")
    BY <1>5, <1>6, <1>t DEF HoldInv, SweepInv
  <2>3. QED
    BY <2>1, <2>2, <1>5, <1>t DEF HoldInv, SweepInv
<1>10. RecordInv(h)'
  BY <1>1, <1>2, <1>5, <1>t DEF HoldInv, RecordInv
<1>11. ChargeInv(h)'
  BY <1>1, <1>2, <1>5, <1>6, <1>t DEF HoldInv, ChargeInv
<1>12. QED
  BY <1>3, <1>4, <1>7, <1>8, <1>9, <1>10, <1>11, CallLocal DEF HoldInv

(* The settle's own terminal record. *)
LEMMA SettleRecordedInv ==
  ASSUME IInv, NEW c \in Calls, SettleRecorded(c)
  PROVE  IInv'
<1> DEFINE h == c[1]
<1> USE ProcFacts
<1> USE DEF tdVars, holdVars, callVars, ledgerVars, moneyVars
<1>t. TypeInv /\ HoldInv(h) /\ Single(h) /\ h \in Holds /\ c \in Of(h) /\ pc[c] = "record"
  BY DEF IInv, HoldInv, RecordInv, SettleRecorded
<1>a. ~Terminated(h)
  BY <1>t DEF HoldInv, RecordInv, BeforeRecord
<1>b. \E k \in {"llm_call", "llm_call_unsettled"} : RecordAppended(h, k)
  BY DEF SettleRecorded
<1>1. /\ rec' \in [Holds -> Seq(Kinds)]
      /\ \A g \in Holds \ {h} : rec'[g] = rec[g]
      /\ Single(h)' /\ ~Released(h)'
  BY <1>a, <1>b, <1>t, RecTerminal DEF TypeInv, Terminal
<1>u. UNCHANGED <<op, result, destroyed, sweeping, td, activeAuths, unpostedHolds, settling,
                  inFlight, tb, net>>
  BY DEF SettleRecorded
<1>2. /\ \A p \in Procs \ {c} : pc'[p] = pc[p]
      /\ pc'[c] \in {"shortfall", "receipt"}
      /\ pc' \in [Procs -> AuthPcs \cup CallPcs \cup SweepPcs]
  BY <1>t DEF TypeInv, SettleRecorded, CallPcs
<1>3. TypeInv'
  BY <1>t, <1>1, <1>2, <1>u DEF TypeInv
<1>4. CallStep(c)
  BY <1>1, <1>2, <1>u DEF CallStep
<1>5. /\ \A d \in Of(h) \ {c} : /\ pc'[d] = pc[d] /\ op'[d] = op[d] /\ net'[d] = net[d]
                                /\ (Won(d)' <=> Won(d)) /\ (Mine(d)' <=> Mine(d))
      /\ Mine(c) /\ Mine(c)' /\ op[c] = "settle" /\ op'[c] = "settle" /\ net'[c] = net[c]
      /\ Won(c) /\ Won(c)'
      /\ pc'[A(h)] = pc[A(h)] /\ pc'[S(h)] = pc[S(h)] /\ pc[A(h)] = "granted"
  BY <1>2, <1>t, <1>u DEF Mine, Won, SettlePcs, BeforeRecord, HoldInv, CallInv
<1>6. \A d \in Of(h) : d # c => ~Mine(d)
  BY <1>5, <1>t DEF HoldInv, OwnerInv
<1>7. CallInv(h)'
  BY <1>2, <1>5, <1>t, <1>u DEF HoldInv, CallInv, SettlePcs, BeforeRecord, EndPcs, CallPcs
<1>8. OwnerInv(h)'
  BY <1>2, <1>5, <1>t, <1>u DEF HoldInv, OwnerInv, SettlePcs, BeforeRecord
<1>s. /\ h \notin inFlight /\ h \notin activeAuths /\ h \notin unpostedHolds
      /\ pc[S(h)] # "inflight" /\ pc[S(h)] # "leftover" /\ ~(pc[S(h)] = "voiding" /\ td = "records")
  <2>1. h \notin inFlight
    BY <1>5, <1>6, <1>t DEF HoldInv, SweepInv, Mine
  <2>2. pc[S(h)] # "inflight" /\ pc[S(h)] # "leftover" /\ ~(pc[S(h)] = "voiding" /\ td = "records")
    BY <1>5, <1>6, <1>t DEF HoldInv, SweepInv
  <2>3. h \notin activeAuths /\ h \notin unpostedHolds
    BY <1>5, <1>t DEF HoldInv, OwnerInv
  <2>4. QED
    BY <2>1, <2>2, <2>3
<1>9. SweepInv(h)'
  BY <1>s, <1>5, <1>t, <1>u DEF HoldInv, SweepInv
<1>10. RecordInv(h)'
  <2>1. \A d \in Of(h) : pc'[d] \notin BeforeRecord
    BY <1>2, <1>5, <1>6 DEF BeforeRecord, Mine
  <2>2. QED
    BY <2>1, <1>s, <1>1, <1>5, <1>u DEF RecordInv
<1>11. ChargeInv(h)'
  BY <1>1, <1>2, <1>5, <1>6, <1>t, <1>u DEF HoldInv, ChargeInv
<1>12. QED
  BY <1>3, <1>4, <1>7, <1>8, <1>9, <1>10, <1>11, CallLocal DEF HoldInv

(* What the owner of a hold may rely on, and what a claim finds. *)
LEMMA SettleOwns ==
  ASSUME IInv, NEW c \in Calls, pc[c] \in SettlePcs
  PROVE  /\ op[c] = "settle" /\ Mine(c) /\ pc[A(c[1])] = "granted"
         /\ \A d \in Of(c[1]) : d # c => ~Mine(d)
         /\ c[1] \notin activeAuths /\ c[1] \notin inFlight /\ c[1] \in settling
         /\ pc[S(c[1])] # "inflight" /\ pc[S(c[1])] # "leftover"
         /\ ~(pc[S(c[1])] = "voiding" /\ td = "records")
<1> DEFINE h == c[1]
<1>1. HoldInv(h) /\ h \in Holds /\ c \in Of(h)
  BY ProcFacts DEF IInv
<1>2. op[c] = "settle" /\ Mine(c) /\ pc[A(h)] = "granted"
  BY <1>1 DEF HoldInv, CallInv, Mine, SettlePcs, BeforeRecord
<1>3. (\A d \in Of(h) : d # c => ~Mine(d)) /\ h \notin activeAuths /\ h \in settling
  BY <1>1, <1>2 DEF HoldInv, OwnerInv
<1>4. h \notin inFlight
  BY <1>1, <1>3 DEF HoldInv, SweepInv, Mine, SettlePcs, BeforeRecord
<1>5. pc[S(h)] # "inflight" /\ pc[S(h)] # "leftover" /\ ~(pc[S(h)] = "voiding" /\ td = "records")
  BY <1>1, <1>2, <1>3 DEF HoldInv, SweepInv
<1>6. QED
  BY <1>2, <1>3, <1>4, <1>5

LEMMA EndOwns ==
  ASSUME IInv, NEW c \in Calls, pc[c] \in EndPcs
  PROVE  /\ op[c] \in {"abort", "release"} /\ Mine(c) /\ pc[A(c[1])] = "granted"
         /\ \A d \in Of(c[1]) : d # c => ~Mine(d)
         /\ c[1] \notin activeAuths /\ c[1] \notin unpostedHolds
         /\ pc[S(c[1])] # "leftover" /\ ~(pc[S(c[1])] = "voiding" /\ td = "records")
         /\ tb[c[1]] # "posted"
<1> DEFINE h == c[1]
<1>1. HoldInv(h) /\ h \in Holds /\ c \in Of(h)
  BY ProcFacts DEF IInv
<1>2. op[c] \in {"abort", "release"} /\ Mine(c) /\ pc[A(h)] = "granted"
  BY <1>1 DEF HoldInv, CallInv, Mine, EndPcs
<1>3. (\A d \in Of(h) : d # c => ~Mine(d)) /\ h \notin activeAuths /\ h \notin unpostedHolds
  BY <1>1, <1>2 DEF HoldInv, OwnerInv, EndPcs
<1>4. pc[S(h)] # "leftover" /\ ~(pc[S(h)] = "voiding" /\ td = "records")
  BY <1>1, <1>2 DEF HoldInv, SweepInv
<1>5. tb[h] # "posted"
  BY <1>1, <1>2, <1>3 DEF HoldInv, ChargeInv
<1>6. QED
  BY <1>2, <1>3, <1>4, <1>5

LEMMA Claimable ==
  ASSUME IInv, NEW h \in Holds, h \in activeAuths \/ (h \in unpostedHolds /\ h \notin settling)
  PROVE  /\ \A d \in Of(h) : ~Mine(d) /\ pc[d] \in {"idle", "returned"}
         /\ ~sweeping /\ pc[S(h)] = "idle" /\ h \notin inFlight
         /\ tb[h] # "posted" /\ ~Terminated(h)
<1>1. HoldInv(h)
  BY DEF IInv
<1>2. \A d \in Of(h) : ~Mine(d)
  <2>1. \A d \in Of(h) : pc[d] = "metering" => h \in settling
    BY <1>1 DEF HoldInv, OwnerInv, SettlePcs, BeforeRecord
  <2>2. QED
    BY <1>1, <2>1 DEF HoldInv, OwnerInv
<1>3. \A d \in Of(h) : pc[d] \in {"idle", "returned"}
  BY <1>2 DEF Mine
<1>4. ~sweeping /\ pc[S(h)] = "idle" /\ h \notin inFlight
  BY <1>1, <1>3 DEF HoldInv, SweepInv
<1>5. tb[h] # "posted"
  BY <1>1, <1>2 DEF HoldInv, ChargeInv
<1>6. ~Terminated(h)
  BY <1>1 DEF HoldInv, RecordInv
<1>7. QED
  BY <1>2, <1>3, <1>4, <1>5, <1>6

(* The other calls on the hold of a call that steps. *)
LEMMA Others ==
  ASSUME NEW c \in Calls, CallStep(c)
  PROVE  /\ \A d \in Of(c[1]) : d # c =>
              /\ pc'[d] = pc[d] /\ op'[d] = op[d] /\ net'[d] = net[d] /\ result'[d] = result[d]
              /\ (Won(d)' <=> Won(d)) /\ (Mine(d)' <=> Mine(d))
         /\ pc'[A(c[1])] = pc[A(c[1])] /\ pc'[S(c[1])] = pc[S(c[1])]
         /\ c \in Of(c[1]) /\ c[1] \in Holds
  BY ProcFacts DEF CallStep, Won, Mine

-----------------------------------------------------------------------------
(* A call that finds its hold taken: it answers, and owns nothing. *)
LEMMA LostInv ==
  ASSUME IInv, NEW c \in Calls, pc[c] = "idle", pc[A(c[1])] = "granted",
         NEW k \in {"settle", "abort", "release"}, op' = [op EXCEPT ![c] = k],
         pc' = [pc EXCEPT ![c] = "returned"], result' = [result EXCEPT ![c] = "lost"],
         UNCHANGED <<destroyed, sweeping, td, activeAuths, unpostedHolds, settling,
                     inFlight, tb, net, rec>>
  PROVE  IInv'
<1> DEFINE h == c[1]
<1> USE ProcFacts
<1>t. TypeInv /\ HoldInv(h)
  BY DEF IInv
<1>1. TypeInv' /\ CallStep(c)
  BY <1>t DEF TypeInv, CallPcs, Results, CallStep
<1>2. pc'[c] = "returned" /\ op'[c] = k /\ result'[c] = "lost" /\ net'[c] = "none"
  BY <1>t, <1>1, Others DEF TypeInv, HoldInv, CallInv
<1>3. ~Mine(c) /\ ~Mine(c)' /\ ~Won(c)'
  BY <1>2 DEF Mine, Won
<1>r. (Terminated(h)' <=> Terminated(h)) /\ (Released(h)' <=> Released(h)) /\ (Single(h)' <=> Single(h))
  BY DEF Terminated, Released, Single
<1>4. CallInv(h)'
  BY <1>1, <1>2, <1>t, Others DEF HoldInv, CallInv, SettlePcs, BeforeRecord, EndPcs, CallPcs
<1>5. OwnerInv(h)'
  BY <1>1, <1>2, <1>3, <1>t, Others DEF HoldInv, OwnerInv, SettlePcs, BeforeRecord
<1>6. SweepInv(h)'
  BY <1>1, <1>2, <1>3, <1>t, Others DEF HoldInv, SweepInv
<1>7. RecordInv(h)'
  BY <1>1, <1>2, <1>r, <1>t, Others DEF HoldInv, RecordInv, BeforeRecord
<1>8. ChargeInv(h)'
  BY <1>1, <1>2, <1>3, <1>r, <1>t, Others DEF HoldInv, ChargeInv
<1>9. QED
  BY <1>1, <1>4, <1>5, <1>6, <1>7, <1>8, CallLocal DEF HoldInv

(* settle(): lost, or the claim of an active hold. *)
LEMMA SettleCallInv ==
  ASSUME IInv, NEW c \in Calls, SettleCall(c)
  PROVE  IInv'
<1> DEFINE h == c[1]
<1> USE ProcFacts
<1> USE DEF tdVars, holdVars, callVars, ledgerVars, moneyVars
<1>t. TypeInv /\ HoldInv(h) /\ pc[c] = "idle" /\ pc[A(h)] = "granted"
  BY DEF IInv, SettleCall
<1>a. CASE sweeping \/ h \notin activeAuths
  BY <1>a, <1>t, LostInv DEF SettleCall
<1>b. CASE ~sweeping /\ h \in activeAuths
  <2>1. /\ op' = [op EXCEPT ![c] = "settle"] /\ pc' = [pc EXCEPT ![c] = "metering"]
        /\ activeAuths' = activeAuths \ {h}
        /\ unpostedHolds' = unpostedHolds \cup {h} /\ settling' = settling \cup {h}
        /\ UNCHANGED <<result, inFlight, destroyed, sweeping, td, tb, net, rec>>
    BY <1>b DEF SettleCall
  <2>2. TypeInv' /\ CallStep(c)
    BY <1>t, <2>1 DEF TypeInv, CallPcs, CallStep
  <2>3. pc'[c] = "metering" /\ op'[c] = "settle" /\ net'[c] = "none" /\ Mine(c)'
    BY <1>t, <2>1, <2>2, Others DEF TypeInv, HoldInv, CallInv, Mine
  <2>4. /\ \A d \in Of(h) : ~Mine(d) /\ pc[d] \in {"idle", "returned"}
        /\ ~sweeping /\ pc[S(h)] = "idle" /\ h \notin inFlight
        /\ tb[h] # "posted" /\ ~Terminated(h)
    BY <1>b, Claimable
  <2>r. ~Terminated(h)' /\ ~Released(h)' /\ (Single(h)' <=> Single(h))
    BY <2>1, <2>4 DEF Terminated, Released, Single, Terminal
  <2>5. CallInv(h)'
    BY <2>2, <2>3, <1>t, Others DEF HoldInv, CallInv, SettlePcs, BeforeRecord, EndPcs, CallPcs
  <2>6. OwnerInv(h)'
    BY <2>1, <2>2, <2>3, <2>4, <1>t, Others DEF HoldInv, OwnerInv, SettlePcs, BeforeRecord
  <2>7. SweepInv(h)'
    BY <2>1, <2>2, <2>4, <1>t, Others DEF HoldInv, SweepInv
  <2>8. RecordInv(h)'
    BY <2>r, <1>t DEF HoldInv, RecordInv
  <2>9. ChargeInv(h)'
    BY <2>1, <2>4, <2>r DEF ChargeInv
  <2>10. QED
    BY <2>2, <2>5, <2>6, <2>7, <2>8, <2>9, CallLocal DEF HoldInv
<1>c. QED
  BY <1>a, <1>b

(* abort() and release(): lost, or the claim of an active or handed-back   *)
(* hold.                                                                   *)
LEMMA EndCallInv ==
  ASSUME IInv, NEW c \in Calls, NEW k \in {"abort", "release"}, EndCall(c, k)
  PROVE  IInv'
<1> DEFINE h == c[1]
<1> USE ProcFacts
<1> USE DEF tdVars, holdVars, callVars, ledgerVars, moneyVars
<1>t. TypeInv /\ HoldInv(h) /\ pc[c] = "idle" /\ pc[A(h)] = "granted"
  BY DEF IInv, EndCall
<1>a. CASE ~Endable(h)
  BY <1>a, <1>t, LostInv DEF EndCall
<1>b. CASE Endable(h)
  <2>1. /\ op' = [op EXCEPT ![c] = k]
        /\ activeAuths' = activeAuths \ {h} /\ unpostedHolds' = unpostedHolds \ {h}
        /\ inFlight' = inFlight \cup {h}
        /\ UNCHANGED <<result, settling, destroyed, sweeping, td, tb, rec>>
    BY <1>b DEF EndCall
  <2>p. /\ \E x \in {"giveback", "void"} : pc' = [pc EXCEPT ![c] = x]
        /\ net' = net \/ \E v \in {"none", "sent"} : net' = [net EXCEPT ![c] = v]
    BY <1>b DEF EndCall, Sent
  <2>q. /\ pc' \in [Procs -> AuthPcs \cup CallPcs \cup SweepPcs]
        /\ \A p \in Procs \ {c} : pc'[p] = pc[p]
    <3>1. PICK x \in {"giveback", "void"} : pc' = [pc EXCEPT ![c] = x]
      BY <2>p
    <3>2. QED
      BY <1>t, <3>1 DEF TypeInv, CallPcs
  <2>n. /\ net' \in [Procs -> {"none", "sent", "applied", "refused"}]
        /\ \A p \in Procs \ {c} : net'[p] = net[p]
    <3>1. CASE net' = net
      BY <1>t, <3>1 DEF TypeInv
    <3>2. ASSUME NEW v \in {"none", "sent"}, net' = [net EXCEPT ![c] = v]
          PROVE  /\ net' \in [Procs -> {"none", "sent", "applied", "refused"}]
                 /\ \A p \in Procs \ {c} : net'[p] = net[p]
      BY <1>t, <3>2 DEF TypeInv
    <3>3. QED
      BY <2>p, <3>1, <3>2
  <2>2. TypeInv' /\ CallStep(c)
    BY <1>t, <2>1, <2>q, <2>n DEF TypeInv, CallStep
  <2>3. pc'[c] \in {"giveback", "void"} /\ op'[c] = k /\ Mine(c)'
    BY <1>t, <2>1, <2>p DEF TypeInv, Mine
  <2>4. /\ \A d \in Of(h) : ~Mine(d) /\ pc[d] \in {"idle", "returned"}
        /\ ~sweeping /\ pc[S(h)] = "idle" /\ h \notin inFlight
        /\ tb[h] # "posted" /\ ~Terminated(h)
    BY <1>b, Claimable DEF Endable
  <2>r. ~Terminated(h)' /\ ~Released(h)' /\ (Single(h)' <=> Single(h))
    BY <2>1, <2>4 DEF Terminated, Released, Single, Terminal
  <2>5. CallInv(h)'
    BY <2>2, <2>3, <1>t, Others DEF HoldInv, CallInv, SettlePcs, BeforeRecord, EndPcs, CallPcs
  <2>6. OwnerInv(h)'
    BY <2>1, <2>2, <2>3, <2>4, <1>t, Others DEF HoldInv, OwnerInv, SettlePcs, BeforeRecord
  <2>7. SweepInv(h)'
    BY <2>1, <2>2, <2>3, <2>4, <1>t, Others DEF HoldInv, SweepInv
  <2>8. RecordInv(h)'
    BY <2>r, <1>t DEF HoldInv, RecordInv
  <2>9. ChargeInv(h)'
    BY <2>1, <2>4, <2>r DEF ChargeInv
  <2>10. QED
    BY <2>2, <2>5, <2>6, <2>7, <2>8, <2>9, CallLocal DEF HoldInv
<1>c. QED
  BY <1>a, <1>b

-----------------------------------------------------------------------------
(* Pricing throws and hands the hold back, or the POST leaves (a dry run   *)
(* goes on to its charge).                                                 *)
LEMMA SettleMeteredInv ==
  ASSUME IInv, NEW c \in Calls, SettleMetered(c)
  PROVE  IInv'
<1> DEFINE h == c[1]
<1> USE ProcFacts
<1> USE DEF tdVars, holdVars, callVars, ledgerVars, moneyVars
<1>t. TypeInv /\ HoldInv(h) /\ pc[c] = "metering" /\ pc[c] \in SettlePcs
  BY DEF IInv, SettleMetered, SettlePcs, BeforeRecord
<1>o. /\ op[c] = "settle" /\ Mine(c) /\ pc[A(h)] = "granted"
      /\ \A d \in Of(h) : d # c => ~Mine(d)
      /\ h \notin activeAuths /\ h \notin inFlight /\ h \in settling
      /\ pc[S(h)] # "inflight" /\ pc[S(h)] # "leftover"
      /\ ~(pc[S(h)] = "voiding" /\ td = "records")
  BY <1>t, SettleOwns
<1>u. UNCHANGED <<op, destroyed, sweeping, td, activeAuths, inFlight, tb, rec>>
  BY DEF SettleMetered
<1>e. ~Terminated(h) /\ tb[h] # "posted"
  BY <1>t, <1>o DEF HoldInv, RecordInv, ChargeInv, BeforeRecord
<1>n. net[c] = "none"
  BY <1>t, <1>o, ProcFacts DEF HoldInv, CallInv, TypeInv
<1>r. ~Terminated(h)' /\ ~Released(h)' /\ (Single(h)' <=> Single(h))
  BY <1>u, <1>e DEF Terminated, Released, Single, Terminal
<1>9. RecordInv(h)' /\ ChargeInv(h)'
  BY <1>r, <1>t, <1>u, <1>e DEF HoldInv, RecordInv, ChargeInv
<1>a. CASE pc' = [pc EXCEPT ![c] = "returned"]
  <2>1. /\ result' = [result EXCEPT ![c] = "threw"] /\ settling' = settling \ {h}
        /\ UNCHANGED <<unpostedHolds, net>>
    <3>1. \A x \in {"post", "charge", "record"} : pc' # [pc EXCEPT ![c] = x]
      BY <1>a, <1>t DEF TypeInv
    <3>2. QED
      BY <1>a, <3>1 DEF SettleMetered, QueuedToCharge
  <2>2. TypeInv' /\ CallStep(c)
    BY <1>a, <1>t, <1>u, <2>1 DEF TypeInv, CallPcs, Results, CallStep
  <2>3. pc'[c] = "returned" /\ ~Mine(c)' /\ ~Won(c)' /\ net'[c] = "none" /\ op'[c] = op[c]
    BY <1>a, <1>t, <1>u, <1>n, <2>1 DEF TypeInv, Mine, Won
  <2>4. CallInv(h)'
    BY <2>2, <2>3, <1>o, <1>t, Others DEF HoldInv, CallInv, SettlePcs, BeforeRecord, EndPcs, CallPcs
  <2>5. OwnerInv(h)'
    BY <2>2, <2>3, <1>o, Others DEF OwnerInv, Mine, SettlePcs, BeforeRecord
  <2>6. SweepInv(h)'
    BY <2>1, <2>2, <1>o, <1>t, <1>u, Others DEF HoldInv, SweepInv
  <2>7. QED
    BY <2>2, <2>4, <2>5, <2>6, <1>9, CallLocal DEF HoldInv
<1>b. CASE \E x \in {"post", "charge", "record"} : pc' = [pc EXCEPT ![c] = x]
  <2>0. PICK x \in {"post", "charge", "record"} : pc' = [pc EXCEPT ![c] = x]
    BY <1>b
  <2>1. /\ unpostedHolds' = unpostedHolds \ {h} /\ UNCHANGED settling
        /\ \/ x = "post" /\ result' = result
           \/ result' = [result EXCEPT ![c] = "settled"]
        /\ net' = net \/ \E v \in {"none", "sent"} : net' = [net EXCEPT ![c] = v]
    <3>1. pc' # [pc EXCEPT ![c] = "returned"]
      BY <2>0, <1>t DEF TypeInv
    <3>2. pc' = [pc EXCEPT ![c] = "post"] => x = "post"
      BY <2>0, <1>t DEF TypeInv
    <3>3. QED
      BY <3>1, <3>2 DEF SettleMetered, QueuedToCharge, Sent
  <2>q. /\ pc' \in [Procs -> AuthPcs \cup CallPcs \cup SweepPcs]
        /\ \A p \in Procs \ {c} : pc'[p] = pc[p]
        /\ pc'[c] = x
    BY <1>t, <2>0 DEF TypeInv, CallPcs
  <2>n. /\ net' \in [Procs -> {"none", "sent", "applied", "refused"}]
        /\ \A p \in Procs \ {c} : net'[p] = net[p]
    BY <1>t, <2>1 DEF TypeInv
  <2>s. /\ result' \in [Calls -> Results]
        /\ \A d \in Calls \ {c} : result'[d] = result[d]
        /\ x # "post" => Won(c)'
    <3>1. "settled" \in Results /\ result \in [Calls -> Results]
      BY <1>t DEF TypeInv, Results
    <3>2. CASE x = "post" /\ result' = result
      BY <3>1, <3>2
    <3>3. CASE result' = [result EXCEPT ![c] = "settled"]
      <4>1. result'[c] = "settled" /\ result' \in [Calls -> Results]
        BY <3>1, <3>3
      <4>2. Won(c)'
        BY <4>1 DEF Won
      <4>3. QED
        BY <3>1, <3>3, <4>1, <4>2
    <3>4. QED
      BY <2>1, <3>2, <3>3
  <2>2. TypeInv' /\ CallStep(c)
    BY <1>t, <1>u, <2>1, <2>q, <2>n, <2>s DEF TypeInv, CallStep
  <2>3. Mine(c)' /\ op'[c] = "settle" /\ pc'[c] # "metering"
    BY <1>u, <1>o, <2>q DEF Mine
  <2>4. CallInv(h)'
    BY <2>2, <2>3, <2>q, <2>s, <1>o, <1>t, Others DEF HoldInv, CallInv, SettlePcs, BeforeRecord, EndPcs, CallPcs
  <2>5. OwnerInv(h)'
    BY <2>1, <2>2, <2>3, <1>o, <1>u, Others DEF OwnerInv
  <2>6. SweepInv(h)'
    BY <2>1, <2>2, <1>o, <1>t, <1>u, Others DEF HoldInv, SweepInv
  <2>7. QED
    BY <2>2, <2>4, <2>5, <2>6, <1>9, CallLocal DEF HoldInv
<1>c. QED
  BY <1>a, <1>b DEF SettleMetered, QueuedToCharge

(* The settle returns its receipt; it keeps its claim as the winner. *)
LEMMA SettleReturnedInv ==
  ASSUME IInv, NEW c \in Calls, SettleReturned(c)
  PROVE  IInv'
<1> DEFINE h == c[1]
<1> USE ProcFacts
<1> USE DEF tdVars, holdVars, callVars, ledgerVars, moneyVars
<1>t. TypeInv /\ HoldInv(h) /\ pc[c] = "receipt" /\ pc[c] \in SettlePcs
  BY DEF IInv, SettleReturned, SettlePcs
<1>o. /\ op[c] = "settle" /\ Mine(c) /\ pc[A(h)] = "granted"
      /\ \A d \in Of(h) : d # c => ~Mine(d)
      /\ h \notin activeAuths /\ h \notin inFlight
      /\ pc[S(h)] # "inflight" /\ pc[S(h)] # "leftover"
      /\ ~(pc[S(h)] = "voiding" /\ td = "records")
  BY <1>t, SettleOwns
<1>u. /\ UNCHANGED <<op, result, destroyed, sweeping, td, activeAuths, unpostedHolds, inFlight,
                     tb, rec, net>>
      /\ pc' = [pc EXCEPT ![c] = "returned"] /\ settling' = settling \ {h}
  BY DEF SettleReturned
<1>w. Won(c) /\ h \notin unpostedHolds
  BY <1>t, <1>o DEF HoldInv, CallInv, OwnerInv
<1>r. (Terminated(h)' <=> Terminated(h)) /\ (Released(h)' <=> Released(h)) /\ (Single(h)' <=> Single(h))
  BY <1>u DEF Terminated, Released, Single
<1>1. TypeInv' /\ CallStep(c)
  BY <1>t, <1>u DEF TypeInv, CallPcs, CallStep
<1>2. pc'[c] = "returned" /\ Mine(c)' /\ Won(c)' /\ op'[c] = "settle" /\ net'[c] = net[c]
  BY <1>t, <1>u, <1>o, <1>w DEF TypeInv, Mine, Won
<1>3. CallInv(h)'
  BY <1>1, <1>2, <1>o, <1>t, Others DEF HoldInv, CallInv, SettlePcs, BeforeRecord, EndPcs, CallPcs
<1>4. OwnerInv(h)'
  BY <1>1, <1>2, <1>o, <1>u, <1>w, Others DEF OwnerInv, Mine, SettlePcs, BeforeRecord
<1>5. SweepInv(h)'
  BY <1>1, <1>o, <1>t, <1>u, Others DEF HoldInv, SweepInv
<1>6. RecordInv(h)'
  BY <1>1, <1>2, <1>r, <1>u, <1>t, Others DEF HoldInv, RecordInv, BeforeRecord
<1>7. ChargeInv(h)'
  BY <1>1, <1>2, <1>r, <1>u, <1>o, <1>t, Others DEF HoldInv, ChargeInv
<1>8. QED
  BY <1>1, <1>3, <1>4, <1>5, <1>6, <1>7, CallLocal DEF HoldInv

(* All of settle(). *)
LEMMA SettleInv ==
  ASSUME IInv, NEW c \in Calls, SettleCall(c) \/ SettleMetered(c) \/ SettleStep(c)
  PROVE  IInv'
<1> USE DEF tdVars, holdVars, callVars, ledgerVars, moneyVars
<1>t. TypeInv /\ CallInv(c[1]) /\ c \in Of(c[1])
  BY ProcFacts DEF IInv, HoldInv
<1>k. /\ {"settlement_ambiguous", "settlement_shortfall"} \subseteq Kinds \ Terminal
      /\ {"post", "ambiguous", "charge", "persist", "record"} \subseteq BeforeRecord
      /\ {"post", "ambiguous", "charge", "persist", "record", "shortfall", "receipt"}
           \subseteq SettlePcs \ {"metering"}
      /\ {"receipt"} \cap BeforeRecord = {}
  BY DEF Kinds, Terminal, BeforeRecord, SettlePcs
<1>1. CASE SettlePosted(c)
  <2>1. Won(c)'
    BY <1>1, <1>t DEF SettlePosted, Won, TypeInv
  <2>2. \E x \in {"charge", "record"} : pc' = [pc EXCEPT ![c] = x]
    BY <1>1 DEF SettlePosted, QueuedToCharge
  <2>3. QED
    BY <1>1, <1>k, <2>1, <2>2, SettleMoves DEF SettlePosted
<1>2. CASE SettlePostFailed(c)
  <2>1. Won(c)'
    BY <1>2, <1>t DEF SettlePostFailed, Won, TypeInv
  <2>2. QED
    BY <1>2, <1>k, <2>1, SettleMoves DEF SettlePostFailed
<1>3. CASE SettleAmbiguous(c)
  <2>1. Won(c)'
    BY <1>3, <1>t DEF SettleAmbiguous, Won, CallInv
  <2>2. \E x \in {"charge", "record"} : pc' = [pc EXCEPT ![c] = x]
    BY <1>3 DEF SettleAmbiguous, QueuedToCharge
  <2>3. QED
    BY <1>3, <1>k, <2>1, <2>2, SettleMoves DEF SettleAmbiguous
<1>4. CASE SettleCharged(c)
  <2>1. Won(c)'
    BY <1>4, <1>t DEF SettleCharged, Won, CallInv
  <2>2. QED
    BY <1>4, <1>k, <2>1, SettleMoves DEF SettleCharged
<1>5. CASE SettlePersisted(c)
  <2>1. Won(c)'
    BY <1>5, <1>t DEF SettlePersisted, Won, CallInv
  <2>2. QED
    BY <1>5, <1>k, <2>1, SettleMoves DEF SettlePersisted
<1>6. CASE SettleShortfall(c)
  <2>1. Won(c)'
    BY <1>6, <1>t DEF SettleShortfall, Won, CallInv
  <2>2. QED
    BY <1>6, <1>k, <2>1, SettleMoves DEF SettleShortfall
<1>7. QED
  BY <1>1, <1>2, <1>3, <1>4, <1>5, <1>6, SettleCallInv, SettleMeteredInv, SettleRecordedInv,
     SettleReturnedInv DEF SettleStep

-----------------------------------------------------------------------------
(* abort() and release() between their claim and their answer: still the   *)
(* owner, whether or not destroy() has taken the record from them.         *)
LEMMA EndMoves ==
  ASSUME IInv, NEW c \in Calls, pc[c] \in EndPcs,
         NEW x \in {"void", "logged", "returned"}, pc' = [pc EXCEPT ![c] = x],
         result' \in [Calls -> Results], \A d \in Calls \ {c} : result'[d] = result[d],
         x = "void" => pc[c] = "giveback", x # "void" => Won(c)',
         c[1] \in inFlight' => c[1] \in inFlight /\ x = "void",
         \A g \in Holds \ {c[1]} : g \in inFlight' <=> g \in inFlight,
         UNCHANGED <<op, destroyed, sweeping, td, activeAuths, unpostedHolds, settling, tb>>,
         net' = net \/ \E v \in {"none", "sent"} : net' = [net EXCEPT ![c] = v],
         \/ UNCHANGED rec
         \/ /\ c[1] \in inFlight /\ x # "void"
            /\ \E kind \in {"llm_call_failed", "hold_released"} : RecordAppended(c[1], kind)
  PROVE  IInv'
<1> DEFINE h == c[1]
<1> USE ProcFacts
<1>t. TypeInv /\ HoldInv(h) /\ Single(h) /\ h \in Holds
  BY DEF IInv, HoldInv, RecordInv
<1>o. /\ op[c] \in {"abort", "release"} /\ Mine(c) /\ pc[A(h)] = "granted"
      /\ \A d \in Of(h) : d # c => ~Mine(d)
      /\ h \notin activeAuths /\ h \notin unpostedHolds
      /\ pc[S(h)] # "leftover" /\ ~(pc[S(h)] = "voiding" /\ td = "records")
      /\ tb[h] # "posted"
  BY EndOwns
<1>1. /\ rec' \in [Holds -> Seq(Kinds)] /\ \A g \in Holds \ {h} : rec'[g] = rec[g]
      /\ Single(h)'
      /\ Terminated(h)' => Terminated(h) \/ (h \in inFlight /\ x # "void")
  <2>1. CASE UNCHANGED rec
    BY <2>1, <1>t DEF TypeInv, Single, Terminated
  <2>2. ASSUME h \in inFlight, NEW kind \in {"llm_call_failed", "hold_released"}, RecordAppended(h, kind)
        PROVE  rec' \in [Holds -> Seq(Kinds)] /\ (\A g \in Holds \ {h} : rec'[g] = rec[g]) /\ Single(h)'
    <3>1. ~Terminated(h)
      BY <2>2, <1>t DEF HoldInv, RecordInv
    <3>2. QED
      BY <2>2, <3>1, <1>t, RecTerminal DEF TypeInv, Terminal
  <2>3. QED
    BY <2>1, <2>2
<1>q. /\ pc' \in [Procs -> AuthPcs \cup CallPcs \cup SweepPcs]
      /\ \A p \in Procs \ {c} : pc'[p] = pc[p]
      /\ pc'[c] = x
  BY <1>t DEF TypeInv, CallPcs
<1>n. /\ net' \in [Procs -> {"none", "sent", "applied", "refused"}]
      /\ \A p \in Procs \ {c} : net'[p] = net[p]
  <2>1. CASE net' = net
    BY <1>t, <2>1 DEF TypeInv
  <2>2. ASSUME NEW v \in {"none", "sent"}, net' = [net EXCEPT ![c] = v]
        PROVE  /\ net' \in [Procs -> {"none", "sent", "applied", "refused"}]
               /\ \A p \in Procs \ {c} : net'[p] = net[p]
    BY <1>t, <2>2 DEF TypeInv
  <2>3. QED
    BY <2>1, <2>2
<1>2. TypeInv' /\ CallStep(c)
  BY <1>t, <1>1, <1>q, <1>n DEF TypeInv, CallStep
<1>3. Mine(c)' /\ op'[c] = op[c]
  BY <1>q DEF Mine
<1>4. CallInv(h)'
  BY <1>2, <1>3, <1>q, <1>o, <1>t, Others DEF HoldInv, CallInv, SettlePcs, BeforeRecord, EndPcs, CallPcs
<1>5. OwnerInv(h)'
  BY <1>2, <1>3, <1>q, <1>o, Others DEF OwnerInv, Mine, SettlePcs, BeforeRecord
<1>6. SweepInv(h)'
  BY <1>2, <1>3, <1>q, <1>o, <1>t, Others DEF HoldInv, SweepInv
<1>7. RecordInv(h)'
  <2>1. h \in inFlight => ~sweeping /\ pc[S(h)] = "idle"
    BY <1>t DEF HoldInv, SweepInv
  <2>2. \A d \in Of(h) : pc'[d] \notin BeforeRecord
    BY <1>2, <1>q, <1>o, Others DEF Mine, BeforeRecord
  <2>3. Terminated(h)' => h \notin inFlight'
    BY <1>1, <1>t, <2>1 DEF HoldInv, RecordInv
  <2>4. Terminated(h)' => pc'[S(h)] # "inflight" /\ pc'[S(h)] # "leftover"
    BY <1>1, <1>2, <1>t, <2>1, Others DEF HoldInv, RecordInv
  <2>5. QED
    BY <1>1, <1>2, <1>o, <2>2, <2>3, <2>4, Others DEF RecordInv
<1>8. ChargeInv(h)'
  BY <1>2, <1>3, <1>o, Others DEF ChargeInv
<1>9. QED
  BY <1>2, <1>4, <1>5, <1>6, <1>7, <1>8, CallLocal DEF HoldInv

(* All of abort() and release(). *)
LEMMA EndInv ==
  ASSUME IInv, NEW c \in Calls,
         EndCall(c, "abort") \/ EndCall(c, "release") \/ EndStep(c)
  PROVE  IInv'
<1> DEFINE h == c[1]
<1> USE DEF tdVars, holdVars, callVars, ledgerVars, moneyVars
<1>t. TypeInv /\ CallInv(h) /\ c \in Of(h) /\ h \in Holds
  BY ProcFacts DEF IInv, HoldInv
<1>k. {"giveback", "void", "logged"} = EndPcs
  BY DEF EndPcs
<1>e. ASSUME NEW o \in {"ended", "endedVoidError"}, Ended(c, o), pc[c] \in EndPcs,
             UNCHANGED <<op, destroyed, sweeping, td, activeAuths, unpostedHolds, settling, tb, net>>
      PROVE  IInv'
  <2>1. /\ result' \in [Calls -> Results] /\ (\A d \in Calls \ {c} : result'[d] = result[d])
        /\ Won(c)'
    BY <1>e, <1>t DEF Ended, TypeInv, Results, Won
  <2>2. CASE h \in inFlight
    <3>1. /\ inFlight' = inFlight \ {h} /\ pc' = [pc EXCEPT ![c] = "logged"]
          /\ \E kind \in {"llm_call_failed", "hold_released"} : RecordAppended(h, kind)
      BY <1>e, <2>2 DEF Ended
    <3>2. QED
      BY <1>e, <2>1, <2>2, <3>1, EndMoves
  <2>3. CASE h \notin inFlight
    <3>1. pc' = [pc EXCEPT ![c] = "returned"] /\ UNCHANGED <<inFlight, rec>>
      BY <1>e, <2>3 DEF Ended
    <3>2. QED
      BY <1>e, <2>1, <2>3, <3>1, EndMoves
  <2>4. QED
    BY <2>2, <2>3
<1>1. CASE GivenBack(c)
  <2>1. CASE Ledger
    <3>1. /\ pc' = [pc EXCEPT ![c] = "void"] /\ pc[c] = "giveback"
          /\ \E v \in {"none", "sent"} : net' = [net EXCEPT ![c] = v]
          /\ UNCHANGED <<op, result, inFlight, rec, destroyed, sweeping, td, activeAuths,
                         unpostedHolds, settling, tb>>
      BY <1>1, <2>1 DEF GivenBack, Sent
    <3>2. QED
      BY <3>1, <1>k, <1>t, EndMoves DEF TypeInv
  <2>2. CASE ~Ledger
    BY <1>1, <2>2, <1>e, <1>k DEF GivenBack
  <2>3. QED
    BY <2>1, <2>2
<1>2. CASE EndVoided(c)
  BY <1>2, <1>e, <1>k DEF EndVoided
<1>3. CASE EndVoidFailed(c)
  BY <1>3, <1>e, <1>k DEF EndVoidFailed
<1>4. CASE EndReturned(c)
  <2>1. /\ pc[c] = "logged" /\ pc' = [pc EXCEPT ![c] = "returned"] /\ inFlight' = inFlight \ {h}
        /\ UNCHANGED <<op, result, destroyed, sweeping, td, activeAuths,
                       unpostedHolds, settling, tb, net, rec>>
    BY <1>4 DEF EndReturned
  <2>2. Won(c)'
    BY <2>1, <1>t DEF CallInv, Won
  <2>3. QED
    BY <2>1, <2>2, <1>k, <1>t, EndMoves DEF TypeInv
<1>5. QED
  BY <1>1, <1>2, <1>3, <1>4, EndCallInv DEF EndStep

-----------------------------------------------------------------------------
(* TigerBeetle decides a request: only a settle's own POST makes a         *)
(* transfer posted.                                                        *)
LEMMA LedgerMoves ==
  ASSUME IInv, NEW p \in Procs, NEW v \in {"applied", "refused"},
         net' = net \/ (net[p] = "sent" /\ net' = [net EXCEPT ![p] = v]),
         NEW h \in Holds, NEW t \in {"none", "pending", "posted", "voided", "expired"},
         tb' = [tb EXCEPT ![h] = t],
         t = "posted" => tb[h] = "posted" \/ (p \in Of(h) /\ op[p] = "settle" /\ net[p] = "sent"),
         UNCHANGED <<pc, op, result, destroyed, sweeping, td, activeAuths, unpostedHolds,
                     settling, inFlight, rec>>
  PROVE  IInv'
<1> USE ProcFacts
<1>t. TypeInv /\ FlagInv /\ \A g \in Holds : HoldInv(g)
  BY DEF IInv
<1>1. TypeInv' /\ FlagInv'
  BY <1>t DEF TypeInv, FlagInv
<1>2. ASSUME NEW g \in Holds
      PROVE  HoldInv(g)'
  <2>0. HoldInv(g)
    BY <1>t
  <2>1. \A c \in Of(g) : /\ (Mine(c)' <=> Mine(c)) /\ (Won(c)' <=> Won(c))
                         /\ net'[c] = "none" <=> net[c] = "none"
    BY <1>t DEF Mine, Won, TypeInv
  <2>r. (Terminated(g)' <=> Terminated(g)) /\ (Released(g)' <=> Released(g)) /\ (Single(g)' <=> Single(g))
    BY DEF Terminated, Released, Single
  <2>2. CallInv(g)'
    BY <2>0, <2>1 DEF HoldInv, CallInv
  <2>3. OwnerInv(g)'
    BY <2>0, <2>1 DEF HoldInv, OwnerInv
  <2>4. SweepInv(g)'
    BY <2>0, <2>1 DEF HoldInv, SweepInv
  <2>5. RecordInv(g)'
    BY <2>0, <2>r DEF HoldInv, RecordInv
  <2>6. tb'[g] = "posted" => \E c \in Of(g) : op[c] = "settle" /\ Mine(c) /\ pc[c] # "metering"
    <3>1. CASE tb[g] = "posted"
      BY <3>1, <2>0 DEF HoldInv, ChargeInv
    <3>2. CASE g = h /\ p \in Of(g) /\ op[p] = "settle" /\ net[p] = "sent"
      BY <3>2, <2>0 DEF HoldInv, CallInv
    <3>3. QED
      BY <3>1, <3>2, <1>t DEF TypeInv
  <2>7. ChargeInv(g)'
    BY <2>0, <2>1, <2>6, <2>r DEF HoldInv, ChargeInv
  <2>8. QED
    BY <2>2, <2>3, <2>4, <2>5, <2>7 DEF HoldInv
<1>3. QED
  BY <1>1, <1>2 DEF IInv

LEMMA LedgerInv ==
  ASSUME IInv, LedgerStep
  PROVE  IInv'
<1> USE DEF tdVars, holdVars, callVars, ledgerVars, moneyVars
<1> USE ProcFacts
<1>t. TypeInv
  BY DEF IInv
<1>0. ASSUME NEW h \in Holds
      PROVE  tb = [tb EXCEPT ![h] = tb[h]] /\ tb[h] \in {"none", "pending", "posted", "voided", "expired"}
  BY <1>t DEF TypeInv
<1>1. ASSUME NEW h \in Holds, LedgerReserve(h)
      PROVE  IInv'
  <2>1. CASE est[h] <= Available(h)
    BY <1>1, <2>1, LedgerMoves DEF LedgerReserve
  <2>2. CASE ~(est[h] <= Available(h))
    BY <1>0, <1>1, <2>2, LedgerMoves DEF LedgerReserve
  <2>3. QED
    BY <2>1, <2>2
<1>2. ASSUME NEW h \in Holds, LedgerExpire(h)
      PROVE  IInv'
  BY <1>2, LedgerMoves DEF LedgerExpire
<1>3. ASSUME NEW c \in Calls, LedgerPost(c)
      PROVE  IInv'
  <2>1. CASE tb[c[1]] = "pending"
    BY <1>3, <2>1, LedgerMoves DEF LedgerPost
  <2>2. CASE tb[c[1]] # "pending"
    BY <1>0, <1>3, <2>2, LedgerMoves DEF LedgerPost
  <2>3. QED
    BY <2>1, <2>2
<1>4. ASSUME NEW p \in Procs, LedgerVoid(p)
      PROVE  IInv'
  <2>1. p[1] \in Holds
    BY DEF Procs
  <2>2. PICK v \in {"applied", "refused"} : net[p] = "sent" /\ net' = [net EXCEPT ![p] = v]
    BY <1>4 DEF LedgerVoid
  <2>3. CASE tb[p[1]] = "pending"
    BY <1>4, <2>1, <2>2, <2>3, LedgerMoves DEF LedgerVoid
  <2>4. CASE tb[p[1]] # "pending"
    <3>1. PICK h \in Holds : h = p[1]
      BY <2>1
    <3>2. PICK t \in {"none", "pending", "posted", "voided", "expired"} : t = tb[h]
      BY <1>0
    <3>3. tb' = [tb EXCEPT ![h] = t] /\ (t = "posted" => tb[h] = "posted")
      BY <1>0, <1>4, <2>4, <3>1, <3>2 DEF LedgerVoid
    <3>4. UNCHANGED <<pc, op, result, destroyed, sweeping, td, activeAuths, unpostedHolds,
                      settling, inFlight, rec>>
      BY <1>4 DEF LedgerVoid
    <3>5. QED
      BY <2>2, <3>3, <3>4, LedgerMoves
  <2>5. QED
    BY <2>3, <2>4
<1>5. QED
  BY <1>1, <1>2, <1>3, <1>4 DEF LedgerStep

-----------------------------------------------------------------------------
(* The steps of destroy() that move only its phase. *)
LEMMA PhaseInv ==
  ASSUME IInv, Destroy \/ SweepEngine \/ Close
  PROVE  IInv'
<1> USE DEF tdVars, holdVars, callVars, ledgerVars, moneyVars
<1>1. UNCHANGED <<pc, op, result, activeAuths, unpostedHolds, settling, inFlight, tb, rec, net, sweeping>>
  BY DEF Destroy, SweepEngine, Close
<1>2. td' = "records" => td = "records"
  BY DEF Destroy, SweepEngine, Close
<1>3. TypeInv'
  BY <1>1 DEF IInv, TypeInv
<1>4. FlagInv'
  BY <1>1 DEF IInv, FlagInv, Destroy, SweepEngine, Close
<1>5. \A h \in Holds : Untouched(h)
  BY <1>1 DEF Untouched
<1>6. \A h \in Holds : HoldInv(h)'
  BY <1>1, <1>2, <1>5, Frame DEF IInv
<1>7. QED
  BY <1>3, <1>4, <1>6 DEF IInv

(* The drain ends and every hold changes hands at once. No settle is in    *)
(* its pricing then, so a hold in unpostedHolds is nobody's.               *)
LEMMA SweepTakesInv ==
  ASSUME IInv, Sweep, LoopFree
  PROVE  IInv'
<1> USE DEF tdVars, holdVars, callVars, ledgerVars, moneyVars
<1> USE ProcFacts
<1>t. TypeInv /\ FlagInv /\ td = "drain" /\ ~sweeping
  BY DEF IInv, FlagInv, Sweep
<1>u. /\ UNCHANGED <<op, result, destroyed, settling, tb, rec, net>>
      /\ td' = "records" /\ sweeping' = TRUE
      /\ inFlight' = {} /\ activeAuths' = {} /\ unpostedHolds' = {}
  BY DEF Sweep
<1>p. pc' = [p \in Procs |-> CASE p[2] = "sweep" /\ p[1] \in inFlight -> "inflight"
                               [] p[2] = "sweep" /\ Leftover(p[1]) -> "leftover"
                               [] OTHER -> pc[p]]
  BY DEF Sweep
<1>1. /\ \A p \in Procs : p[2] # "sweep" => pc'[p] = pc[p]
      /\ \A h \in Holds : pc'[S(h)] = "inflight" => h \in inFlight \/ pc[S(h)] = "inflight"
      /\ \A h \in Holds : pc'[S(h)] = "leftover" => Leftover(h) \/ pc[S(h)] = "leftover"
      /\ \A h \in Holds : pc'[S(h)] \in {"inflight", "leftover", pc[S(h)]}
  BY <1>p
<1>2. pc' \in [Procs -> AuthPcs \cup CallPcs \cup SweepPcs]
  BY <1>p, <1>t DEF TypeInv, SweepPcs
<1>3. TypeInv'
  BY <1>2, <1>t, <1>u DEF TypeInv
<1>4. FlagInv'
  BY <1>t, <1>u DEF FlagInv
<1>5. ASSUME NEW h \in Holds
      PROVE  HoldInv(h)'
  <2>0. HoldInv(h) /\ pc[S(h)] = "idle"
    BY <1>t DEF IInv, HoldInv, SweepInv
  <2>1. /\ \A c \in Of(h) : pc'[c] = pc[c] /\ (Mine(c)' <=> Mine(c)) /\ (Won(c)' <=> Won(c))
        /\ pc'[A(h)] = pc[A(h)]
    BY <1>1, <1>u DEF Mine, Won
  <2>r. (Terminated(h)' <=> Terminated(h)) /\ (Released(h)' <=> Released(h)) /\ (Single(h)' <=> Single(h))
    BY <1>u DEF Terminated, Released, Single
  <2>2. CallInv(h)'
    BY <2>0, <2>1, <1>u DEF HoldInv, CallInv
  <2>3. OwnerInv(h)'
    BY <2>0, <2>1, <1>u DEF HoldInv, OwnerInv
  <2>4. pc'[S(h)] = "inflight" => \E c \in Of(h) : Mine(c)' /\ op'[c] # "settle"
    <3>1. SUFFICES ASSUME pc'[S(h)] = "inflight"
                   PROVE  \E c \in Of(h) : Mine(c)' /\ op'[c] # "settle"
      OBVIOUS
    <3>2. PICK c \in Of(h) : pc[c] \in {"giveback", "void"}
      BY <3>1, <2>0, <1>1 DEF HoldInv, SweepInv
    <3>3. Mine(c) /\ op[c] # "settle"
      BY <3>2, <2>0 DEF Mine, HoldInv, CallInv, EndPcs
    <3>4. QED
      BY <3>2, <3>3, <2>1, <1>u
  <2>5. pc'[S(h)] = "leftover" => pc[A(h)] = "granted" /\ \A c \in Of(h) : ~Mine(c)
    <3>1. SUFFICES ASSUME pc'[S(h)] = "leftover"
                   PROVE  pc[A(h)] = "granted" /\ \A c \in Of(h) : ~Mine(c)
      OBVIOUS
    <3>2. h \in activeAuths \/ h \in unpostedHolds
      BY <3>1, <2>0, <1>1 DEF Leftover
    <3>3. \A c \in Of(h) : pc[c] # "metering"
      BY DEF LoopFree
    <3>4. QED
      BY <3>2, <3>3, <2>0 DEF HoldInv, OwnerInv
  <2>6. SweepInv(h)'
    BY <2>0, <2>1, <2>4, <2>5, <1>1, <1>u DEF SweepInv, SweepPcs
  <2>7. RecordInv(h)'
    BY <2>0, <2>1, <2>r, <1>1, <1>u DEF HoldInv, RecordInv, Leftover
  <2>8. ChargeInv(h)'
    BY <2>0, <2>1, <2>r, <1>u DEF HoldInv, ChargeInv
  <2>9. QED
    BY <2>2, <2>3, <2>6, <2>7, <2>8 DEF HoldInv
<1>6. QED
  BY <1>3, <1>4, <1>5 DEF IInv

(* destroy() about one hold it took, or about one entry of the engine. The *)
(* record it writes is the only one: no call on the hold can write it, and *)
(* no settle has posted it.                                                *)
LEMMA SweepMoves ==
  ASSUME IInv, NEW h \in Holds, sweeping,
         NEW x \in {"voiding", "done"}, pc' = [pc EXCEPT ![S(h)] = x],
         x = "voiding" => td = "engine" \/ pc[S(h)] = "leftover",
         net' = net \/ \E v \in {"none", "sent"} : net' = [net EXCEPT ![S(h)] = v],
         UNCHANGED <<op, result, destroyed, sweeping, td, activeAuths, unpostedHolds, settling,
                     inFlight, tb>>,
         \/ UNCHANGED rec
         \/ /\ x = "done" /\ RecordAppended(h, "hold_released")
            /\ pc[S(h)] \in {"inflight", "leftover"} \/ (pc[S(h)] = "voiding" /\ td = "records")
  PROVE  IInv'
<1> USE ProcFacts
<1>t. TypeInv /\ HoldInv(h) /\ Single(h) /\ FlagInv
  BY DEF IInv, HoldInv, RecordInv
<1>q. /\ pc' \in [Procs -> AuthPcs \cup CallPcs \cup SweepPcs]
      /\ \A p \in Procs \ {S(h)} : pc'[p] = pc[p]
      /\ pc'[S(h)] = x
  BY <1>t DEF TypeInv, SweepPcs
<1>n. /\ net' \in [Procs -> {"none", "sent", "applied", "refused"}]
      /\ \A p \in Procs \ {S(h)} : net'[p] = net[p]
  <2>1. CASE net' = net
    BY <1>t, <2>1 DEF TypeInv
  <2>2. ASSUME NEW v \in {"none", "sent"}, net' = [net EXCEPT ![S(h)] = v]
        PROVE  /\ net' \in [Procs -> {"none", "sent", "applied", "refused"}]
               /\ \A p \in Procs \ {S(h)} : net'[p] = net[p]
    BY <1>t, <2>2 DEF TypeInv
  <2>3. QED
    BY <2>1, <2>2
<1>1. \A c \in Of(h) : /\ pc'[c] = pc[c] /\ net'[c] = net[c] /\ op'[c] = op[c] /\ result'[c] = result[c]
                       /\ (Mine(c)' <=> Mine(c)) /\ (Won(c)' <=> Won(c))
  BY <1>q, <1>n DEF Mine, Won
<1>2. pc'[A(h)] = pc[A(h)]
  BY <1>q
<1>3. CASE UNCHANGED rec
  <2>r. (Terminated(h)' <=> Terminated(h)) /\ (Released(h)' <=> Released(h)) /\ (Single(h)' <=> Single(h))
    BY <1>3 DEF Terminated, Released, Single
  <2>1. TypeInv'
    BY <1>t, <1>q, <1>n, <1>3 DEF TypeInv
  <2>2. \A g \in Holds \ {h} : Untouched(g)
    BY <1>q, <1>n, <1>3 DEF Untouched
  <2>3. CallInv(h)' /\ OwnerInv(h)'
    BY <1>t, <1>1, <1>2 DEF HoldInv, CallInv, OwnerInv
  <2>4. SweepInv(h)'
    BY <1>t, <1>1, <1>2, <1>q DEF HoldInv, SweepInv, SweepPcs
  <2>5. RecordInv(h)'
    BY <1>t, <1>1, <1>2, <1>q, <2>r DEF HoldInv, RecordInv
  <2>6. ChargeInv(h)'
    BY <1>t, <1>1, <2>r DEF HoldInv, ChargeInv
  <2>7. QED
    BY <2>1, <2>2, <2>3, <2>4, <2>5, <2>6, OneHold DEF HoldInv
<1>4. CASE /\ x = "done" /\ RecordAppended(h, "hold_released")
           /\ pc[S(h)] \in {"inflight", "leftover"} \/ (pc[S(h)] = "voiding" /\ td = "records")
  <2>a. ~Terminated(h)
    BY <1>4, <1>t DEF HoldInv, RecordInv
  <2>b. /\ rec' \in [Holds -> Seq(Kinds)] /\ (\A g \in Holds \ {h} : rec'[g] = rec[g])
        /\ Single(h)'
    BY <2>a, <1>4, <1>t, RecTerminal DEF TypeInv, Terminal
  <2>c. pc[A(h)] = "granted" /\ \A c \in Of(h) : op[c] = "settle" => ~Mine(c)
    <3>1. CASE pc[S(h)] = "inflight"
      <4>1. PICK d \in Of(h) : Mine(d) /\ op[d] # "settle"
        BY <3>1, <1>t DEF HoldInv, SweepInv
      <4>2. pc[A(h)] = "granted"
        BY <4>1, <1>t DEF HoldInv, CallInv, Mine
      <4>3. QED
        BY <4>1, <4>2, <1>t DEF HoldInv, OwnerInv
    <3>2. CASE pc[S(h)] # "inflight"
      BY <3>2, <1>4, <1>t DEF HoldInv, SweepInv
    <3>3. QED
      BY <3>1, <3>2
  <2>d. \A c \in Of(h) : pc[c] \notin BeforeRecord
    BY <2>c, <1>t DEF HoldInv, CallInv, SettlePcs, BeforeRecord, Mine
  <2>1. TypeInv'
    BY <1>t, <1>q, <1>n, <2>b DEF TypeInv
  <2>2. \A g \in Holds \ {h} : Untouched(g)
    BY <1>q, <1>n, <2>b DEF Untouched
  <2>3. CallInv(h)' /\ OwnerInv(h)'
    BY <1>t, <1>1, <1>2 DEF HoldInv, CallInv, OwnerInv
  <2>4. SweepInv(h)'
    BY <1>4, <1>t, <1>1, <1>2, <1>q DEF HoldInv, SweepInv, SweepPcs
  <2>5. RecordInv(h)'
    BY <1>4, <1>t, <1>1, <1>2, <1>q, <2>b, <2>c, <2>d DEF HoldInv, RecordInv, SweepInv
  <2>6. ChargeInv(h)'
    BY <1>t, <1>1, <2>c DEF HoldInv, ChargeInv
  <2>7. QED
    BY <2>1, <2>2, <2>3, <2>4, <2>5, <2>6, OneHold DEF HoldInv
<1>5. QED
  BY <1>3, <1>4

LEMMA SweepStepInv ==
  ASSUME IInv, NEW h \in Holds, SweepStep(h)
  PROVE  IInv'
<1> USE DEF tdVars, holdVars, callVars, ledgerVars, moneyVars
<1>0. td \in {"records", "engine"} => sweeping
  BY DEF IInv, FlagInv
<1>1. CASE SweepInFlight(h)
  BY <1>0, <1>1, SweepMoves DEF SweepInFlight
<1>2. CASE SweepLeftover(h)
  <2>1. CASE Ledger
    BY <1>0, <1>2, <2>1, SweepMoves DEF SweepLeftover, Sent
  <2>2. CASE ~Ledger
    BY <1>0, <1>2, <2>2, SweepMoves DEF SweepLeftover
  <2>3. QED
    BY <2>1, <2>2
<1>3. CASE SweepVoided(h)
  BY <1>0, <1>3, SweepMoves DEF SweepVoided
<1>4. CASE EngineVoid(h)
  BY <1>0, <1>4, SweepMoves DEF EngineVoid, Sent
<1>5. CASE EngineVoided(h)
  BY <1>0, <1>5, SweepMoves DEF EngineVoided
<1>6. QED
  BY <1>1, <1>2, <1>3, <1>4, <1>5 DEF SweepStep

-----------------------------------------------------------------------------
(* The invariant is inductive: it holds initially and every step keeps it. *)
LEMMA Initial == Init => IInv
<1> SUFFICES ASSUME Init PROVE IInv
  OBVIOUS
<1> USE ProcFacts
<1>1. /\ \A p \in Procs : pc[p] = "idle" /\ net[p] = "none"
      /\ \A c \in Calls : op[c] = "none" /\ result[c] = "none"
      /\ \A h \in Holds : tb[h] = "none" /\ rec[h] = <<>>
      /\ ~sweeping /\ td = "up"
      /\ activeAuths = {} /\ unpostedHolds = {} /\ settling = {} /\ inFlight = {}
  BY DEF Init
<1>2. TypeInv
  BY DEF Init, TypeInv, AuthPcs, Results
<1>3. FlagInv
  BY <1>1 DEF FlagInv
<1>4. ASSUME NEW h \in Holds
      PROVE  HoldInv(h)
  <2>1. ~Terminated(h) /\ ~Released(h) /\ Single(h)
    BY <1>1 DEF Terminated, Released, Single
  <2>2. \A c \in Of(h) : pc[c] = "idle" /\ ~Mine(c)
    BY <1>1 DEF Mine
  <2>3. CallInv(h) /\ OwnerInv(h)
    BY <1>1, <2>2 DEF CallInv, OwnerInv, CallPcs, SettlePcs, BeforeRecord, EndPcs
  <2>4. SweepInv(h) /\ RecordInv(h) /\ ChargeInv(h)
    BY <1>1, <2>1, <2>2 DEF SweepInv, RecordInv, ChargeInv, SweepPcs
  <2>5. QED
    BY <2>3, <2>4 DEF HoldInv
<1>5. QED
  BY <1>2, <1>3, <1>4 DEF IInv

LEMMA Stutter == IInv /\ UNCHANGED vars => IInv'
<1> SUFFICES ASSUME IInv, UNCHANGED vars PROVE IInv'
  OBVIOUS
<1>1. UNCHANGED <<pc, op, result, activeAuths, unpostedHolds, settling, inFlight, tb, rec, net,
                  destroyed, sweeping, td>>
  BY DEF vars, callVars, tdVars, holdVars, ledgerVars
<1>2. TypeInv' /\ FlagInv'
  BY <1>1 DEF IInv, TypeInv, FlagInv
<1>3. \A h \in Holds : Untouched(h)
  BY <1>1 DEF Untouched
<1>4. QED
  BY <1>1, <1>2, <1>3, Frame DEF IInv

LEMMA Inductive == IInv /\ [Next]_vars => IInv'
<1> SUFFICES ASSUME IInv, [Next]_vars PROVE IInv'
  OBVIOUS
<1>1. CASE Call
  BY <1>1, AuthorizeInv, SettleInv, EndInv, PhaseInv DEF Call
<1>2. CASE \E c \in Calls : SettleMetered(c)
  BY <1>2, SettleInv
<1>3. CASE LoopStep
  BY <1>3, AuthorizeInv, SettleInv, EndInv, SweepStepInv, SweepTakesInv, PhaseInv DEF LoopStep
<1>4. CASE LedgerStep
  BY <1>4, LedgerInv
<1>5. CASE UNCHANGED vars
  BY <1>5, Stutter
<1>6. QED
  BY <1>1, <1>2, <1>3, <1>4, <1>5 DEF Next

(* Every reachable state satisfies the invariant. *)
THEOREM GovernorInvariant == Spec => []IInv
  BY Initial, Inductive, PTL DEF Spec

(* However many settle, abort and release calls race for a hold, with each *)
(* other and with destroy(), the chain gets at most one record that ends   *)
(* it.                                                                     *)
THEOREM OneTerminalRecordHolds == Spec => []OneTerminalRecord
<1>1. IInv => OneTerminalRecord
  BY DEF IInv, HoldInv, RecordInv, Single, OneTerminalRecord
<1>2. QED
  BY <1>1, GovernorInvariant, PTL

(* Of all the calls ever made on one hold at most one is told that it      *)
(* ended it.                                                               *)
THEOREM OneWinnerHolds == Spec => []OneWinner
<1>1. IInv => OneWinner
  <2> SUFFICES ASSUME IInv, NEW c \in Calls, NEW d \in Calls, c[1] = d[1], Won(c), Won(d)
               PROVE  c = d
    BY DEF OneWinner
  <2>1. HoldInv(c[1]) /\ c \in Of(c[1]) /\ d \in Of(c[1])
    BY ProcFacts DEF IInv
  <2>2. Mine(c) /\ Mine(d)
    BY <2>1 DEF HoldInv, CallInv, Won, Mine
  <2>3. QED
    BY <2>1, <2>2 DEF HoldInv, OwnerInv
<1>2. QED
  BY <1>1, GovernorInvariant, PTL

(* A hold the chain reports as failed or released is not charged: the      *)
(* ledger has posted nothing for it.                                       *)
THEOREM ReleasedNeverChargedHolds == Spec => []ReleasedNeverCharged
<1>1. IInv => ReleasedNeverCharged
  BY DEF IInv, HoldInv, ChargeInv, Released, ReleasedNeverCharged
<1>2. QED
  BY <1>1, GovernorInvariant, PTL

-----------------------------------------------------------------------------
(* What a call answers, and what the ledger did. The transfer of a hold    *)
(* leaves each state once, a request that was applied is what it was       *)
(* applied for, and the amount asked for is fixed before the request goes. *)
Capped(h)  == IF charge[h] < est[h] THEN charge[h] ELSE est[h]
Backed(h)  == tb[h] = "posted" /\ posted[h] = Capped(h)
GivenUp(h) == tb[h] \in {"voided", "expired"}

AmountTypes == est \in [Holds -> Nat] /\ charge \in [Holds -> Nat] /\ posted \in [Holds -> Nat]

(* Only the reserve of the hold's own authorize() puts it in the ledger.   *)
ReserveInv(h) ==
  /\ pc[A(h)] \in {"idle", "queued", "preflight"} => net[A(h)] = "none"
  /\ pc[A(h)] \in {"granted", "undo"} => net[A(h)] # "sent"
  /\ tb[h] # "none" => net[A(h)] = "applied"

AnswerInv(h) ==
  \A c \in Of(h) :
    /\ op[c] = "settle" /\ net[c] = "applied" => Backed(h)
    /\ op[c] # "settle" /\ net[c] = "applied" => GivenUp(h)
    /\ Ledger /\ result[c] = "settled" => Backed(h)
    /\ Ledger /\ result[c] = "ended" => GivenUp(h)

LedgerSide == AmountTypes /\ \A h \in Holds : ReserveInv(h) /\ AnswerInv(h)

(* A hold no step of the ledger, of its authorize() or of a call is about. *)
Unanswered(h) ==
  /\ pc'[A(h)] = pc[A(h)] /\ net'[A(h)] = net[A(h)]
  /\ est'[h] = est[h] /\ charge'[h] = charge[h] /\ tb'[h] = tb[h] /\ posted'[h] = posted[h]
  /\ \A c \in Of(h) : op'[c] = op[c] /\ result'[c] = result[c] /\ net'[c] = net[c]

LEMMA AnswerFrame ==
  ASSUME NEW h \in Holds, ReserveInv(h), AnswerInv(h), Unanswered(h)
  PROVE  ReserveInv(h)' /\ AnswerInv(h)'
<1>1. Of(h)' = Of(h) /\ A(h)' = A(h)
  BY DEF Of, A
<1>2. (Backed(h)' <=> Backed(h)) /\ (GivenUp(h)' <=> GivenUp(h))
  BY DEF Backed, GivenUp, Capped, Unanswered
<1>3. ReserveInv(h)'
  BY <1>1 DEF ReserveInv, Unanswered
<1>4. AnswerInv(h)'
  BY <1>1, <1>2 DEF AnswerInv, Unanswered
<1>5. QED
  BY <1>3, <1>4

(* Before the ledger has decided the hold, no call has an answer about it. *)
LEMMA Undecided ==
  ASSUME NEW h \in Holds, AnswerInv(h), tb[h] \in {"none", "pending"}
  PROVE  \A c \in Of(h) : /\ net[c] # "applied"
                          /\ Ledger => result[c] \notin {"settled", "ended"}
  BY DEF AnswerInv, Backed, GivenUp

(* What authorize() leaves alone: every other process, and the amounts     *)
(* once its own estimate is made.                                          *)
LEMMA AuthorizeLocal ==
  ASSUME IInv, LedgerSide, NEW h \in Holds, AuthorizeCall(h) \/ AuthorizeStep(h)
  PROVE  /\ UNCHANGED <<op, result, charge, tb, posted>>
         /\ \A p \in Procs \ {A(h)} : pc'[p] = pc[p] /\ net'[p] = net[p]
         /\ est' \in [Holds -> Nat] /\ \A g \in Holds \ {h} : est'[g] = est[g]
         /\ est'[h] = est[h] \/ pc[A(h)] = "idle"
<1> USE DEF tdVars, holdVars, callVars, ledgerVars, moneyVars
<1> USE ProcFacts
<1>t. TypeInv /\ AmountTypes
  BY DEF IInv, LedgerSide
<1>1. UNCHANGED <<op, result, charge, tb, posted>>
  BY DEF AuthorizeCall, AuthorizeStep, AuthorizeLocked, AuthorizePreflight, AuthorizeReserved,
     AuthorizeRejected, AuthorizeUndone
<1>2. /\ \A p \in Procs \ {A(h)} : pc'[p] = pc[p] /\ net'[p] = net[p]
      /\ est' \in [Holds -> Nat] /\ \A g \in Holds \ {h} : est'[g] = est[g]
      /\ est'[h] = est[h] \/ pc[A(h)] = "idle"
  <2>1. net' = net \/ \E v \in {"none", "sent"} : net' = [net EXCEPT ![A(h)] = v]
    BY DEF AuthorizeCall, AuthorizeStep, AuthorizeLocked, AuthorizePreflight, AuthorizeReserved,
       AuthorizeRejected, AuthorizeUndone, Gate, Sent
  <2>2. \E x \in AuthPcs : pc' = [pc EXCEPT ![A(h)] = x]
    BY DEF AuthorizeCall, AuthorizeStep, AuthorizeLocked, AuthorizePreflight, AuthorizeReserved,
       AuthorizeRejected, AuthorizeUndone, Gate, Granted, AuthPcs
  <2>3. est' = est \/ (pc[A(h)] = "idle" /\ \E e \in EstCosts : est' = [est EXCEPT ![h] = e])
    BY DEF AuthorizeCall, AuthorizeStep, AuthorizeLocked, AuthorizePreflight, AuthorizeReserved,
       AuthorizeRejected, AuthorizeUndone
  <2>4. \A p \in Procs \ {A(h)} : net'[p] = net[p]
    BY <2>1, <1>t DEF TypeInv
  <2>5. \A p \in Procs \ {A(h)} : pc'[p] = pc[p]
    BY <2>2, <1>t DEF TypeInv
  <2>6. CASE est' = est
    BY <2>4, <2>5, <2>6, <1>t DEF AmountTypes
  <2>7. CASE pc[A(h)] = "idle" /\ \E e \in EstCosts : est' = [est EXCEPT ![h] = e]
    <3>1. PICK e \in EstCosts : est' = [est EXCEPT ![h] = e]
      BY <2>7
    <3>2. e \in Nat
      BY GovernorAssumption
    <3>3. est' \in [Holds -> Nat] /\ \A g \in Holds \ {h} : est'[g] = est[g]
      BY <3>1, <3>2, <1>t DEF AmountTypes
    <3>4. QED
      BY <2>4, <2>5, <2>7, <3>3
  <2>8. QED
    BY <2>3, <2>6, <2>7
<1>3. QED
  BY <1>1, <1>2

LEMMA AuthorizeAnswers ==
  ASSUME IInv, LedgerSide, NEW h \in Holds, AuthorizeCall(h) \/ AuthorizeStep(h)
  PROVE  LedgerSide'
<1> USE DEF tdVars, holdVars, callVars, ledgerVars, moneyVars
<1> USE ProcFacts
<1>t. TypeInv /\ HoldInv(h) /\ AmountTypes /\ ReserveInv(h) /\ AnswerInv(h)
  BY DEF IInv, LedgerSide
<1>1. UNCHANGED <<op, result, charge, tb, posted>>
  BY AuthorizeLocal
<1>2. /\ \A p \in Procs \ {A(h)} : pc'[p] = pc[p] /\ net'[p] = net[p]
      /\ est' \in [Holds -> Nat] /\ \A g \in Holds \ {h} : est'[g] = est[g]
      /\ est'[h] = est[h] \/ pc[A(h)] = "idle"
  BY AuthorizeLocal
<1>3. \A g \in Holds \ {h} : Unanswered(g)
  BY <1>1, <1>2 DEF Unanswered
<1>4. ReserveInv(h)'
  <2>1. CASE AuthorizeCall(h)
    <3>1. /\ net' = net /\ pc[A(h)] = "idle"
          /\ \E x \in {"refused", "queued"} : pc' = [pc EXCEPT ![A(h)] = x]
      BY <2>1 DEF AuthorizeCall
    <3>2. QED
      BY <1>1, <1>t, <3>1 DEF ReserveInv, TypeInv
  <2>2. CASE AuthorizeLocked(h) \/ AuthorizePreflight(h)
    <3>1. pc[A(h)] \in {"queued", "preflight"}
      BY <2>2 DEF AuthorizeLocked, AuthorizePreflight
    <3>2. net[A(h)] = "none" /\ tb[h] = "none"
      BY <1>t, <3>1 DEF ReserveInv
    <3>3. \/ /\ net' = net
             /\ \E x \in {"refused", "granted", "undo", "preflight"} :
                  pc' = [pc EXCEPT ![A(h)] = x]
          \/ /\ \E v \in {"none", "sent"} : net' = [net EXCEPT ![A(h)] = v]
             /\ pc' = [pc EXCEPT ![A(h)] = "reserve"]
      BY <2>2 DEF AuthorizeLocked, AuthorizePreflight, Gate, Granted, Sent
    <3>4. QED
      BY <1>1, <1>t, <3>2, <3>3 DEF ReserveInv, TypeInv
  <2>3. CASE AuthorizeReserved(h) \/ AuthorizeRejected(h) \/ AuthorizeUndone(h)
    <3>1. /\ net' = net
          /\ \/ /\ net[A(h)] = "applied"
                /\ \E x \in {"refused", "granted", "undo"} : pc' = [pc EXCEPT ![A(h)] = x]
             \/ pc' = [pc EXCEPT ![A(h)] = "refused"]
      BY <2>3 DEF AuthorizeReserved, AuthorizeRejected, AuthorizeUndone, Granted, Answered
    <3>2. QED
      BY <1>1, <1>t, <3>1 DEF ReserveInv, TypeInv
  <2>4. QED
    BY <2>1, <2>2, <2>3 DEF AuthorizeStep
<1>5. AnswerInv(h)'
  <2>1. \A c \in Of(h) : net'[c] = net[c] /\ op'[c] = op[c] /\ result'[c] = result[c]
    BY <1>1, <1>2
  <2>2. CASE pc[A(h)] = "idle"
    <3>1. \A c \in Of(h) : net[c] = "none" /\ result[c] = "none"
      BY <1>t, <2>2 DEF HoldInv, CallInv
    <3>2. QED
      BY <2>1, <3>1 DEF AnswerInv, Of
  <2>3. CASE est'[h] = est[h]
    <3>1. (Backed(h)' <=> Backed(h)) /\ (GivenUp(h)' <=> GivenUp(h)) /\ Of(h)' = Of(h)
      BY <1>1, <2>3 DEF Backed, GivenUp, Capped, Of
    <3>2. QED
      BY <1>t, <2>1, <3>1 DEF AnswerInv
  <2>4. QED
    BY <1>2, <2>2, <2>3
<1>6. AmountTypes'
  BY <1>1, <1>2, <1>t DEF AmountTypes
<1>7. QED
  BY <1>3, <1>4, <1>5, <1>6, AnswerFrame DEF LedgerSide

(* A step of a call that leaves the amounts alone: a good answer is what   *)
(* its request brought back.                                               *)
LEMMA CallAnswers ==
  ASSUME LedgerSide, NEW c \in Calls, UNCHANGED <<est, charge, tb, posted>>,
         \A p \in Procs \ {c} : pc'[p] = pc[p] /\ net'[p] = net[p],
         \A d \in Calls \ {c} : op'[d] = op[d] /\ result'[d] = result[d],
         net'[c] = "applied" => net[c] = "applied" /\ op'[c] = op[c],
         Ledger /\ result'[c] = "settled" =>
           result[c] = "settled" \/ (op[c] = "settle" /\ net[c] = "applied"),
         Ledger /\ result'[c] = "ended" =>
           result[c] = "ended" \/ (op[c] # "settle" /\ net[c] = "applied")
  PROVE  LedgerSide'
<1> USE ProcFacts
<1>1. AmountTypes'
  BY DEF LedgerSide, AmountTypes
<1>2. ASSUME NEW g \in Holds
      PROVE  ReserveInv(g)' /\ AnswerInv(g)'
  <2>1. ReserveInv(g) /\ AnswerInv(g)
    BY DEF LedgerSide
  <2>2. /\ (Backed(g)' <=> Backed(g)) /\ (GivenUp(g)' <=> GivenUp(g))
        /\ Of(g)' = Of(g) /\ A(g)' = A(g)
    BY DEF Backed, GivenUp, Capped, Of, A
  <2>3. ReserveInv(g)'
    BY <2>1, <2>2 DEF ReserveInv
  <2>4. AnswerInv(g)'
    BY <2>1, <2>2 DEF AnswerInv
  <2>5. QED
    BY <2>3, <2>4
<1>3. QED
  BY <1>1, <1>2 DEF LedgerSide

LEMMA SettleAnswers ==
  ASSUME IInv, LedgerSide, NEW c \in Calls, SettleCall(c) \/ SettleStep(c)
  PROVE  LedgerSide'
<1> USE DEF tdVars, holdVars, callVars, ledgerVars, moneyVars
<1> USE ProcFacts
<1>t. TypeInv /\ CallInv(c[1]) /\ c \in Of(c[1])
  BY DEF IInv, HoldInv
<1>1. UNCHANGED <<est, charge, tb, posted, net>>
  BY DEF SettleCall, SettleStep, SettlePosted, SettlePostFailed, SettleAmbiguous, SettleCharged,
     SettlePersisted, SettleRecorded, SettleShortfall, SettleReturned
<1>2. /\ \E x \in CallPcs : pc' = [pc EXCEPT ![c] = x]
      /\ op' = op \/ (pc[c] = "idle" /\ op' = [op EXCEPT ![c] = "settle"])
  BY DEF SettleCall, SettleStep, SettlePosted, SettlePostFailed, SettleAmbiguous, SettleCharged,
     SettlePersisted, SettleRecorded, SettleShortfall, SettleReturned, QueuedToCharge, CallPcs
<1>3. \/ result' = result
      \/ \E v \in {"lost", "ambiguous"} : result' = [result EXCEPT ![c] = v]
      \/ /\ op[c] = "settle" /\ net[c] = "applied"
         /\ result' = [result EXCEPT ![c] = "settled"]
  BY <1>t DEF SettleCall, SettleStep, SettlePosted, SettlePostFailed, SettleAmbiguous, SettleCharged,
     SettlePersisted, SettleRecorded, SettleShortfall, SettleReturned, Answered, CallInv,
     SettlePcs, BeforeRecord
<1>4. /\ \A p \in Procs \ {c} : pc'[p] = pc[p] /\ net'[p] = net[p]
      /\ \A d \in Calls \ {c} : op'[d] = op[d] /\ result'[d] = result[d]
      /\ net'[c] = "applied" => net[c] = "applied" /\ op'[c] = op[c]
  BY <1>1, <1>2, <1>3, <1>t DEF TypeInv, CallInv
<1>5. /\ result'[c] = "settled" =>
           result[c] = "settled" \/ (op[c] = "settle" /\ net[c] = "applied")
      /\ result'[c] = "ended" => result[c] = "ended"
  BY <1>3, <1>t DEF TypeInv
<1>6. QED
  BY <1>1, <1>4, <1>5, CallAnswers

LEMMA EndAnswers ==
  ASSUME IInv, LedgerSide, NEW c \in Calls,
         EndCall(c, "abort") \/ EndCall(c, "release") \/ EndStep(c)
  PROVE  LedgerSide'
<1> USE DEF tdVars, holdVars, callVars, ledgerVars, moneyVars
<1> USE ProcFacts
<1>t. TypeInv /\ CallInv(c[1]) /\ c \in Of(c[1])
  BY DEF IInv, HoldInv
<1>1. UNCHANGED <<est, charge, tb, posted>>
  BY DEF EndCall, EndStep, GivenBack, EndVoided, EndVoidFailed, EndReturned
<1>2. /\ \E x \in CallPcs : pc' = [pc EXCEPT ![c] = x]
      /\ op' = op \/ (pc[c] = "idle" /\ \E k \in {"abort", "release"} : op' = [op EXCEPT ![c] = k])
  BY DEF EndCall, EndStep, GivenBack, EndVoided, EndVoidFailed, EndReturned, Ended, CallPcs
<1>3. net' = net \/ \E v \in {"none", "sent"} : net' = [net EXCEPT ![c] = v]
  BY DEF EndCall, EndStep, GivenBack, EndVoided, EndVoidFailed, EndReturned, Sent
<1>4. \/ result' = result
      \/ \E v \in {"lost", "endedVoidError"} : result' = [result EXCEPT ![c] = v]
      \/ ~Ledger /\ result' = [result EXCEPT ![c] = "ended"]
      \/ /\ op[c] # "settle" /\ net[c] = "applied"
         /\ result' = [result EXCEPT ![c] = "ended"]
  BY <1>t DEF EndCall, EndStep, GivenBack, EndVoided, EndVoidFailed, EndReturned, Ended, Answered,
     CallInv, EndPcs
<1>5. /\ \A p \in Procs \ {c} : pc'[p] = pc[p] /\ net'[p] = net[p]
      /\ \A d \in Calls \ {c} : op'[d] = op[d] /\ result'[d] = result[d]
      /\ net'[c] = "applied" => net[c] = "applied" /\ op'[c] = op[c]
  BY <1>2, <1>3, <1>4, <1>t DEF TypeInv, CallInv
<1>6. /\ result'[c] = "settled" => result[c] = "settled"
      /\ Ledger /\ result'[c] = "ended" =>
           result[c] = "ended" \/ (op[c] # "settle" /\ net[c] = "applied")
  BY <1>4, <1>t DEF TypeInv
<1>7. QED
  BY <1>1, <1>5, <1>6, CallAnswers

(* The amount is settled before anything was posted.                       *)
LEMMA MeteredAnswers ==
  ASSUME IInv, LedgerSide, NEW c \in Calls, SettleMetered(c)
  PROVE  LedgerSide'
<1> DEFINE h == c[1]
<1> USE DEF tdVars, holdVars, callVars, ledgerVars, moneyVars
<1> USE ProcFacts
<1>t. /\ TypeInv /\ HoldInv(h) /\ h \in Holds /\ c \in Of(h) /\ pc[c] = "metering"
      /\ AmountTypes /\ ReserveInv(h) /\ AnswerInv(h)
  BY DEF IInv, LedgerSide, SettleMetered
<1>1. /\ UNCHANGED <<op, est, tb, posted>>
      /\ charge' = charge \/ \E cost \in Costs : charge' = [charge EXCEPT ![h] = cost]
      /\ \E x \in CallPcs : pc' = [pc EXCEPT ![c] = x]
      /\ net' = net \/ \E v \in {"none", "sent"} : net' = [net EXCEPT ![c] = v]
      /\ \/ result' = result \/ result' = [result EXCEPT ![c] = "threw"]
         \/ ~Ledger /\ result' = [result EXCEPT ![c] = "settled"]
  BY DEF SettleMetered, QueuedToCharge, Sent, CallPcs
<1>2. /\ \A p \in Procs \ {c} : pc'[p] = pc[p] /\ net'[p] = net[p]
      /\ \A d \in Calls \ {c} : result'[d] = result[d]
      /\ \A g \in Holds \ {h} : charge'[g] = charge[g]
      /\ charge' \in [Holds -> Nat]
  <2>1. \A p \in Procs \ {c} : pc'[p] = pc[p]
    BY <1>1, <1>t DEF TypeInv
  <2>2. \A p \in Procs \ {c} : net'[p] = net[p]
    BY <1>1, <1>t DEF TypeInv
  <2>3. \A d \in Calls \ {c} : result'[d] = result[d]
    BY <1>1, <1>t DEF TypeInv
  <2>4. Costs \subseteq Nat
    BY GovernorAssumption
  <2>5. charge' \in [Holds -> Nat] /\ \A g \in Holds \ {h} : charge'[g] = charge[g]
    BY <1>1, <1>t, <2>4 DEF AmountTypes
  <2>6. QED
    BY <2>1, <2>2, <2>3, <2>5
<1>3. tb[h] # "posted"
  BY <1>t DEF HoldInv, ChargeInv, OwnerInv, Mine
<1>4. \A g \in Holds \ {h} : Unanswered(g)
  BY <1>1, <1>2 DEF Unanswered
<1>5. ReserveInv(h)'
  BY <1>1, <1>2, <1>t DEF ReserveInv
<1>6. AnswerInv(h)'
  <2>1. \A d \in Of(h) : /\ ~(op[d] = "settle" /\ net[d] = "applied")
                         /\ ~(Ledger /\ result[d] = "settled")
    BY <1>3, <1>t DEF AnswerInv, Backed
  <2>2. \A d \in Of(h) : /\ net'[d] = "applied" => net[d] = "applied"
                         /\ Ledger => (result'[d] = result[d] \/ result'[d] = "threw")
    BY <1>1, <1>t DEF TypeInv
  <2>3. (GivenUp(h)' <=> GivenUp(h)) /\ Of(h)' = Of(h)
    BY <1>1 DEF GivenUp, Of
  <2>4. QED
    BY <1>1, <1>t, <2>1, <2>2, <2>3 DEF AnswerInv
<1>7. AmountTypes'
  BY <1>1, <1>2, <1>t DEF AmountTypes
<1>8. QED
  BY <1>4, <1>5, <1>6, <1>7, AnswerFrame DEF LedgerSide

(* The ledger decides the hold, or answers from what it decided before.    *)
LEMMA LedgerAnswers ==
  ASSUME IInv, LedgerSide, LedgerStep
  PROVE  LedgerSide'
<1> USE DEF ledgerVars, callVars
<1> USE ProcFacts
<1>t. TypeInv /\ AmountTypes /\ \A g \in Holds : ReserveInv(g) /\ AnswerInv(g)
  BY DEF IInv, LedgerSide
<1>1. ASSUME NEW h \in Holds, LedgerReserve(h)
      PROVE  LedgerSide'
  <2>1. tb[h] = "none" /\ net[A(h)] = "sent"
    BY <1>1, <1>t DEF LedgerReserve, ReserveInv
  <2>2. /\ \A p \in Procs \ {A(h)} : net'[p] = net[p]
        /\ \A g \in Holds \ {h} : tb'[g] = tb[g]
        /\ \/ tb'[h] = "pending" /\ net'[A(h)] = "applied"
           \/ tb'[h] = "none" /\ net'[A(h)] = "refused"
        /\ UNCHANGED <<pc, op, result, est, charge, posted>>
    <3>1. CASE est[h] <= Available(h)
      BY <1>1, <1>t, <2>1, <3>1 DEF LedgerReserve, TypeInv
    <3>2. CASE ~(est[h] <= Available(h))
      BY <1>1, <1>t, <2>1, <3>2 DEF LedgerReserve, TypeInv
    <3>3. QED
      BY <3>1, <3>2
  <2>3. \A g \in Holds \ {h} : Unanswered(g)
    BY <2>2 DEF Unanswered
  <2>4. ReserveInv(h)'
    BY <1>t, <2>1, <2>2 DEF ReserveInv
  <2>5. AnswerInv(h)'
    BY <1>t, <2>1, <2>2, Undecided DEF AnswerInv, Of
  <2>6. QED
    BY <1>t, <2>2, <2>3, <2>4, <2>5, AnswerFrame DEF LedgerSide, AmountTypes
<1>2. ASSUME NEW h \in Holds, LedgerExpire(h)
      PROVE  LedgerSide'
  <2>1. /\ tb[h] = "pending" /\ tb'[h] = "expired" /\ \A g \in Holds \ {h} : tb'[g] = tb[g]
        /\ UNCHANGED <<pc, net, op, result, est, charge, posted>>
    BY <1>2, <1>t DEF LedgerExpire, TypeInv
  <2>2. \A g \in Holds \ {h} : Unanswered(g)
    BY <2>1 DEF Unanswered
  <2>3. ReserveInv(h)'
    BY <1>t, <2>1 DEF ReserveInv
  <2>4. AnswerInv(h)'
    BY <1>t, <2>1, Undecided DEF AnswerInv, Of
  <2>5. QED
    BY <1>t, <2>1, <2>2, <2>3, <2>4, AnswerFrame DEF LedgerSide, AmountTypes
<1>3. ASSUME NEW c \in Calls, LedgerPost(c)
      PROVE  LedgerSide'
  <2> DEFINE h == c[1]
  <2>1. h \in Holds /\ op[c] = "settle"
    BY <1>3 DEF LedgerPost
  <2>2. /\ \A p \in Procs \ {c} : net'[p] = net[p]
        /\ UNCHANGED <<pc, op, result, est, charge>>
    BY <1>3, <1>t DEF LedgerPost, TypeInv
  <2>3. CASE tb[h] = "pending"
    <3>1. /\ \A g \in Holds \ {h} : tb'[g] = tb[g] /\ posted'[g] = posted[g]
          /\ tb'[h] = "posted" /\ posted'[h] = Capped(h) /\ posted' \in [Holds -> Nat]
      <4>1. /\ tb' = [tb EXCEPT ![h] = "posted"]
            /\ posted' = [posted EXCEPT ![h] = Capped(h)]
        BY <1>3, <2>3 DEF LedgerPost, Capped
      <4>2. Capped(h) \in Nat
        BY <1>t, <2>1 DEF AmountTypes, Capped
      <4>3. posted' \in [Holds -> Nat] /\ posted'[h] = Capped(h)
        BY <1>t, <2>1, <4>1, <4>2 DEF AmountTypes
      <4>4. \A g \in Holds \ {h} : posted'[g] = posted[g]
        BY <1>t, <4>1 DEF AmountTypes
      <4>5. tb'[h] = "posted" /\ \A g \in Holds \ {h} : tb'[g] = tb[g]
        BY <1>t, <2>1, <4>1 DEF TypeInv
      <4>6. QED
        BY <4>3, <4>4, <4>5
    <3>2. \A g \in Holds \ {h} : Unanswered(g)
      BY <2>2, <3>1 DEF Unanswered
    <3>3. ReserveInv(h)'
      BY <1>t, <2>1, <2>2, <2>3, <3>1 DEF ReserveInv
    <3>4. Backed(h)'
      BY <2>2, <3>1 DEF Backed, Capped
    <3>5. AnswerInv(h)'
      BY <1>t, <2>1, <2>2, <2>3, <3>4, Undecided DEF AnswerInv, Of
    <3>6. QED
      BY <1>t, <2>1, <2>2, <3>1, <3>2, <3>3, <3>5, AnswerFrame DEF LedgerSide, AmountTypes
  <2>4. CASE tb[h] # "pending"
    <3>1. UNCHANGED <<tb, posted>> /\ net' = [net EXCEPT ![c] = "refused"]
      BY <1>3, <2>4 DEF LedgerPost
    <3>2. net'[c] # "applied"
      BY <3>1, <1>t DEF TypeInv
    <3>3. QED
      <4>1. \A d \in Calls : net'[d] = "applied" => net[d] = "applied"
        BY <2>2, <3>2
      <4>2. QED
        BY <1>t, <2>2, <3>1, <4>1, CallAnswers
  <2>5. QED
    BY <2>3, <2>4
<1>4. ASSUME NEW p \in Procs, LedgerVoid(p)
      PROVE  LedgerSide'
  <2> DEFINE h == p[1]
  <2>1. /\ h \in Holds /\ p # A(h)
        /\ p \in Of(h) => op[p] # "settle"
        /\ \A g \in Holds \ {h} : p # A(g) /\ p \notin Of(g)
    BY <1>4 DEF LedgerVoid, Procs
  <2>2. /\ \A q \in Procs \ {p} : net'[q] = net[q]
        /\ UNCHANGED <<pc, op, result, est, charge, posted>>
    BY <1>4, <1>t DEF LedgerVoid, TypeInv
  <2>3. /\ \A g \in Holds \ {h} : tb'[g] = tb[g]
        /\ \/ tb[h] = "pending" /\ tb'[h] = "voided"
           \/ tb'[h] = tb[h] /\ (net'[p] = "applied" => tb[h] = "expired")
    BY <1>4, <1>t, <2>1 DEF LedgerVoid, TypeInv
  <2>4. \A g \in Holds \ {h} : Unanswered(g)
    BY <2>1, <2>2, <2>3 DEF Unanswered
  <2>5. ReserveInv(h)'
    BY <1>t, <2>1, <2>2, <2>3 DEF ReserveInv
  <2>6. AnswerInv(h)'
    <3>1. CASE tb[h] = "pending" /\ tb'[h] = "voided"
      <4>1. GivenUp(h)'
        BY <3>1 DEF GivenUp
      <4>2. QED
        BY <1>t, <2>1, <2>2, <3>1, <4>1, Undecided DEF AnswerInv, Of
    <3>2. CASE tb'[h] = tb[h] /\ (net'[p] = "applied" => tb[h] = "expired")
      <4>1. (Backed(h)' <=> Backed(h)) /\ (GivenUp(h)' <=> GivenUp(h)) /\ Of(h)' = Of(h)
        BY <2>2, <3>2 DEF Backed, GivenUp, Capped, Of
      <4>2. net'[p] = "applied" => GivenUp(h)
        BY <3>2 DEF GivenUp
      <4>3. QED
        BY <1>t, <2>1, <2>2, <4>1, <4>2 DEF AnswerInv
    <3>3. QED
      BY <2>3, <3>1, <3>2
  <2>7. QED
    BY <1>t, <2>1, <2>2, <2>4, <2>5, <2>6, AnswerFrame DEF LedgerSide, AmountTypes
<1>5. QED
  BY <1>1, <1>2, <1>3, <1>4 DEF LedgerStep

(* What destroy() does asks nothing of a call or of an authorize().        *)
LEMMA TeardownAnswers ==
  ASSUME IInv, LedgerSide,
         \/ Destroy \/ Sweep \/ SweepEngine \/ Close \/ UNCHANGED vars
         \/ \E h \in Holds : SweepStep(h)
  PROVE  LedgerSide'
<1> USE DEF tdVars, holdVars, callVars, ledgerVars, moneyVars
<1> USE ProcFacts
<1>t. TypeInv /\ AmountTypes /\ \A g \in Holds : ReserveInv(g) /\ AnswerInv(g)
  BY DEF IInv, LedgerSide
<1>1. UNCHANGED <<op, result, est, charge, tb, posted>>
  BY DEF Destroy, Sweep, SweepEngine, Close, vars, SweepStep, SweepInFlight, SweepLeftover,
     SweepVoided, EngineVoid, EngineVoided
<1>2. \A g \in Holds : /\ pc'[A(g)] = pc[A(g)] /\ net'[A(g)] = net[A(g)]
                       /\ \A c \in Of(g) : net'[c] = net[c]
  <2>1. CASE Sweep
    <3>1. net' = net /\ \A g \in Holds : pc'[A(g)] = pc[A(g)]
      BY <2>1 DEF Sweep
    <3>2. QED
      BY <3>1
  <2>2. ASSUME NEW h \in Holds, SweepStep(h)
        PROVE  \A p \in Procs \ {S(h)} : pc'[p] = pc[p] /\ net'[p] = net[p]
    BY <1>t, <2>2 DEF SweepStep, SweepInFlight, SweepLeftover, SweepVoided, EngineVoid,
       EngineVoided, Sent, TypeInv
  <2>3. CASE \E h \in Holds : SweepStep(h)
    BY <2>2, <2>3
  <2>4. CASE Destroy \/ SweepEngine \/ Close \/ UNCHANGED vars
    BY <2>4 DEF Destroy, SweepEngine, Close, vars
  <2>5. QED
    BY <2>1, <2>3, <2>4
<1>3. \A g \in Holds : Unanswered(g)
  BY <1>1, <1>2 DEF Unanswered
<1>4. QED
  BY <1>1, <1>3, <1>t, AnswerFrame DEF LedgerSide, AmountTypes

LEMMA LedgerSideInvariant == Spec => []LedgerSide
<1>1. Init => LedgerSide
  <2> SUFFICES ASSUME Init PROVE LedgerSide
    OBVIOUS
  <2>1. AmountTypes
    BY DEF Init, AmountTypes
  <2>2. /\ \A p \in Procs : net[p] = "none"
        /\ \A c \in Calls : result[c] = "none"
        /\ \A h \in Holds : tb[h] = "none"
    BY DEF Init
  <2>3. \A h \in Holds : ReserveInv(h) /\ AnswerInv(h)
    BY <2>2, ProcFacts DEF ReserveInv, AnswerInv
  <2>4. QED
    BY <2>1, <2>3 DEF LedgerSide
<1>2. IInv /\ LedgerSide /\ [Next]_vars => LedgerSide'
  <2> SUFFICES ASSUME IInv, LedgerSide, [Next]_vars PROVE LedgerSide'
    OBVIOUS
  <2>1. CASE Call
    BY <2>1, AuthorizeAnswers, SettleAnswers, EndAnswers, TeardownAnswers DEF Call
  <2>2. CASE \E c \in Calls : SettleMetered(c)
    BY <2>2, MeteredAnswers
  <2>3. CASE LoopStep
    BY <2>3, AuthorizeAnswers, SettleAnswers, EndAnswers, TeardownAnswers DEF LoopStep
  <2>4. CASE LedgerStep
    BY <2>4, LedgerAnswers
  <2>5. CASE UNCHANGED vars
    BY <2>5, TeardownAnswers
  <2>6. QED
    BY <2>1, <2>2, <2>3, <2>4, <2>5 DEF Next
<1>3. QED
  BY <1>1, <1>2, GovernorInvariant, PTL DEF Spec

(* A receipt that says settled is backed by a posted transfer of the cost  *)
(* capped at the hold, and an abort or release that reports no voidError   *)
(* has given the funds back: with a ledger that refuses, expires and loses *)
(* answers at any moment (postPendingSpend, voidPendingSpend).             *)
THEOREM AnswersBackedHolds == Spec => []AnswersBacked
<1>1. LedgerSide => AnswersBacked
  <2> SUFFICES ASSUME LedgerSide, Ledger, NEW c \in Calls
               PROVE  /\ result[c] = "settled" => Backed(c[1])
                      /\ result[c] = "ended" => GivenUp(c[1])
    BY DEF AnswersBacked, SettledIsPosted, CleanEndIsGivenBack, Backed, GivenUp, Capped
  <2>1. AnswerInv(c[1]) /\ c \in Of(c[1])
    BY ProcFacts DEF LedgerSide
  <2>2. QED
    BY <2>1 DEF AnswerInv
<1>2. QED
  BY <1>1, LedgerSideInvariant, PTL

-----------------------------------------------------------------------------
(* inFlightHoldTotal and the holds. What a hold has in the total is its    *)
(* estimate while it is counted. Each step moves the total by the change   *)
(* of one hold's share, or leaves the total and every share alone.         *)
Share(h) == IF Counted(h) THEN est[h] ELSE 0

HoldTotalMoves ==
  \/ inFlightHoldTotal' = inFlightHoldTotal /\ \A g \in Holds : Share(g)' = Share(g)
  \/ \E h \in Holds : /\ inFlightHoldTotal' = inFlightHoldTotal + (Share(h)' - Share(h))
                      /\ \A g \in Holds \ {h} : Share(g)' = Share(g)

(* Only a hold of the session's own budget gives anything back.            *)
SessionInv(h) ==
  /\ pc[A(h)] = "undo" => SessionAccounted(h)
  /\ \A c \in Of(h) : pc[c] \in {"charge", "giveback"} => SessionAccounted(h)

SessionSide == inFlightHoldTotal \in Int /\ \A h \in Holds : SessionInv(h)

LEMMA ShareFrame ==
  ASSUME NEW h \in Holds, est'[h] = est[h] \/ pc[A(h)] \notin {"granted", "undo"},
         pc'[A(h)] = pc[A(h)],
         ~SessionAccounted(h) \/ \A c \in Of(h) : TakenOff(c)' <=> TakenOff(c)
  PROVE  Share(h)' = Share(h)
<1>1. Counted(h)' <=> Counted(h)
  BY DEF Counted, SessionAccounted, A, Of
<1>2. Counted(h) => pc[A(h)] \in {"granted", "undo"}
  BY DEF Counted
<1>3. QED
  BY <1>1, <1>2 DEF Share

(* A step that moves no process but those of the teardown.                 *)
LEMMA StillShares ==
  ASSUME SessionSide, UNCHANGED <<inFlightHoldTotal, est, result>>,
         \A h \in Holds : /\ pc'[A(h)] = pc[A(h)]
                          /\ \A c \in Of(h) : pc'[c] = pc[c]
  PROVE  HoldTotalMoves /\ SessionSide'
<1>1. \A h \in Holds : \A c \in Of(h) : TakenOff(c)' <=> TakenOff(c)
  BY DEF TakenOff, Won
<1>2. \A h \in Holds : Share(h)' = Share(h)
  BY <1>1, ShareFrame
<1>3. \A h \in Holds : SessionInv(h)'
  BY DEF SessionSide, SessionInv, SessionAccounted, A, Of
<1>4. QED
  BY <1>2, <1>3 DEF HoldTotalMoves, SessionSide

LEMMA AuthorizeShares ==
  ASSUME IInv, LedgerSide, SessionSide, NEW h \in Holds, AuthorizeCall(h) \/ AuthorizeStep(h)
  PROVE  HoldTotalMoves /\ SessionSide'
<1> USE DEF tdVars, holdVars, callVars, ledgerVars, moneyVars
<1> USE ProcFacts
<1>t. /\ TypeInv /\ CallInv(h) /\ est[h] \in Nat /\ inFlightHoldTotal \in Int
      /\ \A g \in Holds : SessionInv(g)
  BY DEF IInv, HoldInv, LedgerSide, AmountTypes, SessionSide
<1>1. /\ UNCHANGED result
      /\ \A p \in Procs \ {A(h)} : pc'[p] = pc[p]
      /\ \A g \in Holds \ {h} : est'[g] = est[g]
      /\ est'[h] = est[h] \/ pc[A(h)] = "idle"
  BY AuthorizeLocal
<1>2. \A c \in Calls : TakenOff(c)' <=> TakenOff(c)
  BY <1>1 DEF TakenOff, Won
<1>3. \A g \in Holds \ {h} : Share(g)' = Share(g)
  <2> SUFFICES ASSUME NEW g \in Holds \ {h}
               PROVE  Share(g)' = Share(g)
    OBVIOUS
  <2>1. est'[g] = est[g] /\ pc'[A(g)] = pc[A(g)]
    BY <1>1
  <2>2. \A c \in Of(g) : TakenOff(c)' <=> TakenOff(c)
    BY <1>2
  <2>3. QED
    BY <2>1, <2>2, ShareFrame
<1>4. pc[A(h)] # "granted"
  BY DEF AuthorizeCall, AuthorizeStep, AuthorizeLocked, AuthorizePreflight, AuthorizeReserved,
     AuthorizeRejected, AuthorizeUndone
<1>5. \A c \in Calls : c[1] = h => ~TakenOff(c)
  BY <1>4, <1>t DEF CallInv, TakenOff
<1>6. /\ Share(h) = IF SessionAccounted(h) /\ pc[A(h)] = "undo" THEN est[h] ELSE 0
      /\ Share(h)' = IF SessionAccounted(h) /\ pc'[A(h)] \in {"granted", "undo"}
                     THEN est'[h] ELSE 0
  <2>1. Counted(h) <=> SessionAccounted(h) /\ pc[A(h)] = "undo"
    BY <1>4, <1>5 DEF Counted
  <2>2. Counted(h)' <=> SessionAccounted(h) /\ pc'[A(h)] \in {"granted", "undo"}
    BY <1>2, <1>5 DEF Counted, SessionAccounted, A
  <2>3. QED
    BY <2>1, <2>2 DEF Share
<1>7. \/ /\ pc[A(h)] # "undo" /\ pc'[A(h)] \notin {"granted", "undo"}
         /\ inFlightHoldTotal' = inFlightHoldTotal
      \/ /\ pc[A(h)] \notin {"undo", "idle"} /\ HoldCounted(h)
         /\ \/ pc'[A(h)] = "granted"
            \/ SessionAccounted(h) /\ pc'[A(h)] = "undo"
            \/ ~SessionAccounted(h) /\ pc'[A(h)] = "refused"
      \/ /\ pc[A(h)] = "undo" /\ pc'[A(h)] = "refused"
         /\ inFlightHoldTotal' = inFlightHoldTotal - est[h]
  <2>1. CASE AuthorizeCall(h)
    BY <2>1, <1>t DEF AuthorizeCall, TypeInv
  <2>2. CASE AuthorizeLocked(h) \/ AuthorizePreflight(h)
    <3>1. pc[A(h)] \in {"queued", "preflight"}
      BY <2>2 DEF AuthorizeLocked, AuthorizePreflight
    <3>2. \/ /\ inFlightHoldTotal' = inFlightHoldTotal
             /\ \E x \in {"refused", "reserve", "preflight"} : pc' = [pc EXCEPT ![A(h)] = x]
          \/ Granted(h)
      BY <2>2 DEF AuthorizeLocked, AuthorizePreflight, Gate
    <3>3. CASE Granted(h)
      BY <3>1, <3>3, <1>t DEF Granted, TypeInv
    <3>4. CASE /\ inFlightHoldTotal' = inFlightHoldTotal
               /\ \E x \in {"refused", "reserve", "preflight"} : pc' = [pc EXCEPT ![A(h)] = x]
      BY <3>1, <3>4, <1>t DEF TypeInv
    <3>5. QED
      BY <3>2, <3>3, <3>4
  <2>3. CASE AuthorizeReserved(h)
    BY <2>3, <1>t DEF AuthorizeReserved, Granted, TypeInv
  <2>4. CASE AuthorizeRejected(h) \/ AuthorizeUndone(h)
    BY <2>4, <1>t DEF AuthorizeRejected, AuthorizeUndone, TypeInv
  <2>5. QED
    BY <2>1, <2>2, <2>3, <2>4 DEF AuthorizeStep
<1>8. inFlightHoldTotal' = inFlightHoldTotal + (Share(h)' - Share(h))
  <2>1. CASE pc[A(h)] # "undo" /\ pc'[A(h)] \notin {"granted", "undo"}
             /\ inFlightHoldTotal' = inFlightHoldTotal
    BY <2>1, <1>6, <1>t
  <2>2. CASE /\ pc[A(h)] \notin {"undo", "idle"} /\ HoldCounted(h)
             /\ \/ pc'[A(h)] = "granted"
                \/ SessionAccounted(h) /\ pc'[A(h)] = "undo"
                \/ ~SessionAccounted(h) /\ pc'[A(h)] = "refused"
    BY <2>2, <1>1, <1>6, <1>t DEF HoldCounted
  <2>3. CASE /\ pc[A(h)] = "undo" /\ pc'[A(h)] = "refused"
             /\ inFlightHoldTotal' = inFlightHoldTotal - est[h]
    BY <2>3, <1>6, <1>t DEF SessionInv
  <2>4. QED
    BY <1>7, <2>1, <2>2, <2>3
<1>9. inFlightHoldTotal' \in Int
  BY <1>7, <1>t DEF HoldCounted
<1>10. \A g \in Holds : SessionInv(g)'
  <2>1. pc'[A(h)] = "undo" => SessionAccounted(h)
    BY <1>7
  <2>2. \A c \in Calls : pc'[c] = pc[c]
    BY <1>1
  <2>3. ASSUME NEW g \in Holds
        PROVE  SessionInv(g)'
    <3>1. (pc'[A(g)] = "undo" => SessionAccounted(g)) /\ A(g)' = A(g) /\ Of(g)' = Of(g)
      BY <1>1, <1>t, <2>1 DEF SessionInv, A, Of
    <3>2. QED
      BY <1>t, <2>2, <3>1 DEF SessionInv, SessionAccounted
  <2>4. QED
    BY <2>3
<1>11. QED
  BY <1>3, <1>8, <1>9, <1>10 DEF HoldTotalMoves, SessionSide

(* A step of call c: it takes its hold's estimate off the total from the   *)
(* place where it has the budget lock, and nowhere else.                   *)
LEMMA CallShares ==
  ASSUME IInv, LedgerSide, SessionSide, NEW c \in Calls, UNCHANGED est,
         \A p \in Procs \ {c} : pc'[p] = pc[p],
         \A d \in Calls \ {c} : result'[d] = result[d],
         pc'[c] \in {"charge", "giveback"} => SessionAccounted(c[1]),
         \/ /\ inFlightHoldTotal' = inFlightHoldTotal
            /\ SessionAccounted(c[1]) => (TakenOff(c)' <=> TakenOff(c))
         \/ /\ inFlightHoldTotal' = inFlightHoldTotal - est[c[1]]
            /\ pc[c] \in {"charge", "giveback"} /\ TakenOff(c)'
  PROVE  HoldTotalMoves /\ SessionSide'
<1> USE ProcFacts
<1> DEFINE h == c[1]
<1>t. /\ h \in Holds /\ est[h] \in Nat /\ inFlightHoldTotal \in Int
      /\ CallInv(h) /\ OwnerInv(h) /\ \A g \in Holds : SessionInv(g)
  BY DEF IInv, HoldInv, LedgerSide, AmountTypes, SessionSide
<1>1. \A d \in Calls \ {c} : TakenOff(d)' <=> TakenOff(d)
  BY DEF TakenOff, Won
<1>2. \A g \in Holds \ {h} : Share(g)' = Share(g)
  <2> SUFFICES ASSUME NEW g \in Holds \ {h}
               PROVE  Share(g)' = Share(g)
    OBVIOUS
  <2>1. \A d \in Of(g) : TakenOff(d)' <=> TakenOff(d)
    BY <1>1
  <2>2. pc'[A(g)] = pc[A(g)] /\ est'[g] = est[g]
    OBVIOUS
  <2>3. QED
    BY <2>1, <2>2, ShareFrame
<1>3. \A g \in Holds : SessionInv(g)'
  <2> SUFFICES ASSUME NEW g \in Holds
               PROVE  SessionInv(g)'
    OBVIOUS
  <2>1. pc'[A(g)] = pc[A(g)] /\ A(g)' = A(g) /\ Of(g)' = Of(g)
    BY DEF A, Of
  <2>2. \A d \in Of(g) : pc'[d] = pc[d] \/ (d = c /\ g = h)
    OBVIOUS
  <2>3. QED
    BY <2>1, <2>2, <1>t DEF SessionInv, SessionAccounted
<1>4. CASE /\ inFlightHoldTotal' = inFlightHoldTotal
           /\ SessionAccounted(h) => (TakenOff(c)' <=> TakenOff(c))
  <2>1. ~SessionAccounted(h) \/ \A d \in Of(h) : TakenOff(d)' <=> TakenOff(d)
    BY <1>1, <1>4
  <2>2. pc'[A(h)] = pc[A(h)] /\ est'[h] = est[h]
    BY <1>t
  <2>3. Share(h)' = Share(h)
    BY <1>t, <2>1, <2>2, ShareFrame
  <2>4. \A g \in Holds : Share(g)' = Share(g)
    BY <1>2, <2>3
  <2>5. QED
    BY <1>3, <1>4, <1>t, <2>4 DEF HoldTotalMoves, SessionSide
<1>5. CASE /\ inFlightHoldTotal' = inFlightHoldTotal - est[h]
           /\ pc[c] \in {"charge", "giveback"} /\ TakenOff(c)'
  <2>1. SessionAccounted(h) /\ pc[A(h)] = "granted"
    BY <1>5, <1>t DEF SessionInv, CallInv
  <2>2. \A d \in Calls : d[1] = h => ~TakenOff(d)
    <3>1. Mine(c) /\ ~TakenOff(c)
      BY <1>5 DEF Mine, TakenOff, SettlePcs, BeforeRecord, EndPcs
    <3>2. \A d \in Of(h) : TakenOff(d) => Mine(d)
      BY DEF TakenOff, Mine, SettlePcs, BeforeRecord, EndPcs
    <3>3. QED
      BY <3>1, <3>2, <1>t DEF OwnerInv
  <2>3. Share(h) = est[h]
    BY <2>1, <2>2 DEF Share, Counted
  <2>4. Share(h)' = 0
    BY <1>5 DEF Share, Counted
  <2>5. inFlightHoldTotal' = inFlightHoldTotal + (Share(h)' - Share(h))
    BY <1>5, <1>t, <2>3, <2>4
  <2>6. QED
    BY <1>2, <1>3, <1>5, <1>t, <2>5 DEF HoldTotalMoves, SessionSide
<1>6. QED
  BY <1>4, <1>5

LEMMA SettleShares ==
  ASSUME IInv, LedgerSide, SessionSide, NEW c \in Calls,
         SettleCall(c) \/ SettleMetered(c) \/ SettleStep(c)
  PROVE  HoldTotalMoves /\ SessionSide'
<1> USE DEF tdVars, holdVars, callVars, ledgerVars, moneyVars
<1> USE ProcFacts
<1>t. TypeInv /\ CallInv(c[1]) /\ c \in Of(c[1])
  BY DEF IInv, HoldInv
<1>1. /\ UNCHANGED est
      /\ \E x \in CallPcs : pc' = [pc EXCEPT ![c] = x]
      /\ result' = result \/ \E v \in Results : result' = [result EXCEPT ![c] = v]
  BY DEF SettleCall, SettleMetered, SettleStep, SettlePosted, SettlePostFailed, SettleAmbiguous,
     SettleCharged, SettlePersisted, SettleRecorded, SettleShortfall, SettleReturned,
     QueuedToCharge, CallPcs, Results
<1>2. /\ \A p \in Procs \ {c} : pc'[p] = pc[p]
      /\ \A d \in Calls \ {c} : result'[d] = result[d]
  BY <1>1, <1>t DEF TypeInv
<1>3. CASE SettleCall(c)
  <2>1. /\ inFlightHoldTotal' = inFlightHoldTotal /\ pc[c] = "idle"
        /\ pc'[c] = "metering" \/ (pc'[c] = "returned" /\ result'[c] = "lost")
    BY <1>3, <1>t DEF SettleCall, TypeInv
  <2>2. QED
    BY <1>1, <1>2, <2>1, CallShares DEF TakenOff, Won
<1>4. CASE SettleMetered(c) \/ SettlePosted(c) \/ SettlePostFailed(c) \/ SettleAmbiguous(c)
  <2>1. /\ inFlightHoldTotal' = inFlightHoldTotal /\ pc[c] \in {"metering", "post", "ambiguous"}
        /\ \/ pc'[c] \in {"post", "ambiguous"}
           \/ pc'[c] = "returned" /\ result'[c] = "threw"
           \/ SessionAccounted(c[1]) /\ pc'[c] = "charge"
           \/ ~SessionAccounted(c[1]) /\ pc'[c] = "record"
    BY <1>4, <1>t DEF SettleMetered, SettlePosted, SettlePostFailed, SettleAmbiguous,
       QueuedToCharge, TypeInv
  <2>2. QED
    BY <1>1, <1>2, <2>1, CallShares DEF TakenOff, Won
<1>5. CASE SettleCharged(c)
  <2>1. /\ inFlightHoldTotal' = inFlightHoldTotal - est[c[1]]
        /\ pc[c] = "charge" /\ pc'[c] = "persist"
    BY <1>5, <1>t DEF SettleCharged, TypeInv
  <2>2. QED
    BY <1>1, <1>2, <2>1, CallShares DEF TakenOff
<1>6. CASE SettlePersisted(c) \/ SettleRecorded(c) \/ SettleShortfall(c) \/ SettleReturned(c)
  <2>1. /\ inFlightHoldTotal' = inFlightHoldTotal /\ UNCHANGED result
        /\ pc[c] \in {"persist", "record", "shortfall", "receipt"}
        /\ pc'[c] \in {"record", "shortfall", "receipt", "returned"}
    BY <1>6, <1>t DEF SettlePersisted, SettleRecorded, SettleShortfall, SettleReturned, TypeInv
  <2>2. Won(c) /\ Won(c)'
    BY <1>t, <2>1 DEF CallInv, Won
  <2>3. QED
    BY <1>1, <1>2, <2>1, <2>2, CallShares DEF TakenOff
<1>7. QED
  BY <1>3, <1>4, <1>5, <1>6 DEF SettleStep

LEMMA EndShares ==
  ASSUME IInv, LedgerSide, SessionSide, NEW c \in Calls,
         EndCall(c, "abort") \/ EndCall(c, "release") \/ EndStep(c)
  PROVE  HoldTotalMoves /\ SessionSide'
<1> USE DEF tdVars, holdVars, callVars, ledgerVars, moneyVars
<1> USE ProcFacts
<1>t. TypeInv /\ CallInv(c[1]) /\ c \in Of(c[1])
  BY DEF IInv, HoldInv
<1>1. /\ UNCHANGED est
      /\ \E x \in CallPcs : pc' = [pc EXCEPT ![c] = x]
      /\ result' = result \/ \E v \in Results : result' = [result EXCEPT ![c] = v]
  BY DEF EndCall, EndStep, GivenBack, EndVoided, EndVoidFailed, EndReturned, Ended, CallPcs, Results
<1>2. /\ \A p \in Procs \ {c} : pc'[p] = pc[p]
      /\ \A d \in Calls \ {c} : result'[d] = result[d]
  BY <1>1, <1>t DEF TypeInv
<1>3. CASE EndCall(c, "abort") \/ EndCall(c, "release")
  <2>1. /\ inFlightHoldTotal' = inFlightHoldTotal /\ pc[c] = "idle"
        /\ \/ pc'[c] = "returned" /\ result'[c] = "lost"
           \/ SessionAccounted(c[1]) /\ pc'[c] = "giveback"
           \/ ~SessionAccounted(c[1]) /\ pc'[c] = "void"
    BY <1>3, <1>t DEF EndCall, TypeInv
  <2>2. QED
    BY <1>1, <1>2, <2>1, CallShares DEF TakenOff, Won
<1>4. ASSUME NEW outcome \in {"ended", "endedVoidError"}, Ended(c, outcome)
      PROVE  TakenOff(c)' /\ pc'[c] \in {"logged", "returned"}
  BY <1>4, <1>t DEF Ended, TakenOff, Won, TypeInv
<1>5. CASE GivenBack(c)
  <2>1. /\ inFlightHoldTotal' = inFlightHoldTotal - est[c[1]] /\ pc[c] = "giveback"
        /\ pc'[c] = "void" \/ Ended(c, "ended")
    BY <1>5, <1>t DEF GivenBack, TypeInv
  <2>2. TakenOff(c)' /\ pc'[c] \in {"void", "logged", "returned"}
    BY <1>4, <2>1 DEF TakenOff
  <2>3. QED
    BY <1>1, <1>2, <2>1, <2>2, CallShares
<1>6. CASE EndVoided(c) \/ EndVoidFailed(c)
  <2>1. /\ inFlightHoldTotal' = inFlightHoldTotal /\ pc[c] = "void"
        /\ \E outcome \in {"ended", "endedVoidError"} : Ended(c, outcome)
    BY <1>6 DEF EndVoided, EndVoidFailed
  <2>2. TakenOff(c) /\ TakenOff(c)' /\ pc'[c] \in {"logged", "returned"}
    BY <1>4, <2>1 DEF TakenOff
  <2>3. QED
    BY <1>1, <1>2, <2>1, <2>2, CallShares
<1>7. CASE EndReturned(c)
  <2>1. /\ inFlightHoldTotal' = inFlightHoldTotal /\ UNCHANGED result
        /\ pc[c] = "logged" /\ pc'[c] = "returned"
    BY <1>7, <1>t DEF EndReturned, TypeInv
  <2>2. Won(c) /\ Won(c)'
    BY <1>t, <2>1 DEF CallInv, Won
  <2>3. QED
    BY <1>1, <1>2, <2>1, <2>2, CallShares DEF TakenOff
<1>8. QED
  BY <1>3, <1>5, <1>6, <1>7 DEF EndStep

LEMMA OtherShares ==
  ASSUME IInv, SessionSide,
         \/ Destroy \/ Sweep \/ SweepEngine \/ Close \/ UNCHANGED vars \/ LedgerStep
         \/ \E h \in Holds : SweepStep(h)
  PROVE  HoldTotalMoves /\ SessionSide'
<1> USE DEF tdVars, holdVars, callVars, ledgerVars, moneyVars
<1> USE ProcFacts
<1>1. UNCHANGED <<inFlightHoldTotal, est, result>>
  BY DEF Destroy, Sweep, SweepEngine, Close, vars, SweepStep, SweepInFlight, SweepLeftover,
     SweepVoided, EngineVoid, EngineVoided, LedgerStep, LedgerReserve, LedgerPost, LedgerVoid,
     LedgerExpire
<1>2. \A g \in Holds : pc'[A(g)] = pc[A(g)] /\ \A c \in Of(g) : pc'[c] = pc[c]
  <2>1. CASE Sweep
    BY <2>1 DEF Sweep
  <2>2. ASSUME NEW h \in Holds, SweepStep(h)
        PROVE  \A p \in Procs \ {S(h)} : pc'[p] = pc[p]
    <3>1. \E x \in SweepPcs : pc' = [pc EXCEPT ![S(h)] = x]
      BY <2>2 DEF SweepStep, SweepInFlight, SweepLeftover, SweepVoided, EngineVoid,
         EngineVoided, SweepPcs
    <3>2. QED
      BY <3>1 DEF IInv, TypeInv
  <2>3. CASE \E h \in Holds : SweepStep(h)
    BY <2>2, <2>3
  <2>4. CASE Destroy \/ SweepEngine \/ Close \/ UNCHANGED vars \/ LedgerStep
    BY <2>4 DEF Destroy, SweepEngine, Close, vars, LedgerStep, LedgerReserve, LedgerPost,
       LedgerVoid, LedgerExpire
  <2>5. QED
    BY <2>1, <2>3, <2>4
<1>3. QED
  BY <1>1, <1>2, StillShares

(* No path of any race leaks budget or counts a hold twice: what authorize *)
(* reserved is given back once, by the settle, abort or release that owns  *)
(* the hold or by the authorize() that found the governor destroyed, and   *)
(* at that hold's own estimate. This is the induction step of              *)
(* HoldTotalExact, which adds the shares up over the set of holds.         *)
THEOREM HoldTotalFollowsTheHolds == Spec => [][HoldTotalMoves]_vars
<1>1. Init => SessionSide
  BY ProcFacts DEF Init, SessionSide, SessionInv
<1>2. IInv /\ LedgerSide /\ SessionSide /\ [Next]_vars => HoldTotalMoves /\ SessionSide'
  <2> SUFFICES ASSUME IInv, LedgerSide, SessionSide, [Next]_vars
               PROVE  HoldTotalMoves /\ SessionSide'
    OBVIOUS
  <2>1. CASE Call
    BY <2>1, AuthorizeShares, SettleShares, EndShares, OtherShares DEF Call
  <2>2. CASE \E c \in Calls : SettleMetered(c)
    BY <2>2, SettleShares
  <2>3. CASE LoopStep
    BY <2>3, AuthorizeShares, SettleShares, EndShares, OtherShares DEF LoopStep
  <2>4. CASE LedgerStep \/ UNCHANGED vars
    BY <2>4, OtherShares
  <2>5. QED
    BY <2>1, <2>2, <2>3, <2>4 DEF Next
<1>3. QED
  BY <1>1, <1>2, GovernorInvariant, LedgerSideInvariant, PTL DEF Spec
=============================================================================
