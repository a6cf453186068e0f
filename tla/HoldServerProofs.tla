--------------------------- MODULE HoldServerProofs ---------------------------
(***************************************************************************)
(* No 410 for a charge that stands: proofs about HoldServer for any number *)
(* of holds, of settles, aborts and releases of each, and any size of the  *)
(* memory of settled holds.                                                *)
(*                                                                         *)
(* The inductive invariant follows a hold: nowhere before the governor     *)
(* reserved it, then in pending or with the one terminal that claimed it,  *)
(* and, once charged, in recentlySettled until that drops it. So a settle  *)
(* that finds the hold in none of these places, while the governor does    *)
(* not have it either, has found a hold that was given back.               *)
(***************************************************************************)
EXTENDS HoldServer, TLAPS

USE HoldServerAssumption DEF HoldServerAssumption

(* The settle, abort and release requests of a hold. *)
Of(h) == {r \in Requests : r[1] = h}

(* Before the governor has answered, there is no hold. *)
BeginsInv(h) ==
  /\ state[h] \in {"unsent", "reading"} => call[h] = "none"
  /\ call[h] # "over" => hold[h] = "none" /\ owed[h] = None
  /\ "200" \in ToSet(reply[h]) => hold[h] # "none"

(* Who has the hold: pending, or the one terminal that claimed it. *)
HolderInv(h) ==
  /\ h \in pending => claimed[h] = None /\ hold[h] \in {"active", "unposted", "ended"}
  /\ claimed[h] \in {"end", "sweep", "shutdown"} => hold[h] \in {"ending", "ended"}
  /\ claimed[h] = "settle" => hold[h] \in {"posting", "unposted", "ended"}
  /\ hold[h] = "posting" => claimed[h] = "settle"
  /\ owed[h] # None => h \notin pending /\ claimed[h] = None

(* A request that has claimed the hold is the terminal it is claimed for,  *)
(* and no other request has claimed it.                                    *)
Working(r) == pc[r] \in {"settling", "ending"}
RequestInv(h) ==
  /\ \A r \in Of(h) :
       /\ pc[r] = "settling" => r \in Settles /\ claimed[h] = "settle"
       /\ pc[r] = "ending" => r \in Ends /\ claimed[h] = "end"
       /\ pc[r] \notin {"unsent", "done"} => hold[h] # "none"
  /\ \A q, r \in Of(h) : Working(q) /\ Working(r) => q = r

(* What was charged is remembered or forgotten, and what was recorded is   *)
(* over, or was forgotten.                                                 *)
ChargeInv(h) ==
  /\ hold[h] \in {"settled", "ambiguous"} => Remembered(h) \/ h \in forgotten
  /\ h \in recorded => hold[h] = "ended" \/ h \in forgotten
  /\ \A r \in Of(h) :
       pc[r] = "recording" \/ (r \in Settles /\ "410" \in ToSet(reply[r])) => h \in recorded

HoldInv(h) == BeginsInv(h) /\ HolderInv(h) /\ RequestInv(h) /\ ChargeInv(h)

IInv == TypeOK /\ \A h \in Holds : HoldInv(h)

-----------------------------------------------------------------------------
(* What a step about another hold leaves alone; it may push the hold out   *)
(* of recentlySettled.                                                     *)
Untouched(h) ==
  /\ state'[h] = state[h] /\ call'[h] = call[h] /\ hold'[h] = hold[h]
  /\ claimed'[h] = claimed[h] /\ owed'[h] = owed[h] /\ reply'[h] = reply[h]
  /\ h \in pending' <=> h \in pending
  /\ h \in recorded' <=> h \in recorded
  /\ \A r \in Of(h) : pc'[r] = pc[r] /\ reply'[r] = reply[r]
  /\ h \in forgotten => h \in forgotten'
  /\ Remembered(h) => Remembered(h)' \/ h \in forgotten'

LEMMA Frame ==
  ASSUME NEW h \in Holds, HoldInv(h), Untouched(h)
  PROVE  HoldInv(h)'
<1>1. Of(h)' = Of(h)
  BY DEF Of
<1>2. BeginsInv(h)'
  BY DEF HoldInv, BeginsInv, Untouched
<1>3. HolderInv(h)' /\ RequestInv(h)'
  BY <1>1 DEF HoldInv, HolderInv, RequestInv, Working, Untouched
<1>4. ChargeInv(h)'
  BY <1>1 DEF HoldInv, ChargeInv, Untouched
<1>5. QED
  BY <1>2, <1>3, <1>4 DEF HoldInv

(* What an action about hold h owes. *)
Kept(h) == TypeOK' /\ (\A g \in Holds \ {h} : Untouched(g)) /\ HoldInv(h)'

LEMMA KeptSuffices ==
  ASSUME IInv, NEW h \in Holds, Kept(h)
  PROVE  IInv'
  BY Frame DEF IInv, Kept

(* The step gives r at most one answer, out of those, and nobody else any. *)
Answered(r, whats) == reply' = reply \/ \E what \in whats : Replied(r, what)

LEMMA AnsweredFacts ==
  ASSUME TypeOK, NEW r \in Holds \cup Requests, NEW whats, whats \subseteq Replies,
         Answered(r, whats)
  PROVE  /\ reply' \in [Holds \cup Requests -> Seq(Replies)]
         /\ ToSet(reply'[r]) \subseteq ToSet(reply[r]) \cup whats
         /\ \A q \in (Holds \cup Requests) \ {r} : reply'[q] = reply[q]
<1>1. CASE reply' = reply
  BY <1>1 DEF TypeOK, AnswerTypes
<1>2. ASSUME NEW what \in whats, Replied(r, what)
      PROVE  /\ reply' \in [Holds \cup Requests -> Seq(Replies)]
             /\ ToSet(reply'[r]) \subseteq ToSet(reply[r]) \cup {what}
             /\ \A q \in (Holds \cup Requests) \ {r} : reply'[q] = reply[q]
  <2>1. reply[r] \in Seq(Replies) /\ reply'[r] = Append(reply[r], what)
    BY <1>2 DEF TypeOK, AnswerTypes, Replied
  <2>2. ToSet(Append(reply[r], what)) \subseteq ToSet(reply[r]) \cup {what}
    BY <2>1 DEF ToSet
  <2>3. QED
    BY <1>2, <2>1, <2>2 DEF TypeOK, AnswerTypes, Replied
<1>3. QED
  BY <1>1, <1>2 DEF Answered

(* Which hold a request is about. *)
LEMMA RequestFacts ==
  /\ \A r \in Requests : r[1] \in Holds /\ r \in Of(r[1]) /\ r \notin Holds
  /\ \A r \in Requests, h \in Holds : r \in Of(h) <=> r[1] = h
  /\ \A h \in Holds : Of(h) \subseteq Requests
  /\ Settles \subseteq Requests /\ Ends \subseteq Requests
  BY DEF Requests, Of

(* A step that charges nothing, forgets nothing and records nothing. *)
LEMMA ChargeFrame ==
  ASSUME NEW h \in Holds, ChargeInv(h), (Remembered(h) => Remembered(h)'),
         \A r \in Of(h) : /\ pc'[r] = "recording" => pc[r] = "recording"
                          /\ r \in Settles /\ "410" \in ToSet(reply'[r])
                               => "410" \in ToSet(reply[r]),
         hold'[h] \in {"settled", "ambiguous"} => hold[h] = hold'[h],
         hold[h] = "ended" => hold'[h] = "ended",
         recorded' = recorded /\ forgotten' = forgotten
  PROVE  ChargeInv(h)'
<1>1. Of(h)' = Of(h)
  BY DEF Of
<1>2. hold'[h] \in {"settled", "ambiguous"} => Remembered(h)' \/ h \in forgotten'
  BY DEF ChargeInv
<1>3. h \in recorded' => hold'[h] = "ended" \/ h \in forgotten'
  BY DEF ChargeInv
<1>4. \A r \in Of(h) :
        pc'[r] = "recording" \/ (r \in Settles /\ "410" \in ToSet(reply'[r])) => h \in recorded'
  BY DEF ChargeInv
<1>5. QED
  BY <1>1, <1>2, <1>3, <1>4 DEF ChargeInv

(* What rememberSettled() forgets, it moves to forgotten. *)
LEMMA RememberFacts ==
  ASSUME TypeOK, NEW h \in Holds, NEW how \in {"settled", "ambiguous"}, Remember(h, how)
  PROVE  /\ recentlySettled' \in Seq(Holds \X {"settled", "ambiguous"})
         /\ Len(recentlySettled') <= Memory
         /\ forgotten \subseteq forgotten' /\ forgotten' \subseteq Holds
         /\ Remembered(h)' \/ h \in forgotten'
         /\ \A g \in Holds : Remembered(g) => Remembered(g)' \/ g \in forgotten'
<1> DEFINE Entry == Holds \X {"settled", "ambiguous"}
<1> DEFINE all == Append(recentlySettled, <<h, how>>)
<1>1. /\ recentlySettled \in Seq(Entry) /\ Len(recentlySettled) <= Memory
      /\ forgotten \subseteq Holds
      /\ <<h, how>> \in Entry
  BY DEF TypeOK, AnswerTypes
<1>2. /\ all \in Seq(Entry) /\ Len(all) = Len(recentlySettled) + 1
      /\ \A i \in 1 .. Len(recentlySettled) : all[i] = recentlySettled[i]
      /\ all[Len(all)] = <<h, how>>
  BY <1>1
<1>3. ToSet(recentlySettled) \cup {<<h, how>>} \subseteq ToSet(all)
  <2>1. DOMAIN recentlySettled = 1 .. Len(recentlySettled) /\ DOMAIN all = 1 .. Len(all)
    BY <1>1, <1>2
  <2>2. Len(all) \in DOMAIN all /\ DOMAIN recentlySettled \subseteq DOMAIN all
    BY <1>1, <1>2, <2>1
  <2>3. <<h, how>> \in ToSet(all)
    BY <1>2, <2>2 DEF ToSet
  <2>4. ASSUME NEW i \in DOMAIN recentlySettled
        PROVE  recentlySettled[i] \in ToSet(all)
    BY <1>2, <2>1, <2>2 DEF ToSet
  <2>5. QED
    BY <2>3, <2>4 DEF ToSet
<1>4. CASE Len(all) > Memory
  <2>1. recentlySettled' = Tail(all) /\ forgotten' = forgotten \cup {all[1][1]}
    BY <1>4 DEF Remember
  <2>2. Tail(all) \in Seq(Entry) /\ Len(Tail(all)) = Len(all) - 1
    BY <1>1, <1>2, <1>4
  <2>3. all[1] \in Entry
    BY <1>1, <1>2
  <2>4. ToSet(all) \subseteq ToSet(Tail(all)) \cup {all[1]}
    <3>1. ASSUME NEW i \in DOMAIN all
          PROVE  all[i] \in ToSet(Tail(all)) \cup {all[1]}
      <4>1. i \in 1 .. Len(all)
        BY <1>2
      <4>2. CASE i = 1
        BY <4>2
      <4>3. CASE i # 1
        <5>1. i - 1 \in 1 .. Len(Tail(all)) /\ Tail(all)[i - 1] = all[i]
          BY <1>1, <1>2, <2>2, <4>1, <4>3
        <5>2. QED
          BY <2>2, <5>1 DEF ToSet
      <4>4. QED
        BY <4>2, <4>3
    <3>2. QED
      BY <3>1 DEF ToSet
  <2>5. QED
    BY <1>1, <1>3, <2>1, <2>2, <2>3, <2>4 DEF Remembered
<1>5. CASE ~(Len(all) > Memory)
  <2>1. recentlySettled' = all /\ forgotten' = forgotten
    BY <1>5 DEF Remember
  <2>2. QED
    BY <1>1, <1>2, <1>3, <1>5, <2>1 DEF Remembered
<1>6. QED
  BY <1>4, <1>5

-----------------------------------------------------------------------------
(* One lemma per action. The groups of variables are expanded from here on.*)
USE DEF authVars, serverVars, history, None, TypeOK, AuthTypes, ClaimTypes

(* An authorize that gets no hold changes nothing but how far it got.      *)
LEMMA NoHoldYet ==
  ASSUME IInv, NEW h \in Holds,
         AuthTypes', Answered(h, {"500", "503", "denied"}),
         UNCHANGED <<serverVars, hold, pc, recorded, history>>,
         \A g \in Holds \ {h} : state'[g] = state[g] /\ call'[g] = call[g],
         state'[h] \in {"unsent", "reading"} => call'[h] = "none",
         call'[h] # "over" => call[h] # "over"
  PROVE  Kept(h)
<1>1. TypeOK /\ HoldInv(h)
  BY DEF IInv
<1>2. /\ reply' \in [Holds \cup Requests -> Seq(Replies)]
      /\ ToSet(reply'[h]) \subseteq ToSet(reply[h]) \cup {"500", "503", "denied"}
      /\ \A q \in (Holds \cup Requests) \ {h} : reply'[q] = reply[q]
  BY <1>1, AnsweredFacts DEF Replies
<1>3. TypeOK'
  <2>1. ClaimTypes'
    BY <1>1
  <2>2. AnswerTypes'
    BY <1>1, <1>2 DEF AnswerTypes
  <2>3. QED
    BY <2>1, <2>2
<1>4. \A g \in Holds : Remembered(g)' <=> Remembered(g)
  BY DEF Remembered
<1>5. \A g \in Holds : \A r \in Of(g) : reply'[r] = reply[r]
  BY <1>2, RequestFacts
<1>6. \A g \in Holds \ {h} : Untouched(g)
  BY <1>2, <1>4, <1>5 DEF Untouched
<1>7. BeginsInv(h)' /\ HolderInv(h)'
  <2>1. "200" \in ToSet(reply'[h]) => "200" \in ToSet(reply[h])
    BY <1>2
  <2>2. BeginsInv(h)'
    BY <1>1, <2>1 DEF HoldInv, BeginsInv
  <2>3. HolderInv(h)'
    BY <1>1 DEF HoldInv, HolderInv
  <2>4. QED
    BY <2>2, <2>3
<1>8. RequestInv(h)' /\ ChargeInv(h)'
  BY <1>1, <1>4, <1>5 DEF HoldInv, RequestInv, ChargeInv, Working, Of
<1>9. QED
  BY <1>3, <1>6, <1>7, <1>8 DEF Kept, HoldInv

LEMMA AuthorizeKeeps ==
  ASSUME IInv, NEW h \in Holds,
         Authorize(h) \/ Deadline(h) \/ AuthorizeDenied(h)
  PROVE  Kept(h)
<1>1. TypeOK /\ BeginsInv(h)
  BY DEF IInv, HoldInv
<1>2. CASE Arrive(h)
  <2>1. Answered(h, {"500", "503", "denied"})
    BY <1>2 DEF Answered, Arrive
  <2>2. AuthTypes'
    BY <1>1, <1>2 DEF Arrive
  <2>3. /\ \A g \in Holds \ {h} : state'[g] = state[g] /\ call'[g] = call[g]
        /\ state'[h] \in {"unsent", "reading"} => call'[h] = "none"
        /\ call'[h] # "over" => call[h] # "over"
    BY <1>1, <1>2 DEF BeginsInv, Arrive
  <2>4. UNCHANGED <<serverVars, hold, pc, recorded, history>>
    BY <1>2 DEF Arrive
  <2>5. QED
    BY <2>1, <2>2, <2>3, <2>4, NoHoldYet
<1>3. CASE Handle(h)
  <2>1. Answered(h, {"500", "503", "denied"})
    BY <1>3 DEF Answered, Handle
  <2>2. AuthTypes'
    BY <1>1, <1>3 DEF Handle
  <2>3. /\ \A g \in Holds \ {h} : state'[g] = state[g] /\ call'[g] = call[g]
        /\ state'[h] \in {"unsent", "reading"} => call'[h] = "none"
        /\ call'[h] # "over" => call[h] # "over"
    BY <1>1, <1>3 DEF BeginsInv, Handle
  <2>4. UNCHANGED <<serverVars, hold, pc, recorded, history>>
    BY <1>3 DEF Handle
  <2>5. QED
    BY <2>1, <2>2, <2>3, <2>4, NoHoldYet
<1>4. CASE Disconnect(h)
  <2>1. Answered(h, {"500", "503", "denied"})
    BY <1>4 DEF Answered, Disconnect
  <2>2. AuthTypes'
    BY <1>1, <1>4 DEF Disconnect
  <2>3. /\ \A g \in Holds \ {h} : state'[g] = state[g] /\ call'[g] = call[g]
        /\ state'[h] \in {"unsent", "reading"} => call'[h] = "none"
        /\ call'[h] # "over" => call[h] # "over"
    BY <1>1, <1>4 DEF BeginsInv, Disconnect
  <2>4. UNCHANGED <<serverVars, hold, pc, recorded, history>>
    BY <1>4 DEF Disconnect
  <2>5. QED
    BY <2>1, <2>2, <2>3, <2>4, NoHoldYet
<1>5. CASE OnClose(h)
  <2>1. Answered(h, {"500", "503", "denied"})
    BY <1>5 DEF Answered, OnClose, Leave
  <2>2. AuthTypes'
    BY <1>1, <1>5 DEF OnClose, Leave
  <2>3. /\ \A g \in Holds \ {h} : state'[g] = state[g] /\ call'[g] = call[g]
        /\ state'[h] \in {"unsent", "reading"} => call'[h] = "none"
        /\ call'[h] # "over" => call[h] # "over"
    BY <1>1, <1>5 DEF BeginsInv, OnClose, Leave
  <2>4. UNCHANGED <<serverVars, hold, pc, recorded, history>>
    BY <1>5 DEF OnClose
  <2>5. QED
    BY <2>1, <2>2, <2>3, <2>4, NoHoldYet
<1>6. CASE Acquired(h)
  <2>1. Answered(h, {"500", "503", "denied"})
    BY <1>6 DEF Answered, Acquired, Leave
  <2>2. AuthTypes'
    BY <1>1, <1>6 DEF Acquired, Leave
  <2>3. /\ \A g \in Holds \ {h} : state'[g] = state[g] /\ call'[g] = call[g]
        /\ state'[h] \in {"unsent", "reading"} => call'[h] = "none"
        /\ call'[h] # "over" => call[h] # "over"
    BY <1>1, <1>6 DEF BeginsInv, Acquired, Leave
  <2>4. UNCHANGED <<serverVars, hold, pc, recorded, history>>
    BY <1>6 DEF Acquired
  <2>5. QED
    BY <2>1, <2>2, <2>3, <2>4, NoHoldYet
<1>7. CASE Deadline(h)
  <2>1. Answered(h, {"500", "503", "denied"})
    BY <1>7 DEF Answered, Deadline, Leave, JoinUnsettled
  <2>2. AuthTypes'
    BY <1>1, <1>7 DEF Deadline, Leave, JoinUnsettled
  <2>3. /\ \A g \in Holds \ {h} : state'[g] = state[g] /\ call'[g] = call[g]
        /\ state'[h] \in {"unsent", "reading"} => call'[h] = "none"
        /\ call'[h] # "over" => call[h] # "over"
    BY <1>1, <1>7 DEF BeginsInv, Deadline, Leave, JoinUnsettled
  <2>4. UNCHANGED <<serverVars, hold, pc, recorded, history>>
    BY <1>7 DEF Deadline
  <2>5. QED
    BY <2>1, <2>2, <2>3, <2>4, NoHoldYet
<1>8. CASE AuthorizeDenied(h)
  <2>1. Answered(h, {"500", "503", "denied"})
    BY <1>8 DEF Answered, AuthorizeDenied, CallOver, Leave
  <2>2. AuthTypes'
    BY <1>1, <1>8 DEF AuthorizeDenied, CallOver, Leave
  <2>3. /\ \A g \in Holds \ {h} : state'[g] = state[g] /\ call'[g] = call[g]
        /\ state'[h] \in {"unsent", "reading"} => call'[h] = "none"
        /\ call'[h] # "over" => call[h] # "over"
    BY <1>1, <1>8 DEF BeginsInv, AuthorizeDenied, CallOver, Leave
  <2>4. UNCHANGED <<serverVars, hold, pc, recorded, history>>
    BY <1>8 DEF AuthorizeDenied
  <2>5. QED
    BY <2>1, <2>2, <2>3, <2>4, NoHoldYet
<1>9. QED
  BY <1>2, <1>3, <1>4, <1>5, <1>6, <1>7, <1>8 DEF Authorize

LEMMA AuthorizeGrantedKeeps ==
  ASSUME IInv, NEW h \in Holds, AuthorizeGranted(h)
  PROVE  Kept(h)
<1> USE DEF AuthorizeGranted, CallOver, Leave, ReleaseLate, Delivered
<1>1. TypeOK /\ HoldInv(h)
  BY DEF IInv
<1>2. /\ reply' \in [Holds \cup Requests -> Seq(Replies)]
      /\ ToSet(reply'[h]) \subseteq ToSet(reply[h]) \cup {"200", "503"}
      /\ \A q \in (Holds \cup Requests) \ {h} : reply'[q] = reply[q]
  <2>1. Answered(h, {"200", "503"})
    BY DEF Answered
  <2>2. QED
    BY <1>1, <2>1, AnsweredFacts DEF Replies
<1>3. TypeOK'
  <2>1. AuthTypes'
    BY <1>1
  <2>2. ClaimTypes'
    BY <1>1
  <2>3. AnswerTypes'
    BY <1>1, <1>2 DEF AnswerTypes
  <2>4. QED
    BY <2>1, <2>2, <2>3
<1>4. \A g \in Holds : Remembered(g)' <=> Remembered(g)
  BY DEF Remembered
<1>5. \A g \in Holds \ {h} : Untouched(g)
  BY <1>1, <1>2, <1>4, RequestFacts DEF Untouched
<1>6. BeginsInv(h)'
  <2>1. call'[h] = "over" /\ hold'[h] # "none"
    BY <1>1
  <2>2. state'[h] \notin {"unsent", "reading"}
    BY <1>1 DEF HoldInv, BeginsInv
  <2>3. QED
    BY <2>1, <2>2 DEF BeginsInv
<1>7. HolderInv(h)'
  <2>1. h \notin pending /\ claimed[h] = None /\ owed[h] = None
    BY <1>1 DEF HoldInv, BeginsInv, HolderInv
  <2>2. ReleaseLate(h) \/ Delivered(h)
    OBVIOUS
  <2>3. claimed' = claimed
    OBVIOUS
  <2>4. CASE ReleaseLate(h)
    <3>1. hold'[h] = "ending" /\ pending' = pending
      BY <1>1, <2>4
    <3>2. QED
      BY <2>1, <2>3, <3>1 DEF HolderInv
  <2>5. CASE Delivered(h)
    <3>1. hold'[h] = "active" /\ owed' = owed
      BY <1>1, <2>5
    <3>2. QED
      BY <2>1, <2>3, <3>1 DEF HolderInv
  <2>6. QED
    BY <2>2, <2>4, <2>5
<1>8. RequestInv(h)'
  BY <1>1, RequestFacts DEF HoldInv, BeginsInv, HolderInv, RequestInv, Working, Of
<1>9. ChargeInv(h)'
  <2>1. \A r \in Of(h) : /\ pc'[r] = "recording" => pc[r] = "recording"
                         /\ "410" \in ToSet(reply'[r]) => "410" \in ToSet(reply[r])
    <3>1. \A r \in Of(h) : r \in Requests /\ r # h
      BY RequestFacts
    <3>2. \A r \in Of(h) : reply'[r] = reply[r]
      BY <1>2, <3>1
    <3>3. pc' = pc
      OBVIOUS
    <3>4. QED
      BY <3>2, <3>3
  <2>2. hold'[h] \in {"settled", "ambiguous"} => hold[h] = hold'[h]
    BY <1>1, <1>2 DEF HoldInv, BeginsInv, HolderInv, ChargeInv
  <2>3. hold[h] = "ended" => hold'[h] = "ended"
    BY <1>1, <1>2 DEF HoldInv, BeginsInv, HolderInv, ChargeInv
  <2>4. recorded' = recorded /\ forgotten' = forgotten
    OBVIOUS
  <2>5. QED
    BY <1>1, <1>4, <2>1, <2>2, <2>3, <2>4, ChargeFrame DEF HoldInv
<1>10. QED
  BY <1>3, <1>5, <1>6, <1>7, <1>8, <1>9 DEF Kept, HoldInv

LEMMA LateReleasedKeeps ==
  ASSUME IInv, NEW h \in Holds, LateReleased(h)
  PROVE  Kept(h)
<1> USE DEF LateReleased
<1>1. TypeOK /\ HoldInv(h)
  BY DEF IInv
<1>2. /\ reply' \in [Holds \cup Requests -> Seq(Replies)]
      /\ ToSet(reply'[h]) \subseteq ToSet(reply[h]) \cup {}
      /\ \A q \in (Holds \cup Requests) \ {h} : reply'[q] = reply[q]
  <2>1. Answered(h, {})
    BY DEF Answered
  <2>2. QED
    BY <1>1, <2>1, AnsweredFacts DEF Replies
<1>3. TypeOK'
  <2>1. AuthTypes'
    BY <1>1
  <2>2. ClaimTypes'
    BY <1>1
  <2>3. AnswerTypes'
    BY <1>1, <1>2 DEF AnswerTypes
  <2>4. QED
    BY <2>1, <2>2, <2>3
<1>4. \A g \in Holds : Remembered(g)' <=> Remembered(g)
  BY DEF Remembered
<1>5. \A g \in Holds \ {h} : Untouched(g)
  BY <1>1, <1>2, <1>4, RequestFacts DEF Untouched
<1>6. BeginsInv(h)'
  BY <1>1, <1>2, RequestFacts DEF HoldInv, BeginsInv, HolderInv
<1>7. HolderInv(h)'
  <2>1. h \notin pending /\ claimed[h] = None /\ hold'[h] \in {"ended", "active"}
    BY <1>1 DEF HoldInv, HolderInv
  <2>2. pending' = pending /\ claimed' = claimed
    OBVIOUS
  <2>3. QED
    BY <2>1, <2>2 DEF HolderInv
<1>8. RequestInv(h)'
  BY <1>1, RequestFacts DEF HoldInv, BeginsInv, HolderInv, RequestInv, Working, Of
<1>9. ChargeInv(h)'
  <2>1. \A r \in Of(h) : /\ pc'[r] = "recording" => pc[r] = "recording"
                         /\ "410" \in ToSet(reply'[r]) => "410" \in ToSet(reply[r])
    BY <1>1, <1>2, RequestFacts
  <2>2. hold'[h] \in {"settled", "ambiguous"} => hold[h] = hold'[h]
    BY <1>1, <1>2 DEF HoldInv, BeginsInv, HolderInv, ChargeInv
  <2>3. hold[h] = "ended" => hold'[h] = "ended"
    BY <1>1, <1>2 DEF HoldInv, BeginsInv, HolderInv, ChargeInv
  <2>4. recorded' = recorded /\ forgotten' = forgotten
    OBVIOUS
  <2>5. QED
    BY <1>1, <1>4, <2>1, <2>2, <2>3, <2>4, ChargeFrame DEF HoldInv
<1>10. QED
  BY <1>3, <1>5, <1>6, <1>7, <1>8, <1>9 DEF Kept, HoldInv

LEMMA OwedExpiresKeeps ==
  ASSUME IInv, NEW h \in Holds, OwedExpires(h)
  PROVE  Kept(h)
<1> USE DEF OwedExpires
<1>1. TypeOK /\ HoldInv(h)
  BY DEF IInv
<1>2. /\ reply' \in [Holds \cup Requests -> Seq(Replies)]
      /\ ToSet(reply'[h]) \subseteq ToSet(reply[h]) \cup {}
      /\ \A q \in (Holds \cup Requests) \ {h} : reply'[q] = reply[q]
  <2>1. Answered(h, {})
    BY DEF Answered
  <2>2. QED
    BY <1>1, <2>1, AnsweredFacts DEF Replies
<1>3. TypeOK'
  <2>1. AuthTypes'
    BY <1>1
  <2>2. ClaimTypes'
    BY <1>1
  <2>3. AnswerTypes'
    BY <1>1, <1>2 DEF AnswerTypes
  <2>4. QED
    BY <2>1, <2>2, <2>3
<1>4. \A g \in Holds : Remembered(g)' <=> Remembered(g)
  BY DEF Remembered
<1>5. \A g \in Holds \ {h} : Untouched(g)
  BY <1>1, <1>2, <1>4, RequestFacts DEF Untouched
<1>6. BeginsInv(h)'
  BY <1>1, <1>2, RequestFacts DEF HoldInv, BeginsInv, HolderInv
<1>7. HolderInv(h)'
  BY <1>1, <1>2, RequestFacts DEF HoldInv, BeginsInv, HolderInv, ChargeInv
<1>8. RequestInv(h)'
  BY <1>1, RequestFacts DEF HoldInv, BeginsInv, HolderInv, RequestInv, Working, Of
<1>9. ChargeInv(h)'
  <2>1. \A r \in Of(h) : /\ pc'[r] = "recording" => pc[r] = "recording"
                         /\ "410" \in ToSet(reply'[r]) => "410" \in ToSet(reply[r])
    BY <1>1, <1>2, RequestFacts
  <2>2. hold'[h] \in {"settled", "ambiguous"} => hold[h] = hold'[h]
    BY <1>1, <1>2 DEF HoldInv, BeginsInv, HolderInv, ChargeInv
  <2>3. hold[h] = "ended" => hold'[h] = "ended"
    BY <1>1, <1>2 DEF HoldInv, BeginsInv, HolderInv, ChargeInv
  <2>4. recorded' = recorded /\ forgotten' = forgotten
    OBVIOUS
  <2>5. QED
    BY <1>1, <1>4, <2>1, <2>2, <2>3, <2>4, ChargeFrame DEF HoldInv
<1>10. QED
  BY <1>3, <1>5, <1>6, <1>7, <1>8, <1>9 DEF Kept, HoldInv

LEMMA LifeEndsKeeps ==
  ASSUME IInv, NEW h \in Holds, LifeEnds(h)
  PROVE  Kept(h)
<1> USE DEF LifeEnds
<1>1. TypeOK /\ HoldInv(h)
  BY DEF IInv
<1>2. /\ reply' \in [Holds \cup Requests -> Seq(Replies)]
      /\ ToSet(reply'[h]) \subseteq ToSet(reply[h]) \cup {}
      /\ \A q \in (Holds \cup Requests) \ {h} : reply'[q] = reply[q]
  <2>1. Answered(h, {})
    BY DEF Answered
  <2>2. QED
    BY <1>1, <2>1, AnsweredFacts DEF Replies
<1>3. TypeOK'
  <2>1. AuthTypes'
    BY <1>1
  <2>2. ClaimTypes'
    BY <1>1
  <2>3. AnswerTypes'
    BY <1>1, <1>2 DEF AnswerTypes
  <2>4. QED
    BY <2>1, <2>2, <2>3
<1>4. \A g \in Holds : Remembered(g)' <=> Remembered(g)
  BY DEF Remembered
<1>5. \A g \in Holds \ {h} : Untouched(g)
  BY <1>1, <1>2, <1>4, RequestFacts DEF Untouched
<1>6. BeginsInv(h)'
  BY <1>1, <1>2, RequestFacts DEF HoldInv, BeginsInv, HolderInv
<1>7. HolderInv(h)'
  BY <1>1, <1>2, RequestFacts DEF HoldInv, BeginsInv, HolderInv, ChargeInv
<1>8. RequestInv(h)'
  BY <1>1, RequestFacts DEF HoldInv, BeginsInv, HolderInv, RequestInv, Working, Of
<1>9. ChargeInv(h)'
  <2>1. \A r \in Of(h) : /\ pc'[r] = "recording" => pc[r] = "recording"
                         /\ "410" \in ToSet(reply'[r]) => "410" \in ToSet(reply[r])
    BY <1>1, <1>2, RequestFacts
  <2>2. hold'[h] \in {"settled", "ambiguous"} => hold[h] = hold'[h]
    BY <1>1, <1>2 DEF HoldInv, BeginsInv, HolderInv, ChargeInv
  <2>3. hold[h] = "ended" => hold'[h] = "ended"
    BY <1>1, <1>2 DEF HoldInv, BeginsInv, HolderInv, ChargeInv
  <2>4. recorded' = recorded /\ forgotten' = forgotten
    OBVIOUS
  <2>5. QED
    BY <1>1, <1>4, <2>1, <2>2, <2>3, <2>4, ChargeFrame DEF HoldInv
<1>10. QED
  BY <1>3, <1>5, <1>6, <1>7, <1>8, <1>9 DEF Kept, HoldInv

LEMMA SweepKeeps ==
  ASSUME IInv, NEW h \in Holds, Sweep(h)
  PROVE  Kept(h)
<1> USE DEF Sweep, Claim, EndBegins
<1>1. TypeOK /\ HoldInv(h)
  BY DEF IInv
<1>2. /\ reply' \in [Holds \cup Requests -> Seq(Replies)]
      /\ ToSet(reply'[h]) \subseteq ToSet(reply[h]) \cup {}
      /\ \A q \in (Holds \cup Requests) \ {h} : reply'[q] = reply[q]
  <2>1. Answered(h, {})
    BY DEF Answered
  <2>2. QED
    BY <1>1, <2>1, AnsweredFacts DEF Replies
<1>3. TypeOK'
  <2>1. AuthTypes'
    BY <1>1
  <2>2. ClaimTypes'
    BY <1>1
  <2>3. AnswerTypes'
    BY <1>1, <1>2 DEF AnswerTypes
  <2>4. QED
    BY <2>1, <2>2, <2>3
<1>4. \A g \in Holds : Remembered(g)' <=> Remembered(g)
  BY DEF Remembered
<1>5. \A g \in Holds \ {h} : Untouched(g)
  BY <1>1, <1>2, <1>4, RequestFacts DEF Untouched
<1>6. BeginsInv(h)'
  BY <1>1, <1>2, RequestFacts DEF HoldInv, BeginsInv, HolderInv
<1>7. HolderInv(h)'
  BY <1>1, <1>2, RequestFacts DEF HoldInv, BeginsInv, HolderInv, ChargeInv
<1>8. RequestInv(h)'
  <2>1. claimed[h] = None /\ pc' = pc /\ hold'[h] # "none"
    BY <1>1 DEF HoldInv, HolderInv
  <2>2. QED
    BY <1>1, <2>1 DEF HoldInv, RequestInv, Working, Of
<1>9. ChargeInv(h)'
  <2>1. \A r \in Of(h) : /\ pc'[r] = "recording" => pc[r] = "recording"
                         /\ "410" \in ToSet(reply'[r]) => "410" \in ToSet(reply[r])
    BY <1>1, <1>2, RequestFacts
  <2>2. hold'[h] \in {"settled", "ambiguous"} => hold[h] = hold'[h]
    BY <1>1, <1>2 DEF HoldInv, BeginsInv, HolderInv, ChargeInv
  <2>3. hold[h] = "ended" => hold'[h] = "ended"
    BY <1>1, <1>2 DEF HoldInv, BeginsInv, HolderInv, ChargeInv
  <2>4. recorded' = recorded /\ forgotten' = forgotten
    OBVIOUS
  <2>5. QED
    BY <1>1, <1>4, <2>1, <2>2, <2>3, <2>4, ChargeFrame DEF HoldInv
<1>10. QED
  BY <1>3, <1>5, <1>6, <1>7, <1>8, <1>9 DEF Kept, HoldInv

LEMMA OwnEndsKeeps ==
  ASSUME IInv, NEW h \in Holds, OwnEnds(h)
  PROVE  Kept(h)
<1> USE DEF OwnEnds, Unclaimed
<1>1. TypeOK /\ HoldInv(h)
  BY DEF IInv
<1>2. /\ reply' \in [Holds \cup Requests -> Seq(Replies)]
      /\ ToSet(reply'[h]) \subseteq ToSet(reply[h]) \cup {}
      /\ \A q \in (Holds \cup Requests) \ {h} : reply'[q] = reply[q]
  <2>1. Answered(h, {})
    BY DEF Answered
  <2>2. QED
    BY <1>1, <2>1, AnsweredFacts DEF Replies
<1>3. TypeOK'
  <2>1. AuthTypes'
    BY <1>1
  <2>2. ClaimTypes'
    BY <1>1
  <2>3. AnswerTypes'
    BY <1>1, <1>2 DEF AnswerTypes
  <2>4. QED
    BY <2>1, <2>2, <2>3
<1>4. \A g \in Holds : Remembered(g)' <=> Remembered(g)
  BY DEF Remembered
<1>5. \A g \in Holds \ {h} : Untouched(g)
  BY <1>1, <1>2, <1>4, RequestFacts DEF Untouched
<1>6. BeginsInv(h)'
  BY <1>1, <1>2, RequestFacts DEF HoldInv, BeginsInv, HolderInv
<1>7. HolderInv(h)'
  <2>1. h \notin pending /\ owed[h] = None /\ hold'[h] \in {"ended", "active"} /\ claimed'[h] = None
    BY <1>1 DEF HoldInv, HolderInv
  <2>2. pending' = pending /\ owed' = owed
    OBVIOUS
  <2>3. QED
    BY <2>1, <2>2 DEF HolderInv
<1>8. RequestInv(h)'
  BY <1>1, RequestFacts DEF HoldInv, BeginsInv, HolderInv, RequestInv, Working, Of
<1>9. ChargeInv(h)'
  <2>1. \A r \in Of(h) : /\ pc'[r] = "recording" => pc[r] = "recording"
                         /\ "410" \in ToSet(reply'[r]) => "410" \in ToSet(reply[r])
    BY <1>1, <1>2, RequestFacts
  <2>2. hold'[h] \in {"settled", "ambiguous"} => hold[h] = hold'[h]
    BY <1>1, <1>2 DEF HoldInv, BeginsInv, HolderInv, ChargeInv
  <2>3. hold[h] = "ended" => hold'[h] = "ended"
    BY <1>1, <1>2 DEF HoldInv, BeginsInv, HolderInv, ChargeInv
  <2>4. recorded' = recorded /\ forgotten' = forgotten
    OBVIOUS
  <2>5. QED
    BY <1>1, <1>4, <2>1, <2>2, <2>3, <2>4, ChargeFrame DEF HoldInv
<1>10. QED
  BY <1>3, <1>5, <1>6, <1>7, <1>8, <1>9 DEF Kept, HoldInv

(* The 409 is never a 410. *)
LEMMA KnownAnswers ==
  ASSUME TypeOK, NEW s \in Settles, AnswerKnown(s)
  PROVE  \E what \in Replies \ {"410"} : Replied(s, what)
<1>1. CASE Replied(s, "settle_in_progress") \/ Replied(s, "hold_active")
  BY <1>1 DEF Replies
<1>2. ASSUME NEW e \in ToSet(recentlySettled), Replied(s, e[2])
      PROVE  \E what \in Replies \ {"410"} : Replied(s, what)
  <2>1. e[2] \in {"settled", "ambiguous"}
    BY DEF AnswerTypes, ToSet
  <2>2. QED
    BY <1>2, <2>1 DEF Replies
<1>3. QED
  BY <1>1, <1>2 DEF AnswerKnown

LEMMA SettleKeeps ==
  ASSUME IInv, NEW s \in Settles, Settle(s)
  PROVE  Kept(s[1])
<1> DEFINE h == s[1]
<1> USE DEF Settle, Claim, SettleBegins, Goes
<1>1. TypeOK /\ HoldInv(h) /\ h \in Holds /\ s \in Requests /\ s \in Of(h) /\ s \notin Holds
  BY RequestFacts DEF IInv
<1>2. /\ reply' \in [Holds \cup Requests -> Seq(Replies)]
      /\ ToSet(reply'[s]) \subseteq ToSet(reply[s]) \cup (Replies \ {"410"})
      /\ \A q \in (Holds \cup Requests) \ {s} : reply'[q] = reply[q]
  <2>1. Answered(s, Replies \ {"410"})
    BY <1>1, KnownAnswers DEF Answered, Replies
  <2>2. QED
    BY <1>1, <2>1, AnsweredFacts DEF Replies
<1>3. TypeOK'
  <2>1. AuthTypes'
    BY <1>1
  <2>2. ClaimTypes'
    BY <1>1
  <2>3. AnswerTypes'
    BY <1>1, <1>2 DEF AnswerTypes
  <2>4. QED
    BY <2>1, <2>2, <2>3
<1>4. \A g \in Holds : Remembered(g)' <=> Remembered(g)
  BY DEF Remembered
<1>5. \A g \in Holds \ {h} : Untouched(g)
  <2>1. \A g \in Holds \ {h} : /\ g # s /\ s \notin Of(g)
                               /\ \A r \in Of(g) : r[1] # h /\ r # s /\ r \in Requests
    BY <1>1, RequestFacts
  <2>2. \A g \in Holds \ {h} : \A r \in Of(g) : pc'[r] = pc[r]
    BY <1>1, <2>1
  <2>3. \A g \in Holds \ {h} : /\ state'[g] = state[g] /\ call'[g] = call[g] /\ hold'[g] = hold[g]
                               /\ claimed'[g] = claimed[g] /\ owed'[g] = owed[g]
                               /\ g \in pending' <=> g \in pending
                               /\ g \in recorded' <=> g \in recorded
                               /\ g \in forgotten => g \in forgotten'
    BY <1>1
  <2>4. \A g \in Holds \ {h} : /\ reply'[g] = reply[g]
                               /\ \A r \in Of(g) : reply'[r] = reply[r]
    BY <1>2, <2>1
  <2>5. QED
    BY <1>4, <2>2, <2>3, <2>4 DEF Untouched
<1>6. BeginsInv(h)'
  BY <1>1, <1>2, RequestFacts DEF HoldInv, BeginsInv, HolderInv
<1>7. HolderInv(h)'
  BY <1>1, <1>2, RequestFacts DEF HoldInv, BeginsInv, HolderInv, ChargeInv
<1>8. RequestInv(h)'
  <2>1. CASE h \in pending /\ Claim(h, "settle")
    <3>1. claimed[h] = None /\ claimed'[h] = "settle" /\ hold'[h] # "none"
      BY <1>1, <2>1 DEF HoldInv, HolderInv
    <3>2. \A r \in Of(h) : ~Working(r)
      BY <1>1, <3>1 DEF HoldInv, RequestInv, Working
    <3>3. pc' = [pc EXCEPT ![s] = "settling"]
      BY <1>1, <2>1
    <3>4. \A r \in Of(h) : /\ r # s => pc'[r] = pc[r]
                           /\ r = s => pc'[r] = "settling"
      BY <1>1, <3>3, RequestFacts
    <3>5. QED
      BY <1>1, <3>1, <3>2, <3>4 DEF HoldInv, RequestInv, Working, Of
  <2>2. CASE UNCHANGED <<pending, claimed, hold>>
    <3>1. \A r \in Of(h) : /\ r # s => pc'[r] = pc[r]
                           /\ r = s => pc'[r] \in {"done", "unheld"}
      BY <1>1, <2>2, RequestFacts
    <3>2. hold[h] # "none"
      BY <1>1 DEF HoldInv, BeginsInv
    <3>3. QED
      BY <1>1, <2>2, <3>1, <3>2 DEF HoldInv, RequestInv, Working, Of
  <2>3. QED
    BY <2>1, <2>2
<1>9. ChargeInv(h)'
  <2>1. \A r \in Of(h) : /\ pc'[r] = "recording" => pc[r] = "recording"
                         /\ r \in Settles /\ "410" \in ToSet(reply'[r]) => "410" \in ToSet(reply[r])
    <3>1. \A r \in Of(h) \ {s} : reply'[r] = reply[r] /\ pc'[r] = pc[r]
      BY <1>1, <1>2, RequestFacts
    <3>2. pc'[s] # "recording" /\ ("410" \in ToSet(reply'[s]) => "410" \in ToSet(reply[s]))
      BY <1>1, <1>2
    <3>3. QED
      BY <3>1, <3>2
  <2>2. hold'[h] \in {"settled", "ambiguous"} => hold[h] = hold'[h]
    BY <1>1 DEF HoldInv, HolderInv
  <2>3. hold[h] = "ended" => hold'[h] = "ended"
    BY <1>1 DEF HoldInv, HolderInv
  <2>4. recorded' = recorded /\ forgotten' = forgotten
    OBVIOUS
  <2>5. QED
    BY <1>1, <1>4, <2>1, <2>2, <2>3, <2>4, ChargeFrame DEF HoldInv
<1>10. QED
  BY <1>3, <1>5, <1>6, <1>7, <1>8, <1>9 DEF Kept, HoldInv

LEMMA EndKeeps ==
  ASSUME IInv, NEW s \in Ends, End(s)
  PROVE  Kept(s[1])
<1> DEFINE h == s[1]
<1> USE DEF End, Claim, EndBegins, Goes
<1>1. TypeOK /\ HoldInv(h) /\ h \in Holds /\ s \in Requests /\ s \in Of(h) /\ s \notin Holds
  BY RequestFacts DEF IInv
<1>2. /\ reply' \in [Holds \cup Requests -> Seq(Replies)]
      /\ ToSet(reply'[s]) \subseteq ToSet(reply[s]) \cup (Replies \ {"410"})
      /\ \A q \in (Holds \cup Requests) \ {s} : reply'[q] = reply[q]
  <2>1. Answered(s, Replies \ {"410"})
    BY <1>1, KnownAnswers DEF Answered, Replies
  <2>2. QED
    BY <1>1, <2>1, AnsweredFacts DEF Replies
<1>3. TypeOK'
  <2>1. AuthTypes'
    BY <1>1
  <2>2. ClaimTypes'
    BY <1>1
  <2>3. AnswerTypes'
    BY <1>1, <1>2 DEF AnswerTypes
  <2>4. QED
    BY <2>1, <2>2, <2>3
<1>4. \A g \in Holds : Remembered(g)' <=> Remembered(g)
  BY DEF Remembered
<1>5. \A g \in Holds \ {h} : Untouched(g)
  <2>1. \A g \in Holds \ {h} : /\ g # s /\ s \notin Of(g)
                               /\ \A r \in Of(g) : r[1] # h /\ r # s /\ r \in Requests
    BY <1>1, RequestFacts
  <2>2. \A g \in Holds \ {h} : \A r \in Of(g) : pc'[r] = pc[r]
    BY <1>1, <2>1
  <2>3. \A g \in Holds \ {h} : /\ state'[g] = state[g] /\ call'[g] = call[g] /\ hold'[g] = hold[g]
                               /\ claimed'[g] = claimed[g] /\ owed'[g] = owed[g]
                               /\ g \in pending' <=> g \in pending
                               /\ g \in recorded' <=> g \in recorded
                               /\ g \in forgotten => g \in forgotten'
    BY <1>1
  <2>4. \A g \in Holds \ {h} : /\ reply'[g] = reply[g]
                               /\ \A r \in Of(g) : reply'[r] = reply[r]
    BY <1>2, <2>1
  <2>5. QED
    BY <1>4, <2>2, <2>3, <2>4 DEF Untouched
<1>6. BeginsInv(h)'
  BY <1>1, <1>2, RequestFacts DEF HoldInv, BeginsInv, HolderInv
<1>7. HolderInv(h)'
  BY <1>1, <1>2, RequestFacts DEF HoldInv, BeginsInv, HolderInv, ChargeInv
<1>8. RequestInv(h)'
  <2>1. CASE h \in pending /\ Claim(h, "end")
    <3>1. claimed[h] = None /\ claimed'[h] = "end" /\ hold'[h] # "none"
      BY <1>1, <2>1 DEF HoldInv, HolderInv
    <3>2. \A r \in Of(h) : ~Working(r)
      BY <1>1, <3>1 DEF HoldInv, RequestInv, Working
    <3>3. pc' = [pc EXCEPT ![s] = "ending"]
      BY <1>1, <2>1
    <3>4. \A r \in Of(h) : /\ r # s => pc'[r] = pc[r]
                           /\ r = s => pc'[r] = "ending"
      BY <1>1, <3>3, RequestFacts
    <3>5. QED
      BY <1>1, <3>1, <3>2, <3>4 DEF HoldInv, RequestInv, Working, Of
  <2>2. CASE UNCHANGED <<pending, claimed, hold>>
    <3>1. \A r \in Of(h) : /\ r # s => pc'[r] = pc[r]
                           /\ r = s => pc'[r] \in {"done", "unheld"}
      BY <1>1, <2>2, RequestFacts
    <3>2. hold[h] # "none"
      BY <1>1 DEF HoldInv, BeginsInv
    <3>3. QED
      BY <1>1, <2>2, <3>1, <3>2 DEF HoldInv, RequestInv, Working, Of
  <2>3. QED
    BY <2>1, <2>2
<1>9. ChargeInv(h)'
  <2>1. \A r \in Of(h) : /\ pc'[r] = "recording" => pc[r] = "recording"
                         /\ r \in Settles /\ "410" \in ToSet(reply'[r]) => "410" \in ToSet(reply[r])
    <3>1. \A r \in Of(h) \ {s} : reply'[r] = reply[r] /\ pc'[r] = pc[r]
      BY <1>1, <1>2, RequestFacts
    <3>2. pc'[s] # "recording" /\ ("410" \in ToSet(reply'[s]) => "410" \in ToSet(reply[s]))
      BY <1>1, <1>2
    <3>3. QED
      BY <3>1, <3>2
  <2>2. hold'[h] \in {"settled", "ambiguous"} => hold[h] = hold'[h]
    BY <1>1 DEF HoldInv, HolderInv
  <2>3. hold[h] = "ended" => hold'[h] = "ended"
    BY <1>1 DEF HoldInv, HolderInv
  <2>4. recorded' = recorded /\ forgotten' = forgotten
    OBVIOUS
  <2>5. QED
    BY <1>1, <1>4, <2>1, <2>2, <2>3, <2>4, ChargeFrame DEF HoldInv
<1>10. QED
  BY <1>3, <1>5, <1>6, <1>7, <1>8, <1>9 DEF Kept, HoldInv

LEMMA EndEndsKeeps ==
  ASSUME IInv, NEW s \in Ends, EndEnds(s)
  PROVE  Kept(s[1])
<1> DEFINE h == s[1]
<1> USE DEF EndEnds, Unclaimed
<1>1. TypeOK /\ HoldInv(h) /\ h \in Holds /\ s \in Requests /\ s \in Of(h) /\ s \notin Holds
  BY RequestFacts DEF IInv
<1>2. /\ reply' \in [Holds \cup Requests -> Seq(Replies)]
      /\ ToSet(reply'[s]) \subseteq ToSet(reply[s]) \cup (Replies \ {"410"})
      /\ \A q \in (Holds \cup Requests) \ {s} : reply'[q] = reply[q]
  <2>1. Answered(s, Replies \ {"410"})
    BY <1>1, KnownAnswers DEF Answered, Replies
  <2>2. QED
    BY <1>1, <2>1, AnsweredFacts DEF Replies
<1>3. TypeOK'
  <2>1. AuthTypes'
    BY <1>1
  <2>2. ClaimTypes'
    BY <1>1
  <2>3. AnswerTypes'
    BY <1>1, <1>2 DEF AnswerTypes
  <2>4. QED
    BY <2>1, <2>2, <2>3
<1>4. \A g \in Holds : Remembered(g)' <=> Remembered(g)
  BY DEF Remembered
<1>5. \A g \in Holds \ {h} : Untouched(g)
  <2>1. \A g \in Holds \ {h} : /\ g # s /\ s \notin Of(g)
                               /\ \A r \in Of(g) : r[1] # h /\ r # s /\ r \in Requests
    BY <1>1, RequestFacts
  <2>2. \A g \in Holds \ {h} : \A r \in Of(g) : pc'[r] = pc[r]
    BY <1>1, <2>1
  <2>3. \A g \in Holds \ {h} : /\ state'[g] = state[g] /\ call'[g] = call[g] /\ hold'[g] = hold[g]
                               /\ claimed'[g] = claimed[g] /\ owed'[g] = owed[g]
                               /\ g \in pending' <=> g \in pending
                               /\ g \in recorded' <=> g \in recorded
                               /\ g \in forgotten => g \in forgotten'
    BY <1>1
  <2>4. \A g \in Holds \ {h} : /\ reply'[g] = reply[g]
                               /\ \A r \in Of(g) : reply'[r] = reply[r]
    BY <1>2, <2>1
  <2>5. QED
    BY <1>4, <2>2, <2>3, <2>4 DEF Untouched
<1>6. BeginsInv(h)'
  BY <1>1, <1>2, RequestFacts DEF HoldInv, BeginsInv, HolderInv
<1>7. HolderInv(h)'
  <2>1. claimed[h] = "end" /\ h \notin pending /\ owed[h] = None
    BY <1>1 DEF HoldInv, HolderInv, RequestInv
  <2>2. /\ claimed'[h] = None /\ owed' = owed
        /\ hold'[h] \in {"active", "ended"}
    BY <1>1
  <2>3. QED
    BY <2>1, <2>2 DEF HolderInv
<1>8. RequestInv(h)'
  BY <1>1, RequestFacts DEF HoldInv, BeginsInv, HolderInv, RequestInv, Working, Of
<1>9. ChargeInv(h)'
  BY <1>1, <1>2, <1>4, RequestFacts DEF HoldInv, BeginsInv, HolderInv, ChargeInv, Known
<1>10. QED
  BY <1>3, <1>5, <1>6, <1>7, <1>8, <1>9 DEF Kept, HoldInv

LEMMA UnheldRecordedKeeps ==
  ASSUME IInv, NEW s \in Settles, UnheldRecorded(s)
  PROVE  Kept(s[1])
<1> DEFINE h == s[1]
<1> USE DEF UnheldRecorded, Goes
<1>1. TypeOK /\ HoldInv(h) /\ h \in Holds /\ s \in Requests /\ s \in Of(h) /\ s \notin Holds
  BY RequestFacts DEF IInv
<1>2. /\ reply' \in [Holds \cup Requests -> Seq(Replies)]
      /\ \A q \in (Holds \cup Requests) \ {s} : reply'[q] = reply[q]
  <2>1. Answered(s, Replies)
    <3>1. CASE Known(h)
      BY <1>1, <3>1, KnownAnswers DEF Answered
    <3>2. CASE ~Known(h)
      BY <3>2 DEF Answered, Replies
    <3>3. QED
      BY <3>1, <3>2
  <2>2. QED
    BY <1>1, <2>1, AnsweredFacts
<1>3. TypeOK'
  <2>1. AuthTypes'
    BY <1>1
  <2>2. ClaimTypes'
    BY <1>1
  <2>3. AnswerTypes'
    BY <1>1, <1>2 DEF AnswerTypes
  <2>4. QED
    BY <2>1, <2>2, <2>3
<1>4. \A g \in Holds : Remembered(g)' <=> Remembered(g)
  BY DEF Remembered
<1>5. \A g \in Holds \ {h} : Untouched(g)
  <2>1. \A g \in Holds \ {h} : /\ g # s /\ s \notin Of(g)
                               /\ \A r \in Of(g) : r[1] # h /\ r # s /\ r \in Requests
    BY <1>1, RequestFacts
  <2>2. \A g \in Holds \ {h} : \A r \in Of(g) : pc'[r] = pc[r]
    BY <1>1, <2>1
  <2>3. \A g \in Holds \ {h} : /\ state'[g] = state[g] /\ call'[g] = call[g] /\ hold'[g] = hold[g]
                               /\ claimed'[g] = claimed[g] /\ owed'[g] = owed[g]
                               /\ g \in pending' <=> g \in pending
                               /\ g \in recorded' <=> g \in recorded
                               /\ g \in forgotten => g \in forgotten'
    BY <1>1
  <2>4. \A g \in Holds \ {h} : /\ reply'[g] = reply[g]
                               /\ \A r \in Of(g) : reply'[r] = reply[r]
    BY <1>2, <2>1
  <2>5. QED
    BY <1>4, <2>2, <2>3, <2>4 DEF Untouched
<1>6. BeginsInv(h)'
  BY <1>1, <1>2, RequestFacts DEF HoldInv, BeginsInv, HolderInv
<1>7. HolderInv(h)'
  BY <1>1, <1>2, RequestFacts DEF HoldInv, BeginsInv, HolderInv, ChargeInv
<1>8. RequestInv(h)'
  BY <1>1, RequestFacts DEF HoldInv, BeginsInv, HolderInv, RequestInv, Working, Of
<1>9. ChargeInv(h)'
  <2>1. h \in recorded /\ UNCHANGED <<recorded, forgotten, hold>>
    BY <1>1 DEF HoldInv, ChargeInv
  <2>2. QED
    BY <1>1, <1>4, <2>1 DEF HoldInv, ChargeInv
<1>10. QED
  BY <1>3, <1>5, <1>6, <1>7, <1>8, <1>9 DEF Kept, HoldInv

LEMMA SettleEndsKeeps ==
  ASSUME IInv, NEW s \in Settles, SettleEnds(s)
  PROVE  Kept(s[1])
<1> DEFINE h == s[1]
<1> USE DEF SettleEnds, Unclaimed
<1>1. TypeOK /\ HoldInv(h) /\ h \in Holds /\ s \in Requests /\ s \in Of(h) /\ s \notin Holds
  BY RequestFacts DEF IInv
<1>2. \/ /\ hold[h] = "posting" /\ pending' = pending
         /\ \E how \in {"settled", "ambiguous"} :
              hold' = [hold EXCEPT ![h] = how] /\ Remember(h, how)
      \/ /\ hold' = [hold EXCEPT ![h] = IF @ = "posting" THEN "unposted" ELSE @]
         /\ pending' = pending \cup {h} /\ UNCHANGED <<recentlySettled, forgotten>>
  OBVIOUS
<1>3. /\ claimed[h] = "settle" /\ h \notin pending /\ owed[h] = None
      /\ hold[h] \in {"posting", "unposted", "ended"}
  BY <1>1 DEF HoldInv, HolderInv, RequestInv
<1>4. /\ reply' \in [Holds \cup Requests -> Seq(Replies)]
      /\ ToSet(reply'[s]) \subseteq ToSet(reply[s]) \cup (Replies \ {"410"})
      /\ \A q \in (Holds \cup Requests) \ {s} : reply'[q] = reply[q]
  <2>1. Answered(s, Replies \ {"410"})
    BY <1>1, KnownAnswers DEF Answered, Replies, Remember
  <2>2. QED
    BY <1>1, <2>1, AnsweredFacts DEF Replies
<1>5. TypeOK'
  <2>1. AuthTypes'
    BY <1>1 DEF Remember
  <2>2. ClaimTypes'
    BY <1>1 DEF Remember
  <2>3. AnswerTypes'
    BY <1>1, <1>4, <1>2, RememberFacts DEF AnswerTypes
  <2>4. QED
    BY <2>1, <2>2, <2>3
<1>6. /\ forgotten \subseteq forgotten'
      /\ \A g \in Holds : Remembered(g) => Remembered(g)' \/ g \in forgotten'
  BY <1>1, <1>2, RememberFacts DEF Remembered
<1>7. \A g \in Holds \ {h} : Untouched(g)
  <2>1. \A g \in Holds \ {h} : /\ g # s /\ s \notin Of(g)
                               /\ \A r \in Of(g) : r[1] # h /\ r # s /\ r \in Requests
    BY <1>1, RequestFacts
  <2>2. \A g \in Holds \ {h} : \A r \in Of(g) : pc'[r] = pc[r]
    BY <1>1, <2>1 DEF Remember
  <2>3. \A g \in Holds \ {h} : /\ state'[g] = state[g] /\ call'[g] = call[g] /\ hold'[g] = hold[g]
                               /\ claimed'[g] = claimed[g] /\ owed'[g] = owed[g]
                               /\ g \in pending' <=> g \in pending
                               /\ g \in recorded' <=> g \in recorded
                               /\ g \in forgotten => g \in forgotten'
    BY <1>1 DEF Remember
  <2>4. \A g \in Holds \ {h} : /\ reply'[g] = reply[g]
                               /\ \A r \in Of(g) : reply'[r] = reply[r]
    BY <1>4, <2>1
  <2>5. QED
    BY <1>6, <2>2, <2>3, <2>4 DEF Untouched
<1>8. BeginsInv(h)'
  <2>1. hold'[h] # "none"
    BY <1>1, <1>2, <1>3
  <2>2. QED
    BY <1>1, <1>3, <2>1 DEF HoldInv, BeginsInv
<1>9. HolderInv(h)'
  <2>1. claimed'[h] = None /\ owed' = owed
    BY <1>1
  <2>2. CASE pending' = pending /\ hold'[h] \in {"settled", "ambiguous"}
    BY <1>3, <2>1, <2>2 DEF HolderInv
  <2>3. CASE hold'[h] \in {"unposted", "ended"}
    BY <1>3, <2>1, <2>3 DEF HolderInv
  <2>4. QED
    BY <1>1, <1>2, <1>3, <2>2, <2>3
<1>10. RequestInv(h)'
  BY <1>1, RequestFacts DEF HoldInv, BeginsInv, HolderInv, RequestInv, Working, Of, Remember
<1>11. ChargeInv(h)'
  <2>1. \A r \in Of(h) : /\ pc'[r] = "recording" => pc[r] = "recording"
                         /\ "410" \in ToSet(reply'[r]) => "410" \in ToSet(reply[r])
    BY <1>1, <1>4, RequestFacts
  <2>2. hold'[h] \in {"settled", "ambiguous"} => Remembered(h)' \/ h \in forgotten'
    BY <1>1, <1>2, <1>3, RememberFacts
  <2>3. hold[h] = "ended" => hold'[h] = "ended"
    BY <1>1, <1>2
  <2>4. recorded' = recorded
    OBVIOUS
  <2>5. Of(h)' = Of(h)
    BY DEF Of
  <2>6. QED
    BY <1>1, <1>6, <2>1, <2>2, <2>3, <2>4, <2>5 DEF HoldInv, ChargeInv
<1>12. QED
  BY <1>5, <1>7, <1>8, <1>9, <1>10, <1>11 DEF Kept, HoldInv

(* A settle that found no hold goes on, asks again, waits or gives up; a   *)
(* record it writes is of a hold that is over.                             *)
UnheldStep(s) ==
  /\ pc[s] \in {"unheld", "waits", "woken", "held"}
  /\ \/ CheckThenRecord(s)
     \/ Goes(s, "waits") /\ UNCHANGED <<reply, recorded>>
     \/ Goes(s, "done") /\ Replied(s, "hold_active") /\ UNCHANGED recorded
  /\ UNCHANGED <<authVars, serverVars, hold, history>>

LEMMA UnheldKeeps ==
  ASSUME IInv, NEW s \in Settles, UnheldStep(s)
  PROVE  Kept(s[1])
<1> DEFINE h == s[1]
<1>1. TypeOK /\ HoldInv(h) /\ h \in Holds /\ s \in Requests /\ s \in Of(h) /\ s \notin Holds
  BY RequestFacts DEF IInv
<1>2. /\ UNCHANGED <<authVars, serverVars, hold, history>>
      /\ pc[s] \in {"unheld", "waits", "woken", "held"}
  BY DEF UnheldStep
<1>3. PICK x \in {"done", "held", "recording", "waits"} : pc' = [pc EXCEPT ![s] = x]
  BY DEF UnheldStep, CheckThenRecord, Goes
<1>4. \/ recorded' = recorded /\ pc'[s] # "recording"
      \/ recorded' = recorded \cup {h} /\ ~Remembered(h) /\ ~Live(h)
  BY <1>1 DEF UnheldStep, CheckThenRecord, Goes, Known
<1>5. /\ reply' \in [Holds \cup Requests -> Seq(Replies)]
      /\ ToSet(reply'[s]) \subseteq ToSet(reply[s]) \cup (Replies \ {"410"})
      /\ \A q \in (Holds \cup Requests) \ {s} : reply'[q] = reply[q]
  <2>1. Answered(s, Replies \ {"410"})
    BY <1>1, KnownAnswers DEF Answered, Replies, UnheldStep, CheckThenRecord
  <2>2. QED
    BY <1>1, <2>1, AnsweredFacts
<1>6. \A r \in Requests : r # s => pc'[r] = pc[r]
  BY <1>1, <1>3
<1>7. pc'[s] \in {"done", "held", "recording", "waits"}
  BY <1>1, <1>3
<1>8. TypeOK'
  <2>1. AuthTypes' /\ ClaimTypes'
    BY <1>1, <1>2, <1>3
  <2>2. AnswerTypes'
    BY <1>1, <1>2, <1>4, <1>5 DEF AnswerTypes
  <2>3. QED
    BY <2>1, <2>2
<1>9. \A g \in Holds : Remembered(g)' <=> Remembered(g)
  BY <1>2 DEF Remembered
<1>10. \A g \in Holds \ {h} : Untouched(g)
  <2>1. \A g \in Holds \ {h} : g # s /\ \A r \in Of(g) : r # s /\ r \in Requests
    BY <1>1, RequestFacts
  <2>2. \A g \in Holds \ {h} : g \in recorded' <=> g \in recorded
    BY <1>4
  <2>3. \A g \in Holds \ {h} : /\ reply'[g] = reply[g]
                               /\ \A r \in Of(g) : pc'[r] = pc[r] /\ reply'[r] = reply[r]
    BY <1>5, <1>6, <2>1
  <2>4. QED
    BY <1>2, <1>9, <2>2, <2>3 DEF Untouched
<1>11. BeginsInv(h)' /\ HolderInv(h)'
  <2>1. reply'[h] = reply[h]
    BY <1>1, <1>5
  <2>2. QED
    BY <1>1, <1>2, <2>1 DEF HoldInv, BeginsInv, HolderInv
<1>12. RequestInv(h)'
  <2>1. \A r \in Of(h)' : r \in Requests /\ r \in Of(h)
    BY RequestFacts DEF Of
  <2>2. hold'[h] # "none" /\ claimed' = claimed /\ hold' = hold
    BY <1>1, <1>2 DEF HoldInv, RequestInv
  <2>3. \A r \in Of(h) : r # s => pc'[r] = pc[r]
    BY <1>6, RequestFacts, <1>1
  <2>4. QED
    BY <1>1, <1>7, <2>1, <2>2, <2>3 DEF HoldInv, RequestInv, Working
<1>13. ChargeInv(h)'
  <2>1. Of(h)' = Of(h)
    BY DEF Of
  <2>2. hold'[h] \in {"settled", "ambiguous"} => Remembered(h)' \/ h \in forgotten'
    BY <1>1, <1>2, <1>9 DEF HoldInv, ChargeInv
  <2>3. h \in recorded' => hold'[h] = "ended" \/ h \in forgotten'
    <3>1. CASE recorded' = recorded
      BY <1>1, <1>2, <3>1 DEF HoldInv, ChargeInv
    <3>2. CASE ~Remembered(h) /\ ~Live(h)
      <4>1. hold[h] \in {"settled", "ambiguous", "ended"}
        BY <1>1, <1>2, <3>2 DEF HoldInv, RequestInv, Live
      <4>2. QED
        BY <1>1, <1>2, <3>2, <4>1 DEF HoldInv, ChargeInv
    <3>3. QED
      BY <1>4, <3>1, <3>2
  <2>4. ASSUME NEW r \in Of(h),
               pc'[r] = "recording" \/ (r \in Settles /\ "410" \in ToSet(reply'[r]))
        PROVE  h \in recorded'
    <3>1. CASE r # s
      <4>1. pc'[r] = pc[r] /\ reply'[r] = reply[r]
        BY <1>1, <1>5, <1>6, <3>1, RequestFacts
      <4>2. QED
        BY <1>1, <1>4, <2>4, <4>1 DEF HoldInv, ChargeInv
    <3>2. CASE r = s
      BY <1>1, <1>4, <1>5, <2>4, <3>2 DEF HoldInv, ChargeInv
    <3>3. QED
      BY <3>1, <3>2
  <2>5. QED
    BY <2>1, <2>2, <2>3, <2>4 DEF ChargeInv
<1>14. QED
  BY <1>8, <1>10, <1>11, <1>12, <1>13 DEF Kept, HoldInv

LEMMA UnheldActionsAreSteps ==
  ASSUME NEW s \in Settles,
         UnheldBegins(s) \/ UnheldWoken(s) \/ UnheldPolls(s) \/ UnheldGivesUp(s)
  PROVE  UnheldStep(s)
  BY DEF UnheldBegins, UnheldWoken, UnheldPolls, UnheldGivesUp, UnheldStep

(* close() and what follows it change every hold at once. *)
LEMMA CloseKeeps ==
  ASSUME IInv, Close
  PROVE  IInv'
<1>1. TypeOK /\ \A h \in Holds : HoldInv(h)
  BY DEF IInv
<1>2. TypeOK'
  <2>1. AuthTypes' /\ AnswerTypes'
    BY <1>1 DEF AnswerTypes, Close
  <2>2. \A h \in Holds : /\ claimed'[h] \in {None, "settle", "end", "sweep", "shutdown"}
                         /\ hold'[h] \in {"none", "active", "unposted", "posting", "ending",
                                          "ended", "settled", "ambiguous"}
    BY <1>1 DEF Close
  <2>3. ClaimTypes'
    BY <1>1, <2>2 DEF Close
  <2>4. QED
    BY <2>1, <2>3
<1>3. ASSUME NEW h \in Holds
      PROVE  HoldInv(h)'
  <2>1. Of(h)' = Of(h) /\ (Remembered(h)' <=> Remembered(h))
    BY DEF Of, Remembered, Close
  <2>2. /\ h \notin pending'
        /\ h \in pending => claimed'[h] = "shutdown" /\ hold'[h] \in {"ending", "ended"}
        /\ h \in pending => (hold'[h] = "ended" <=> hold[h] = "ended")
        /\ h \notin pending => claimed'[h] = claimed[h] /\ hold'[h] = hold[h]
    BY DEF Close
  <2>3. h \in pending => claimed[h] = None /\ hold[h] \in {"active", "unposted", "ended"}
                         /\ owed[h] = None
    BY <1>1 DEF HoldInv, HolderInv
  <2>4. UNCHANGED <<state, call, owed, reply, pc, recorded, forgotten>>
    BY DEF Close
  <2>5. BeginsInv(h)' /\ HolderInv(h)'
    BY <1>1, <2>2, <2>3, <2>4 DEF HoldInv, BeginsInv, HolderInv
  <2>6. RequestInv(h)'
    BY <1>1, <2>1, <2>2, <2>3, <2>4 DEF HoldInv, RequestInv, Working
  <2>7. ChargeInv(h)'
    BY <1>1, <2>1, <2>2, <2>3, <2>4 DEF HoldInv, ChargeInv
  <2>8. QED
    BY <2>5, <2>6, <2>7 DEF HoldInv
<1>4. QED
  BY <1>2, <1>3 DEF IInv

LEMMA CloseConnectionsKeeps ==
  ASSUME IInv, CloseConnections \/ UNCHANGED vars
  PROVE  IInv'
<1>1. TypeOK /\ \A h \in Holds : HoldInv(h)
  BY DEF IInv
<1>2. UNCHANGED <<state, call, pending, claimed, recentlySettled, owed, hold, pc, reply,
                  recorded, forgotten>>
  BY DEF CloseConnections, vars
<1>3. TypeOK'
  BY <1>1, <1>2 DEF AnswerTypes, CloseConnections, vars
<1>4. \A h \in Holds : Untouched(h)
  BY <1>2 DEF Untouched, Remembered
<1>5. QED
  BY <1>1, <1>3, <1>4, Frame DEF IInv

LEMMA DestroyedKeeps ==
  ASSUME IInv, Destroyed
  PROVE  IInv'
<1>1. TypeOK /\ \A h \in Holds : HoldInv(h)
  BY DEF IInv
<1>2. \A h \in Holds : hold'[h] = IF Live(h) THEN "ended" ELSE hold[h]
  BY DEF Destroyed
<1>3. UNCHANGED <<state, call, pending, claimed, recentlySettled, owed, pc, reply, recorded,
                  forgotten>>
  BY DEF Destroyed
<1>4. TypeOK'
  <2>1. AuthTypes' /\ AnswerTypes'
    BY <1>1 DEF AnswerTypes, Destroyed
  <2>2. \A h \in Holds : hold'[h] \in {"none", "active", "unposted", "posting", "ending",
                                       "ended", "settled", "ambiguous"}
    BY <1>1, <1>2
  <2>3. ClaimTypes'
    BY <1>1, <2>2 DEF Destroyed
  <2>4. QED
    BY <2>1, <2>3
<1>5. ASSUME NEW h \in Holds
      PROVE  HoldInv(h)'
  <2>1. Of(h)' = Of(h) /\ (Remembered(h)' <=> Remembered(h))
    BY <1>3 DEF Of, Remembered
  <2>2. hold[h] # "posting"
    BY DEF Destroyed
  <2>3. BeginsInv(h)' /\ HolderInv(h)'
    BY <1>1, <1>2, <1>3, <2>2 DEF HoldInv, BeginsInv, HolderInv, Live
  <2>4. RequestInv(h)'
    BY <1>1, <1>2, <1>3, <2>1 DEF HoldInv, RequestInv, Working, Live
  <2>5. ChargeInv(h)'
    BY <1>1, <1>2, <1>3, <2>1 DEF HoldInv, ChargeInv, Live
  <2>6. QED
    BY <2>3, <2>4, <2>5 DEF HoldInv
<1>6. QED
  BY <1>4, <1>5 DEF IInv

-----------------------------------------------------------------------------
LEMMA InitIInv == Init => IInv
<1> SUFFICES ASSUME Init PROVE IInv
  OBVIOUS
<1>1. TypeOK
  <2>1. AuthTypes
    BY DEF Init
  <2>2. ClaimTypes
    BY DEF Init
  <2>3. AnswerTypes
    <3>1. /\ <<>> \in Seq(Replies) /\ Len(<<>>) = 0
          /\ <<>> \in Seq(Holds \X {"settled", "ambiguous"})
      OBVIOUS
    <3>2. QED
      BY <3>1 DEF Init, AnswerTypes
  <2>4. QED
    BY <2>1, <2>2, <2>3
<1>2. ASSUME NEW h \in Holds
      PROVE  HoldInv(h)
  <2>1. ToSet(reply[h]) = {} /\ \A r \in Of(h) : pc[r] = "unsent" /\ ToSet(reply[r]) = {}
    BY RequestFacts DEF Init, ToSet
  <2>2. BeginsInv(h) /\ HolderInv(h)
    BY <2>1 DEF Init, BeginsInv, HolderInv
  <2>3. RequestInv(h) /\ ChargeInv(h)
    BY <2>1 DEF Init, RequestInv, ChargeInv, Working
  <2>4. QED
    BY <2>2, <2>3 DEF HoldInv
<1>3. QED
  BY <1>1, <1>2 DEF IInv

LEMMA NextIInv == IInv /\ [Next]_vars => IInv'
<1> SUFFICES ASSUME IInv, [Next]_vars PROVE IInv'
  OBVIOUS
<1>1. ASSUME NEW h \in Holds,
             \/ Authorize(h) \/ Deadline(h) \/ OwedExpires(h) \/ Answers(h)
             \/ LifeEnds(h) \/ Sweep(h)
      PROVE  IInv'
  <2>1. CASE Authorize(h) \/ Deadline(h) \/ AuthorizeDenied(h)
    BY <2>1, AuthorizeKeeps, KeptSuffices
  <2>2. CASE OwedExpires(h)
    BY <2>2, OwedExpiresKeeps, KeptSuffices
  <2>3. CASE AuthorizeGranted(h)
    BY <2>3, AuthorizeGrantedKeeps, KeptSuffices
  <2>4. CASE LateReleased(h)
    BY <2>4, LateReleasedKeeps, KeptSuffices
  <2>5. CASE OwnEnds(h)
    BY <2>5, OwnEndsKeeps, KeptSuffices
  <2>6. ASSUME NEW s \in Settles, s[1] = h, SettleEnds(s)
        PROVE  IInv'
    BY <2>6, SettleEndsKeeps, KeptSuffices
  <2>7. ASSUME NEW e \in Ends, e[1] = h, EndEnds(e)
        PROVE  IInv'
    BY <2>7, EndEndsKeeps, KeptSuffices
  <2>8. CASE LifeEnds(h)
    BY <2>8, LifeEndsKeeps, KeptSuffices
  <2>9. CASE Sweep(h)
    BY <2>9, SweepKeeps, KeptSuffices
  <2>10. QED
    BY <1>1, <2>1, <2>2, <2>3, <2>4, <2>5, <2>6, <2>7, <2>8, <2>9 DEF Answers
<1>2. ASSUME NEW s \in Settles, Settle(s) \/ Unheld(s)
      PROVE  IInv'
  <2>1. s[1] \in Holds
    BY RequestFacts
  <2>2. CASE Settle(s)
    BY <2>1, <2>2, SettleKeeps, KeptSuffices
  <2>3. CASE UnheldBegins(s) \/ UnheldWoken(s) \/ UnheldPolls(s) \/ UnheldGivesUp(s)
    BY <2>1, <2>3, UnheldActionsAreSteps, UnheldKeeps, KeptSuffices
  <2>4. CASE UnheldRecorded(s)
    BY <2>1, <2>4, UnheldRecordedKeeps, KeptSuffices
  <2>5. QED
    BY <1>2, <2>2, <2>3, <2>4 DEF Unheld
<1>3. ASSUME NEW e \in Ends, End(e)
      PROVE  IInv'
  <2>1. e[1] \in Holds
    BY RequestFacts
  <2>2. QED
    BY <1>3, <2>1, EndKeeps, KeptSuffices
<1>4. QED
  BY <1>1, <1>2, <1>3, CloseKeeps, CloseConnectionsKeeps, DestroyedKeeps DEF Next

LEMMA Invariant == Spec => []IInv
  BY InitIInv, NextIInv, PTL DEF Spec

-----------------------------------------------------------------------------
(* Every variable keeps its type, and the memory of settled holds never    *)
(* exceeds its bound (RECENTLY_SETTLED_MEMORY).                            *)
THEOREM TypeCorrect == Spec => []TypeOK
<1>1. IInv => TypeOK
  BY DEF IInv
<1>2. QED
  BY <1>1, Invariant, PTL

(* A settle that found no hold puts settlement_unrecoverable on the chain, *)
(* and answers 410, only for a hold that was not charged and never will    *)
(* be, unless the bounded memory has dropped it: in whatever order the     *)
(* terminals of the hold, the sweep and close() came, failed and were      *)
(* retried (recordUnheldSettlement, answerIfKnown).                        *)
THEOREM UncollectableIsUncharged == Spec => []GoneIsUncharged
<1>1. IInv => GoneIsUncharged
  <2> SUFFICES ASSUME IInv, NEW s \in Settles,
                      s[1] \in recorded \/ "410" \in ToSet(reply[s]), s[1] \notin forgotten
               PROVE  hold[s[1]] \notin {"posting", "settled", "ambiguous"}
    BY DEF GoneIsUncharged
  <2>1. s[1] \in Holds /\ s \in Of(s[1])
    BY RequestFacts
  <2>2. s[1] \in recorded
    BY <2>1 DEF IInv, HoldInv, ChargeInv
  <2>3. hold[s[1]] = "ended"
    BY <2>1, <2>2 DEF IInv, HoldInv, ChargeInv
  <2>4. QED
    BY <2>3
<1>2. QED
  BY <1>1, Invariant, PTL

(* One terminal at a time works on a hold: of its settles, aborts and      *)
(* releases at most one is in the governor, and it is the one the hold is  *)
(* claimed for; the sweep and close() keep out meanwhile (claim()).        *)
OneTerminal ==
  \A q, r \in Requests :
    Working(q) /\ Working(r) /\ q[1] = r[1]
      => q = r /\ claimed[q[1]] \in {"settle", "end"} /\ q[1] \notin pending

(* claim() takes the hold out of pending and registers the terminal in one *)
(* step, so that no two terminals ever have it.                            *)
THEOREM ClaimIsExclusive == Spec => []OneTerminal
<1>1. IInv => OneTerminal
  <2> SUFFICES ASSUME IInv, NEW q \in Requests, NEW r \in Requests,
                      Working(q), Working(r), q[1] = r[1]
               PROVE  q = r /\ claimed[q[1]] \in {"settle", "end"} /\ q[1] \notin pending
    BY DEF OneTerminal
  <2>1. q[1] \in Holds /\ q \in Of(q[1]) /\ r \in Of(q[1]) /\ HoldInv(q[1])
    BY RequestFacts DEF IInv
  <2>2. q = r /\ claimed[q[1]] \in {"settle", "end"}
    BY <2>1 DEF HoldInv, RequestInv, Working
  <2>3. QED
    BY <2>1, <2>2 DEF HoldInv, HolderInv
<1>2. QED
  BY <1>1, Invariant, PTL
=============================================================================
