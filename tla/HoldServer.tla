------------------------------ MODULE HoldServer ------------------------------
(***************************************************************************)
(* The HTTP server's holds (packages/server/src/server.ts), for one tenant *)
(* on a ledger: authorize with its deadline and its late replies, settle,  *)
(* abort and release of a hold, the settle that finds no hold, the sweep   *)
(* and close().                                                            *)
(*                                                                         *)
(* An action is one synchronous span of the server between two awaits. A   *)
(* hold h is the authorize request that asks for it and the transferId it  *)
(* gets; the other requests are pairs <<h, name>>. The governor behind the *)
(* server is the one of Governor.tla, seen from outside: its calls end     *)
(* when they end, and the ledger may never answer.                         *)
(*                                                                         *)
(* Definitions named Mutant... are the mutated forms PROJECT.json lists;   *)
(* no specification uses them.                                             *)
(***************************************************************************)
EXTENDS Naturals, Sequences, SequencesExt

CONSTANTS
  Holds,      \* the authorize requests
  Settles,    \* settle requests: <<h, name>>
  Ends,       \* abort and release requests: <<h, name>>
  Memory,     \* RECENTLY_SETTLED_MEMORY (10,000 in the code)
  Throws      \* a governor's abort or release may throw, the hold untouched

ASSUME HoldServerAssumption ==
  /\ \A r \in Settles \cup Ends : r[1] \in Holds
  /\ Settles \cap Ends = {} /\ Holds \cap (Settles \cup Ends) = {}
  /\ Memory \in Nat \ {0} /\ Throws \in BOOLEAN

VARIABLES
  state,        \* of an authorize: its AuthorizeState, or how far it got before
  gone,         \* its client's socket is destroyed
  call,         \* its way to the governor's authorize()
  timer,        \* its deadline is armed
  unsettled,    \* the running authorizes past their deadline
  pending,      \* delivered holds that nobody has claimed
  claimed,      \* the terminal that took a hold out of pending
  recentlySettled,  \* the settles remembered, oldest first: <<h, how>>
  owed,         \* late holds being given back
  spent,        \* the hold's life is over
  stage,        \* how far close() got
  hold,         \* the hold in the governor
  pc,           \* where a settle, abort or release request stands
  reply,        \* each request's answers, as they were written
  recorded,     \* holds with a settlement_unrecoverable record on the chain
  forgotten,    \* history: settles that recentlySettled has dropped
  dropped       \* history: holds whose sweep or shutdown release threw

authVars   == <<state, gone, call, timer, unsettled>>
serverVars == <<pending, claimed, recentlySettled, owed, spent, stage>>
history    == <<forgotten, dropped>>
vars == <<authVars, serverVars, hold, pc, reply, recorded, history>>

Requests == Settles \cup Ends
None     == "none"

Init ==
  /\ state = [h \in Holds |-> "unsent"] /\ gone = {}
  /\ call = [h \in Holds |-> "none"] /\ timer = {} /\ unsettled = {}
  /\ pending = {} /\ claimed = [h \in Holds |-> None]
  /\ recentlySettled = <<>> /\ owed = [h \in Holds |-> None]
  /\ spent = {} /\ stage = "up"
  /\ hold = [h \in Holds |-> "none"]
  /\ pc = [r \in Requests |-> "unsent"]
  /\ reply = [r \in Holds \cup Requests |-> <<>>]
  /\ recorded = {} /\ forgotten = {} /\ dropped = {}

closeStarted == stage # "up"

Replied(r, what) == reply' = [reply EXCEPT ![r] = Append(@, what)]
Goes(r, where)   == pc' = [pc EXCEPT ![r] = where]

(* The governor has the hold: in activeAuths, unpostedHolds, settling or   *)
(* inFlight.                                                               *)
Live(h) == hold[h] \in {"active", "unposted", "posting", "ending"}

-----------------------------------------------------------------------------
(* handleAuthorize().                                                      *)

(* The route refuses once close() has begun, then reads the body. *)
Arrive(h) ==
  /\ state[h] = "unsent" /\ stage \in {"up", "releasing"}
  /\ \/ closeStarted /\ state' = [state EXCEPT ![h] = "answered"] /\ Replied(h, "503")
     \/ ~closeStarted /\ state' = [state EXCEPT ![h] = "reading"] /\ UNCHANGED reply
  /\ UNCHANGED <<gone, call, timer, unsettled, serverVars, hold, pc, recorded, history>>

MutantHandle(h) ==
  /\ state[h] = "reading" /\ stage \in {"up", "releasing"}
  /\ \/ /\ unsettled # {}
        /\ state' = [state EXCEPT ![h] = "waiting"]
        /\ call' = [call EXCEPT ![h] = "acquiring"]
        /\ UNCHANGED <<timer, reply>>
     \/ /\ unsettled = {} /\ h \in gone
        /\ state' = [state EXCEPT ![h] = "abandoned"]
        /\ UNCHANGED <<call, timer, reply>>
     \/ /\ unsettled = {} /\ h \notin gone
        /\ state' = [state EXCEPT ![h] = "waiting"]
        /\ call' = [call EXCEPT ![h] = "acquiring"] /\ timer' = timer \cup {h}
        /\ UNCHANGED reply
  /\ UNCHANGED <<gone, unsettled, serverVars, hold, pc, recorded, history>>

(* The body is there: refused at once behind an authorize the ledger has   *)
(* not answered; nothing for a client that is gone; or the deadline is     *)
(* armed and the governor asked for.                                       *)
Handle(h) ==
  /\ state[h] = "reading" /\ stage \in {"up", "releasing"}
  /\ \/ /\ unsettled # {}
        /\ state' = [state EXCEPT ![h] = "answered"] /\ Replied(h, "503")
        /\ UNCHANGED <<call, timer>>
     \/ /\ unsettled = {} /\ h \in gone
        /\ state' = [state EXCEPT ![h] = "abandoned"]
        /\ UNCHANGED <<call, timer, reply>>
     \/ /\ unsettled = {} /\ h \notin gone
        /\ state' = [state EXCEPT ![h] = "waiting"]
        /\ call' = [call EXCEPT ![h] = "acquiring"] /\ timer' = timer \cup {h}
        /\ UNCHANGED reply
  /\ UNCHANGED <<gone, unsettled, serverVars, hold, pc, recorded, history>>

(* The client goes away; its "close" event is an event of its own. *)
Disconnect(h) ==
  /\ state[h] \in {"reading", "waiting"} /\ h \notin gone
  /\ gone' = gone \cup {h}
  /\ UNCHANGED <<state, call, timer, unsettled, serverVars, hold, pc, reply, recorded,
                 history>>

(* leave(): the one way out of waiting. *)
Leave(h, to) == state[h] = "waiting" /\ state' = [state EXCEPT ![h] = to]

OnClose(h) ==
  /\ h \in gone /\ Leave(h, "abandoned")
  /\ UNCHANGED <<gone, call, timer, unsettled, serverVars, hold, pc, reply, recorded,
                 history>>

(* joinUnsettled(): only an authorize that is running joins. *)
JoinUnsettled(h) == unsettled' = IF call[h] = "running" THEN unsettled \cup {h} ELSE unsettled

(* ledgerTimeoutMs is over: the 503, or an abandoned request's authorize   *)
(* joins unsettled without one.                                            *)
Deadline(h) ==
  /\ h \in timer /\ timer' = timer \ {h}
  /\ \/ Leave(h, "refused") /\ JoinUnsettled(h) /\ Replied(h, "503")
     \/ state[h] = "abandoned" /\ JoinUnsettled(h) /\ UNCHANGED <<state, reply>>
  /\ UNCHANGED <<gone, call, serverVars, hold, pc, recorded, history>>

(* pool.get(): the governor is there, or could not be created. *)
Acquired(h) ==
  /\ call[h] = "acquiring"
  /\ \/ /\ call' = [call EXCEPT ![h] = IF state[h] = "waiting" THEN "running" ELSE "over"]
        /\ UNCHANGED <<state, timer, reply>>
     \/ /\ call' = [call EXCEPT ![h] = "over"]
        /\ IF state[h] = "waiting"
           THEN Leave(h, "answered") /\ timer' = timer \ {h} /\ Replied(h, "500")
           ELSE UNCHANGED <<state, timer, reply>>
  /\ UNCHANGED <<gone, unsettled, serverVars, hold, pc, recorded, history>>

(* settle(): the authorize has settled, however it did. *)
CallOver(h) ==
  /\ call' = [call EXCEPT ![h] = "over"]
  /\ timer' = timer \ {h} /\ unsettled' = unsettled \ {h}

AuthorizeDenied(h) ==
  /\ call[h] = "running" /\ CallOver(h)
  /\ IF state[h] = "waiting"
     THEN Leave(h, "answered") /\ Replied(h, "denied")
     ELSE UNCHANGED <<state, reply>>
  /\ UNCHANGED <<gone, serverVars, hold, pc, recorded, history>>

(* releaseLate(): owed first, then one release(). *)
ReleaseLate(h) ==
  /\ owed' = [owed EXCEPT ![h] = "voiding"]
  /\ hold' = [hold EXCEPT ![h] = "ending"]
  /\ UNCHANGED pending

Delivered(h) ==
  /\ pending' = pending \cup {h}
  /\ hold' = [hold EXCEPT ![h] = "active"]
  /\ UNCHANGED owed

(* The governor has reserved. A request that ended, a server that closes   *)
(* and a client that is gone get no hold; a 200 that cannot be written may *)
(* have been sent all the same.                                            *)
AuthorizeGranted(h) ==
  /\ call[h] = "running" /\ stage # "destroying" /\ CallOver(h)
  /\ \/ state[h] # "waiting" /\ ReleaseLate(h) /\ UNCHANGED <<state, reply>>
     \/ /\ closeStarted \/ h \in gone
        /\ Leave(h, IF h \in gone THEN "abandoned" ELSE "answered") /\ ReleaseLate(h)
        /\ IF h \in gone THEN UNCHANGED reply ELSE Replied(h, "503")
     \/ /\ ~closeStarted /\ h \notin gone
        /\ \/ Leave(h, "delivered") /\ Delivered(h) /\ Replied(h, "200")
           \/ /\ Leave(h, "abandoned") /\ ReleaseLate(h)
              /\ UNCHANGED reply \/ Replied(h, "200")
  /\ UNCHANGED <<gone, claimed, recentlySettled, spent, stage, pc, recorded, history>>

(* The late release ends: landed, or taken by the teardown; or its void is *)
(* refused, or it threw, and it stays owed.                                *)
LateReleased(h) ==
  /\ owed[h] = "voiding" /\ hold[h] \in {"ending", "ended"}
  /\ \/ /\ owed' = [owed EXCEPT ![h] = None] /\ hold' = [hold EXCEPT ![h] = "ended"]
     \/ /\ owed' = [owed EXCEPT ![h] = "refused"] /\ hold' = [hold EXCEPT ![h] = "ended"]
     \/ /\ Throws /\ hold[h] = "ending"
        /\ owed' = [owed EXCEPT ![h] = "refused"] /\ hold' = [hold EXCEPT ![h] = "active"]
  /\ UNCHANGED <<authVars, pending, claimed, recentlySettled, spent, stage, pc, reply,
                 recorded, history>>

(* sweepExpired() forgets a refused one once its life has run out. *)
OwedExpires(h) ==
  /\ owed[h] = "refused"
  /\ owed' = [owed EXCEPT ![h] = None]
  /\ dropped' = dropped \cup {h}
  /\ UNCHANGED <<authVars, pending, claimed, recentlySettled, spent, stage, hold, pc,
                 reply, recorded, forgotten>>

-----------------------------------------------------------------------------
(* Terminals. claim() takes the hold out of pending and registers itself   *)
(* in one step.                                                            *)

Claim(h, kind) ==
  /\ h \in pending /\ pending' = pending \ {h}
  /\ claimed' = [claimed EXCEPT ![h] = kind]

(* settle() on a hold that is still active posts; on one that an earlier   *)
(* settle left unposted it throws.                                         *)
SettleBegins(h) == hold' = [hold EXCEPT ![h] = IF @ = "active" THEN "posting" ELSE @]

EndBegins(h) == hold' = [hold EXCEPT ![h] = IF @ = "ended" THEN @ ELSE "ending"]

Remembered(h) == \E e \in ToSet(recentlySettled) : e[1] = h

Known(h) == claimed[h] = "settle" \/ Remembered(h) \/ h \in pending

(* answerIfKnown()'s 409: settle_in_progress, settlement_ambiguous,        *)
(* already_settled, hold_active.                                           *)
AnswerKnown(s) ==
  LET h == s[1] IN
  \/ claimed[h] = "settle" /\ Replied(s, "settle_in_progress")
  \/ /\ claimed[h] # "settle"
     /\ \E e \in ToSet(recentlySettled) : e[1] = h /\ Replied(s, e[2])
  \/ claimed[h] # "settle" /\ ~Remembered(h) /\ Replied(s, "hold_active")

(* handleSettle(): a settle whose labels are not the hold's is refused     *)
(* before the claim.                                                       *)
Settle(s) ==
  LET h == s[1] IN
  /\ pc[s] = "unsent" /\ "200" \in ToSet(reply[h]) /\ stage \in {"up", "releasing"}
  /\ \/ /\ Claim(h, "settle") /\ SettleBegins(h)
        /\ Goes(s, "settling") /\ UNCHANGED reply
     \/ /\ h \in pending
        /\ Goes(s, "done") /\ Replied(s, "400")
        /\ UNCHANGED <<pending, claimed, hold>>
     \/ /\ h \notin pending /\ Known(h)
        /\ Goes(s, "done") /\ AnswerKnown(s)
        /\ UNCHANGED <<pending, claimed, hold>>
     \/ /\ ~Known(h)
        /\ Goes(s, "unheld")
        /\ UNCHANGED <<pending, claimed, hold, reply>>
  /\ UNCHANGED <<authVars, recentlySettled, owed, spent, stage, recorded, history>>

(* rememberSettled(), bounded: the oldest is forgotten. *)
Remember(h, how) ==
  LET all == Append(recentlySettled, <<h, how>>) IN
  IF Len(all) > Memory
  THEN recentlySettled' = Tail(all) /\ forgotten' = forgotten \cup {all[1][1]}
  ELSE recentlySettled' = all /\ UNCHANGED forgotten

(* The terminal is over, and the requests over with it; those that wait    *)
(* for it wake.                                                            *)
Unclaimed(h, over) ==
  /\ claimed' = [claimed EXCEPT ![h] = None]
  /\ pc' = [q \in Requests |-> IF q \in over THEN "done"
                               ELSE IF q[1] = h /\ pc[q] = "waits" THEN "woken" ELSE pc[q]]

(* The settle ends: posted, or ambiguous; or it threw before its POST, and *)
(* the hold is pending again, unposted.                                    *)
SettleEnds(s) ==
  LET h == s[1] IN
  /\ pc[s] = "settling" /\ Unclaimed(h, {s})
  /\ \/ /\ hold[h] = "posting"
        /\ \E how \in {"settled", "ambiguous"} :
             /\ hold' = [hold EXCEPT ![h] = how]
             /\ Remember(h, how)
        /\ Replied(s, "200") /\ UNCHANGED pending
     \/ /\ hold' = [hold EXCEPT ![h] = IF @ = "posting" THEN "unposted" ELSE @]
        /\ pending' = pending \cup {h}
        /\ Replied(s, "500") /\ UNCHANGED <<recentlySettled, forgotten>>
  /\ UNCHANGED <<authVars, owed, spent, stage, recorded, dropped>>

(* handleAbort() and handleRelease(). *)
End(e) ==
  LET h == e[1] IN
  /\ pc[e] = "unsent" /\ "200" \in ToSet(reply[h]) /\ stage \in {"up", "releasing"}
  /\ \/ /\ Claim(h, "end") /\ EndBegins(h)
        /\ Goes(e, "ending") /\ UNCHANGED reply
     \/ /\ h \notin pending
        /\ Goes(e, "done") /\ Replied(e, "404")
        /\ UNCHANGED <<pending, claimed, hold>>
  /\ UNCHANGED <<authVars, recentlySettled, owed, spent, stage, recorded, history>>

(* The governor ended the hold, or no longer held it (404, and the entry   *)
(* stays out); or it threw, and the entry goes back.                       *)
EndEnds(e) ==
  LET h == e[1] IN
  /\ pc[e] = "ending" /\ Unclaimed(h, {e})
  /\ \/ /\ hold[h] = "ending" /\ hold' = [hold EXCEPT ![h] = "ended"]
        /\ Replied(e, "200") /\ UNCHANGED pending
     \/ /\ hold[h] = "ended"
        /\ Replied(e, "404") /\ UNCHANGED <<hold, pending>>
     \/ /\ Throws /\ hold[h] = "ending"
        /\ hold' = [hold EXCEPT ![h] = "active"] /\ pending' = pending \cup {h}
        /\ Replied(e, "500")
  /\ UNCHANGED <<authVars, recentlySettled, owed, spent, stage, recorded, history>>

(* The life of a hold runs out (remainingLifeMs), and sweepExpired(), also *)
(* one that close() overtook, releases it.                                 *)
LifeEnds(h) ==
  /\ h \in pending /\ h \notin spent
  /\ spent' = spent \cup {h}
  /\ UNCHANGED <<authVars, pending, claimed, recentlySettled, owed, stage, hold, pc,
                 reply, recorded, history>>

Sweep(h) ==
  /\ h \in spent /\ stage \in {"up", "releasing"}
  /\ Claim(h, "sweep") /\ EndBegins(h)
  /\ UNCHANGED <<authVars, recentlySettled, owed, spent, stage, pc, reply, recorded,
                 history>>

(* The server's own release: a throw is logged and the entry stays out. *)
OwnEnds(h) ==
  /\ claimed[h] \in {"sweep", "shutdown"} /\ Unclaimed(h, {})
  /\ \/ hold' = [hold EXCEPT ![h] = "ended"] /\ UNCHANGED dropped
     \/ /\ Throws /\ hold[h] = "ending"
        /\ hold' = [hold EXCEPT ![h] = "active"] /\ dropped' = dropped \cup {h}
  /\ UNCHANGED <<authVars, pending, recentlySettled, owed, spent, stage, reply, recorded,
                 forgotten>>

-----------------------------------------------------------------------------
(* handleUnheldSettle(), after its first answerIfKnown().                  *)

MutantCheckThenRecord(s) ==
  LET h == s[1] IN
  \/ Live(h) /\ Goes(s, "held") /\ UNCHANGED <<reply, recorded>>
  \/ ~Live(h) /\ recorded' = recorded \cup {h}
     /\ Goes(s, "recording") /\ UNCHANGED reply
  \/ Goes(s, "done") /\ Replied(s, "500") /\ UNCHANGED recorded

(* answerIfKnown(), then recordUnheldSettlement(): the governor still has  *)
(* the hold; or the record is appended; or it could not be (rate limit,    *)
(* audit failure, a destroyed governor).                                   *)
CheckThenRecord(s) ==
  LET h == s[1] IN
  \/ Known(h) /\ Goes(s, "done") /\ AnswerKnown(s) /\ UNCHANGED recorded
  \/ ~Known(h) /\ Live(h) /\ Goes(s, "held") /\ UNCHANGED <<reply, recorded>>
  \/ ~Known(h) /\ ~Live(h) /\ recorded' = recorded \cup {h}
     /\ Goes(s, "recording") /\ UNCHANGED reply
  \/ ~Known(h) /\ Goes(s, "done") /\ Replied(s, "500") /\ UNCHANGED recorded

(* A terminal other than a settle has the hold. *)
TerminalAhead(h) == claimed[h] \notin {None, "settle"}

(* pool.get() has answered: wait for the terminal that has the hold, if    *)
(* one does.                                                               *)
UnheldBegins(s) ==
  /\ pc[s] = "unheld"
  /\ \/ TerminalAhead(s[1]) /\ Goes(s, "waits") /\ UNCHANGED <<reply, recorded>>
     \/ ~TerminalAhead(s[1]) /\ CheckThenRecord(s)
  /\ UNCHANGED <<authVars, serverVars, hold, history>>

(* The terminal is over, or RELEASE_WAIT_MAX_MS is. *)
UnheldWoken(s) ==
  /\ pc[s] \in {"waits", "woken"}
  /\ CheckThenRecord(s)
  /\ UNCHANGED <<authVars, serverVars, hold, history>>

(* Held still: asked again every HELD_POLL_MS, up to HELD_WAIT_MS. *)
UnheldPolls(s) ==
  /\ pc[s] = "held"
  /\ CheckThenRecord(s)
  /\ UNCHANGED <<authVars, serverVars, hold, history>>

UnheldGivesUp(s) ==
  /\ pc[s] = "held"
  /\ Goes(s, "done") /\ Replied(s, "hold_active")
  /\ UNCHANGED <<authVars, serverVars, hold, recorded, history>>

(* The record is written: 410, unless the id is known after all. *)
UnheldRecorded(s) ==
  /\ pc[s] = "recording"
  /\ Goes(s, "done")
  /\ IF Known(s[1]) THEN AnswerKnown(s) ELSE Replied(s, "410")
  /\ UNCHANGED <<authVars, serverVars, hold, recorded, history>>

-----------------------------------------------------------------------------
(* close(): every pending hold is claimed at once; when those releases are *)
(* over the connections are closed and the governors destroyed.            *)
Close ==
  /\ stage = "up" /\ stage' = "releasing"
  /\ claimed' = [h \in Holds |-> IF h \in pending THEN "shutdown" ELSE claimed[h]]
  /\ hold' = [h \in Holds |-> IF h \in pending /\ hold[h] # "ended" THEN "ending" ELSE hold[h]]
  /\ pending' = {}
  /\ UNCHANGED <<authVars, recentlySettled, owed, spent, pc, reply, recorded, history>>

CloseConnections ==
  /\ stage = "releasing" /\ \A h \in Holds : claimed[h] # "shutdown"
  /\ stage' = "destroying"
  /\ gone' = Holds
  /\ UNCHANGED <<state, call, timer, unsettled, pending, claimed, recentlySettled, owed,
                 spent, hold, pc, reply, recorded, history>>

(* destroyAll(): a settle under way is let through; the rest is voided. *)
Destroyed ==
  /\ stage = "destroying" /\ \A h \in Holds : hold[h] # "posting"
  /\ stage' = "closed"
  /\ hold' = [h \in Holds |-> IF Live(h) THEN "ended" ELSE hold[h]]
  /\ UNCHANGED <<authVars, pending, claimed, recentlySettled, owed, spent, pc, reply,
                 recorded, history>>

-----------------------------------------------------------------------------
Authorize(h) == Arrive(h) \/ Handle(h) \/ Disconnect(h) \/ OnClose(h) \/ Acquired(h)

(* The governor, and the ledger behind it, answer. *)
Answers(h) ==
  \/ AuthorizeDenied(h) \/ AuthorizeGranted(h) \/ LateReleased(h) \/ OwnEnds(h)
  \/ \E s \in Settles : s[1] = h /\ SettleEnds(s)
  \/ \E e \in Ends : e[1] = h /\ EndEnds(e)

Unheld(s) ==
  UnheldBegins(s) \/ UnheldWoken(s) \/ UnheldPolls(s) \/ UnheldGivesUp(s) \/ UnheldRecorded(s)

Next ==
  \/ \E h \in Holds : \/ Authorize(h) \/ Deadline(h) \/ OwedExpires(h) \/ Answers(h)
                      \/ LifeEnds(h) \/ Sweep(h)
  \/ \E s \in Settles : Settle(s) \/ Unheld(s)
  \/ \E e \in Ends : End(e)
  \/ Close \/ CloseConnections \/ Destroyed

Spec == Init /\ [][Next]_vars

(* Timers fire and the server's own steps are taken; nothing is assumed of *)
(* the ledger.                                                             *)
FairSpec ==
  /\ Spec
  /\ \A h \in Holds : WF_vars(Deadline(h))
  /\ \A s \in Settles : WF_vars(UnheldBegins(s) \/ UnheldWoken(s) \/ UnheldRecorded(s))
                        /\ WF_vars(UnheldGivesUp(s))

-----------------------------------------------------------------------------
(* What a request may be answered. *)
Replies == {"200", "400", "404", "410", "500", "503", "denied", "settle_in_progress",
            "ambiguous", "settled", "hold_active"}

AuthTypes ==
  /\ state \in [Holds -> {"unsent", "reading", "waiting", "delivered", "answered",
                          "refused", "abandoned"}]
  /\ gone \subseteq Holds /\ timer \subseteq Holds /\ unsettled \subseteq Holds
  /\ call \in [Holds -> {"none", "acquiring", "running", "over"}]

ClaimTypes ==
  /\ pending \subseteq Holds /\ spent \subseteq Holds
  /\ claimed \in [Holds -> {None, "settle", "end", "sweep", "shutdown"}]
  /\ owed \in [Holds -> {None, "voiding", "refused"}]
  /\ stage \in {"up", "releasing", "destroying", "closed"}
  /\ hold \in [Holds -> {"none", "active", "unposted", "posting", "ending", "ended",
                         "settled", "ambiguous"}]
  /\ pc \in [Requests -> {"unsent", "settling", "ending", "unheld", "waits", "woken",
                          "held", "recording", "done"}]

AnswerTypes ==
  /\ recentlySettled \in Seq(Holds \X {"settled", "ambiguous"})
  /\ Len(recentlySettled) <= Memory
  /\ reply \in [Holds \cup Requests -> Seq(Replies)]
  /\ recorded \subseteq Holds /\ forgotten \subseteq Holds /\ dropped \subseteq Holds

(* The variables have their types, and recentlySettled its bound. *)
TypeOK == AuthTypes /\ ClaimTypes /\ AnswerTypes

(* A settle is recorded as unrecoverable, and told to authorize again      *)
(* (410), only if its hold was not charged and never will be, whatever     *)
(* terminals raced it, failed and were retried; but for a settle that the  *)
(* bounded memory has dropped (handleUnheldSettle, answerIfKnown).         *)
GoneIsUncharged ==
  \A s \in Settles :
    (s[1] \in recorded \/ "410" \in ToSet(reply[s])) /\ s[1] \notin forgotten
      => hold[s[1]] \notin {"posting", "settled", "ambiguous"}

(* Although the ledger never answers, no request waits for ever: an        *)
(* authorize is answered at its deadline, and a settle that found no hold  *)
(* ends (the timer of handleAuthorize, the bounds of handleUnheldSettle).  *)
(* A request comes once, so it is enough that in the end none is waiting.  *)
OutageAnswered ==
  <>[](/\ \A h \in Holds : state[h] # "waiting"
       /\ \A s \in Settles : pc[s] \in {"unsent", "settling", "done"})
=============================================================================
