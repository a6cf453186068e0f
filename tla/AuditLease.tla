----------------------------- MODULE AuditLease ------------------------------
(***************************************************************************)
(* The lease on the audit writer's lock (packages/core/src/audit/chain.ts: *)
(* renewLeases, leaseLapsed, lapseLease, judgeLease), the one proof of     *)
(* death that crosses PID namespaces. A holder H keeps its lock and        *)
(* appends; an observer O in another namespace wants to append once and    *)
(* finds H's lock.                                                         *)
(*                                                                         *)
(* Both read one monotonic clock; the model keeps ages, saturated at the   *)
(* largest value the code compares them with. A process may stand still    *)
(* between two system calls of a synchronous span, or be late with a       *)
(* timer, for at most SpanMax. The wall clock may be stepped at will.      *)
(*                                                                         *)
(* Definitions named Mutant... are the mutated forms PROJECT.json lists.   *)
(***************************************************************************)
EXTENDS Integers

CONSTANTS
  RenewEvery,   \* LEASE_RENEW_MS, in ticks
  HolderBound,  \* LEASE_HOLDER_BOUND_MS
  Confirm,      \* LEASE_CONFIRM_MS
  StaleAge,     \* LEASE_STALE_MS
  SpanMax,      \* the longest pause of a process
  WallSteps,    \* the wall clock may be stepped
  RemoveFaults  \* the unlink of a lapsed lock may fail

ASSUME AuditLeaseAssumption ==
  /\ RenewEvery \in Nat \ {0} /\ HolderBound \in Nat \ {0}
  /\ Confirm \in Nat /\ StaleAge \in Nat /\ SpanMax \in Nat
  /\ HolderBound < Confirm /\ Confirm < StaleAge
  /\ WallSteps \in BOOLEAN /\ RemoveFaults \in BOOLEAN

VARIABLES
  alive,        \* H's process
  file,         \* whose lock file is at the lock's path: "H", "O" or "none"
  held, lapsed, \* heldLocks' entry of H, and its lapsed mark
  report,       \* lapsedLeases' entry of H
  renewAge,     \* performance.now() - renewedAt
  timerAge,     \* since the renewal timer last fired, or was started
  hpc, hAge,    \* where H's span stands, and for how long it has run
  retry,        \* the lapse H works on was reported before
  removeFailed, \* history: the unlink of a lapsed lock failed
  opc, oAge,    \* the same of O
  viewCur,      \* the lock O has read is still the one on disk, same mtime
  viewIsWatch,  \* it was the one leaseWatch had when O read it
  watchCur,     \* leaseWatch's lock and mtime are the ones on disk
  watchAge      \* performance.now() - leaseWatch's since

holderVars   == <<alive, held, lapsed, report, renewAge, timerAge, hpc, hAge, retry,
                  removeFailed>>
observerVars == <<opc, oAge, viewCur, viewIsWatch, watchCur, watchAge>>
vars == <<file, holderVars, observerVars>>

Init ==
  /\ alive = TRUE /\ file = "none"
  /\ held = FALSE /\ lapsed = FALSE /\ report = FALSE
  /\ renewAge = 0 /\ timerAge = 0
  /\ hpc = "idle" /\ hAge = 0 /\ retry = FALSE /\ removeFailed = FALSE
  /\ opc = "idle" /\ oAge = 0
  /\ viewCur = FALSE /\ viewIsWatch = FALSE
  /\ watchCur = FALSE /\ watchAge = 0

TimerOn == alive /\ held /\ ~lapsed

Older(age, cap) == IF age < cap THEN age + 1 ELSE age

(* A tick of the monotonic clock, while no span and no timer of a live     *)
(* process has been put off for SpanMax already.                           *)
Tick ==
  /\ alive /\ hpc # "idle" => hAge < SpanMax
  /\ opc # "idle" => oAge < SpanMax
  /\ TimerOn => timerAge < RenewEvery + SpanMax
  /\ renewAge' = Older(renewAge, StaleAge + 1)
  /\ timerAge' = IF TimerOn THEN timerAge + 1 ELSE timerAge
  /\ hAge' = IF alive /\ hpc # "idle" THEN hAge + 1 ELSE hAge
  /\ oAge' = IF opc # "idle" THEN oAge + 1 ELSE oAge
  /\ watchAge' = Older(watchAge, Confirm)
  /\ UNCHANGED <<file, alive, held, lapsed, report, hpc, removeFailed, retry, opc, viewCur,
                 viewIsWatch, watchCur>>

(* The lock on disk gets another identity or another mtime. *)
Restamped == viewCur' = FALSE /\ watchCur' = FALSE

-----------------------------------------------------------------------------
MutantLeaseLapsed == FALSE

(* leaseLapsed() *)
LeaseLapsed == renewAge > HolderBound

HTo(where) == hpc' = where /\ hAge' = 0

(* lapseLease(), as far as its look at the lock file: H's own is still to  *)
(* be removed, and a lock that is not H's any more was lost.               *)
Lapse(again, reported) ==
  /\ lapsed' = TRUE
  /\ retry' = again
  /\ report' = reported
  /\ HTo(IF file = "H" THEN "lapse" ELSE IF again THEN "link" ELSE "idle")
  /\ UNCHANGED <<alive, file, held, renewAge, removeFailed, observerVars>>

(* lapseLease()'s unlink. An append that only repeats a reported lapse     *)
(* goes on to take the lock afresh; one that could not remove the file     *)
(* throws.                                                                 *)
HLapseUnlink ==
  /\ alive /\ hpc = "lapse"
  /\ \/ /\ file' = "none" /\ held' = FALSE /\ lapsed' = FALSE
        /\ Restamped
        /\ hpc' = IF retry THEN "link" ELSE "idle"
        /\ UNCHANGED <<hAge, removeFailed>>
     \/ /\ RemoveFaults
        /\ HTo("idle")
        /\ removeFailed' = TRUE
        /\ UNCHANGED <<file, held, lapsed, viewCur, watchCur>>
  /\ retry' = FALSE
  /\ UNCHANGED <<alive, report, renewAge, timerAge, opc, oAge, viewIsWatch, watchAge>>

(* renewLease(): may fail (EMFILE, EIO), and finds nothing to renew in a   *)
(* lock that is not H's.                                                   *)
RenewLease ==
  \/ /\ file = "H"
     /\ renewAge' = 0
     /\ Restamped
     /\ UNCHANGED <<alive, file, held, lapsed, report, hpc, hAge, removeFailed, retry, opc, oAge,
                    viewIsWatch, watchAge>>
  \/ UNCHANGED <<alive, file, held, lapsed, report, renewAge, hpc, hAge, removeFailed, retry,
                 observerVars>>

(* renewLeases(): the timer fires, between H's spans. *)
HTimer ==
  /\ TimerOn /\ hpc = "idle" /\ timerAge >= RenewEvery
  /\ timerAge' = 0
  /\ \/ LeaseLapsed /\ Lapse(FALSE, TRUE)
     \/ ~LeaseLapsed /\ RenewLease

(* The lapse the timer reported is thrown; or the lock is H's own and      *)
(* healthy, or has to be taken.                                            *)
ThrowOrGoOn ==
  /\ \/ report /\ report' = FALSE /\ UNCHANGED <<hpc, hAge>>
     \/ /\ ~report /\ held /\ file = "H" /\ ~lapsed /\ ~LeaseLapsed
        /\ HTo("write") /\ UNCHANGED report
     \/ ~report /\ ~(held /\ file = "H") /\ HTo("link") /\ UNCHANGED report
  /\ UNCHANGED <<alive, file, held, lapsed, renewAge, timerAge, removeFailed, retry, observerVars>>

(* appendEvent() of H, as far as acquireProcessLock()'s look at the lock   *)
(* it holds.                                                               *)
HAppend ==
  /\ alive /\ hpc = "idle"
  /\ \/ ThrowOrGoOn
     \/ /\ ~report /\ held /\ file = "H" /\ (lapsed \/ LeaseLapsed)
        /\ Lapse(lapsed, FALSE)
        /\ UNCHANGED timerAge

MutantHLink ==
  /\ alive /\ hpc = "link"
  /\ file' = "H"
  /\ renewAge' = 0
  /\ Restamped
  /\ hpc' = "verify"
  /\ UNCHANGED <<alive, held, lapsed, report, timerAge, hAge, removeFailed, retry, opc, oAge,
                 viewIsWatch, watchAge>>

(* createLock(): link(), and a look whether the path holds the file made.  *)
(* O's lock is O's until O releases it.                                    *)
HLink ==
  /\ alive /\ hpc = "link"
  /\ \/ /\ file = "none"
        /\ file' = "H"
        /\ renewAge' = 0
        /\ Restamped
        /\ hpc' = "verify"
        /\ UNCHANGED hAge
     \/ /\ file # "none"
        /\ HTo("idle")
        /\ UNCHANGED <<file, renewAge, viewCur, watchCur>>
  /\ UNCHANGED <<alive, held, lapsed, report, timerAge, removeFailed, retry, opc, oAge, viewIsWatch,
                 watchAge>>

HVerify ==
  /\ alive /\ hpc = "verify"
  /\ \/ /\ file = "H"
        /\ held' = TRUE /\ lapsed' = FALSE
        /\ timerAge' = 0
        /\ hpc' = "write"
        /\ UNCHANGED hAge
     \/ /\ file # "H"
        /\ HTo("idle")
        /\ UNCHANGED <<held, lapsed, timerAge>>
  /\ UNCHANGED <<alive, file, report, renewAge, removeFailed, retry, observerVars>>

(* The line is written and synced. *)
HWritten ==
  /\ alive /\ hpc = "write"
  /\ HTo("idle")
  /\ UNCHANGED <<alive, file, held, lapsed, report, renewAge, timerAge, removeFailed, retry, observerVars>>

(* releaseLocks(): deregistered, then unlinked if still H's. *)
HRelease ==
  /\ alive /\ hpc = "idle"
  /\ held' = FALSE /\ lapsed' = FALSE /\ report' = FALSE
  /\ HTo(IF held /\ file = "H" THEN "release" ELSE "idle")
  /\ UNCHANGED <<alive, file, renewAge, timerAge, removeFailed, retry, observerVars>>

HReleaseUnlink ==
  /\ alive /\ hpc = "release"
  /\ file' = "none"
  /\ Restamped
  /\ HTo("idle")
  /\ UNCHANGED <<alive, held, lapsed, report, renewAge, timerAge, removeFailed, retry, opc, oAge,
                 viewIsWatch, watchAge>>

HCrash ==
  /\ alive
  /\ alive' = FALSE
  /\ UNCHANGED <<file, held, lapsed, report, renewAge, timerAge, hpc, hAge, removeFailed, retry,
                 observerVars>>

-----------------------------------------------------------------------------
(* O's append: link() finds the name free, or O reads the lock there. *)
OAppend ==
  /\ opc = "idle"
  /\ oAge' = 0
  /\ \/ /\ file = "none"
        /\ opc' = "link"
        /\ UNCHANGED <<viewCur, viewIsWatch>>
     \/ /\ file = "H"
        /\ opc' = "judge"
        /\ viewCur' = TRUE /\ viewIsWatch' = watchCur
  /\ UNCHANGED <<file, holderVars, watchCur, watchAge>>

(* judgeLease(): the lock O has read is old on the wall clock, and O has   *)
(* watched that very lock and mtime for LEASE_CONFIRM_MS.                  *)
Expired == viewIsWatch /\ watchAge >= Confirm

MutantOJudge ==
  /\ opc = "judge"
  /\ \E old \in BOOLEAN :
       /\ ~WallSteps /\ viewCur => old = (renewAge > StaleAge)
       /\ opc' = IF old /\ Expired THEN "unlink" ELSE "idle"
       /\ watchAge' = 0 /\ watchCur' = viewCur
  /\ UNCHANGED <<file, holderVars, oAge, viewCur, viewIsWatch>>

(* A verdict other than "expired" refuses the append. The watch restarts   *)
(* when the lock read is not the one watched.                              *)
OJudge ==
  /\ opc = "judge"
  /\ \E old \in BOOLEAN :
       /\ ~WallSteps /\ viewCur => old = (renewAge > StaleAge)
       /\ opc' = IF old /\ Expired THEN "unlink" ELSE "idle"
       /\ watchAge' = IF viewIsWatch THEN watchAge ELSE 0
       /\ watchCur' = IF old /\ Expired THEN FALSE
                      ELSE IF viewIsWatch THEN watchCur ELSE viewCur
  /\ UNCHANGED <<file, holderVars, oAge, viewCur, viewIsWatch>>

(* By path, whatever is there by now; twice if nothing was. *)
OUnlink ==
  /\ opc \in {"unlink", "unlink2"}
  /\ file' = "none"
  /\ Restamped
  /\ opc' = IF opc = "unlink" /\ file = "none" THEN "unlink2" ELSE "link"
  /\ UNCHANGED <<holderVars, oAge, viewIsWatch, watchAge>>

OLink ==
  /\ opc = "link"
  /\ \/ file = "none" /\ file' = "O" /\ Restamped /\ opc' = "verify"
     \/ file # "none" /\ opc' = "idle" /\ UNCHANGED <<file, viewCur, watchCur>>
  /\ UNCHANGED <<holderVars, oAge, viewIsWatch, watchAge>>

OVerify ==
  /\ opc = "verify"
  /\ opc' = IF file = "O" THEN "write" ELSE "idle"
  /\ UNCHANGED <<file, holderVars, oAge, viewCur, viewIsWatch, watchCur, watchAge>>

(* The line is written, and O's writer released. *)
OWritten ==
  /\ opc = "write"
  /\ opc' = "idle"
  /\ file' = IF file = "O" THEN "none" ELSE file
  /\ UNCHANGED <<holderVars, oAge, viewCur, viewIsWatch, watchCur, watchAge>>

-----------------------------------------------------------------------------
HStep == \/ HLapseUnlink \/ HTimer \/ HAppend \/ HLink \/ HVerify \/ HWritten
         \/ HRelease \/ HReleaseUnlink \/ HCrash
OStep == OAppend \/ OJudge \/ OUnlink \/ OLink \/ OVerify \/ OWritten

Next == Tick \/ HStep \/ OStep

Spec == Init /\ [][Next]_vars

(* Time passes, and O keeps trying. *)
FairSpec == Spec /\ WF_vars(Tick) /\ WF_vars(OStep)

-----------------------------------------------------------------------------
(* What the holder's bound must leave room for, before the earliest moment *)
(* an observer may reclaim: a renewal timer, late by a pause; a pause in   *)
(* the middle of giving the lock up; a pause in the middle of a judgement. *)
Margin == /\ HolderBound + RenewEvery + 3 * SpanMax < Confirm
          /\ SpanMax <= HolderBound

(* Type correctness. No span and no timer is ever put off beyond its bound. *)
TypeOK ==
  /\ alive \in BOOLEAN /\ held \in BOOLEAN /\ lapsed \in BOOLEAN
  /\ report \in BOOLEAN /\ retry \in BOOLEAN
  /\ viewCur \in BOOLEAN /\ viewIsWatch \in BOOLEAN /\ watchCur \in BOOLEAN
  /\ file \in {"none", "H", "O"}
  /\ renewAge \in 0 .. StaleAge + 1 /\ watchAge \in 0 .. Confirm
  /\ timerAge \in 0 .. RenewEvery + SpanMax
  /\ hAge \in 0 .. SpanMax /\ oAge \in 0 .. SpanMax
  /\ hpc \in {"idle", "lapse", "link", "verify", "write", "release"}
  /\ opc \in {"idle", "judge", "unlink", "unlink2", "link", "verify", "write"}

(* "This append is refused so no takeover can land under a write": the     *)
(* observer is never in its append while the holder is in one, as long as  *)
(* a lapsed lock could be removed.                                         *)
NoTakeoverUnderWrite ==
  ~removeFailed => ~(alive /\ hpc = "write" /\ opc = "write")

(* A live holder's lock is never removed by the observer: a holder that    *)
(* cannot renew gives its lock up before anybody takes it. A lock given up *)
(* whose removal failed is the exception: it stays, and grows old.         *)
LiveLockKept ==
  [][alive /\ file = "H" /\ ~removeFailed /\ opc' # opc => file' = "H"]_vars

(* The lock of a holder that died is reclaimed. *)
DeadReclaimed == (~alive /\ file = "H") ~> file # "H"
=============================================================================
