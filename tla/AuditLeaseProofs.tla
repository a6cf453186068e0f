--------------------------- MODULE AuditLeaseProofs ---------------------------
(***************************************************************************)
(* The lease of module AuditLease is safe for every choice of its times    *)
(* that leaves the Margin, however the wall clock is stepped: no takeover  *)
(* lands under a write, and a live holder's lock is never removed.         *)
(***************************************************************************)
EXTENDS AuditLease, TLAPS

(* TypeOK in two parts: the flags, and the rest. *)
FlagsOK ==
  /\ alive \in BOOLEAN /\ held \in BOOLEAN /\ lapsed \in BOOLEAN
  /\ report \in BOOLEAN /\ retry \in BOOLEAN
  /\ viewCur \in BOOLEAN /\ viewIsWatch \in BOOLEAN /\ watchCur \in BOOLEAN

AgesOK ==
  /\ file \in {"none", "H", "O"}
  /\ renewAge \in 0 .. StaleAge + 1 /\ watchAge \in 0 .. Confirm
  /\ timerAge \in 0 .. RenewEvery + SpanMax
  /\ hAge \in 0 .. SpanMax /\ oAge \in 0 .. SpanMax
  /\ hpc \in {"idle", "lapse", "link", "verify", "write", "release"}
  /\ opc \in {"idle", "judge", "unlink", "unlink2", "link", "verify", "write"}

(* How old the last renewal of a live holder's lock file can be, by where  *)
(* the holder stands. Outside its spans the renewal timer bounds it.       *)
RenewalBound ==
  alive /\ file = "H" =>
    \/ hpc = "verify" /\ renewAge <= hAge
    \/ hpc \in {"lapse", "release"} /\ renewAge <= HolderBound + RenewEvery + SpanMax + hAge
    \/ hpc \in {"idle", "write"} /\ held /\ ~lapsed /\ renewAge <= HolderBound + timerAge

(* Whose the lock file is, by where the two stand. *)
FileOwned ==
  /\ alive /\ hpc \in {"verify", "lapse", "release", "write"} => file = "H"
  /\ alive /\ hpc = "link" => file # "H"
  /\ opc \in {"verify", "write"} => file = "O"

(* What the observer has watched is no older than the holder's last        *)
(* renewal, and it never finds a live holder's lease expired.              *)
WatchBound ==
  /\ viewCur => file = "H"
  /\ watchCur => file = "H" /\ watchAge <= renewAge
  /\ alive /\ opc = "judge" /\ viewIsWatch =>
       watchAge <= HolderBound + RenewEvery + 2 * SpanMax + oAge
  /\ opc \in {"unlink", "unlink2"} => ~alive

LeaseInv == FlagsOK /\ AgesOK /\ RenewalBound /\ FileOwned /\ WatchBound

(* The holder's own steps keep the invariant. *)
LEMMA HolderStep ==
  ASSUME LeaseInv, Margin, ~RemoveFaults, HStep
  PROVE  LeaseInv'
<1> USE AuditLeaseAssumption DEF LeaseInv, Margin, holderVars, observerVars, HTo, Restamped, TimerOn
<1>1. CASE HLapseUnlink
  <2> USE <1>1 DEF HLapseUnlink
  <2>1. FlagsOK'
    BY Zenon DEF FlagsOK
  <2>0. AgesOK'
    BY DEF AgesOK
  <2>2. RenewalBound'
    BY DEF RenewalBound, FlagsOK, AgesOK, FileOwned, WatchBound
  <2>3. FileOwned'
    BY DEF RenewalBound, FlagsOK, AgesOK, FileOwned, WatchBound
  <2>4. WatchBound'
    BY DEF RenewalBound, FlagsOK, AgesOK, FileOwned, WatchBound
  <2> QED
    BY <2>0, <2>1, <2>2, <2>3, <2>4
<1>2. CASE HTimer
  <2>1. CASE LeaseLapsed /\ Lapse(FALSE, TRUE)
    <3>1. /\ lapsed' = TRUE /\ retry' = FALSE /\ report' = TRUE
          /\ hAge' = 0
          /\ UNCHANGED <<alive, file, held, renewAge, opc, oAge, viewCur, viewIsWatch,
                         watchCur, watchAge>>
      BY <2>1, Zenon DEF Lapse
    <3>2. hpc' = IF file = "H" THEN "lapse" ELSE "idle"
      BY <2>1 DEF Lapse
    <3>3. TimerOn /\ hpc = "idle" /\ timerAge' = 0
      BY <1>2 DEF HTimer
    <3>4. FlagsOK'
      BY <3>1, Zenon DEF FlagsOK
    <3>5. AgesOK'
      BY <3>1, <3>2, <3>3 DEF AgesOK
    <3>6. RenewalBound'
      BY <3>1, <3>2, <3>3 DEF RenewalBound, AgesOK, FlagsOK
    <3>7. FileOwned'
      BY <3>1, <3>2, <3>3 DEF FileOwned, AgesOK, FlagsOK
    <3>8. WatchBound'
      BY <3>1, <3>2, <3>3 DEF WatchBound, AgesOK, FlagsOK
    <3> QED
      BY <3>4, <3>5, <3>6, <3>7, <3>8
  <2>2. CASE ~LeaseLapsed /\ RenewLease
    <3>0. TimerOn /\ hpc = "idle" /\ timerAge' = 0
      BY <1>2, Zenon DEF HTimer
    <3>1. FlagsOK' /\ UNCHANGED <<alive, file, held, lapsed, hpc, hAge, opc, oAge,
                                  viewIsWatch, watchAge>>
      BY <2>2, Zenon DEF RenewLease, FlagsOK
    <3>2. renewAge' = renewAge \/ (renewAge' = 0 /\ ~viewCur' /\ ~watchCur')
      BY <2>2, Zenon DEF RenewLease
    <3>3. renewAge' = renewAge => (viewCur' => viewCur) /\ (watchCur' => watchCur)
      BY <2>2, Zenon DEF RenewLease
    <3>4. AgesOK'
      BY <3>0, <3>1, <3>2 DEF AgesOK
    <3>5. RenewalBound'
      BY <2>2, <3>0, <3>1, <3>2 DEF RenewalBound, AgesOK, LeaseLapsed
    <3>6. FileOwned'
      BY <3>1 DEF FileOwned
    <3>7. WatchBound'
      BY <3>1, <3>2, <3>3 DEF AgesOK, WatchBound
    <3> QED
      BY <3>1, <3>4, <3>5, <3>6, <3>7
  <2> QED
    BY <1>2, <2>1, <2>2, Zenon DEF HTimer
<1>3. CASE HAppend
  <2>1. CASE /\ ~report /\ held /\ file = "H" /\ (lapsed \/ LeaseLapsed)
             /\ Lapse(lapsed, FALSE)
             /\ UNCHANGED timerAge
    <3>0. file = "H" /\ hpc = "idle" /\ alive
      BY <1>3, <2>1, Zenon DEF HAppend
    <3>1. /\ lapsed' = TRUE /\ retry' = lapsed /\ report' = FALSE
          /\ hAge' = 0
          /\ UNCHANGED <<alive, file, held, renewAge, opc, oAge, viewCur, viewIsWatch,
                         watchCur, watchAge>>
      BY <2>1, Zenon DEF Lapse
    <3>2. hpc' = "lapse"
      BY <2>1, <3>0 DEF Lapse
    <3>3. UNCHANGED timerAge
      BY <2>1
    <3>4. FlagsOK'
      BY <3>1, Zenon DEF FlagsOK
    <3>5. AgesOK'
      BY <3>1, <3>2, <3>3 DEF AgesOK
    <3>6. RenewalBound'
      BY <3>0, <3>1, <3>2, <3>3 DEF RenewalBound, AgesOK, FlagsOK
    <3>7. FileOwned'
      BY <3>0, <3>1, <3>2, <3>3 DEF FileOwned, AgesOK, FlagsOK
    <3>8. WatchBound'
      BY <3>1, <3>2, <3>3 DEF WatchBound, AgesOK, FlagsOK
    <3> QED
      BY <3>4, <3>5, <3>6, <3>7, <3>8
  <2>2. CASE ThrowOrGoOn
    <3>0. alive /\ hpc = "idle"
      BY <1>3, Zenon DEF HAppend
    <3> USE <2>2, <3>0 DEF ThrowOrGoOn
    <3>1. FlagsOK'
      BY Zenon DEF FlagsOK
    <3>2. AgesOK'
      BY DEF AgesOK
    <3>3. RenewalBound'
      BY DEF RenewalBound, FlagsOK, AgesOK, FileOwned, LeaseLapsed
    <3>4. FileOwned'
      BY DEF FileOwned, AgesOK, RenewalBound
    <3>5. WatchBound'
      BY DEF FlagsOK, AgesOK, FileOwned, WatchBound
    <3> QED
      BY <3>1, <3>2, <3>3, <3>4, <3>5
  <2> QED
    BY <1>3, <2>1, <2>2, Zenon DEF HAppend
<1>4. CASE HLink
  <2> USE <1>4 DEF HLink
  <2>1. FlagsOK'
    BY Zenon DEF FlagsOK
  <2>0. AgesOK'
    BY DEF AgesOK
  <2>2. RenewalBound'
    BY DEF RenewalBound, FlagsOK, AgesOK, FileOwned, WatchBound
  <2>3. FileOwned'
    BY DEF RenewalBound, FlagsOK, AgesOK, FileOwned, WatchBound
  <2>4. WatchBound'
    BY DEF RenewalBound, FlagsOK, AgesOK, FileOwned, WatchBound
  <2> QED
    BY <2>0, <2>1, <2>2, <2>3, <2>4
<1>5. CASE HVerify
  <2> USE <1>5 DEF HVerify
  <2>1. FlagsOK'
    BY Zenon DEF FlagsOK
  <2>0. AgesOK'
    BY DEF AgesOK
  <2>2. RenewalBound'
    BY DEF RenewalBound, FlagsOK, AgesOK, FileOwned, WatchBound
  <2>3. FileOwned'
    BY DEF RenewalBound, FlagsOK, AgesOK, FileOwned, WatchBound
  <2>4. WatchBound'
    BY DEF RenewalBound, FlagsOK, AgesOK, FileOwned, WatchBound
  <2> QED
    BY <2>0, <2>1, <2>2, <2>3, <2>4
<1>6. CASE HWritten
  <2> USE <1>6 DEF HWritten
  <2>1. FlagsOK'
    BY Zenon DEF FlagsOK
  <2>0. AgesOK'
    BY DEF AgesOK
  <2>2. RenewalBound'
    BY DEF RenewalBound, FlagsOK, AgesOK, FileOwned, WatchBound
  <2>3. FileOwned'
    BY DEF RenewalBound, FlagsOK, AgesOK, FileOwned, WatchBound
  <2>4. WatchBound'
    BY DEF RenewalBound, FlagsOK, AgesOK, FileOwned, WatchBound
  <2> QED
    BY <2>0, <2>1, <2>2, <2>3, <2>4
<1>7. CASE HRelease
  <2> USE <1>7 DEF HRelease
  <2>1. FlagsOK'
    BY Zenon DEF FlagsOK
  <2>0. AgesOK'
    BY DEF AgesOK
  <2>2. RenewalBound'
    BY DEF RenewalBound, FlagsOK, AgesOK, FileOwned, WatchBound
  <2>3. FileOwned'
    BY DEF RenewalBound, FlagsOK, AgesOK, FileOwned, WatchBound
  <2>4. WatchBound'
    BY DEF RenewalBound, FlagsOK, AgesOK, FileOwned, WatchBound
  <2> QED
    BY <2>0, <2>1, <2>2, <2>3, <2>4
<1>8. CASE HReleaseUnlink
  <2> USE <1>8 DEF HReleaseUnlink
  <2>1. FlagsOK'
    BY Zenon DEF FlagsOK
  <2>0. AgesOK'
    BY DEF AgesOK
  <2>2. RenewalBound'
    BY DEF RenewalBound, FlagsOK, AgesOK, FileOwned, WatchBound
  <2>3. FileOwned'
    BY DEF RenewalBound, FlagsOK, AgesOK, FileOwned, WatchBound
  <2>4. WatchBound'
    BY DEF RenewalBound, FlagsOK, AgesOK, FileOwned, WatchBound
  <2> QED
    BY <2>0, <2>1, <2>2, <2>3, <2>4
<1>9. CASE HCrash
  <2> USE <1>9 DEF HCrash
  <2>1. FlagsOK'
    BY Zenon DEF FlagsOK
  <2>0. AgesOK'
    BY DEF AgesOK
  <2>2. RenewalBound'
    BY DEF RenewalBound, FlagsOK, AgesOK, FileOwned, WatchBound
  <2>3. FileOwned'
    BY DEF RenewalBound, FlagsOK, AgesOK, FileOwned, WatchBound
  <2>4. WatchBound'
    BY DEF RenewalBound, FlagsOK, AgesOK, FileOwned, WatchBound
  <2> QED
    BY <2>0, <2>1, <2>2, <2>3, <2>4
<1> QED
  BY <1>1, <1>2, <1>3, <1>4, <1>5, <1>6, <1>7, <1>8, <1>9 DEF HStep

(* So do the observer's. *)
LEMMA ObserverStep ==
  ASSUME LeaseInv, Margin, OStep
  PROVE  LeaseInv'
<1> USE AuditLeaseAssumption DEF LeaseInv, Margin, holderVars, Restamped
<1>1. CASE OAppend
  <2> USE <1>1 DEF OAppend
  <2>1. FlagsOK'
    BY Zenon DEF FlagsOK
  <2>0. AgesOK'
    BY DEF AgesOK
  <2>2. RenewalBound'
    BY DEF RenewalBound, FlagsOK, AgesOK, FileOwned, WatchBound
  <2>3. FileOwned'
    BY DEF RenewalBound, FlagsOK, AgesOK, FileOwned, WatchBound
  <2>4. WatchBound'
    BY DEF RenewalBound, FlagsOK, AgesOK, FileOwned, WatchBound
  <2> QED
    BY <2>0, <2>1, <2>2, <2>3, <2>4
<1>2. CASE OJudge
  <2> USE <1>2 DEF OJudge, Expired
  <2>1. FlagsOK'
    BY Zenon DEF FlagsOK
  <2>0. AgesOK'
    BY DEF AgesOK
  <2>2. RenewalBound'
    BY DEF RenewalBound, FlagsOK, AgesOK, FileOwned, WatchBound
  <2>3. FileOwned'
    BY DEF RenewalBound, FlagsOK, AgesOK, FileOwned, WatchBound
  <2>4. WatchBound'
    BY DEF RenewalBound, FlagsOK, AgesOK, FileOwned, WatchBound
  <2> QED
    BY <2>0, <2>1, <2>2, <2>3, <2>4
<1>3. CASE OUnlink
  <2> USE <1>3 DEF OUnlink
  <2>1. FlagsOK'
    BY Zenon DEF FlagsOK
  <2>0. AgesOK'
    BY DEF AgesOK
  <2>2. RenewalBound'
    BY DEF RenewalBound, FlagsOK, AgesOK, FileOwned, WatchBound
  <2>3. FileOwned'
    BY DEF RenewalBound, FlagsOK, AgesOK, FileOwned, WatchBound
  <2>4. WatchBound'
    BY DEF RenewalBound, FlagsOK, AgesOK, FileOwned, WatchBound
  <2> QED
    BY <2>0, <2>1, <2>2, <2>3, <2>4
<1>4. CASE OLink
  <2> USE <1>4 DEF OLink
  <2>1. FlagsOK'
    BY Zenon DEF FlagsOK
  <2>0. AgesOK'
    BY DEF AgesOK
  <2>2. RenewalBound'
    BY DEF RenewalBound, FlagsOK, AgesOK, FileOwned, WatchBound
  <2>3. FileOwned'
    BY DEF RenewalBound, FlagsOK, AgesOK, FileOwned, WatchBound
  <2>4. WatchBound'
    BY DEF RenewalBound, FlagsOK, AgesOK, FileOwned, WatchBound
  <2> QED
    BY <2>0, <2>1, <2>2, <2>3, <2>4
<1>5. CASE OVerify
  <2> USE <1>5 DEF OVerify
  <2>1. FlagsOK'
    BY Zenon DEF FlagsOK
  <2>0. AgesOK'
    BY DEF AgesOK
  <2>2. RenewalBound'
    BY DEF RenewalBound, FlagsOK, AgesOK, FileOwned, WatchBound
  <2>3. FileOwned'
    BY DEF RenewalBound, FlagsOK, AgesOK, FileOwned, WatchBound
  <2>4. WatchBound'
    BY DEF RenewalBound, FlagsOK, AgesOK, FileOwned, WatchBound
  <2> QED
    BY <2>0, <2>1, <2>2, <2>3, <2>4
<1>6. CASE OWritten
  <2> USE <1>6 DEF OWritten
  <2>1. FlagsOK'
    BY Zenon DEF FlagsOK
  <2>0. AgesOK'
    BY DEF AgesOK
  <2>2. RenewalBound'
    BY DEF RenewalBound, FlagsOK, AgesOK, FileOwned, WatchBound
  <2>3. FileOwned'
    BY DEF RenewalBound, FlagsOK, AgesOK, FileOwned, WatchBound
  <2>4. WatchBound'
    BY DEF RenewalBound, FlagsOK, AgesOK, FileOwned, WatchBound
  <2> QED
    BY <2>0, <2>1, <2>2, <2>3, <2>4
<1> QED
  BY <1>1, <1>2, <1>3, <1>4, <1>5, <1>6 DEF OStep

(* And so does the clock. *)
LEMMA ClockStep ==
  ASSUME LeaseInv, Margin, Tick
  PROVE  LeaseInv'
<1> USE AuditLeaseAssumption DEF LeaseInv, FlagsOK, AgesOK, Margin, Tick, Older, TimerOn
<1>1. FlagsOK'
  BY Zenon DEF FlagsOK
<1>0. AgesOK'
  BY DEF AgesOK
<1>2. RenewalBound'
  BY DEF RenewalBound
<1>3. FileOwned'
  BY DEF FileOwned
<1>4. WatchBound'
  BY DEF WatchBound
<1> QED
  BY <1>1, <1>2, <1>3, <1>4

(* The inductive invariant of the lease. *)
THEOREM LeaseInvariant ==
  ASSUME Margin, ~RemoveFaults
  PROVE  Spec => []LeaseInv
<1>1. Init => LeaseInv
  <2> SUFFICES ASSUME Init PROVE LeaseInv
    OBVIOUS
  <2>1. FlagsOK
    BY Zenon DEF Init, FlagsOK
  <2>2. AgesOK
    BY AuditLeaseAssumption DEF Init, AgesOK
  <2>3. RenewalBound /\ FileOwned /\ WatchBound
    BY DEF Init, RenewalBound, FileOwned, WatchBound
  <2> QED
    BY <2>1, <2>2, <2>3 DEF LeaseInv
<1>2. LeaseInv /\ [Next]_vars => LeaseInv'
  <2> SUFFICES ASSUME LeaseInv, [Next]_vars PROVE LeaseInv'
    OBVIOUS
  <2>1. CASE UNCHANGED vars
    BY <2>1 DEF vars, holderVars, observerVars, LeaseInv, FlagsOK, AgesOK, RenewalBound,
                FileOwned, WatchBound
  <2> QED
    BY <2>1, HolderStep, ObserverStep, ClockStep DEF Next
<1> QED
  BY <1>1, <1>2, PTL DEF Spec

(* No takeover lands under a write: holder and observer are never both in  *)
(* their appends (appendEvent after acquireProcessLock).                   *)
THEOREM NoTakeoverUnderWriteHolds ==
  ASSUME Margin, ~RemoveFaults
  PROVE  Spec => []NoTakeoverUnderWrite
<1>1. LeaseInv => NoTakeoverUnderWrite
  BY DEF LeaseInv, FileOwned, NoTakeoverUnderWrite
<1> QED
  BY <1>1, LeaseInvariant, PTL

(* tryCleanStaleLock() of the observer never removes the lock of a holder  *)
(* that is alive.                                                          *)
THEOREM LiveLockKeptHolds ==
  ASSUME Margin, ~RemoveFaults
  PROVE  Spec => LiveLockKept
<1>1. LeaseInv /\ [Next]_vars =>
        [alive /\ file = "H" /\ ~removeFailed /\ opc' # opc => file' = "H"]_vars
  <2> SUFFICES ASSUME LeaseInv, Next, alive, file = "H", opc' # opc
               PROVE  file' = "H"
    OBVIOUS
  <2>1. ~Tick /\ ~HStep
    BY DEF Tick, HStep, HLapseUnlink, HTimer, Lapse, RenewLease, ThrowOrGoOn, HAppend, HLink, HVerify, HWritten,
           HRelease, HReleaseUnlink, HCrash, observerVars
  <2> QED
    BY <2>1 DEF Next, OStep, OAppend, OJudge, OUnlink, OLink, OVerify, OWritten,
                LeaseInv, FlagsOK, AgesOK, FileOwned, WatchBound
<1> QED
  BY <1>1, LeaseInvariant, PTL DEF Spec, LiveLockKept
=============================================================================
