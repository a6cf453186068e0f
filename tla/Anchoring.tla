------------------------------ MODULE Anchoring -------------------------------
(***************************************************************************)
(* Anchoring the audit log (packages/core/src/audit/anchor.ts and the CLI  *)
(* around it): emitters, each in a process of its own, mint a chain of     *)
(* signed records of the log's head and deliver them to an append-only     *)
(* store outside the vault. What they share is on disk: the lock, the      *)
(* mirror (anchors.jsonl), the outbox, and the high-water mark kept in     *)
(* identity.json.                                                          *)
(*                                                                         *)
(* A record commits to a tree size and, by prevAnchorHash, to every record *)
(* before it: it is the sequence of their tree sizes, its anchorSeq is     *)
(* that sequence's length, and <<>> stands for GENESIS. Two records that   *)
(* differ in their timestamp only are one here, as they are to the         *)
(* verifier.                                                               *)
(*                                                                         *)
(* Definitions named Mutant... are the mutated forms PROJECT.json lists.   *)
(***************************************************************************)
EXTENDS Integers, Sequences, SequencesExt, FiniteSetsExt, FiniteSets

CONSTANTS
  Emitters,    \* processes with an emitter
  Scheduled,   \* those a timer starts (`anchor now --scheduled`); the others are in a
               \* program, with a timer of their own
  MaxEvents,   \* bound: events in the log
  MaxFaults,   \* bound: crashes, failed file operations, failed deliveries, restores
  Missing,     \* the mirror file is not there
  Torn,        \* a line or an entry whose write was cut short
  None

VARIABLES
  head,                  \* the audit log's length
  lock,                  \* None, Torn (its writer is dead), or [owner, written]
  mirror, outbox, high,  \* the records minted, those to deliver, and the mark
  store,                 \* what the sink holds, in the order it first came
  pc, job, snap, rec,    \* an emit() or redeliverPending(): its place, head and record
  left,                  \* redeliverPending()'s listing
  chain, ppc, todo,      \* publishChain; publishRecord()'s place and queue
  accepted,              \* history: the records ever put in the mirror
  breach,                \* history: "robbed", a live owner's lock was reclaimed;
                         \* "leaked", a record the mirror never had was delivered;
                         \* "unmarked", the mirror lost a record the mark was behind of
  faults

disk  == <<head, lock, mirror, outbox, high>>
run   == <<pc, job, snap, rec, left>>
pub   == <<chain, ppc, todo>>
past  == <<accepted, breach>>
vars  == <<disk, store, run, pub, past, faults>>

Seqs == 1..MaxEvents   \* tree sizes grow

Init ==
  /\ head = 0 /\ lock = None /\ mirror = <<>> /\ high = 0 /\ store = <<>>
  /\ outbox = [s \in Seqs |-> None]
  /\ pc = [e \in Emitters |-> "idle"] /\ job = [e \in Emitters |-> None]
  /\ snap = [e \in Emitters |-> None] /\ rec = [e \in Emitters |-> <<>>]
  /\ left = [e \in Emitters |-> <<>>]
  /\ chain = [e \in Emitters |-> <<>>] /\ ppc = [e \in Emitters |-> "idle"]
  /\ todo = [e \in Emitters |-> <<>>]
  /\ accepted = {} /\ breach = {} /\ faults = 0

Fault == faults < MaxFaults /\ faults' = faults + 1
Goes(e, to) == pc' = [pc EXCEPT ![e] = to]

(* readMirrorRecords() *)
Lines      == IF mirror = Missing THEN {} ELSE Range(mirror)
Records    == Lines \ {Torn}
Newest(S)  == IF S = {} THEN <<>> ELSE CHOOSE r \in S : \A q \in S : Len(q) <= Len(r)
MirrorTail == Newest(Records)
Anchored   == IF MirrorTail = <<>> THEN 0 ELSE Last(MirrorTail)
NeverAnchored == mirror = <<>> /\ high = 0
Unusable   == mirror = Missing \/ Torn \in Lines

Entries == {s \in Seqs : outbox[s] # None}
Pending == {outbox[s] : s \in {s \in Entries : outbox[s] # Torn}}
InOrder(S) == SetToSortSeq(S, LAMBDA q, r : Len(q) < Len(r))

-----------------------------------------------------------------------------
(* tryAcquireAnchorLock(): one run of an emitter at a time                 *)
(* (inProcessAnchorLocks), and between processes a file made with O_EXCL   *)
(* and then written.                                                       *)

Ends(e) ==
  /\ Goes(e, "idle") /\ job' = [job EXCEPT ![e] = None]
  /\ snap' = [snap EXCEPT ![e] = None] /\ rec' = [rec EXCEPT ![e] = <<>>]
  /\ left' = [left EXCEPT ![e] = <<>>]

Create(e) == lock = None /\ lock' = [owner |-> e, written |-> FALSE] /\ Goes(e, "write")

(* An attempt: the lock is created, or else judged. *)
Attempts(e) ==
  \/ Create(e)
  \/ lock # None /\ Goes(e, "judge") /\ UNCHANGED lock

(* start()'s tick is due once there are events that are not anchored. *)
Start(e) ==
  /\ pc[e] = "idle" /\ (e \in Scheduled \/ head > Anchored)
  /\ Attempts(e) /\ job' = [job EXCEPT ![e] = "emit"]
  /\ UNCHANGED <<head, mirror, outbox, high, store, snap, rec, left, pub, past, faults>>

(* redeliverPending() takes the lock anew. *)
StartRedeliver(e) ==
  /\ pc[e] = "quiet" /\ Attempts(e) /\ job' = [job EXCEPT ![e] = "redeliver"]
  /\ UNCHANGED <<head, mirror, outbox, high, store, snap, rec, left, pub, past, faults>>

(* The attempt after a reclaim. *)
Recreate(e) ==
  /\ pc[e] = "recreate"
  /\ \/ Create(e) /\ UNCHANGED <<job, snap, rec, left>>
     \/ lock # None /\ Ends(e) /\ UNCHANGED lock
  /\ UNCHANGED <<head, mirror, outbox, high, store, pub, past, faults>>

LockOf(e) == lock \notin {None, Torn} /\ lock.owner = e

WriteLock(e) ==
  /\ pc[e] = "write"
  /\ lock' = IF LockOf(e) THEN [lock EXCEPT !.written = TRUE] ELSE lock
  /\ Goes(e, IF job[e] = "emit" THEN "snapshot" ELSE "redeliver")
  /\ UNCHANGED <<head, mirror, outbox, high, store, job, snap, rec, left, pub, past, faults>>

(* A lock whose writer is alive is left alone. One that cannot be parsed,  *)
(* or is gone by now, is not.                                              *)
Judge(e) ==
  /\ pc[e] = "judge"
  /\ IF lock \notin {None, Torn} /\ lock.written
       THEN Ends(e) ELSE Goes(e, "reclaim") /\ UNCHANGED <<job, snap, rec, left>>
  /\ UNCHANGED <<disk, store, pub, past, faults>>

(* The rename takes away the lock that is at the path now. *)
Reclaim(e) ==
  /\ pc[e] = "reclaim"
  /\ IF lock = None
       THEN Ends(e) /\ UNCHANGED <<lock, breach>>
       ELSE /\ Goes(e, "recreate") /\ UNCHANGED <<job, snap, rec, left>>
            /\ lock' = None
            /\ breach' = IF lock = Torn THEN breach ELSE breach \cup {"robbed"}
  /\ UNCHANGED <<head, mirror, outbox, high, store, pub, accepted, faults>>

(* release(): the run ends, whichever lock is at the path. *)
Leaves(e) == Ends(e) /\ lock' = None

-----------------------------------------------------------------------------
(* emit() *)

(* Nothing is to be anchored, and the run ends. *)
MutantNothingNew(e) == Leaves(e)

(* Nothing is to be anchored: a scheduled run goes on to deliver what an   *)
(* earlier one left, if it gets the lock again.                            *)
NothingNew(e) ==
  IF e \in Scheduled
    THEN /\ lock' = None /\ Goes(e, "quiet") /\ job' = [job EXCEPT ![e] = None]
         /\ snap' = [snap EXCEPT ![e] = None] /\ UNCHANGED <<rec, left>>
    ELSE Leaves(e)

(* snapshotHead(): the head as log and sidecar agree on it; none, while an *)
(* append is under way.                                                    *)
Snapshot(e) ==
  /\ pc[e] = "snapshot"
  /\ \/ /\ head > 0 /\ Goes(e, "look")
        /\ snap' = [snap EXCEPT ![e] = [size |-> head, high |-> high]]
        /\ UNCHANGED <<lock, job, rec, left, faults>>
     \/ head = 0 /\ NeverAnchored /\ NothingNew(e) /\ UNCHANGED faults
     \/ head = 0 /\ ~NeverAnchored /\ Leaves(e) /\ UNCHANGED faults
     \/ Fault /\ Leaves(e)
  /\ UNCHANGED <<head, mirror, outbox, high, store, pub, past>>

InMirror(r) ==
  /\ mirror' = IF mirror = Missing THEN <<r>> ELSE Append(mirror, r)
  /\ accepted' = accepted \cup {r}

Orphans == {r \in Pending : Len(r) > Len(MirrorTail)}

(* The high-water mark is not consulted. *)
MutantHighWater(e) == Max({Len(MirrorTail)} \cup Entries)

(* The greatest anchorSeq ever given out, as far as the disk tells. *)
HighWater(e) == Max({Len(MirrorTail), snap[e].high} \cup Entries)

Refuses(e) ==
  \/ Unusable
  \/ Orphans # {} /\ Front(Head(InOrder(Orphans))) # MirrorTail
  \/ /\ Orphans = {}
     /\ \/ Len(MirrorTail) < HighWater(e)
        \/ snap[e].size < Anchored

(* A record the outbox has and the mirror lacks is put in the mirror       *)
(* first; then a record of the snapshot is drafted, and signed.            *)
Look(e) ==
  /\ pc[e] = "look"
  /\ \/ Refuses(e) /\ Leaves(e) /\ UNCHANGED <<mirror, accepted>>
     \/ /\ ~Refuses(e) /\ Orphans # {} /\ Goes(e, "healed")
        /\ InMirror(Head(InOrder(Orphans)))
        /\ rec' = [rec EXCEPT ![e] = Head(InOrder(Orphans))]
        /\ UNCHANGED <<lock, job, snap, left>>
     \/ /\ ~Refuses(e) /\ Orphans = {} /\ snap[e].size = Anchored /\ NothingNew(e)
        /\ UNCHANGED <<mirror, accepted>>
     \/ /\ ~Refuses(e) /\ Orphans = {} /\ snap[e].size > Anchored /\ Goes(e, "sign")
        /\ rec' = [rec EXCEPT ![e] = Append(MirrorTail, snap[e].size)]
        /\ UNCHANGED <<lock, mirror, accepted, job, snap, left>>
  /\ UNCHANGED <<head, outbox, high, store, pub, breach, faults>>

(* bumpAnchorHighWater() *)
Bump(e, from, to) ==
  /\ pc[e] = from /\ Goes(e, to)
  /\ high' = Max({high, Len(rec[e])})
  /\ UNCHANGED <<head, lock, mirror, outbox, store, job, snap, rec, left, pub, past, faults>>

WriteOutbox(e) ==
  /\ pc[e] = "sign" /\ Goes(e, "append")
  /\ outbox' = [outbox EXCEPT ![Len(rec[e])] = rec[e]]
  /\ UNCHANGED <<head, lock, mirror, high, store, job, snap, rec, left, pub, past, faults>>

AppendMirror(e) ==
  /\ pc[e] = "append" /\ Goes(e, "bump") /\ InMirror(rec[e])
  /\ UNCHANGED <<head, lock, outbox, high, store, job, snap, rec, left, pub, breach, faults>>

(* trackPublish(), and the lock is released: the publishing goes on. *)
Release(e) ==
  /\ pc[e] = "release" /\ Leaves(e)
  /\ chain' = [chain EXCEPT ![e] = Append(@, rec[e])]
  /\ UNCHANGED <<head, mirror, outbox, high, store, ppc, todo, past, faults>>

(* What a write that was cut short leaves. *)
CutShort(e) ==
  /\ outbox' \in {outbox} \cup IF pc[e] = "sign"
                                 THEN {[outbox EXCEPT ![Len(rec[e])] = Torn]} ELSE {}
  /\ mirror' \in {mirror} \cup IF pc[e] = "append" /\ mirror # Missing
                                 THEN {Append(mirror, Torn)} ELSE {}

(* The signer or a file operation fails: emit() throws. *)
Throws(e) ==
  /\ pc[e] \in {"look", "healed", "sign", "append", "bump"} /\ Fault /\ Leaves(e) /\ CutShort(e)
  /\ UNCHANGED <<head, high, store, pub, past>>

-----------------------------------------------------------------------------
(* publishRecord(), one after the other, beside the emitter's other runs. *)

Stored(r) ==
  /\ store' = IF r \in Range(store) THEN store ELSE Append(store, r)
  /\ breach' = IF r \in accepted THEN breach ELSE breach \cup {"leaked"}
Unlinks(e, s) ==
  \/ outbox' = [outbox EXCEPT ![s] = None] /\ UNCHANGED faults
  \/ outbox[s] # None /\ Fault /\ UNCHANGED outbox

(* What is in the outbox, the record included, oldest first. *)
Backlog(r) == InOrder(Pending \cup {r})

(* Nothing is delivered past an entry that cannot be read. *)
PublishStart(e) == LET r == Head(chain[e]) IN
  /\ ppc[e] = "idle" /\ chain[e] # <<>>
  /\ chain' = [chain EXCEPT ![e] = Tail(@)]
  /\ IF \E s \in Entries : outbox[s] = Torn
       THEN UNCHANGED <<ppc, todo>>
       ELSE /\ ppc' = [ppc EXCEPT ![e] = "deliver"]
            /\ todo' = [todo EXCEPT ![e] = Backlog(r)]
  /\ UNCHANGED <<disk, store, run, past, faults>>

(* deliverToSinks() *)
Publish(e) ==
  /\ ppc[e] = "deliver" /\ ppc' = [ppc EXCEPT ![e] = "unlink"]
  /\ Stored(Head(todo[e]))
  /\ UNCHANGED <<disk, run, chain, todo, accepted, faults>>

(* The retries are used up; the sink may have the record all the same. *)
PublishFails(e) ==
  /\ ppc[e] = "deliver" /\ Fault
  /\ Stored(Head(todo[e])) \/ UNCHANGED <<store, breach>>
  /\ ppc' = [ppc EXCEPT ![e] = "idle"] /\ todo' = [todo EXCEPT ![e] = <<>>]
  /\ UNCHANGED <<disk, run, chain, accepted>>

PublishUnlinks(e) ==
  /\ ppc[e] = "unlink" /\ Unlinks(e, Len(Head(todo[e])))
  /\ todo' = [todo EXCEPT ![e] = Tail(@)]
  /\ ppc' = [ppc EXCEPT ![e] = IF Len(todo[e]) = 1 THEN "idle" ELSE "deliver"]
  /\ UNCHANGED <<head, lock, mirror, high, store, run, chain, past>>

-----------------------------------------------------------------------------
(* redeliverPending(), under the lock, once the emitter publishes nothing. *)

Held(s) == [seq |-> s, held |-> Newest({r \in Records : Len(r) = s})]

Redeliver(e) ==
  /\ pc[e] = "redeliver" /\ chain[e] = <<>> /\ ppc[e] = "idle"
  /\ IF Unusable
       THEN Leaves(e)
       ELSE /\ Goes(e, "resend") /\ UNCHANGED <<lock, job, snap, rec>>
            /\ left' = [left EXCEPT ![e] =
                 [i \in 1..Cardinality(Entries) |-> Held(SetToSortSeq(Entries, <)[i])]]
  /\ UNCHANGED <<head, mirror, outbox, high, store, pub, past, faults>>

(* Oldest first, and only what the mirror holds too. *)
Sendable(e) == left[e] # <<>> /\ outbox[Head(left[e]).seq] = Head(left[e]).held

Resend(e) ==
  /\ pc[e] = "resend"
  /\ \/ ~Sendable(e) /\ Leaves(e) /\ UNCHANGED <<store, breach, faults>>
     \/ /\ Sendable(e)
        /\ \/ Stored(Head(left[e]).held) /\ Goes(e, "resent")
              /\ UNCHANGED <<lock, job, snap, rec, left, faults>>
           \/ Fault /\ Leaves(e) /\ (Stored(Head(left[e]).held) \/ UNCHANGED <<store, breach>>)
  /\ UNCHANGED <<head, mirror, outbox, high, pub, accepted>>

ResendUnlinks(e) ==
  /\ pc[e] = "resent" /\ Goes(e, "resend") /\ Unlinks(e, Head(left[e]).seq)
  /\ left' = [left EXCEPT ![e] = Tail(@)]
  /\ UNCHANGED <<head, lock, mirror, high, store, job, snap, rec, pub, past>>

-----------------------------------------------------------------------------
(* An emitter's process dies; another takes its place. *)
Crash(e) ==
  /\ pc[e] # "idle" \/ ppc[e] # "idle" \/ chain[e] # <<>>
  /\ Fault /\ Ends(e) /\ CutShort(e)
  /\ lock' = IF LockOf(e) THEN Torn ELSE lock
  /\ ppc' = [ppc EXCEPT ![e] = "idle"] /\ chain' = [chain EXCEPT ![e] = <<>>]
  /\ todo' = [todo EXCEPT ![e] = <<>>]
  /\ UNCHANGED <<head, high, store, past>>

(* The audit writer appends. *)
LogGrows ==
  /\ head < MaxEvents /\ head' = head + 1
  /\ UNCHANGED <<lock, mirror, outbox, high, store, run, pub, past, faults>>

(* A partial restore: of the log, or of the mirror. *)
LogFallsBack ==
  /\ head > 0 /\ Fault /\ head' = head - 1
  /\ UNCHANGED <<lock, mirror, outbox, high, store, run, pub, past>>

MirrorFallsBack ==
  /\ mirror \notin {Missing, <<>>} /\ Fault
  /\ mirror' \in {Missing, Front(mirror)}
  /\ breach' = IF high < Len(MirrorTail) THEN breach \cup {"unmarked"} ELSE breach
  /\ UNCHANGED <<head, lock, outbox, high, store, run, pub, accepted>>

(* The operator cuts a torn line from the mirror. *)
RepairMirror ==
  /\ Torn \in Lines /\ mirror' = SelectSeq(mirror, LAMBDA r : r # Torn)
  /\ UNCHANGED <<head, lock, outbox, high, store, run, pub, past, faults>>

(* resumeAnchorMirror(), with the store's newest record. *)
Resume == LET r == Newest(Range(store)) IN
  /\ store # <<>> /\ high <= Len(r)
  /\ Len(MirrorTail) < Len(r)
  /\ InMirror(r) /\ high' = Len(r)
  /\ UNCHANGED <<head, lock, outbox, store, run, pub, breach, faults>>

-----------------------------------------------------------------------------
RunStep(e) ==
  \/ Start(e) \/ StartRedeliver(e) \/ Recreate(e) \/ WriteLock(e)
  \/ Judge(e) \/ Reclaim(e) \/ Snapshot(e) \/ Look(e)
  \/ Bump(e, "healed", "look") \/ WriteOutbox(e) \/ AppendMirror(e)
  \/ Bump(e, "bump", "release") \/ Release(e) \/ Redeliver(e) \/ Resend(e) \/ ResendUnlinks(e)

PublishStep(e) == PublishStart(e) \/ Publish(e) \/ PublishUnlinks(e)

Next ==
  \/ \E e \in Emitters : \/ RunStep(e) \/ PublishStep(e)
                         \/ Throws(e) \/ PublishFails(e) \/ Crash(e)
  \/ LogGrows \/ LogFallsBack \/ MirrorFallsBack \/ RepairMirror \/ Resume

Spec == Init /\ [][Next]_vars

(* A run and a publishing go on; a timer starts an emitter again and       *)
(* again; the operator repairs a torn mirror.                              *)
FairSpec ==
  /\ Spec /\ WF_vars(RepairMirror)
  /\ \A e \in Emitters : /\ WF_vars(RunStep(e)) /\ WF_vars(PublishStep(e))

-----------------------------------------------------------------------------
(* The store holds one chain, whatever crashed, failed or was restored: no *)
(* two records claim one anchorSeq with different content, tree sizes grow *)
(* (emit's guards), and a record reaches the store after the one it links  *)
(* to, so that no outage leaves a gap (publishRecord, redeliverPending).   *)
(* Excepted is a breach: two emitters at once, a record delivered before   *)
(* it was in the mirror, or a mirror that lost a record its high-water     *)
(* mark had not caught up with.                                            *)
StoreIsOneChain ==
  breach = {} =>
    /\ \A q, r \in Range(store) : IsPrefix(q, r) \/ IsPrefix(r, q)
    /\ \A r \in Range(store) : \A i \in 2..Len(r) : r[i - 1] < r[i]
    /\ \A i \in 1..Len(store) :
         Len(store[i]) > 1 => \E j \in 1..(i - 1) : store[j] = Front(store[i])

(* A minted record is delivered in the end, unless the log or the mirror   *)
(* fell back or an outbox entry was cut short (publishRecord,              *)
(* redeliverPending).                                                      *)
Delivered ==
  <>[](\/ Entries = {} /\ accepted \subseteq Range(store)
       \/ breach # {}
       \/ \E s \in Seqs : outbox[s] = Torn
       \/ mirror = Missing \/ ~(accepted \subseteq Records)
       \/ \E r \in accepted \cup Pending : head < Last(r))

(* redeliverPending's rule: an outbox entry the mirror lacks never reaches *)
(* the store.                                                              *)
OnlyAcceptedReachesStore == "leaked" \notin breach
=============================================================================
