------------------------------ MODULE Quarantine ------------------------------
(***************************************************************************)
(* The torn-tail repair (packages/core/src/audit/quarantine.ts) and the    *)
(* appends that make it necessary (chain.ts, appendEvent and               *)
(* writeAnchorAtomically), with failed writes, processes that die between  *)
(* any two system calls, and power losses.                                 *)
(*                                                                         *)
(* The log is its complete lines and the bytes after its last newline. An  *)
(* offset at a line boundary is the number of lines before it: the log is  *)
(* only ever cut back to its last newline. A line is an event or the       *)
(* record of a cut; a cut is the torn bytes and their offset, which is     *)
(* also the name of its evidence file. The anchor (.meta) is the sequence  *)
(* of the head it names. Whoever appends or repairs has the writer lock    *)
(* (AuditWriter.tla), so there is one such span at a time.                 *)
(*                                                                         *)
(* Definitions named Mutant... are the mutated forms PROJECT.json lists.   *)
(***************************************************************************)
EXTENDS Integers, Sequences, SequencesExt

CONSTANTS
  Torn,        \* beginnings of a line that do not parse
  Clean,       \* nothing after the last newline
  MaxEvents,   \* bound: no event is appended to a log of this many lines
  MaxFaults    \* bound: failed calls, deaths of a process and power losses

VARIABLES
  log, tail,      \* events.jsonl: its lines, and what follows the last newline
  meta,           \* the anchor's sequence, or NoMeta
  evidence,       \* the files of audit/quarantine/
  synced,         \* what of these four is sure to survive a power loss
  pc, todo,       \* where the span that has the lock is; the lines it will append
  faults,         \* faults so far
  cut,            \* history: the cuts made
  anchored,       \* history: the last line's anchor update returned
  skipped         \* history: a line was appended although it had not (Skips)

disk    == <<log, tail, meta, evidence>>
history == <<cut, anchored, skipped>>
vars    == <<disk, synced, pc, todo, faults, history>>

Event  == <<"event", 0>>
NoMeta == -1
Offset == Len(log)
Here   == <<tail, Offset>>

Init ==
  /\ log = <<>> /\ tail = Clean /\ meta = NoMeta /\ evidence = {}
  /\ synced = [log |-> <<>>, tail |-> Clean, meta |-> NoMeta, evidence |-> {}]
  /\ pc = "idle" /\ todo = <<>> /\ faults = 0
  /\ cut = {} /\ anchored = TRUE /\ skipped = FALSE

LogSynced == synced' = [synced EXCEPT !.log = log, !.tail = tail]
Over      == pc' = "idle" /\ todo' = <<>>

-----------------------------------------------------------------------------
(* appendEvent(): the writer's own event, or the repair's records, one     *)
(* after the other. A torn log is refused.                                 *)

WriterStarts ==
  /\ pc = "idle" /\ tail = Clean /\ Len(log) < MaxEvents
  /\ pc' = "write" /\ todo' = <<Event>>
  /\ UNCHANGED <<disk, synced, faults, history>>

(* History: an event behind a line whose anchor update did not return, or  *)
(* any line behind an anchor whose rename is not durable.                  *)
Skips == ~anchored /\ (Head(todo) = Event \/ synced.meta # meta)

Write ==
  /\ pc = "write" /\ pc' = "fsync"
  /\ log' = Append(log, Head(todo))
  /\ anchored' = FALSE /\ skipped' = (skipped \/ Skips)
  /\ UNCHANGED <<tail, meta, evidence, synced, todo, faults, cut>>

Fsync ==
  /\ pc = "fsync" /\ pc' = "anchor"
  /\ LogSynced
  /\ UNCHANGED <<disk, todo, faults, history>>

(* writeAnchorAtomically(): the rename, then the directory's fsync. *)
Rename(from, to) ==
  /\ pc = from /\ pc' = to
  /\ meta' = Len(log)
  /\ UNCHANGED <<log, tail, evidence, synced, todo, faults, history>>

AnchorSynced ==
  /\ synced' = [synced EXCEPT !.meta = meta]
  /\ anchored' = TRUE /\ skipped' = FALSE

AppendDone ==
  /\ pc = "dirsync" /\ AnchorSynced
  /\ todo' = Tail(todo)
  /\ pc' = IF Len(todo) = 1 THEN "idle" ELSE "write"
  /\ UNCHANGED <<disk, faults, cut>>

AppendStep == Write \/ Fsync \/ Rename("anchor", "dirsync") \/ AppendDone

-----------------------------------------------------------------------------
(* quarantineTornTail().                                                   *)

Recorded == {c \in evidence : \E i \in DOMAIN log : log[i] = c}

(* checkAnchor() does not refuse. *)
AnchorAgrees ==
  \/ meta = Len(log)
  \/ Len(log) > 0 /\ meta = Len(log) - 1
  \/ meta = NoMeta /\ Len(log) <= 1

(* The cuts that analyse() finds without a record, but for the one at hand. *)
Pending == evidence \ (Recorded \cup {Here})

MutantToRecord == {IF tail = Clean THEN <<>> ELSE <<Here>>}

(* analyse(): the records to append, by offset (then by a digest, so in    *)
(* any order), this cut's last.                                            *)
ToRecord ==
  {s \o (IF tail = Clean THEN <<>> ELSE <<Here>>) :
     s \in {r \in SetToSeqs(Pending) : \A i, j \in DOMAIN r : i < j => r[i][2] <= r[j][2]}}

(* A last line that parses is left to the operator. *)
Whole == tail \notin Torn \cup {Clean}

Accepts == ~Whole /\ AnchorAgrees /\ \A c \in Pending : c[2] <= Offset

(* A refusal changes nothing. *)
RepairStarts ==
  /\ pc = "idle" /\ Accepts
  /\ pc' = "sync" /\ todo' \in ToRecord
  /\ UNCHANGED <<disk, synced, faults, history>>

(* 2 and 3 for a torn tail; otherwise straight to the records. *)
Onwards == IF tail # Clean THEN "link" ELSE IF todo # <<>> THEN "write" ELSE "idle"

(* 1. The log is made durable, and the anchor brought to the head. *)
SyncLog ==
  /\ pc = "sync"
  /\ pc' = IF meta # Len(log) THEN "meta" ELSE Onwards
  /\ LogSynced
  /\ UNCHANGED <<disk, todo, faults, history>>

SyncMeta ==
  /\ pc = "metasync" /\ AnchorSynced
  /\ pc' = Onwards
  /\ UNCHANGED <<disk, todo, faults, cut>>

(* 2. writeEvidence(): linked under its name, then made durable with its   *)
(* directory and the audit directory, which also holds the anchor.         *)
Link ==
  /\ pc = "link" /\ pc' = "evsync"
  /\ evidence' = evidence \cup {Here}
  /\ UNCHANGED <<log, tail, meta, synced, todo, faults, history>>

MutantSyncEvidence ==
  /\ pc = "evsync" /\ pc' = "cut"
  /\ synced' = [synced EXCEPT !.meta = meta]
  /\ anchored' = TRUE /\ skipped' = FALSE
  /\ UNCHANGED <<disk, todo, faults, cut>>

SyncEvidence ==
  /\ pc = "evsync" /\ pc' = "cut"
  /\ synced' = [synced EXCEPT !.evidence = evidence, !.meta = meta]
  /\ anchored' = TRUE /\ skipped' = FALSE
  /\ UNCHANGED <<disk, todo, faults, cut>>

(* 3. The cut, then made durable; 4. the records. *)
Truncate ==
  /\ pc = "cut" /\ pc' = "cutsync"
  /\ tail' = Clean /\ cut' = cut \cup {Here}
  /\ UNCHANGED <<log, meta, evidence, synced, todo, faults, anchored, skipped>>

SyncCut ==
  /\ pc = "cutsync" /\ pc' = "write"
  /\ LogSynced
  /\ UNCHANGED <<disk, todo, faults, history>>

RepairStep ==
  SyncLog \/ Rename("meta", "metasync") \/ SyncMeta \/ Link \/ SyncEvidence \/ Truncate \/ SyncCut

(* What a refusal tells the operator to do with a line that parses.        *)
Terminate ==
  /\ pc = "idle" /\ Whole
  /\ log' = Append(log, tail) /\ tail' = Clean
  /\ anchored' = FALSE /\ skipped' = (skipped \/ ~anchored)
  /\ UNCHANGED <<meta, evidence, synced, pc, todo, faults, cut>>

-----------------------------------------------------------------------------
(* Faults. *)

(* A short write: some of the line, or all of it but the newline. *)
ShortWrite ==
  /\ pc = "write" /\ Over
  /\ tail' \in Torn \cup {Head(todo)}
  /\ UNCHANGED <<log, meta, evidence, synced, history>>

(* The next call throws, or the process dies before it; so does a repair   *)
(* that finds another name for the log before its cut.                     *)
Stops ==
  /\ pc # "idle" /\ Over
  /\ UNCHANGED <<disk, synced, history>>

(* What was not made durable may be there, may be gone, and lines may be   *)
(* there in part.                                                          *)
PowerLoss ==
  /\ Over
  /\ \E n \in Len(synced.log) .. Len(log) :
       /\ log' = SubSeq(log, 1, n)
       /\ tail' \in (IF n = Len(log) THEN {tail} ELSE Torn \cup {Clean})
                  \cup (IF n = Len(synced.log) THEN {synced.tail} ELSE {})
  /\ meta' \in {meta, synced.meta}
  /\ evidence' \in {evidence, synced.evidence}
  /\ synced' = [log |-> log', tail |-> tail', meta |-> meta', evidence |-> evidence']
  /\ UNCHANGED history

Fault == faults < MaxFaults /\ faults' = faults + 1 /\ (ShortWrite \/ Stops \/ PowerLoss)

Next == WriterStarts \/ AppendStep \/ RepairStarts \/ RepairStep \/ Terminate \/ Fault

Spec == Init /\ [][Next]_vars

(* A span goes on until a fault ends it, and the operator runs the repair  *)
(* and acts on its refusals.                                               *)
FairSpec ==
  /\ Spec
  /\ WF_vars(AppendStep \/ RepairStep) /\ WF_vars(RepairStarts) /\ WF_vars(Terminate)

-----------------------------------------------------------------------------
(* Whatever died or lost power when, bytes that were cut from the log are  *)
(* in an evidence file, a record names evidence that exists, and no cut is *)
(* recorded twice (repairUnderLock's order of link, fsync and cut). Nor    *)
(* does a fault leave a state the repair refuses, unless an event was      *)
(* appended behind a line whose anchor update had failed, or a line behind *)
(* an anchor that power could still undo (analyse, checkAnchor).           *)
EvidenceKept ==
  /\ cut \subseteq evidence
  /\ \A i \in DOMAIN log : log[i] # Event => log[i] \in evidence
  /\ \A i, j \in DOMAIN log : log[i] = log[j] /\ log[i] # Event => i = j
  /\ pc = "idle" /\ ~Whole => Accepts \/ skipped

(* The repair converges: again and again the log is clean, its anchor is   *)
(* at the head and every cut has its record, with the same exception       *)
(* (quarantineTornTail, run again after every fault).                      *)
Converges ==
  []<>(\/ /\ tail = Clean /\ meta = Len(log) /\ evidence = Recorded
       \/ skipped)
=============================================================================
