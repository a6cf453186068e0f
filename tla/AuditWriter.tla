----------------------------- MODULE AuditWriter -----------------------------
(***************************************************************************)
(* The vault's advisory writer lock and the append it protects             *)
(* (packages/core/src/audit/chain.ts): acquireProcessLock, createLock,     *)
(* tryCleanStaleLock, appendEvent, releaseLocks and withAuditWriterLock,   *)
(* for processes of one PID namespace and one boot.                        *)
(*                                                                         *)
(* An action is one system call on the shared directory. Within a process  *)
(* every append, acquire and release is synchronous: its writers take      *)
(* turns (Busy). Between processes every system call interleaves.          *)
(*                                                                         *)
(* The log is a sequence of lines; a line is the number of the line it was *)
(* chained from (0: GENESIS_HASH), or Garbled when it was glued onto       *)
(* another's unfinished line.                                              *)
(*                                                                         *)
(* Definitions named Mutant... are the mutated forms PROJECT.json lists.   *)
(***************************************************************************)
EXTENDS Integers, Sequences, FiniteSets

CONSTANTS
  Writers,      \* writer ids (randomUUID: never reused)
  Processes,    \* lives of processes
  Proc,         \* the process each writer belongs to
  Pids,         \* PIDs; a dead process's may be used again
  CanCrash,     \* the processes that may die without releasing
  WriteFaults,  \* a write of the log or of its sidecar may fail
  MaxLog,       \* bound: lines of the log (then the disk is full)
  None          \* no writer, no cached tail

ASSUME AuditWriterAssumption ==
  /\ Proc \in [Writers -> Processes]
  /\ CanCrash \subseteq Processes
  /\ WriteFaults \in BOOLEAN
  /\ MaxLog \in Nat \ {0}
  /\ None \notin Writers \cup Int

VARIABLES
  life,      \* of a process: "unborn", "alive" or "dead"
  pid,       \* the PID it was started with (None before)
  file,      \* the writer whose lock file is at the lock's path, or None
  held,      \* heldLocks: the writers registered as holding a lock
  pc, goal,  \* where a writer's synchronous span stands; "append" or "scope"
  seen,      \* the lock file it read
  cache,     \* lastEventCache: the line it believes is the last, or None
  tail,      \* the line its event is chained from
  released,  \* release() was called
  log,       \* the lines of events.jsonl
  partial    \* whose line is unfinished in the log (None: a failed write's)

vars == <<life, pid, file, held, pc, goal, seen, cache, tail, released, log, partial>>

Garbled == -1

Up(w)   == life[Proc[w]] = "alive"
Busy(p) == \E w \in Writers : Proc[w] = p /\ pc[w] \notin {"idle", "scope"}
Free(w) == Up(w) /\ ~Busy(Proc[w]) /\ pc[w] = "idle"

Init ==
  /\ life = [p \in Processes |-> "unborn"]
  /\ pid = [p \in Processes |-> None]
  /\ file = None
  /\ held = {}
  /\ pc = [w \in Writers |-> "idle"]
  /\ goal = [w \in Writers |-> "append"]
  /\ seen = [w \in Writers |-> None]
  /\ cache = [w \in Writers |-> None]
  /\ tail = [w \in Writers |-> 0]
  /\ released = [w \in Writers |-> FALSE]
  /\ log = <<>>
  /\ partial = {}

-----------------------------------------------------------------------------
(* A process starts, under a PID that is free, or dies where it stands. *)
Start(p) ==
  /\ life[p] = "unborn"
  /\ \E n \in Pids :
       /\ \A q \in Processes : pid[q] = n => life[q] # "alive"
       /\ pid' = [pid EXCEPT ![p] = n]
  /\ life' = [life EXCEPT ![p] = "alive"]
  /\ UNCHANGED <<file, held, pc, goal, seen, cache, tail, released, log, partial>>

Crash(p) ==
  /\ p \in CanCrash /\ life[p] = "alive"
  /\ life' = [life EXCEPT ![p] = "dead"]
  /\ held' = {w \in held : Proc[w] # p}
  /\ pc' = [w \in Writers |-> IF Proc[w] = p THEN "idle" ELSE pc[w]]
  /\ goal' = [w \in Writers |-> IF Proc[w] = p THEN "append" ELSE goal[w]]
  /\ seen' = [w \in Writers |-> IF Proc[w] = p THEN None ELSE seen[w]]
  /\ cache' = [w \in Writers |-> IF Proc[w] = p THEN None ELSE cache[w]]
  /\ tail' = [w \in Writers |-> IF Proc[w] = p THEN 0 ELSE tail[w]]
  /\ UNCHANGED <<pid, file, released, log, partial>>

-----------------------------------------------------------------------------
(* appendEvent() behind the writer's own mutex, or withAuditWriterLock()   *)
(* with a writer id of its own.                                            *)
StartAppend(w) ==
  /\ Free(w)
  /\ goal' = [goal EXCEPT ![w] = "append"]
  /\ pc' = [pc EXCEPT ![w] = IF w \in held THEN "check" ELSE "link1"]
  /\ UNCHANGED <<life, pid, file, held, seen, cache, tail, released, log, partial>>

StartScope(w) ==
  /\ Free(w) /\ w \notin held /\ cache[w] = None /\ ~released[w]
  /\ goal' = [goal EXCEPT ![w] = "scope"]
  /\ pc' = [pc EXCEPT ![w] = "link1"]
  /\ UNCHANGED <<life, pid, file, held, seen, cache, tail, released, log, partial>>

(* finally: a writer that was released meanwhile gives its lock back. *)
Finally(w) ==
  /\ pc' = [pc EXCEPT ![w] = IF released[w] /\ w \in held THEN "relcheck" ELSE "idle"]
  /\ held' = IF released[w] THEN held \ {w} ELSE held

(* The locals of the span are gone. *)
Forget(w) ==
  /\ goal' = [goal EXCEPT ![w] = "append"]
  /\ seen' = [seen EXCEPT ![w] = None]
  /\ tail' = [tail EXCEPT ![w] = 0]

MutantEnds(w) == Finally(w) /\ Forget(w) /\ UNCHANGED cache

(* An append that throws: the cached tail is dropped. *)
Ends(w) == Finally(w) /\ Forget(w) /\ cache' = [cache EXCEPT ![w] = None]

(* The lock is this writer's: on to the append, or to the scoped function. *)
Acquired(w) ==
  /\ pc' = [pc EXCEPT ![w] = IF goal[w] = "append" THEN "tail" ELSE "scope"]
  /\ Forget(w)

(* A writer with a registered lock first looks whether the file is its own. *)
CheckOwn(w) ==
  /\ Up(w) /\ pc[w] = "check"
  /\ pc' = [pc EXCEPT ![w] = IF file = w THEN "tail" ELSE "link1"]
  /\ UNCHANGED <<life, pid, file, held, goal, seen, cache, tail, released, log, partial>>

(* createLock(): link() of the complete temp file fails if the name is     *)
(* taken. The second attempt of an acquire reports that as held.           *)
Link(w) ==
  /\ Up(w) /\ pc[w] \in {"link1", "link2"}
  /\ \/ /\ file = None
        /\ file' = w
        /\ pc' = [pc EXCEPT ![w] = "verify"]
        /\ UNCHANGED <<held, goal, seen, cache, tail>>
     \/ /\ file # None /\ pc[w] = "link1"
        /\ pc' = [pc EXCEPT ![w] = "read"]
        /\ UNCHANGED <<file, held, goal, seen, cache, tail>>
     \/ /\ file # None /\ pc[w] = "link2"
        /\ Ends(w)
        /\ UNCHANGED file
  /\ UNCHANGED <<life, pid, released, log, partial>>

(* The create counts only if the path now holds the very file it made. It  *)
(* is then registered, and a created lock clears the cached tail.          *)
VerifyLink(w) ==
  /\ Up(w) /\ pc[w] = "verify"
  /\ \/ /\ file = w
        /\ held' = held \cup {w}
        /\ cache' = [cache EXCEPT ![w] = None]
        /\ Acquired(w)
     \/ file # w /\ Ends(w)
  /\ UNCHANGED <<life, pid, file, released, log, partial>>

(* liveHolderOf(): a live writer of this process holds the file. *)
HeldHere(w, f) == f \in held /\ Proc[f] = Proc[w]

(* Whose lock is it? Gone, a live sibling's (refused), or one to be judged. *)
ReadLock(w) ==
  /\ Up(w) /\ pc[w] = "read"
  /\ \/ /\ file = None
        /\ pc' = [pc EXCEPT ![w] = "link2"]
        /\ UNCHANGED <<held, goal, seen, cache, tail>>
     \/ /\ file # None /\ ~HeldHere(w, file)
        /\ seen' = [seen EXCEPT ![w] = file]
        /\ pc' = [pc EXCEPT ![w] = "probe"]
        /\ UNCHANGED <<held, goal, cache, tail>>
     \/ /\ file # None /\ HeldHere(w, file)
        /\ Ends(w)
  /\ UNCHANGED <<life, pid, file, released, log, partial>>

MutantStale(w) == TRUE

MutantStaleForeign(w) ==
  LET n == pid[Proc[seen[w]]] IN
  \A p \in Processes : pid[p] = n => life[p] # "alive"

(* tryCleanStaleLock(): this process's own PID, with no live writer here   *)
(* behind the file, or a PID that kill(pid, 0) does not find.              *)
Stale(w) ==
  LET n == pid[Proc[seen[w]]] IN
  \/ n = pid[Proc[w]]
  \/ \A p \in Processes : pid[p] = n => life[p] # "alive"

Probe(w) ==
  /\ Up(w) /\ pc[w] = "probe"
  /\ \/ /\ Stale(w)
        /\ pc' = [pc EXCEPT ![w] = "unlink"]
        /\ seen' = [seen EXCEPT ![w] = None]
        /\ UNCHANGED <<held, goal, cache, tail>>
     \/ ~Stale(w) /\ Ends(w)
  /\ UNCHANGED <<life, pid, file, released, log, partial>>

(* The cleanup's unlink is by path: it removes whatever is there by now.   *)
(* If nothing is, it throws, and the catch-all unlinks once more.          *)
Unlink(w) ==
  /\ Up(w) /\ pc[w] \in {"unlink", "unlink2"}
  /\ file' = None
  /\ pc' = [pc EXCEPT ![w] =
              IF pc[w] = "unlink" /\ file = None THEN "unlink2" ELSE "link2"]
  /\ UNCHANGED <<life, pid, held, goal, seen, cache, tail, released, log, partial>>

-----------------------------------------------------------------------------
(* getLastEvent(): the cached tail, or the log's; a torn log is refused. *)
ReadTail(w) ==
  /\ Up(w) /\ pc[w] = "tail"
  /\ \/ /\ cache[w] # None
        /\ tail' = [tail EXCEPT ![w] = cache[w]]
        /\ pc' = [pc EXCEPT ![w] = "write"]
        /\ UNCHANGED <<held, goal, seen, cache>>
     \/ /\ cache[w] = None /\ partial = {}
        /\ tail' = [tail EXCEPT ![w] = Len(log)]
        /\ cache' = [cache EXCEPT ![w] = IF Len(log) = 0 THEN None ELSE Len(log)]
        /\ pc' = [pc EXCEPT ![w] = "write"]
        /\ UNCHANGED <<held, goal, seen>>
     \/ /\ cache[w] = None /\ partial # {}
        /\ Ends(w)
  /\ UNCHANGED <<life, pid, file, released, log, partial>>

(* writeFully() and fsync: the line is there in part, then complete. *)
WriteBegin(w) ==
  /\ Up(w) /\ pc[w] = "write"
  /\ partial' = partial \cup {w}
  /\ pc' = [pc EXCEPT ![w] = "writing"]
  /\ UNCHANGED <<life, pid, file, held, goal, seen, cache, tail, released, log>>

(* The line is complete, and cached as the log's last. *)
WriteEnd(w) ==
  /\ Up(w) /\ pc[w] = "writing" /\ Len(log) < MaxLog
  /\ log' = Append(log, IF partial = {w} THEN tail[w] ELSE Garbled)
  /\ partial' = partial \ {w}
  /\ cache' = [cache EXCEPT ![w] = tail[w] + 1]
  /\ pc' = [pc EXCEPT ![w] = "meta"]
  /\ Forget(w)
  /\ UNCHANGED <<life, pid, file, held, released>>

(* A write that fails leaves part of its line, or nothing. A log that has  *)
(* MaxLog lines is a full disk.                                            *)
WriteFails(w) ==
  /\ Up(w) /\ pc[w] = "writing" /\ (WriteFaults \/ Len(log) = MaxLog)
  /\ partial' \in {partial \ {w}, (partial \ {w}) \cup {None}}
  /\ Ends(w)
  /\ UNCHANGED <<life, pid, file, released, log>>

(* The .meta sidecar. If it fails the event is on the chain all the same,  *)
(* and the append throws.                                                  *)
MetaWritten(w) ==
  /\ Up(w) /\ pc[w] = "meta"
  /\ \/ Finally(w) /\ UNCHANGED <<goal, seen, cache, tail>>
     \/ WriteFaults /\ Ends(w)
  /\ UNCHANGED <<life, pid, file, released, log, partial>>

-----------------------------------------------------------------------------
(* restoreSnapshot() inside withAuditWriterLock(): the log is replaced by  *)
(* an earlier one, with no look at the lock; then the lock is released.    *)
ScopeRestore(w) ==
  /\ Up(w) /\ pc[w] = "scope" /\ ~Busy(Proc[w])
  /\ \E n \in 0 .. Len(log) : log' = SubSeq(log, 1, n)
  /\ partial' = {}
  /\ UNCHANGED <<life, pid, file, held, pc, goal, seen, cache, tail, released>>

ScopeEnd(w) ==
  /\ Up(w) /\ pc[w] = "scope" /\ ~Busy(Proc[w])
  /\ pc' = [pc EXCEPT ![w] = "relcheck"]
  /\ held' = held \ {w}
  /\ UNCHANGED <<life, pid, file, goal, seen, cache, tail, released, log, partial>>

(* release(): deregistered first, then the file is unlinked if it is still *)
(* this writer's.                                                          *)
Release(w) ==
  /\ Free(w) /\ ~released[w]
  /\ released' = [released EXCEPT ![w] = TRUE]
  /\ cache' = [cache EXCEPT ![w] = None]
  /\ held' = held \ {w}
  /\ pc' = [pc EXCEPT ![w] = IF w \in held THEN "relcheck" ELSE "idle"]
  /\ UNCHANGED <<life, pid, file, goal, seen, tail, log, partial>>

ReleaseCheck(w) ==
  /\ Up(w) /\ pc[w] = "relcheck"
  /\ pc' = [pc EXCEPT ![w] = IF file = w THEN "relunlink" ELSE "idle"]
  /\ UNCHANGED <<life, pid, file, held, goal, seen, cache, tail, released, log, partial>>

ReleaseUnlink(w) ==
  /\ Up(w) /\ pc[w] = "relunlink"
  /\ file' = None
  /\ pc' = [pc EXCEPT ![w] = "idle"]
  /\ UNCHANGED <<life, pid, held, goal, seen, cache, tail, released, log, partial>>

-----------------------------------------------------------------------------
Span(w) ==
  \/ CheckOwn(w) \/ Link(w) \/ VerifyLink(w) \/ ReadLock(w) \/ Probe(w) \/ Unlink(w)
  \/ ReadTail(w) \/ WriteBegin(w) \/ WriteEnd(w) \/ WriteFails(w) \/ MetaWritten(w)
  \/ ScopeEnd(w) \/ ReleaseCheck(w) \/ ReleaseUnlink(w)

Next ==
  \/ \E p \in Processes : Start(p) \/ Crash(p)
  \/ \E w \in Writers : \/ StartAppend(w) \/ StartScope(w) \/ Release(w)
                        \/ ScopeRestore(w) \/ Span(w)

Spec == Init /\ [][Next]_vars

(* Running processes run, and each writer keeps being asked to append. *)
FairSpec == /\ Spec
            /\ \A p \in Processes : WF_vars(Start(p))
            /\ \A w \in Writers : SF_vars(StartAppend(w)) /\ WF_vars(Span(w))

-----------------------------------------------------------------------------
Pcs == {"idle", "check", "link1", "verify", "read", "probe", "unlink", "unlink2", "link2", "tail",
        "write", "writing", "meta", "scope", "relcheck", "relunlink"}

(* Type correctness. *)
TypeOK ==
  /\ life \in [Processes -> {"unborn", "alive", "dead"}]
  /\ pid \in [Processes -> Pids \cup {None}]
  /\ file \in Writers \cup {None} /\ held \subseteq Writers
  /\ pc \in [Writers -> Pcs] /\ goal \in [Writers -> {"append", "scope"}]
  /\ seen \in [Writers -> Writers \cup {None}]
  /\ cache \in [Writers -> {None} \cup 0 .. MaxLog]
  /\ tail \in [Writers -> 0 .. MaxLog]
  /\ released \in [Writers -> BOOLEAN]
  /\ log \in Seq({Garbled} \cup 0 .. MaxLog) /\ Len(log) <= MaxLog
  /\ partial \subseteq Writers \cup {None}

(* Every line of the log is whole and is chained from the line before it:  *)
(* no fork and no line glued onto a torn one, whatever crashed, failed or  *)
(* was restored in between.                                                *)
ChainIntact == \A i \in DOMAIN log : log[i] = i - 1

InSpan(w) == Up(w) /\ pc[w] \in {"tail", "write", "writing", "scope"}

(* "Only one process may write to the audit log": of all writers, of one   *)
(* process or several, at most one is between its acquire and the end of   *)
(* its write.                                                              *)
ExclusiveWriter == \A v, w \in Writers : InSpan(v) /\ InSpan(w) => v = w

(* "Stale locks from crashed processes are reclaimed; live ones are never  *)
(* stolen": the lock file of a live, registered writer is removed by that  *)
(* writer only.                                                            *)
NeverStolen ==
  [][(file \in held /\ Up(file)) => file' = file]_vars

LeftBehind == file # None /\ life[Proc[file]] = "dead"

(* A lock left behind by a crash does not stay while a process lives whose *)
(* writers keep trying: neither under another PID, nor under the one that  *)
(* died (PID 1 of a restarted container), which kill(pid, 0) finds alive.  *)
StaleReclaimed == LeftBehind ~> (~LeftBehind \/ \A p \in Processes : life[p] = "dead")
=============================================================================
