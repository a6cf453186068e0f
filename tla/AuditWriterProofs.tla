-------------------------- MODULE AuditWriterProofs --------------------------
(***************************************************************************)
(* The writer lock of module AuditWriter excludes, and the audit chain it  *)
(* protects is intact, for every number of processes, writers and lines,   *)
(* as long as no crash leaves two processes to judge one lock              *)
(* (AtMostOneSurvivor). The race of two survivors, which breaks the lock,  *)
(* is what MCAuditWriterStaleRace shows.                                   *)
(***************************************************************************)
EXTENDS AuditWriter, SequenceTheorems, TLAPS

(* A process that may crash leaves at most one other. *)
AtMostOneSurvivor ==
  \A p \in CanCrash : \A q, r \in Processes \ {p} : q = r

-----------------------------------------------------------------------------
(* The invariant. *)

Quiet(w) == pc[w] \in {"idle", "scope"}

(* The writers of one process take turns. *)
Turns == \A v, w \in Writers : v # w /\ Proc[v] = Proc[w] => Quiet(v) \/ Quiet(w)

(* A process that is not running has no writer at work and none            *)
(* registered; only one that may crash is dead; PIDs of the living differ. *)
Lives ==
  /\ \A w \in Writers : ~Up(w) => pc[w] = "idle" /\ w \notin held
  /\ \A p \in Processes : life[p] = "dead" => p \in CanCrash
  /\ \A p, q \in Processes : life[p] = "alive" /\ life[q] = "alive" /\ pid[p] = pid[q] => p = q

(* Whose the lock file is, by where a writer stands. *)
Owned ==
  /\ \A w \in held : file = w
  /\ \A w \in Writers :
       /\ pc[w] \in {"check", "tail", "write", "writing", "meta", "scope"} => w \in held
       /\ pc[w] \in {"verify", "relcheck", "relunlink"} => file = w /\ w \notin held
       /\ file = w /\ Up(w) /\ w \notin held => pc[w] \in {"verify", "relcheck", "relunlink"}
       /\ file = w => life[Proc[w]] # "unborn"

(* What a writer that reclaims a stale lock knows: the lock it read was    *)
(* not its own process's, and once it was judged, a process is dead.       *)
Judged ==
  \A w \in Writers :
    /\ pc[w] \in {"probe", "unlink", "unlink2"} =>
         \A v \in Writers : Proc[v] = Proc[w] => file # v
    /\ pc[w] = "probe" =>
         seen[w] \in Writers /\ Proc[seen[w]] # Proc[w] /\ life[Proc[seen[w]]] # "unborn"
    /\ pc[w] \in {"unlink", "unlink2"} => \E p \in Processes : life[p] = "dead"

(* What the holder of the lock knows of the log. *)
KnowsLog ==
  /\ \A w \in held :
       cache[w] # None => cache[w] = Len(log) /\ (pc[w] # "writing" => partial = {})
  /\ \A w \in Writers :
       /\ pc[w] = "scope" => cache[w] = None
       /\ pc[w] = "write" => partial = {}
       /\ pc[w] = "writing" => partial = {w}
       /\ pc[w] \in {"write", "writing"} => tail[w] = Len(log)

LockInv == Turns /\ Lives /\ Owned /\ Judged
WriterInv == TypeOK /\ LockInv /\ KnowsLog /\ ChainIntact

USE AuditWriterAssumption DEF AuditWriterAssumption

(* A writer that forgets what it read keeps the types. *)
LEMMA ForgetTypes ==
  ASSUME TypeOK, NEW w \in Writers, Forget(w)
  PROVE  /\ goal' \in [Writers -> {"append", "scope"}]
         /\ seen' \in [Writers -> Writers \cup {None}]
         /\ tail' \in [Writers -> 0 .. MaxLog]
  BY DEF TypeOK, Forget

(* A span that throws, or ends with a release still to do. *)
LEMMA EndsKeeps ==
  ASSUME TypeOK, LockInv, NEW w \in Writers, Up(w), ~Quiet(w), file = w => w \in held,
         Ends(w), UNCHANGED <<life, pid, file, released>>
  PROVE  /\ held' \subseteq Writers /\ pc' \in [Writers -> Pcs]
         /\ goal' \in [Writers -> {"append", "scope"}]
         /\ seen' \in [Writers -> Writers \cup {None}]
         /\ cache' \in [Writers -> {None} \cup 0 .. MaxLog]
         /\ tail' \in [Writers -> 0 .. MaxLog]
         /\ LockInv'
<1>1. /\ held' \subseteq Writers /\ pc' \in [Writers -> Pcs]
      /\ pc'[w] \in {"idle", "relcheck"} /\ (pc'[w] = "relcheck" <=> released[w] /\ w \in held)
      /\ \A v \in Writers \ {w} : pc'[v] = pc[v] /\ (v \in held' <=> v \in held)
      /\ w \in held' <=> w \in held /\ ~released[w]
  BY DEF TypeOK, Pcs, Ends, Finally
<1>2. /\ goal' \in [Writers -> {"append", "scope"}]
      /\ tail' \in [Writers -> 0 .. MaxLog]
  BY DEF TypeOK, Ends, Forget
<1>3. /\ seen' \in [Writers -> Writers \cup {None}]
      /\ \A v \in Writers \ {w} : seen'[v] = seen[v]
  BY DEF TypeOK, Ends, Forget
<1>4. cache' \in [Writers -> {None} \cup 0 .. MaxLog]
  BY DEF TypeOK, Ends
<1>5. Turns'
  BY <1>1 DEF LockInv, Turns, Quiet
<1>6. Lives'
  BY <1>1 DEF LockInv, Lives, Up
<1>7. Owned'
  <2>1. \A v \in held' : file' = v
    BY <1>1 DEF LockInv, Owned
  <2>2. ASSUME NEW v \in Writers \ {w}
        PROVE  /\ pc'[v] \in {"check", "tail", "write", "writing", "meta", "scope"} => v \in held'
               /\ pc'[v] \in {"verify", "relcheck", "relunlink"} => file' = v /\ v \notin held'
               /\ file' = v /\ Up(v)' /\ v \notin held' =>
                    pc'[v] \in {"verify", "relcheck", "relunlink"}
               /\ file' = v => life'[Proc[v]] # "unborn"
    BY <1>1, <2>2 DEF LockInv, Owned, Up
  <2>3. /\ pc'[w] = "relcheck" => file' = w /\ w \notin held'
        /\ file' = w /\ w \notin held' => pc'[w] = "relcheck"
        /\ file' = w => life'[Proc[w]] # "unborn"
    BY <1>1 DEF LockInv, Owned
  <2>4. QED
    BY <1>1, <2>1, <2>2, <2>3 DEF Owned
<1>8. Judged'
  BY <1>1, <1>3 DEF LockInv, Turns, Quiet, Judged
<1>9. QED
  BY <1>1, <1>2, <1>3, <1>4, <1>5, <1>6, <1>7, <1>8 DEF LockInv

(* Whether the lock is held here already is read, and nothing else. *)
LEMMA CheckOwnKeeps ==
  ASSUME TypeOK, LockInv, AtMostOneSurvivor, NEW w \in Writers, CheckOwn(w)
  PROVE  TypeOK' /\ LockInv'
<1>1. TypeOK'
  BY DEF TypeOK, Pcs, CheckOwn
<1>2. Turns'
  BY DEF TypeOK, LockInv, Turns, Quiet, CheckOwn
<1>3. Lives'
  BY DEF TypeOK, LockInv, Lives, Up, CheckOwn
<1>4. Owned'
  BY DEF TypeOK, LockInv, Turns, Quiet, Lives, Owned, Up, CheckOwn
<1>5. Judged'
  BY DEF TypeOK, LockInv, Turns, Quiet, Lives, Owned, Judged, Up, CheckOwn
<1>6. QED
  BY <1>1, <1>2, <1>3, <1>4, <1>5 DEF LockInv

(* link(2) makes a lock only where there is none. *)
LEMMA LinkKeeps ==
  ASSUME TypeOK, LockInv, AtMostOneSurvivor, NEW w \in Writers, Link(w)
  PROVE  TypeOK' /\ LockInv'
<1>1. CASE file = None
  <2> USE <1>1
  <2>0. \A v \in Writers : ~Quiet(v) /\ v # w => Proc[v] # Proc[w]
    BY DEF LockInv, Turns, Quiet, Link
  <2>1. TypeOK'
    BY DEF TypeOK, Pcs, Link
  <2>2. Turns'
    BY DEF TypeOK, LockInv, Turns, Quiet, Link
  <2>3. Lives'
    BY DEF TypeOK, LockInv, Lives, Up, Link
  <2>4. Owned'
    BY DEF TypeOK, LockInv, Turns, Quiet, Lives, Owned, Up, Link
  <2>5. Judged'
    <3>1. file' = w /\ pc' = [pc EXCEPT ![w] = "verify"] /\ UNCHANGED <<life, seen>>
      BY DEF Link
    <3>2. QED
      BY <2>0, <3>1 DEF TypeOK, LockInv, Quiet, Judged
  <2>6. QED
    BY <2>1, <2>2, <2>3, <2>4, <2>5 DEF LockInv
<1>2. CASE file # None /\ pc[w] = "link1"
  <2> USE <1>2
  <2>0. /\ Up(w) /\ pc' = [pc EXCEPT ![w] = "read"]
        /\ UNCHANGED <<goal, seen, cache, tail, life, pid, file, held, released, log, partial>>
    BY DEF Link
  <2>1. TypeOK'
    BY <2>0 DEF TypeOK, Pcs
  <2>2. Turns'
    BY <2>0 DEF TypeOK, LockInv, Turns, Quiet
  <2>3. Lives'
    BY <2>0 DEF TypeOK, LockInv, Lives, Up
  <2>4. Owned'
    BY <2>0 DEF TypeOK, LockInv, Turns, Quiet, Lives, Owned, Up
  <2>5. Judged'
    BY <2>0 DEF TypeOK, LockInv, Turns, Quiet, Lives, Owned, Judged, Up
  <2>6. QED
    BY <2>1, <2>2, <2>3, <2>4, <2>5 DEF LockInv
<1>3. CASE file # None /\ pc[w] = "link2"
  <2>1. Ends(w) /\ UNCHANGED <<life, pid, file, released>> /\ Up(w) /\ ~Quiet(w)
        /\ UNCHANGED log /\ partial' \subseteq Writers \cup {None} /\ (file = w => w \in held)
    BY <1>3 DEF TypeOK, LockInv, Owned, Quiet, Link
  <2>2. QED
    BY <2>1, EndsKeeps DEF TypeOK
<1>4. QED
  BY <1>1, <1>2, <1>3 DEF Link

(* A writer that made the lock holds it if it is still its own. *)
LEMMA VerifyLinkKeeps ==
  ASSUME TypeOK, LockInv, AtMostOneSurvivor, NEW w \in Writers, VerifyLink(w)
  PROVE  TypeOK' /\ LockInv'
<1>1. CASE file = w
  <2> USE <1>1
  <2>1. TypeOK'
    BY ForgetTypes DEF TypeOK, Pcs, VerifyLink, Acquired
  <2>2. Turns'
    BY DEF TypeOK, LockInv, Turns, Quiet, VerifyLink, Acquired, Forget
  <2>3. Lives'
    BY DEF TypeOK, LockInv, Lives, Up, VerifyLink, Acquired, Forget
  <2>4. Owned'
    BY DEF TypeOK, LockInv, Turns, Quiet, Lives, Owned, Up, VerifyLink, Acquired, Forget
  <2>5. Judged'
    BY DEF TypeOK, LockInv, Turns, Quiet, Lives, Owned, Judged, Up, VerifyLink, Acquired, Forget
  <2>6. QED
    BY <2>1, <2>2, <2>3, <2>4, <2>5 DEF LockInv
<1>2. CASE file # w
  <2>1. Ends(w) /\ UNCHANGED <<life, pid, file, released>> /\ Up(w) /\ ~Quiet(w)
        /\ UNCHANGED log /\ partial' \subseteq Writers \cup {None} /\ (file = w => w \in held)
    BY <1>2 DEF TypeOK, LockInv, Owned, Quiet, VerifyLink
  <2>2. QED
    BY <2>1, EndsKeeps DEF TypeOK
<1>3. QED
  BY <1>1, <1>2 DEF VerifyLink

(* The lock that is read and not held here is another process's. *)
LEMMA ReadLockKeeps ==
  ASSUME TypeOK, LockInv, AtMostOneSurvivor, NEW w \in Writers, ReadLock(w)
  PROVE  TypeOK' /\ LockInv'
<1>1. CASE file = None
  <2> USE <1>1
  <2>1. TypeOK'
    BY DEF TypeOK, Pcs, ReadLock
  <2>2. Turns'
    BY DEF TypeOK, LockInv, Turns, Quiet, ReadLock
  <2>3. Lives'
    BY DEF TypeOK, LockInv, Lives, Up, ReadLock
  <2>4. Owned'
    BY DEF TypeOK, LockInv, Turns, Quiet, Lives, Owned, Up, ReadLock
  <2>5. Judged'
    BY DEF TypeOK, LockInv, Turns, Quiet, Lives, Owned, Judged, Up, ReadLock
  <2>6. QED
    BY <2>1, <2>2, <2>3, <2>4, <2>5 DEF LockInv
<1>2. CASE file # None /\ ~HeldHere(w, file)
  <2> USE <1>2
  <2>0. /\ pc[w] = "read" /\ Up(w) /\ file \in Writers /\ pc' = [pc EXCEPT ![w] = "probe"]
        /\ seen' = [seen EXCEPT ![w] = file] /\ UNCHANGED <<life, pid, file, held>>
        /\ UNCHANGED <<goal, cache, tail, released, log, partial>>
    BY DEF TypeOK, ReadLock
  <2>1. TypeOK'
    BY <2>0 DEF TypeOK, Pcs
  <2>2. Turns'
    BY <2>0 DEF TypeOK, LockInv, Turns, Quiet
  <2>3. Lives'
    BY <2>0 DEF TypeOK, LockInv, Lives, Up
  <2>4. Owned'
    BY <2>0 DEF TypeOK, LockInv, Owned, Up
  <2>5. \A v \in Writers : Proc[v] = Proc[w] => file # v
    <3> SUFFICES ASSUME NEW v \in Writers, Proc[v] = Proc[w], file = v PROVE FALSE
      OBVIOUS
    <3>1. Up(v) /\ pc[v] \notin {"verify", "relcheck", "relunlink"}
      BY <2>0 DEF LockInv, Turns, Quiet, Up
    <3>2. v \in held
      BY <3>1 DEF LockInv, Owned
    <3>3. QED
      BY <3>2 DEF HeldHere
  <2>6. Judged'
    BY <2>0, <2>5 DEF TypeOK, LockInv, Owned, Judged
  <2>7. QED
    BY <2>1, <2>2, <2>3, <2>4, <2>6 DEF LockInv
<1>3. CASE file # None /\ HeldHere(w, file)
  <2>1. Ends(w) /\ UNCHANGED <<life, pid, file, released>> /\ Up(w) /\ ~Quiet(w)
        /\ UNCHANGED log /\ partial' \subseteq Writers \cup {None} /\ (file = w => w \in held)
    BY <1>3 DEF TypeOK, LockInv, Owned, Quiet, ReadLock
  <2>2. QED
    BY <2>1, EndsKeeps DEF TypeOK
<1>4. QED
  BY <1>1, <1>2, <1>3 DEF ReadLock

(* A lock judged stale and removed is no live writer's: the one process    *)
(* that is left would have to be its owner's and its remover's.            *)
LEMMA UnlinkForeign ==
  ASSUME TypeOK, LockInv, AtMostOneSurvivor, NEW w \in Writers, Unlink(w)
  PROVE  \A v \in Writers : file = v => ~Up(v)
<1> SUFFICES ASSUME NEW v \in Writers, file = v, Up(v) PROVE FALSE
  OBVIOUS
<1>1. Proc[v] # Proc[w] /\ Up(w)
  BY DEF LockInv, Judged, Unlink
<1>2. PICK p \in Processes : life[p] = "dead"
  BY DEF LockInv, Judged, Unlink
<1>3. p \in CanCrash /\ {Proc[v], Proc[w]} \subseteq Processes \ {p}
  BY <1>1, <1>2 DEF LockInv, Lives, Up
<1>4. QED
  BY <1>1, <1>3 DEF AtMostOneSurvivor

(* A stale lock removed is no live writer's. *)
LEMMA UnlinkKeeps ==
  ASSUME TypeOK, LockInv, AtMostOneSurvivor, NEW w \in Writers, Unlink(w)
  PROVE  TypeOK' /\ LockInv'
<1>1. TypeOK'
  BY DEF TypeOK, Pcs, Unlink
<1>2. Turns'
  BY DEF TypeOK, LockInv, Turns, Quiet, Unlink
<1>3. Lives'
  BY DEF TypeOK, LockInv, Lives, Up, Unlink
<1>4. Owned'
  <2>1. \A v \in Writers : file = v => ~Up(v)
    BY UnlinkForeign
  <2>2. \A v \in Writers : Quiet(v) \/ Up(v)
    BY DEF LockInv, Lives, Quiet
  <2>3. \A v \in Writers : v \notin held /\ pc[v] \notin {"verify", "relcheck", "relunlink"}
    BY <2>1, <2>2 DEF LockInv, Lives, Owned, Quiet
  <2>4. QED
    BY <2>3 DEF TypeOK, LockInv, Lives, Owned, Unlink
<1>5. Judged'
  BY DEF TypeOK, LockInv, Turns, Quiet, Lives, Owned, Judged, Up, Unlink
<1>6. QED
  BY <1>1, <1>2, <1>3, <1>4, <1>5 DEF LockInv

(* The tail is read from the cache, or from the log. *)
LEMMA ReadTailKeeps ==
  ASSUME TypeOK, LockInv, AtMostOneSurvivor, NEW w \in Writers, ReadTail(w)
  PROVE  TypeOK' /\ LockInv'
<1>1. CASE cache[w] # None
  <2> USE <1>1
  <2>0. /\ Up(w) /\ pc[w] = "tail" /\ pc' = [pc EXCEPT ![w] = "write"]
        /\ tail' = [tail EXCEPT ![w] = cache[w]]
        /\ UNCHANGED <<goal, seen, cache, life, pid, file, held, released, log, partial>>
    BY DEF ReadTail
  <2>1. TypeOK'
    <3>1. cache[w] \in 0 .. MaxLog
      BY DEF TypeOK
    <3>2. tail' = [tail EXCEPT ![w] = cache[w]]
      BY <2>0
    <3>3. tail' \in [Writers -> 0 .. MaxLog]
      BY <3>1, <3>2 DEF TypeOK
    <3>4. QED
      BY <2>0, <3>3 DEF TypeOK, Pcs
  <2>2. Turns'
    BY <2>0 DEF TypeOK, LockInv, Turns, Quiet
  <2>3. Lives'
    BY <2>0 DEF TypeOK, LockInv, Lives, Up
  <2>4. Owned'
    BY <2>0 DEF TypeOK, LockInv, Turns, Quiet, Lives, Owned, Up
  <2>5. Judged'
    BY <2>0 DEF TypeOK, LockInv, Turns, Quiet, Lives, Owned, Judged, Up
  <2>6. QED
    BY <2>1, <2>2, <2>3, <2>4, <2>5 DEF LockInv
<1>2. CASE cache[w] = None /\ partial = {}
  <2> USE <1>2
  <2>0. /\ Up(w) /\ pc[w] = "tail" /\ pc' = [pc EXCEPT ![w] = "write"]
        /\ tail' = [tail EXCEPT ![w] = Len(log)]
        /\ cache' = [cache EXCEPT ![w] = IF Len(log) = 0 THEN None ELSE Len(log)]
        /\ UNCHANGED <<goal, seen, life, pid, file, held, released, log, partial>>
    BY DEF ReadTail
  <2>1. TypeOK'
    <3>1. Len(log) \in 0 .. MaxLog
      BY DEF TypeOK
    <3>2. /\ tail' = [tail EXCEPT ![w] = Len(log)]
          /\ \E n \in {None} \cup 0 .. MaxLog : cache' = [cache EXCEPT ![w] = n]
      BY <2>0, <3>1
    <3>3. tail' \in [Writers -> 0 .. MaxLog] /\ cache' \in [Writers -> {None} \cup 0 .. MaxLog]
      BY <3>1, <3>2 DEF TypeOK
    <3>4. QED
      BY <2>0, <3>3 DEF TypeOK, Pcs
  <2>2. Turns'
    BY <2>0 DEF TypeOK, LockInv, Turns, Quiet
  <2>3. Lives'
    BY <2>0 DEF TypeOK, LockInv, Lives, Up
  <2>4. Owned'
    BY <2>0 DEF TypeOK, LockInv, Turns, Quiet, Lives, Owned, Up
  <2>5. Judged'
    BY <2>0 DEF TypeOK, LockInv, Turns, Quiet, Lives, Owned, Judged, Up
  <2>6. QED
    BY <2>1, <2>2, <2>3, <2>4, <2>5 DEF LockInv
<1>3. CASE cache[w] = None /\ partial # {}
  <2>1. Ends(w) /\ UNCHANGED <<life, pid, file, released>> /\ Up(w) /\ ~Quiet(w)
        /\ UNCHANGED log /\ partial' \subseteq Writers \cup {None} /\ (file = w => w \in held)
    BY <1>3 DEF TypeOK, LockInv, Owned, Quiet, ReadTail
  <2>2. QED
    BY <2>1, EndsKeeps DEF TypeOK
<1>4. QED
  BY <1>1, <1>2, <1>3 DEF ReadTail

(* A line starts to be written by the holder of the lock. *)
LEMMA WriteBeginKeeps ==
  ASSUME TypeOK, LockInv, AtMostOneSurvivor, NEW w \in Writers, WriteBegin(w)
  PROVE  TypeOK' /\ LockInv'
<1>1. TypeOK'
  BY DEF TypeOK, Pcs, WriteBegin
<1>2. Turns'
  BY DEF TypeOK, LockInv, Turns, Quiet, WriteBegin
<1>3. Lives'
  BY DEF TypeOK, LockInv, Lives, Up, WriteBegin
<1>4. Owned'
  BY DEF TypeOK, LockInv, Turns, Quiet, Lives, Owned, Up, WriteBegin
<1>5. Judged'
  BY DEF TypeOK, LockInv, Turns, Quiet, Lives, Owned, Judged, Up, WriteBegin
<1>6. QED
  BY <1>1, <1>2, <1>3, <1>4, <1>5 DEF LockInv

(* A line is written whole, and cached as the last. *)
LEMMA WriteEndKeeps ==
  ASSUME TypeOK, LockInv, KnowsLog, AtMostOneSurvivor, NEW w \in Writers, WriteEnd(w)
  PROVE  TypeOK' /\ LockInv'
<1>1. TypeOK'
  <2>1. cache' \in [Writers -> {None} \cup 0 .. MaxLog]
    BY DEF TypeOK, KnowsLog, WriteEnd
  <2>2. log' \in Seq({Garbled} \cup 0 .. MaxLog) /\ Len(log') <= MaxLog
    BY DEF TypeOK, WriteEnd
  <2>3. QED
    BY <2>1, <2>2, ForgetTypes DEF TypeOK, Pcs, WriteEnd
<1>2. Turns'
  BY DEF TypeOK, LockInv, Turns, Quiet, WriteEnd, Forget
<1>3. Lives'
  BY DEF TypeOK, LockInv, Lives, Up, WriteEnd, Forget
<1>4. Owned'
  BY DEF TypeOK, LockInv, Turns, Quiet, Lives, Owned, Up, WriteEnd, Forget
<1>5. Judged'
  BY DEF TypeOK, LockInv, Turns, Quiet, Lives, Owned, Judged, Up, WriteEnd, Forget
<1>6. QED
  BY <1>1, <1>2, <1>3, <1>4, <1>5 DEF LockInv

(* A write that fails ends the span, and the lock stays. *)
LEMMA WriteFailsKeeps ==
  ASSUME TypeOK, LockInv, AtMostOneSurvivor, NEW w \in Writers, WriteFails(w)
  PROVE  TypeOK' /\ LockInv'
<1>1. CASE TRUE
  <2>1. Ends(w) /\ UNCHANGED <<life, pid, file, released>> /\ Up(w) /\ ~Quiet(w)
        /\ UNCHANGED log /\ partial' \subseteq Writers \cup {None} /\ (file = w => w \in held)
    BY <1>1 DEF TypeOK, LockInv, Owned, Quiet, WriteFails
  <2>2. QED
    BY <2>1, EndsKeeps DEF TypeOK
<1>2. QED
  BY <1>1 DEF WriteFails

(* The .meta sidecar is written or not, and the append is over. *)
LEMMA MetaWrittenKeeps ==
  ASSUME TypeOK, LockInv, AtMostOneSurvivor, NEW w \in Writers, MetaWritten(w)
  PROVE  TypeOK' /\ LockInv'
<1>1. CASE Finally(w) /\ UNCHANGED <<goal, seen, cache, tail>>
  <2> USE <1>1
  <2>1. TypeOK'
    BY DEF TypeOK, Pcs, MetaWritten, Finally
  <2>2. Turns'
    BY DEF TypeOK, LockInv, Turns, Quiet, MetaWritten, Finally
  <2>3. Lives'
    BY DEF TypeOK, LockInv, Lives, Up, MetaWritten, Finally
  <2>4. Owned'
    BY DEF TypeOK, LockInv, Turns, Quiet, Lives, Owned, Up, MetaWritten, Finally
  <2>5. Judged'
    BY DEF TypeOK, LockInv, Turns, Quiet, Lives, Owned, Judged, Up, MetaWritten, Finally
  <2>6. QED
    BY <2>1, <2>2, <2>3, <2>4, <2>5 DEF LockInv
<1>2. CASE WriteFaults /\ Ends(w)
  <2>1. Ends(w) /\ UNCHANGED <<life, pid, file, released>> /\ Up(w) /\ ~Quiet(w)
        /\ UNCHANGED log /\ partial' \subseteq Writers \cup {None} /\ (file = w => w \in held)
    BY <1>2 DEF TypeOK, LockInv, Owned, Quiet, MetaWritten
  <2>2. QED
    BY <2>1, EndsKeeps DEF TypeOK
<1>3. QED
  BY <1>1, <1>2 DEF MetaWritten

(* An append starts where its process has no other writer at work. *)
LEMMA StartAppendKeeps ==
  ASSUME TypeOK, LockInv, AtMostOneSurvivor, NEW w \in Writers, StartAppend(w)
  PROVE  TypeOK' /\ LockInv'
<1>1. TypeOK'
  BY DEF TypeOK, Pcs, StartAppend, Free, Busy, Up
<1>2. Turns'
  BY DEF TypeOK, LockInv, Turns, Quiet, StartAppend, Free, Busy, Up
<1>3. Lives'
  BY DEF TypeOK, LockInv, Lives, Up, StartAppend, Free, Busy, Up
<1>4. Owned'
  BY DEF TypeOK, LockInv, Turns, Quiet, Lives, Owned, Up, StartAppend, Free, Busy, Up
<1>5. Judged'
  BY DEF TypeOK, LockInv, Turns, Quiet, Lives, Owned, Judged, Up, StartAppend, Free, Busy, Up
<1>6. QED
  BY <1>1, <1>2, <1>3, <1>4, <1>5 DEF LockInv

(* So does a scope. *)
LEMMA StartScopeKeeps ==
  ASSUME TypeOK, LockInv, AtMostOneSurvivor, NEW w \in Writers, StartScope(w)
  PROVE  TypeOK' /\ LockInv'
<1>1. TypeOK'
  BY DEF TypeOK, Pcs, StartScope, Free, Busy
<1>2. Turns'
  BY DEF TypeOK, LockInv, Turns, Quiet, StartScope, Free, Busy
<1>3. Lives'
  BY DEF TypeOK, LockInv, Lives, Up, StartScope, Free, Busy
<1>4. Owned'
  BY DEF TypeOK, LockInv, Turns, Quiet, Lives, Owned, Up, StartScope, Free, Busy
<1>5. Judged'
  BY DEF TypeOK, LockInv, Turns, Quiet, Lives, Owned, Judged, Up, StartScope, Free, Busy
<1>6. QED
  BY <1>1, <1>2, <1>3, <1>4, <1>5 DEF LockInv

(* An idle writer is released for good, and gives its lock back. *)
LEMMA ReleaseKeeps ==
  ASSUME TypeOK, LockInv, AtMostOneSurvivor, NEW w \in Writers, Release(w)
  PROVE  TypeOK' /\ LockInv'
<1>1. TypeOK'
  BY DEF TypeOK, Pcs, Release, Free, Busy
<1>2. Turns'
  BY DEF TypeOK, LockInv, Turns, Quiet, Release, Free, Busy
<1>3. Lives'
  BY DEF TypeOK, LockInv, Lives, Up, Release, Free, Busy
<1>4. Owned'
  BY DEF TypeOK, LockInv, Turns, Quiet, Lives, Owned, Up, Release, Free, Busy
<1>5. Judged'
  BY DEF TypeOK, LockInv, Turns, Quiet, Lives, Owned, Judged, Up, Release, Free, Busy
<1>6. QED
  BY <1>1, <1>2, <1>3, <1>4, <1>5 DEF LockInv

(* A scope under way puts the log back. *)
LEMMA ScopeRestoreKeeps ==
  ASSUME TypeOK, LockInv, AtMostOneSurvivor, NEW w \in Writers, ScopeRestore(w)
  PROVE  TypeOK' /\ LockInv'
<1>1. TypeOK'
  BY DEF TypeOK, Pcs, ScopeRestore, Busy
<1>2. Turns'
  BY DEF TypeOK, LockInv, Turns, Quiet, ScopeRestore, Busy
<1>3. Lives'
  BY DEF TypeOK, LockInv, Lives, Up, ScopeRestore, Busy
<1>4. Owned'
  BY DEF TypeOK, LockInv, Turns, Quiet, Lives, Owned, Up, ScopeRestore, Busy
<1>5. Judged'
  BY DEF TypeOK, LockInv, Turns, Quiet, Lives, Owned, Judged, Up, ScopeRestore, Busy
<1>6. QED
  BY <1>1, <1>2, <1>3, <1>4, <1>5 DEF LockInv

(* A scope ends, and the release that came meanwhile is due. *)
LEMMA ScopeEndKeeps ==
  ASSUME TypeOK, LockInv, AtMostOneSurvivor, NEW w \in Writers, ScopeEnd(w)
  PROVE  TypeOK' /\ LockInv'
<1>1. TypeOK'
  BY DEF TypeOK, Pcs, ScopeEnd, Busy
<1>2. Turns'
  BY DEF TypeOK, LockInv, Turns, Quiet, ScopeEnd, Busy
<1>3. Lives'
  BY DEF TypeOK, LockInv, Lives, Up, ScopeEnd, Busy
<1>4. Owned'
  BY DEF TypeOK, LockInv, Turns, Quiet, Lives, Owned, Up, ScopeEnd, Busy
<1>5. Judged'
  BY DEF TypeOK, LockInv, Turns, Quiet, Lives, Owned, Judged, Up, ScopeEnd, Busy
<1>6. QED
  BY <1>1, <1>2, <1>3, <1>4, <1>5 DEF LockInv

(* A release reads the lock file before it removes it. *)
LEMMA ReleaseCheckKeeps ==
  ASSUME TypeOK, LockInv, AtMostOneSurvivor, NEW w \in Writers, ReleaseCheck(w)
  PROVE  TypeOK' /\ LockInv'
<1>1. TypeOK'
  BY DEF TypeOK, Pcs, ReleaseCheck
<1>2. Turns'
  BY DEF TypeOK, LockInv, Turns, Quiet, ReleaseCheck
<1>3. Lives'
  BY DEF TypeOK, LockInv, Lives, Up, ReleaseCheck
<1>4. Owned'
  BY DEF TypeOK, LockInv, Turns, Quiet, Lives, Owned, Up, ReleaseCheck
<1>5. Judged'
  BY DEF TypeOK, LockInv, Turns, Quiet, Lives, Owned, Judged, Up, ReleaseCheck
<1>6. QED
  BY <1>1, <1>2, <1>3, <1>4, <1>5 DEF LockInv

(* It removes its own lock. *)
LEMMA ReleaseUnlinkKeeps ==
  ASSUME TypeOK, LockInv, AtMostOneSurvivor, NEW w \in Writers, ReleaseUnlink(w)
  PROVE  TypeOK' /\ LockInv'
<1>1. TypeOK'
  BY DEF TypeOK, Pcs, ReleaseUnlink
<1>2. Turns'
  BY DEF TypeOK, LockInv, Turns, Quiet, ReleaseUnlink
<1>3. Lives'
  BY DEF TypeOK, LockInv, Lives, Up, ReleaseUnlink
<1>4. Owned'
  BY DEF TypeOK, LockInv, Turns, Quiet, Lives, Owned, Up, ReleaseUnlink
<1>5. Judged'
  BY DEF TypeOK, LockInv, Turns, Quiet, Lives, Owned, Judged, Up, ReleaseUnlink
<1>6. QED
  BY <1>1, <1>2, <1>3, <1>4, <1>5 DEF LockInv

(* A lock is judged stale only where a process is dead. *)
LEMMA ProbeKeeps ==
  ASSUME TypeOK, LockInv, AtMostOneSurvivor, NEW w \in Writers, Probe(w)
  PROVE  TypeOK' /\ LockInv'
<1>1. CASE Stale(w)
  <2> USE <1>1
  <2>0. /\ Up(w) /\ pc[w] = "probe" /\ pc' = [pc EXCEPT ![w] = "unlink"]
        /\ seen' = [seen EXCEPT ![w] = None]
        /\ UNCHANGED <<goal, cache, tail, life, pid, file, held, released, log, partial>>
    BY DEF Probe
  <2>1. TypeOK'
    BY <2>0 DEF TypeOK, Pcs
  <2>2. Turns'
    BY <2>0 DEF TypeOK, LockInv, Turns, Quiet
  <2>3. Lives'
    BY <2>0 DEF TypeOK, LockInv, Lives, Up
  <2>4. Owned'
    BY <2>0 DEF TypeOK, LockInv, Turns, Quiet, Lives, Owned, Up
  <2>5. Judged'
    BY <2>0 DEF TypeOK, LockInv, Turns, Quiet, Lives, Owned, Judged, Up, Stale
  <2>6. QED
    BY <2>1, <2>2, <2>3, <2>4, <2>5 DEF LockInv
<1>2. CASE ~Stale(w)
  <2>1. Ends(w) /\ UNCHANGED <<life, pid, file, released>> /\ Up(w) /\ ~Quiet(w)
        /\ UNCHANGED log /\ partial' \subseteq Writers \cup {None} /\ (file = w => w \in held)
    BY <1>2 DEF TypeOK, LockInv, Owned, Quiet, Probe
  <2>2. QED
    BY <2>1, EndsKeeps DEF TypeOK
<1>3. QED
  BY <1>1, <1>2 DEF Probe

-----------------------------------------------------------------------------
(* What the holder knows of the log. *)

(* No other writer is in a span that the lock protects. *)
LEMMA OthersOut ==
  ASSUME LockInv, NEW w \in held, NEW v \in Writers \ {w}
  PROVE  v \notin held /\ pc[v] \notin {"check", "tail", "write", "writing", "meta", "scope"}
  BY DEF LockInv, Owned

(* A span that throws drops what it cached. *)
LEMMA EndsKnows ==
  ASSUME TypeOK, LockInv, KnowsLog, NEW w \in Writers, Ends(w), UNCHANGED log,
         w \notin held => UNCHANGED partial,
         \A v \in Writers \ {w} : pc[v] \in {"write", "writing"} => UNCHANGED partial
  PROVE  KnowsLog'
<1>1. /\ pc'[w] \in {"idle", "relcheck"} /\ cache'[w] = None
      /\ \A v \in Writers \ {w} : pc'[v] = pc[v] /\ cache'[v] = cache[v] /\ tail'[v] = tail[v]
      /\ held' \subseteq held /\ held \subseteq Writers
  BY DEF TypeOK, Ends, Finally, Forget
<1>2. \A v \in held' \ {w} : UNCHANGED partial
  BY <1>1 DEF LockInv, Owned
<1>3. QED
  BY <1>1, <1>2 DEF KnowsLog

(* What each step leaves of what the holder knows of the log: nothing is   *)
(* forgotten where none is written.                                        *)
LEMMA StartAppendKnows ==
  ASSUME TypeOK, LockInv, KnowsLog, ChainIntact, NEW w \in Writers, StartAppend(w)
  PROVE  KnowsLog' /\ ChainIntact'
<1>1. ChainIntact'
  BY DEF ChainIntact, StartAppend, Free
<1>2. KnowsLog'
  BY DEF TypeOK, LockInv, Owned, KnowsLog, StartAppend, Free
<1>3. QED
  BY <1>1, <1>2

(* A scope starts with nothing cached. *)
LEMMA StartScopeKnows ==
  ASSUME TypeOK, LockInv, KnowsLog, ChainIntact, NEW w \in Writers, StartScope(w)
  PROVE  KnowsLog' /\ ChainIntact'
<1>1. ChainIntact'
  BY DEF ChainIntact, StartScope, Free
<1>2. KnowsLog'
  BY DEF TypeOK, LockInv, Owned, KnowsLog, StartScope, Free
<1>3. QED
  BY <1>1, <1>2

(* A writer that no longer holds the lock need know nothing. *)
LEMMA ReleaseKnows ==
  ASSUME TypeOK, LockInv, KnowsLog, ChainIntact, NEW w \in Writers, Release(w)
  PROVE  KnowsLog' /\ ChainIntact'
<1>1. ChainIntact'
  BY DEF ChainIntact, Release, Free
<1>2. KnowsLog'
  BY DEF TypeOK, LockInv, Owned, KnowsLog, Release, Free
<1>3. QED
  BY <1>1, <1>2

(* Reading the lock tells nothing of the log. *)
LEMMA CheckOwnKnows ==
  ASSUME TypeOK, LockInv, KnowsLog, ChainIntact, NEW w \in Writers, CheckOwn(w)
  PROVE  KnowsLog' /\ ChainIntact'
<1>1. ChainIntact'
  BY DEF ChainIntact, CheckOwn
<1>2. KnowsLog'
  BY DEF TypeOK, LockInv, Owned, KnowsLog, CheckOwn
<1>3. QED
  BY <1>1, <1>2

(* A new lock is held with nothing cached. *)
LEMMA LinkKnows ==
  ASSUME TypeOK, LockInv, KnowsLog, ChainIntact, NEW w \in Writers, Link(w)
  PROVE  KnowsLog' /\ ChainIntact'
<1>1. ChainIntact'
  BY DEF ChainIntact, Link, Ends, Finally, Forget
<1>2. KnowsLog'
  BY DEF TypeOK, LockInv, Owned, KnowsLog, Link, Ends, Finally, Forget
<1>3. QED
  BY <1>1, <1>2

(* A lock acquired anew goes with an empty cache. *)
LEMMA VerifyLinkKnows ==
  ASSUME TypeOK, LockInv, KnowsLog, ChainIntact, NEW w \in Writers, VerifyLink(w)
  PROVE  KnowsLog' /\ ChainIntact'
<1>1. ChainIntact'
  BY DEF ChainIntact, VerifyLink, Acquired, Ends, Finally, Forget
<1>2. KnowsLog'
  <2>1. CASE file = w
    <3>1. /\ held' = held \cup {w} /\ cache' = [cache EXCEPT ![w] = None]
          /\ pc'[w] \in {"tail", "scope"} /\ UNCHANGED <<log, partial>>
          /\ \A v \in Writers \ {w} : pc'[v] = pc[v] /\ tail'[v] = tail[v]
      BY <2>1 DEF TypeOK, VerifyLink, Acquired, Forget
    <3>2. QED
      BY <3>1 DEF TypeOK, KnowsLog
  <2>2. CASE file # w
    BY <2>2, EndsKnows DEF VerifyLink
  <2>3. QED
    BY <2>1, <2>2
<1>3. QED
  BY <1>1, <1>2

(* Reading another's lock tells nothing of the log. *)
LEMMA ReadLockKnows ==
  ASSUME TypeOK, LockInv, KnowsLog, ChainIntact, NEW w \in Writers, ReadLock(w)
  PROVE  KnowsLog' /\ ChainIntact'
<1>1. ChainIntact'
  BY DEF ChainIntact, ReadLock, Ends, Finally, Forget
<1>2. KnowsLog'
  <2>1. CASE Ends(w)
    BY <2>1, EndsKnows DEF ReadLock
  <2>2. CASE ~Ends(w)
    BY <2>2 DEF TypeOK, LockInv, Owned, KnowsLog, ReadLock
  <2>3. QED
    BY <2>1, <2>2
<1>3. QED
  BY <1>1, <1>2

(* Nor does judging it. *)
LEMMA ProbeKnows ==
  ASSUME TypeOK, LockInv, KnowsLog, ChainIntact, NEW w \in Writers, Probe(w)
  PROVE  KnowsLog' /\ ChainIntact'
<1>1. ChainIntact'
  BY DEF ChainIntact, Probe, Ends, Finally, Forget
<1>2. KnowsLog'
  BY DEF TypeOK, LockInv, Owned, KnowsLog, Probe, Ends, Finally, Forget
<1>3. QED
  BY <1>1, <1>2

(* Nor removing it. *)
LEMMA UnlinkKnows ==
  ASSUME TypeOK, LockInv, KnowsLog, ChainIntact, NEW w \in Writers, Unlink(w)
  PROVE  KnowsLog' /\ ChainIntact'
<1>1. ChainIntact'
  BY DEF ChainIntact, Unlink
<1>2. KnowsLog'
  BY DEF TypeOK, LockInv, Owned, KnowsLog, Unlink
<1>3. QED
  BY <1>1, <1>2

(* The tail that is read is the log's end, and no line is begun. *)
LEMMA ReadTailKnows ==
  ASSUME TypeOK, LockInv, KnowsLog, ChainIntact, NEW w \in Writers, ReadTail(w)
  PROVE  KnowsLog' /\ ChainIntact'
<1>1. ChainIntact'
  BY DEF ChainIntact, ReadTail, Ends, Finally, Forget
<1>2. KnowsLog'
  BY DEF TypeOK, LockInv, Owned, KnowsLog, ReadTail, Ends, Finally, Forget
<1>3. QED
  BY <1>1, <1>2

(* The begun line is the only one, behind the tail that was read. *)
LEMMA WriteBeginKnows ==
  ASSUME TypeOK, LockInv, KnowsLog, ChainIntact, NEW w \in Writers, WriteBegin(w)
  PROVE  KnowsLog' /\ ChainIntact'
<1>1. ChainIntact'
  BY DEF ChainIntact, WriteBegin
<1>2. KnowsLog'
  BY DEF TypeOK, LockInv, Owned, KnowsLog, WriteBegin
<1>3. QED
  BY <1>1, <1>2

(* A write that fails leaves nothing cached. *)
LEMMA WriteFailsKnows ==
  ASSUME TypeOK, LockInv, KnowsLog, ChainIntact, NEW w \in Writers, WriteFails(w)
  PROVE  KnowsLog' /\ ChainIntact'
<1>1. ChainIntact'
  BY DEF ChainIntact, WriteFails, Ends, Finally, Forget
<1>2. KnowsLog'
  BY DEF TypeOK, LockInv, Owned, KnowsLog, WriteFails, Ends, Finally, Forget
<1>3. QED
  BY <1>1, <1>2

(* The .meta sidecar is not part of the log. *)
LEMMA MetaWrittenKnows ==
  ASSUME TypeOK, LockInv, KnowsLog, ChainIntact, NEW w \in Writers, MetaWritten(w)
  PROVE  KnowsLog' /\ ChainIntact'
<1>1. ChainIntact'
  BY DEF ChainIntact, MetaWritten, Ends, Finally, Forget
<1>2. KnowsLog'
  <2>1. CASE Ends(w)
    BY <2>1, EndsKnows DEF MetaWritten
  <2>2. CASE ~Ends(w)
    BY <2>2 DEF TypeOK, LockInv, Owned, KnowsLog, MetaWritten, Finally
  <2>3. QED
    BY <2>1, <2>2
<1>3. QED
  BY <1>1, <1>2

(* A scope ends with nothing cached. *)
LEMMA ScopeEndKnows ==
  ASSUME TypeOK, LockInv, KnowsLog, ChainIntact, NEW w \in Writers, ScopeEnd(w)
  PROVE  KnowsLog' /\ ChainIntact'
<1>1. ChainIntact'
  BY DEF ChainIntact, ScopeEnd
<1>2. KnowsLog'
  BY DEF TypeOK, LockInv, Owned, KnowsLog, ScopeEnd
<1>3. QED
  BY <1>1, <1>2

(* Giving the lock back does not touch the log. *)
LEMMA ReleaseCheckKnows ==
  ASSUME TypeOK, LockInv, KnowsLog, ChainIntact, NEW w \in Writers, ReleaseCheck(w)
  PROVE  KnowsLog' /\ ChainIntact'
<1>1. ChainIntact'
  BY DEF ChainIntact, ReleaseCheck
<1>2. KnowsLog'
  BY DEF TypeOK, LockInv, Owned, KnowsLog, ReleaseCheck
<1>3. QED
  BY <1>1, <1>2

(* Nor does removing it. *)
LEMMA ReleaseUnlinkKnows ==
  ASSUME TypeOK, LockInv, KnowsLog, ChainIntact, NEW w \in Writers, ReleaseUnlink(w)
  PROVE  KnowsLog' /\ ChainIntact'
<1>1. ChainIntact'
  BY DEF ChainIntact, ReleaseUnlink
<1>2. KnowsLog'
  BY DEF TypeOK, LockInv, Owned, KnowsLog, ReleaseUnlink
<1>3. QED
  BY <1>1, <1>2

(* The line is chained from the log's last. *)
LEMMA WriteEndKnows ==
  ASSUME TypeOK, LockInv, KnowsLog, ChainIntact, NEW w \in Writers, WriteEnd(w)
  PROVE  KnowsLog' /\ ChainIntact'
<1>1. w \in held /\ partial = {w} /\ tail[w] = Len(log) /\ Len(log) \in Nat
  BY DEF TypeOK, LockInv, Owned, KnowsLog, WriteEnd
<1>2. log' = Append(log, Len(log)) /\ partial' = {}
  BY <1>1 DEF WriteEnd
<1>3. /\ Len(log') = Len(log) + 1 /\ log'[Len(log) + 1] = Len(log)
      /\ \A i \in 1 .. Len(log) : log'[i] = log[i]
  BY <1>1, <1>2, AppendProperties DEF TypeOK
<1>4. ChainIntact'
  BY <1>1, <1>2, <1>3 DEF TypeOK, ChainIntact
<1>5. KnowsLog'
  BY <1>1, <1>2, <1>3, OthersOut DEF TypeOK, KnowsLog, WriteEnd
<1>6. QED
  BY <1>4, <1>5

(* The log is replaced by a beginning of itself, which is intact. *)
LEMMA ScopeRestoreKnows ==
  ASSUME TypeOK, LockInv, KnowsLog, ChainIntact, NEW w \in Writers, ScopeRestore(w)
  PROVE  KnowsLog' /\ ChainIntact'
<1>1. w \in held /\ cache[w] = None /\ partial' = {}
  BY DEF LockInv, Owned, KnowsLog, ScopeRestore
<1>2. PICK n \in 0 .. Len(log) : log' = SubSeq(log, 1, n)
  BY DEF ScopeRestore
<1>3. DOMAIN log' = 1 .. n /\ \A i \in 1 .. n : log'[i] = log[i]
  BY <1>2, SubSeqProperties DEF TypeOK
<1>4. ChainIntact'
  BY <1>3 DEF TypeOK, ChainIntact
<1>5. KnowsLog'
  BY <1>1, OthersOut DEF TypeOK, KnowsLog, ScopeRestore
<1>6. QED
  BY <1>4, <1>5

-----------------------------------------------------------------------------
(* Processes start and die. *)
LEMMA StartKeeps ==
  ASSUME WriterInv, NEW p \in Processes, Start(p)
  PROVE  WriterInv'
<1>1. TypeOK'
  BY DEF WriterInv, TypeOK, Start
<1>2. Turns'
  BY DEF WriterInv, LockInv, Turns, Quiet, Start
<1>3. Lives'
  BY DEF WriterInv, TypeOK, LockInv, Lives, Up, Start
<1>4. Owned'
  BY DEF WriterInv, TypeOK, LockInv, Lives, Owned, Up, Start
<1>5. Judged'
  BY DEF WriterInv, TypeOK, LockInv, Judged, Start
<1>6. KnowsLog' /\ ChainIntact'
  BY DEF WriterInv, KnowsLog, ChainIntact, Start
<1>7. QED
  BY <1>1, <1>2, <1>3, <1>4, <1>5, <1>6 DEF WriterInv, LockInv

(* A crash leaves the lock file, and of a line what was written. *)
LEMMA CrashKeeps ==
  ASSUME WriterInv, NEW p \in Processes, Crash(p)
  PROVE  WriterInv'
<1>1. TypeOK'
  BY DEF WriterInv, TypeOK, Pcs, Crash
<1>2. Turns'
  BY DEF WriterInv, LockInv, Turns, Quiet, Crash
<1>3. Lives'
  BY DEF WriterInv, TypeOK, LockInv, Lives, Up, Crash
<1>4. Owned'
  BY DEF WriterInv, TypeOK, LockInv, Lives, Owned, Up, Crash
<1>5. Judged'
  BY DEF WriterInv, TypeOK, LockInv, Judged, Crash
<1>6. KnowsLog' /\ ChainIntact'
  BY DEF WriterInv, TypeOK, KnowsLog, ChainIntact, Crash
<1>7. QED
  BY <1>1, <1>2, <1>3, <1>4, <1>5, <1>6 DEF WriterInv, LockInv

-----------------------------------------------------------------------------
(* The initial states satisfy the invariant. *)
LEMMA Initial == Init => WriterInv
<1> SUFFICES ASSUME Init PROVE WriterInv
  OBVIOUS
<1>1. TypeOK
  <2>1. log \in Seq({Garbled} \cup 0 .. MaxLog) /\ Len(log) <= MaxLog
    BY EmptySeq DEF Init
  <2>2. released \in [Writers -> BOOLEAN]
    BY Zenon DEF Init
  <2>3. QED
    BY <2>1, <2>2 DEF Init, TypeOK, Pcs
<1>2. LockInv
  BY DEF Init, LockInv, Turns, Quiet, Lives, Owned, Judged, Up
<1>3. KnowsLog /\ ChainIntact
  BY DEF Init, KnowsLog, ChainIntact
<1>4. QED
  BY <1>1, <1>2, <1>3 DEF WriterInv

(* A step of a span keeps the lock, the log and what is known of it. *)
LEMMA SpanKeeps ==
  ASSUME WriterInv, AtMostOneSurvivor, NEW w \in Writers, Span(w)
  PROVE  WriterInv'
<1> USE DEF WriterInv
<1>1. CASE CheckOwn(w)
  BY <1>1, CheckOwnKeeps, CheckOwnKnows
<1>2. CASE Link(w)
  BY <1>2, LinkKeeps, LinkKnows
<1>3. CASE VerifyLink(w)
  BY <1>3, VerifyLinkKeeps, VerifyLinkKnows
<1>4. CASE ReadLock(w)
  BY <1>4, ReadLockKeeps, ReadLockKnows
<1>5. CASE Probe(w)
  BY <1>5, ProbeKeeps, ProbeKnows
<1>6. CASE Unlink(w)
  BY <1>6, UnlinkKeeps, UnlinkKnows
<1>7. CASE ReadTail(w)
  BY <1>7, ReadTailKeeps, ReadTailKnows
<1>8. CASE WriteBegin(w)
  BY <1>8, WriteBeginKeeps, WriteBeginKnows
<1>9. CASE WriteEnd(w)
  BY <1>9, WriteEndKeeps, WriteEndKnows
<1>10. CASE WriteFails(w)
  BY <1>10, WriteFailsKeeps, WriteFailsKnows
<1>11. CASE MetaWritten(w)
  BY <1>11, MetaWrittenKeeps, MetaWrittenKnows
<1>12. CASE ScopeEnd(w)
  BY <1>12, ScopeEndKeeps, ScopeEndKnows
<1>13. CASE ReleaseCheck(w)
  BY <1>13, ReleaseCheckKeeps, ReleaseCheckKnows
<1>14. CASE ReleaseUnlink(w)
  BY <1>14, ReleaseUnlinkKeeps, ReleaseUnlinkKnows
<1>15. QED
  BY <1>1, <1>2, <1>3, <1>4, <1>5, <1>6, <1>7, <1>8, <1>9, <1>10, <1>11, <1>12, <1>13, <1>14
  DEF Span

(* Every step keeps the invariant. *)
LEMMA Inductive ==
  ASSUME WriterInv, AtMostOneSurvivor, [Next]_vars
  PROVE  WriterInv'
<1>1. ASSUME NEW p \in Processes, Start(p) \/ Crash(p) PROVE WriterInv'
  BY <1>1, StartKeeps, CrashKeeps
<1>2. ASSUME NEW w \in Writers, StartAppend(w) PROVE WriterInv'
  BY <1>2, StartAppendKeeps, StartAppendKnows DEF WriterInv
<1>3. ASSUME NEW w \in Writers, StartScope(w) PROVE WriterInv'
  BY <1>3, StartScopeKeeps, StartScopeKnows DEF WriterInv
<1>4. ASSUME NEW w \in Writers, Release(w) PROVE WriterInv'
  BY <1>4, ReleaseKeeps, ReleaseKnows DEF WriterInv
<1>5. ASSUME NEW w \in Writers, ScopeRestore(w) PROVE WriterInv'
  BY <1>5, ScopeRestoreKeeps, ScopeRestoreKnows DEF WriterInv
<1>6. ASSUME NEW w \in Writers, Span(w) PROVE WriterInv'
  BY <1>6, SpanKeeps
<1>7. CASE UNCHANGED vars
  BY <1>7 DEF vars, WriterInv, TypeOK, LockInv, Turns, Quiet, Lives, Owned, Judged, Up, KnowsLog,
     ChainIntact
<1>8. QED
  BY <1>1, <1>2, <1>3, <1>4, <1>5, <1>6, <1>7 DEF Next

(* The lock of a live, registered writer is removed by that writer only.   *)
LEMMA NotStolen ==
  ASSUME WriterInv, AtMostOneSurvivor, [Next]_vars, file \in held, Up(file)
  PROVE  file' = file
<1> SUFFICES ASSUME file' # file PROVE FALSE
  OBVIOUS
<1>1. PICK w \in Writers : Link(w) \/ Unlink(w) \/ ReleaseUnlink(w)
  BY DEF vars, Next, Start, Crash, StartAppend, StartScope, Release, ScopeRestore, Span, CheckOwn,
     VerifyLink, ReadLock, Probe, ReadTail, WriteBegin, WriteEnd, WriteFails, MetaWritten,
     ScopeEnd, ReleaseCheck
<1>2. CASE Link(w)
  BY <1>2 DEF WriterInv, TypeOK, Link
<1>3. CASE ReleaseUnlink(w)
  BY <1>3 DEF WriterInv, LockInv, Owned, ReleaseUnlink
<1>4. CASE Unlink(w)
  BY <1>4, UnlinkForeign DEF WriterInv, TypeOK
<1>5. QED
  BY <1>1, <1>2, <1>3, <1>4

-----------------------------------------------------------------------------
(* Every line of the log is whole and chained from the line before it,     *)
(* whatever crashed, failed or was restored (appendEvent).                 *)
THEOREM ChainIntactHolds ==
  ASSUME AtMostOneSurvivor
  PROVE  Spec => []ChainIntact
<1>1. WriterInv /\ [Next]_vars => WriterInv'
  BY Inductive
<1>2. WriterInv => ChainIntact
  BY DEF WriterInv
<1>3. QED
  BY Initial, <1>1, <1>2, PTL DEF Spec

(* At most one writer, of one process or several, is between its acquire   *)
(* and the end of its write (acquireProcessLock, appendEvent).             *)
THEOREM ExclusiveWriterHolds ==
  ASSUME AtMostOneSurvivor
  PROVE  Spec => []ExclusiveWriter
<1>1. WriterInv /\ [Next]_vars => WriterInv'
  BY Inductive
<1>2. WriterInv => ExclusiveWriter
  BY DEF WriterInv, LockInv, Owned, ExclusiveWriter, InSpan
<1>3. QED
  BY Initial, <1>1, <1>2, PTL DEF Spec

(* A live writer's lock is never stolen: neither a stale reclaim nor a     *)
(* release by another removes it (tryCleanStaleLock, release).             *)
THEOREM NeverStolenHolds ==
  ASSUME AtMostOneSurvivor
  PROVE  Spec => NeverStolen
<1>1. WriterInv /\ [Next]_vars => WriterInv'
  BY Inductive
<1>2. WriterInv /\ [Next]_vars
        => [(file \in held /\ Up(file)) => file' = file]_vars
  BY NotStolen
<1>3. QED
  BY Initial, <1>1, <1>2, PTL DEF Spec, NeverStolen
=============================================================================
