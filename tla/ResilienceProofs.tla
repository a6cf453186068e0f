--------------------------- MODULE ResilienceProofs ---------------------------
(***************************************************************************)
(* The parts of Resilience, for every value of their bounds: whatever      *)
(* fails between two system calls of the torn-tail repair, what was cut is *)
(* kept and recorded once; what the server's ledger observer says of the   *)
(* ledger is so; a transfer of the TigerBeetle client reaches the ledger   *)
(* once, and a client a request failed on since it learned of its eviction *)
(* is not destroyed; and the circuit breaker implements BreakerContract.   *)
(* Each is proved in the behaviours of its own module, Repair!Spec,        *)
(* Observer!Spec, Client!Spec and the breaker's Spec.                      *)
(***************************************************************************)
EXTENDS Resilience, FiniteSetTheorems, SequenceTheorems, TLAPS

-----------------------------------------------------------------------------
(* The torn-tail repair (Quarantine). *)

Cuts  == Torn \X Nat
Lines == {Repair!Event} \cup Cuts
Tails == Torn \cup {Clean} \cup Lines

Appended  == {"fsync", "anchor", "dirsync"}
Appending == {"write"} \cup Appended
Cutting   == {"link", "evsync", "cut"}
Repairing == {"sync", "meta", "metasync"} \cup Cutting

(* The variables have their types. *)
DiskTypes ==
  /\ log \in Seq(Lines) /\ tail \in Tails /\ meta \in Nat \cup {Repair!NoMeta}
  /\ evidence \in SUBSET Cuts /\ IsFiniteSet(evidence)
SyncedTypes ==
  synced \in [log : Seq(Lines), tail : Tails, meta : Nat \cup {Repair!NoMeta},
              evidence : SUBSET Cuts]
SpanTypes ==
  /\ at \in {"idle", "cutsync"} \cup Appending \cup Repairing /\ todo \in Seq(Lines)
  /\ anchored \in BOOLEAN /\ skipped \in BOOLEAN
RepairTypes == DiskTypes /\ SyncedTypes /\ SpanTypes

(* What a power loss takes back is an end of the log, and the evidence of  *)
(* the torn tail itself at most: whatever was cut has durable evidence,    *)
(* and no evidence is of a place beyond the durable log.                   *)
DurableInv ==
  /\ Len(synced.log) <= Len(log)
  /\ \A i \in 1 .. Len(synced.log) : synced.log[i] = log[i]
  /\ synced.evidence \subseteq evidence /\ evidence \subseteq synced.evidence \cup {Repair!Here}
  /\ cut \subseteq synced.evidence
  /\ \A c \in evidence : c[2] <= Len(synced.log)

(* A record has durable evidence of an earlier place, and is the only one  *)
(* of its cut; so would be a record that lacks its newline.                *)
New(c, l, ev) == c \in ev /\ c[2] <= Len(l) /\ \A i \in 1 .. Len(l) : l[i] # c
LogInv ==
  /\ \A i \in 1 .. Len(log) :
       log[i] # Repair!Event => log[i] \in synced.evidence /\ log[i][2] < i
  /\ \A i, j \in 1 .. Len(log) : log[i] = log[j] /\ log[i] # Repair!Event => i = j
  /\ tail \in Cuts => New(tail, log, synced.evidence)
  /\ synced.tail \in Cuts => New(synced.tail, synced.log, synced.evidence)

(* Where a span is agrees with the tail. *)
PlaceInv ==
  /\ at = "idle" => todo = <<>>
  /\ at \in Appending \cup {"cutsync"} => tail = Clean /\ todo # <<>>
  /\ at \in Repairing => tail \in Torn \cup {Clean} /\ (tail # Clean => todo # <<>>)
  /\ at \in Cutting => tail # Clean
  /\ at = "evsync" => Repair!Here \in evidence
  /\ at = "cut" => Repair!Here \in synced.evidence
  /\ at \in Appended => Len(log) > 0 /\ log[Len(log)] = todo[1]

(* The lines a span will append are new, and each of its records has       *)
(* evidence that will be durable before it is written.                     *)
Backing ==
  CASE at \in {"sync", "meta", "metasync", "link"} -> evidence \cup {Repair!Here}
    [] at = "evsync" -> evidence
    [] OTHER -> synced.evidence
TodoInv ==
  /\ \A i, j \in 1 .. Len(todo) : todo[i] = todo[j] => i = j
  /\ \A i \in 1 .. Len(todo) : todo[i] = Repair!Event => Len(todo) = 1 /\ at \in Appending
  /\ \A i \in 1 .. Len(todo) : todo[i] # Repair!Event =>
       /\ todo[i][2] <= Len(log) /\ todo[i] \in Backing
       /\ (i = 1 /\ at \in Appended) \/ \A k \in 1 .. Len(log) : log[k] # todo[i]

(* The anchor, and what a power loss may make of it, are at the head or    *)
(* one line behind, however much of the log the power loss leaves.         *)
Agrees(m, n) == m = n \/ (n > 0 /\ m = n - 1) \/ (m = Repair!NoMeta /\ n <= 1)
AtHead(m, n) == m = n \/ (m = Repair!NoMeta /\ n = 0)
AnchorInv ==
  /\ anchored => synced.log = log /\ AtHead(meta, Len(log)) /\ AtHead(synced.meta, Len(log))
  /\ ~skipped =>
       \A n \in Len(synced.log) .. Len(log) : Agrees(meta, n) /\ Agrees(synced.meta, n)
  /\ at \in {"anchor", "dirsync", "meta", "metasync", "cutsync"} \cup Cutting =>
     synced.log = log
  /\ at \in {"dirsync", "metasync", "cutsync"} \cup Cutting => meta = Len(log)
  /\ at = "write" /\ todo[1] # Repair!Event => synced.log = log /\ meta = Len(log)

RepairInv == RepairTypes /\ DurableInv /\ LogInv /\ PlaceInv /\ TodoInv /\ AnchorInv

LEMMA LineFacts ==
  /\ Cuts \subseteq Lines /\ Repair!Event \in Lines /\ Repair!Event \notin Cuts
  /\ Torn \cap Lines = {} /\ Clean \notin Lines /\ Clean \notin Torn
  /\ \A e \in Lines : e = Repair!Event \/ e \in Cuts
  /\ \A c \in Cuts : c[2] \in Nat
  BY RepairAssumption DEF Cuts, Lines

LEMMA Hereabouts ==
  ASSUME RepairTypes
  PROVE  /\ Len(log) \in Nat /\ Len(synced.log) \in Nat
         /\ tail \in Torn => Repair!Here \in Cuts /\ Repair!Here[2] = Len(log)
         /\ tail \notin Torn => Repair!Here \notin Cuts
  <1>1. Len(log) \in Nat /\ Len(synced.log) \in Nat
    BY LenProperties DEF RepairTypes, DiskTypes, SyncedTypes
  <1> QED BY <1>1 DEF Repair!Here, Repair!Offset, Cuts

LEMMA RepairStartsUp == Repair!Init => RepairInv
  <1> SUFFICES ASSUME Repair!Init PROVE RepairInv OBVIOUS
  <1>1. <<>> \in Seq(Lines) /\ Len(<<>>) = 0 BY EmptySeq
  <1>2. IsFiniteSet({}) BY FS_EmptySet
  <1>3. RepairTypes
    BY <1>1, <1>2 DEF Repair!Init, RepairTypes, DiskTypes, SyncedTypes, SpanTypes, Tails,
      Appending, Repair!NoMeta
  <1>4. DurableInv BY <1>1 DEF Repair!Init, DurableInv
  <1>5. LogInv /\ PlaceInv /\ TodoInv
    BY <1>1, LineFacts
    DEF Repair!Init, LogInv, PlaceInv, TodoInv, Appending, Appended, Repairing, Cutting
  <1>6. AnchorInv BY <1>1 DEF Repair!Init, AnchorInv, Agrees, AtHead, Repair!NoMeta, Cutting
  <1> QED BY <1>3, <1>4, <1>5, <1>6 DEF RepairInv

LEMMA InvKeepsEvidence == RepairInv => EvidenceKept
  <1> SUFFICES ASSUME RepairInv PROVE EvidenceKept OBVIOUS
  <1>1. DOMAIN log = 1 .. Len(log) /\ Len(log) \in Nat /\ Len(synced.log) \in Nat
    BY LenProperties, Hereabouts DEF RepairInv, RepairTypes, DiskTypes
  <1>2. cut \subseteq evidence BY DEF RepairInv, DurableInv
  <1>3. /\ \A i \in DOMAIN log : log[i] # Repair!Event => log[i] \in evidence
        /\ \A i, j \in DOMAIN log : log[i] = log[j] /\ log[i] # Repair!Event => i = j
    BY <1>1 DEF RepairInv, LogInv, DurableInv
  <1>4. ~skipped => Repair!AnchorAgrees
    BY <1>1 DEF RepairInv, AnchorInv, DurableInv, Repair!AnchorAgrees, Agrees
  <1>5. \A c \in Repair!Pending : c[2] <= Repair!Offset
    <2> SUFFICES ASSUME NEW c \in evidence PROVE c[2] <= Repair!Offset BY DEF Repair!Pending
    <2>1. c[2] \in Nat /\ c[2] <= Len(synced.log)
      BY LineFacts DEF RepairInv, DurableInv, RepairTypes, DiskTypes
    <2> QED BY <1>1, <2>1 DEF RepairInv, DurableInv, Repair!Offset
  <1> QED BY <1>2, <1>3, <1>4, <1>5 DEF EvidenceKept, Repair!EvidenceKept, Repair!Accepts

(* A line is appended to the log. *)
LEMMA LogGrows ==
  ASSUME RepairTypes, NEW e \in Lines, log' = Append(log, e)
  PROVE  /\ log' \in Seq(Lines) /\ Len(log') = Len(log) + 1 /\ Len(log) \in Nat
         /\ \A i \in 1 .. Len(log) : log'[i] = log[i]
         /\ log'[Len(log')] = e
  <1>1. log \in Seq(Lines) /\ Len(log) \in Nat BY LenProperties DEF RepairTypes, DiskTypes
  <1> QED BY <1>1, AppendProperties

LEMMA TodoFacts ==
  ASSUME RepairTypes
  PROVE  /\ Len(todo) \in Nat /\ \A i \in 1 .. Len(todo) : todo[i] \in Lines
         /\ todo # <<>> => /\ Len(todo) > 0 /\ Head(todo) = todo[1] /\ Head(todo) \in Lines
                           /\ Tail(todo) \in Seq(Lines) /\ Len(Tail(todo)) = Len(todo) - 1
                           /\ \A i \in 1 .. Len(todo) - 1 : Tail(todo)[i] = todo[i + 1]
                           /\ Len(todo) = 1 => Tail(todo) = <<>>
  <1>1. todo \in Seq(Lines) /\ Len(todo) \in Nat /\ todo \in [1 .. Len(todo) -> Lines]
    BY LenProperties DEF RepairTypes, SpanTypes
  <1>2. ASSUME todo # <<>>
        PROVE  /\ Len(todo) > 0 /\ Head(todo) \in Lines /\ Tail(todo) \in Seq(Lines)
               /\ Len(Tail(todo)) = Len(todo) - 1
               /\ \A i \in 1 .. Len(todo) - 1 : Tail(todo)[i] = todo[i + 1]
    BY <1>1, <1>2, HeadTailProperties, EmptySeq
  <1>3. Head(todo) = todo[1] BY DEF Head
  <1>4. ASSUME todo # <<>>, Len(todo) = 1 PROVE Tail(todo) = <<>>
    <2>1. Tail(todo) \in Seq(Lines) /\ Len(Tail(todo)) = 0 BY <1>2, <1>4
    <2>2. \A s \in Seq(Lines) : s # <<>> => Len(s) \in Nat \ {0} BY EmptySeq
    <2> QED BY <2>1, <2>2
  <1> QED BY <1>1, <1>2, <1>3, <1>4

(* What holds of the disk while nothing but the span moves. *)
LEMMA SpanMoves ==
  ASSUME RepairInv, UNCHANGED <<Repair!disk, synced, Repair!history>>
  PROVE  DiskTypes' /\ SyncedTypes' /\ DurableInv' /\ LogInv' /\ Repair!Here' = Repair!Here
  BY DEF RepairInv, RepairTypes, DiskTypes, SyncedTypes, DurableInv, LogInv, New, Repair!Here,
    Repair!Offset,
    Repair!disk, Repair!history

LEMMA WriterStartsKeeps ==
  ASSUME RepairInv, Repair!WriterStarts PROVE RepairInv'
  <1>1. /\ at' = "write" /\ todo' = <<Repair!Event>> /\ tail = Clean
        /\ UNCHANGED <<Repair!disk, synced, Repair!history>>
    BY DEF Repair!WriterStarts
  <1>2. Len(todo') = 1 /\ todo'[1] = Repair!Event /\ todo' \in Seq(Lines)
    BY <1>1, LineFacts
  <1>3. SpanTypes'
    BY <1>1, <1>2 DEF RepairInv, RepairTypes, SpanTypes, Appending, Repair!history
  <1>4. PlaceInv' BY <1>1 DEF PlaceInv, Appending, Appended, Repairing, Cutting, Repair!disk
  <1>5. TodoInv' BY <1>1, <1>2 DEF TodoInv, Appending
  <1>6. AnchorInv'
    BY <1>1, <1>2 DEF RepairInv, AnchorInv, Repair!disk, Repair!history, Cutting
  <1> QED BY <1>1, <1>3, <1>4, <1>5, <1>6, SpanMoves DEF RepairInv, RepairTypes

LEMMA StopsKeeps ==
  ASSUME RepairInv, Repair!Stops PROVE RepairInv'
  <1>1. at' = "idle" /\ todo' = <<>> /\ UNCHANGED <<Repair!disk, synced, Repair!history>>
    BY DEF Repair!Stops, Repair!Over
  <1>2. Len(todo') = 0 /\ todo' \in Seq(Lines) BY <1>1, EmptySeq
  <1>3. SpanTypes' BY <1>1, <1>2 DEF RepairInv, RepairTypes, SpanTypes, Repair!history
  <1>4. PlaceInv' BY <1>1 DEF PlaceInv, Appending, Appended, Repairing, Cutting
  <1>5. TodoInv' BY <1>2 DEF TodoInv
  <1>6. AnchorInv' BY <1>1 DEF RepairInv, AnchorInv, Repair!disk, Repair!history, Cutting
  <1> QED BY <1>1, <1>3, <1>4, <1>5, <1>6, SpanMoves DEF RepairInv, RepairTypes

LEMMA WriteKeeps ==
  ASSUME RepairInv, Repair!Write PROVE RepairInv'
  <1> DEFINE e == Head(todo)
  <1>0. /\ at = "write" /\ at' = "fsync" /\ log' = Append(log, e) /\ anchored' = FALSE
        /\ skipped' = (skipped \/ Repair!Skips)
        /\ UNCHANGED <<tail, meta, evidence, synced, todo, cut>>
    BY DEF Repair!Write
  <1>1. RepairTypes /\ tail = Clean /\ todo # <<>>
    BY <1>0 DEF RepairInv, PlaceInv, Appending
  <1>2. e \in Lines /\ e = todo[1] /\ Len(todo) > 0 /\ Len(todo) \in Nat BY <1>1, TodoFacts
  <1> HIDE DEF e
  <1>3. /\ log' \in Seq(Lines) /\ Len(log') = Len(log) + 1 /\ Len(log) \in Nat
        /\ \A i \in 1 .. Len(log) : log'[i] = log[i]
        /\ log'[Len(log')] = e
    BY <1>0, <1>1, <1>2, LogGrows
  <1>4. Len(synced.log) \in Nat /\ Repair!Here \notin Cuts BY <1>1, Hereabouts, LineFacts
  <1>5. evidence = synced.evidence
    BY <1>1, <1>4 DEF RepairInv, DurableInv, DiskTypes, RepairTypes
  <1>6. RepairTypes'
    <2>1. DiskTypes' BY <1>0, <1>1, <1>3 DEF RepairTypes, DiskTypes
    <2>2. SyncedTypes' BY <1>0, <1>1 DEF RepairTypes, SyncedTypes
    <2>3. SpanTypes' BY <1>0, <1>1 DEF RepairTypes, SpanTypes, Repair!Skips, Appending, Appended
    <2> QED BY <2>1, <2>2, <2>3 DEF RepairTypes
  <1>7. DurableInv' BY <1>0, <1>3, <1>4, <1>5 DEF RepairInv, DurableInv
  <1>8. e # Repair!Event => e \in synced.evidence /\ e[2] <= Len(log) /\
        \A k \in 1 .. Len(log) : log[k] # e
    BY <1>0, <1>2 DEF RepairInv, TodoInv, Backing, Appended
  <1>9. e # Repair!Event => e[2] \in Nat BY <1>2, LineFacts
  <1>10. LogInv'
    <2>1. \A i \in 1 .. Len(log') : log'[i] # Repair!Event =>
            log'[i] \in synced'.evidence /\ log'[i][2] < i
      BY <1>0, <1>3, <1>8, <1>9 DEF RepairInv, LogInv
    <2>2. \A i, j \in 1 .. Len(log') : log'[i] = log'[j] /\ log'[i] # Repair!Event => i = j
      BY <1>3, <1>8 DEF RepairInv, LogInv
    <2>3. tail' \notin Cuts BY <1>0, <1>1, LineFacts
    <2>4. synced'.tail \in Cuts => New(synced'.tail, synced'.log, synced'.evidence)
      BY <1>0 DEF RepairInv, LogInv, New
    <2> QED BY <1>0, <2>1, <2>2, <2>3, <2>4 DEF LogInv, New
  <1>11. PlaceInv'
    BY <1>0, <1>1, <1>2, <1>3 DEF PlaceInv, Appending, Appended, Repairing, Cutting
  <1>12. TodoInv'
    <2>1. \A i \in 1 .. Len(todo) : todo[i] # Repair!Event =>
            todo[i] \in Cuts /\ todo[i][2] \in Nat /\ todo[i][2] <= Len(log)
            /\ todo[i] \in synced.evidence
            /\ \A k \in 1 .. Len(log) : log[k] # todo[i]
      BY <1>0, <1>1, TodoFacts, LineFacts DEF RepairInv, TodoInv, Backing, Appended
    <2>2. \A i \in 1 .. Len(todo) : todo[i] # Repair!Event =>
            i = 1 \/ \A k \in 1 .. Len(log') : log'[k] # todo[i]
      BY <1>2, <1>3, <2>1 DEF RepairInv, TodoInv
    <2> QED BY <1>0, <1>3, <2>1, <2>2 DEF RepairInv, TodoInv, Backing, Appended, Appending
  <1>13. AnchorInv'
    <2>1. ASSUME ~skipped', NEW n \in Len(synced.log) .. Len(log')
          PROVE  Agrees(meta, n) /\ Agrees(synced.meta, n)
      <3>1. ~skipped /\ ~Repair!Skips BY <1>0, <2>1
      <3>2. CASE anchored
        BY <1>1, <1>3, <1>4, <3>2 DEF RepairInv, AnchorInv, Agrees, AtHead, Repair!NoMeta
      <3>3. CASE ~anchored
        <4>1. e # Repair!Event /\ synced.meta = meta BY <3>1, <3>3 DEF Repair!Skips, e
        <4>2. synced.log = log /\ meta = Len(log)
          BY <1>0, <1>2, <4>1 DEF RepairInv, AnchorInv
        <4> QED BY <1>3, <4>1, <4>2 DEF Agrees
      <3> QED BY <1>1, <3>2, <3>3 DEF RepairTypes, SpanTypes
    <2> QED BY <1>0, <2>1 DEF AnchorInv, Cutting
  <1> QED BY <1>6, <1>7, <1>10, <1>11, <1>12, <1>13 DEF RepairInv

(* LogSynced: nothing of the log can be lost any more. *)
LEMMA SyncKeeps ==
  ASSUME RepairInv, Repair!LogSynced, UNCHANGED <<Repair!disk, Repair!history>>
  PROVE  /\ DiskTypes' /\ SyncedTypes' /\ DurableInv' /\ LogInv' /\ Repair!Here' = Repair!Here
         /\ synced'.log = log /\ synced'.evidence = synced.evidence
         /\ synced'.meta = synced.meta
         /\ anchored => AtHead(meta, Len(log)) /\ AtHead(synced.meta, Len(log))
         /\ ~skipped => \A n \in Len(log) .. Len(log) : Agrees(meta, n) /\
            Agrees(synced.meta, n)
  <1>1. RepairTypes /\ Len(log) \in Nat /\ Len(synced.log) \in Nat BY Hereabouts DEF RepairInv
  <1>2. UNCHANGED <<log, tail, meta, evidence, cut, anchored, skipped>>
    BY DEF Repair!disk, Repair!history
  <1>3. /\ synced'.log = log /\ synced'.tail = tail /\ synced'.meta = synced.meta
        /\ synced'.evidence = synced.evidence /\ SyncedTypes'
    BY <1>1 DEF RepairTypes, DiskTypes, SyncedTypes, Repair!LogSynced
  <1>4. DiskTypes' /\ Repair!Here' = Repair!Here
    BY <1>1, <1>2 DEF RepairTypes, DiskTypes, Repair!Here, Repair!Offset
  <1>5. DurableInv'
    <2>1. \A c \in evidence : c[2] \in Nat BY <1>1, LineFacts DEF RepairTypes, DiskTypes
    <2> QED BY <1>1, <1>2, <1>3, <1>4, <2>1 DEF RepairInv, DurableInv
  <1>6. LogInv' BY <1>2, <1>3 DEF RepairInv, LogInv
  <1>7. ASSUME ~skipped, NEW n \in Len(log) .. Len(log)
        PROVE Agrees(meta, n) /\ Agrees(synced.meta, n)
    <2>1. n \in Len(synced.log) .. Len(log) BY <1>1 DEF RepairInv, DurableInv
    <2> QED BY <1>7, <2>1 DEF RepairInv, AnchorInv
  <1>8. anchored => AtHead(meta, Len(log)) /\ AtHead(synced.meta, Len(log))
    BY DEF RepairInv, AnchorInv
  <1> QED BY <1>3, <1>4, <1>5, <1>6, <1>7, <1>8

LEMMA FsyncKeeps ==
  ASSUME RepairInv, Repair!Fsync PROVE RepairInv'
  <1>1. at = "fsync" /\ at' = "anchor" /\ Repair!LogSynced /\ UNCHANGED <<Repair!disk, todo,
        faults, Repair!history>>
    BY DEF Repair!Fsync
  <1>2. UNCHANGED <<log, tail, meta, evidence, anchored, skipped>>
    BY <1>1 DEF Repair!disk, Repair!history
  <1>3. SpanTypes' BY <1>1, <1>2 DEF RepairInv, RepairTypes, SpanTypes, Appending, Appended
  <1>4. PlaceInv'
    BY <1>1, <1>2 DEF RepairInv, PlaceInv, Appending, Appended, Repairing, Cutting
  <1>5. TodoInv'
    BY <1>1, <1>2, SyncKeeps DEF RepairInv, TodoInv, Backing, Appending, Appended
  <1>6. AnchorInv' BY <1>1, <1>2, SyncKeeps DEF AnchorInv, Cutting
  <1> QED BY <1>1, <1>3, <1>4, <1>5, <1>6, SyncKeeps DEF RepairInv, RepairTypes

LEMMA SyncCutKeeps ==
  ASSUME RepairInv, Repair!SyncCut PROVE RepairInv'
  <1>1. at = "cutsync" /\ at' = "write" /\ Repair!LogSynced /\ UNCHANGED <<Repair!disk, todo,
        faults, Repair!history>>
    BY DEF Repair!SyncCut
  <1>2. UNCHANGED <<log, tail, meta, evidence, anchored, skipped>>
    BY <1>1 DEF Repair!disk, Repair!history
  <1>3. SpanTypes' BY <1>1, <1>2 DEF RepairInv, RepairTypes, SpanTypes, Appending, Appended
  <1>4. PlaceInv'
    BY <1>1, <1>2 DEF RepairInv, PlaceInv, Appending, Appended, Repairing, Cutting
  <1>5. TodoInv'
    BY <1>1, <1>2, SyncKeeps DEF RepairInv, TodoInv, Backing, Appending, Appended
  <1>6. AnchorInv' BY <1>1, <1>2, SyncKeeps DEF RepairInv, AnchorInv, Cutting
  <1> QED BY <1>1, <1>3, <1>4, <1>5, <1>6, SyncKeeps DEF RepairInv, RepairTypes

(* Onwards: to the cut, to the records, or it is done. *)
LEMMA OnwardsPlace ==
  ASSUME RepairInv, at \in {"sync", "metasync"}, at' = Repair!Onwards,
         UNCHANGED <<log, tail, evidence, todo>>, synced'.evidence = synced.evidence,
         anchored' \in BOOLEAN, skipped' \in BOOLEAN
  PROVE  /\ SpanTypes' /\ PlaceInv' /\ TodoInv' /\ at' \in {"link", "write", "idle"}
         /\ at' = "link" => tail # Clean
  <1>1. /\ tail \in Torn \cup {Clean} /\ (tail # Clean => todo # <<>>)
        /\ RepairTypes /\ Repair!Here' = Repair!Here
    BY DEF RepairInv, PlaceInv, Repairing, Repair!Here, Repair!Offset
  <1>2. \/ at' = "link" /\ tail # Clean
        \/ at' = "write" /\ tail = Clean /\ todo # <<>>
        \/ at' = "idle" /\ todo = <<>>
    BY DEF Repair!Onwards
  <1>3. SpanTypes' BY <1>1, <1>2 DEF RepairTypes, SpanTypes, Appending, Repairing, Cutting
  <1>4. PlaceInv' BY <1>1, <1>2 DEF PlaceInv, Appending, Appended, Repairing, Cutting
  <1>5. TodoInv'
    <2>1. CASE at' = "link"
      BY <1>1, <2>1 DEF RepairInv, TodoInv, Backing, Appended, Appending
    <2>2. CASE at' = "write"
      <3>1. tail = Clean BY <1>2, <2>2
      <3>2. Repair!Here \notin Cuts BY <1>1, <3>1, Hereabouts, LineFacts
      <3>3. evidence \subseteq synced.evidence
        BY <1>1, <3>2 DEF RepairInv, DurableInv, RepairTypes, DiskTypes
      <3>4. \A i \in 1 .. Len(todo) : todo[i] # Repair!Event => todo[i] \in synced.evidence
        BY <1>1, <3>2, <3>3, TodoFacts, LineFacts DEF RepairInv, TodoInv, Backing
      <3> QED BY <1>1, <2>2, <3>4 DEF RepairInv, TodoInv, Backing, Appended, Appending
    <2>3. CASE at' = "idle"
      <3>1. todo' = <<>> /\ Len(todo') = 0 BY <1>2, <2>3, EmptySeq
      <3> QED BY <3>1 DEF TodoInv
    <2> QED BY <1>2, <2>1, <2>2, <2>3
  <1> QED BY <1>2, <1>3, <1>4, <1>5

LEMMA SyncLogKeeps ==
  ASSUME RepairInv, Repair!SyncLog PROVE RepairInv'
  <1>1. /\ at = "sync" /\ at' = (IF meta # Len(log) THEN "meta" ELSE Repair!Onwards)
        /\ Repair!LogSynced /\ UNCHANGED <<Repair!disk, todo, faults, Repair!history>>
    BY DEF Repair!SyncLog
  <1>2. UNCHANGED <<log, tail, meta, evidence, anchored, skipped>> /\ RepairTypes
    BY <1>1 DEF Repair!disk, Repair!history, RepairInv
  <1>3. CASE at' = "meta"
    <2>1. SpanTypes' BY <1>1, <1>2, <1>3 DEF RepairTypes, SpanTypes, Repairing
    <2>2. PlaceInv'
      BY <1>1, <1>2, <1>3 DEF RepairInv, PlaceInv, Appending, Appended, Repairing, Cutting
    <2>3. TodoInv'
      BY <1>1, <1>2, <1>3, SyncKeeps DEF RepairInv, TodoInv, Backing, Appending, Appended
    <2>4. AnchorInv' BY <1>1, <1>2, <1>3, SyncKeeps DEF AnchorInv, Cutting
    <2> QED BY <1>1, <2>1, <2>2, <2>3, <2>4, SyncKeeps DEF RepairInv, RepairTypes
  <1>4. CASE meta = Len(log)
    <2>1. /\ SpanTypes' /\ PlaceInv' /\ TodoInv' /\ at' \in {"link", "write", "idle"}
      BY <1>1, <1>2, <1>4, SyncKeeps, OnwardsPlace DEF RepairTypes, SpanTypes
    <2>2. AnchorInv' BY <1>1, <1>2, <1>4, <2>1, SyncKeeps DEF AnchorInv, Cutting
    <2> QED BY <1>1, <2>1, <2>2, SyncKeeps DEF RepairInv, RepairTypes
  <1> QED BY <1>1, <1>3, <1>4

(* The rename of the anchor: the log it names is durable. *)
LEMMA AnchorRenameKeeps ==
  ASSUME RepairInv, NEW from \in {"anchor", "meta"}, NEW to \in {"dirsync", "metasync"},
         Repair!Rename(from, to), from = "anchor" <=> to = "dirsync"
  PROVE  RepairInv'
  <1>1. /\ at = from /\ at' = to /\ meta' = Len(log)
        /\ UNCHANGED <<log, tail, evidence, synced, todo, cut, anchored, skipped>>
    BY DEF Repair!Rename, Repair!history
  <1>2. RepairTypes /\ Len(log) \in Nat /\ synced.log = log
    BY <1>1, Hereabouts DEF RepairInv, AnchorInv
  <1>3. DiskTypes' /\ SyncedTypes' /\ DurableInv' /\ LogInv' /\ Repair!Here' = Repair!Here
    BY <1>1, <1>2 DEF RepairInv, RepairTypes, DiskTypes, SyncedTypes, DurableInv, LogInv, New,
      Repair!Here,
      Repair!Offset
  <1>4. SpanTypes'
    BY <1>1, <1>2 DEF RepairTypes, SpanTypes, Appending, Appended, Repairing
  <1>5. PlaceInv'
    BY <1>1 DEF RepairInv, PlaceInv, Appending, Appended, Repairing, Cutting
  <1>6. TodoInv'
    BY <1>1, <1>3 DEF RepairInv, TodoInv, Backing, Appending, Appended
  <1>7. AnchorInv'
    BY <1>1, <1>2 DEF RepairInv, AnchorInv, Cutting, Agrees, AtHead
  <1> QED BY <1>3, <1>4, <1>5, <1>6, <1>7 DEF RepairInv, RepairTypes

(* AnchorSynced, of a durable log whose head the anchor names. *)
LEMMA AnchorDurable ==
  ASSUME RepairInv, synced.log = log, meta = Len(log), UNCHANGED <<Repair!disk, cut>>,
         synced' \in [log : Seq(Lines), tail : Tails, meta : Nat \cup {Repair!NoMeta},
                      evidence : SUBSET Cuts],
         synced'.log = synced.log, synced'.tail = synced.tail, synced'.meta = meta,
         synced.evidence \subseteq synced'.evidence, synced'.evidence \subseteq evidence,
         anchored' = TRUE, skipped' = FALSE
  PROVE  /\ DiskTypes' /\ SyncedTypes' /\ DurableInv' /\ LogInv' /\ Repair!Here' = Repair!Here
         /\ AtHead(meta, Len(log))' /\ AtHead(synced'.meta, Len(log))
         /\ \A n \in Len(synced.log) .. Len(log) : Agrees(meta, n) /\ Agrees(synced'.meta, n)
  <1>1. RepairTypes /\ Len(log) \in Nat BY Hereabouts DEF RepairInv
  <1>2. UNCHANGED <<log, tail, meta, evidence, cut>> BY DEF Repair!disk
  <1>3. DiskTypes' /\ SyncedTypes' /\ Repair!Here' = Repair!Here
    BY <1>1, <1>2 DEF RepairTypes, DiskTypes, SyncedTypes, Repair!Here, Repair!Offset
  <1>4. DurableInv' BY <1>2, <1>3 DEF RepairInv, DurableInv
  <1>5. LogInv' BY <1>2 DEF RepairInv, LogInv, New
  <1>6. AtHead(meta, Len(log))' /\ AtHead(synced'.meta, Len(log)) BY <1>2 DEF AtHead
  <1>7. \A n \in Len(synced.log) .. Len(log) : Agrees(meta, n) /\ Agrees(synced'.meta, n)
    BY <1>1 DEF Agrees
  <1> QED BY <1>3, <1>4, <1>5, <1>6, <1>7

LEMMA AppendDoneKeeps ==
  ASSUME RepairInv, Repair!AppendDone PROVE RepairInv'
  <1>1. /\ at = "dirsync" /\ synced' = [synced EXCEPT !.meta = meta]
        /\ anchored' = TRUE /\ skipped' = FALSE /\ todo' = Tail(todo)
        /\ at' = (IF Len(todo) = 1 THEN "idle" ELSE "write")
        /\ UNCHANGED <<Repair!disk, cut>>
    BY DEF Repair!AppendDone, Repair!AnchorSynced
  <1>2. /\ RepairTypes /\ synced.log = log /\ meta = Len(log) /\ tail = Clean /\ todo # <<>>
        /\ Len(log) \in Nat
    BY <1>1, Hereabouts DEF RepairInv, AnchorInv, PlaceInv, Appending, Appended
  <1>3. UNCHANGED <<log, tail, meta, evidence>> BY <1>1 DEF Repair!disk
  <1>4. /\ synced' \in [log : Seq(Lines), tail : Tails, meta : Nat \cup {Repair!NoMeta},
                        evidence : SUBSET Cuts]
        /\ synced'.log = synced.log /\ synced'.tail = synced.tail /\ synced'.meta = meta
        /\ synced'.evidence = synced.evidence
    BY <1>1, <1>2 DEF RepairTypes, SyncedTypes, DiskTypes
  <1>5. synced.evidence \subseteq evidence BY DEF RepairInv, DurableInv
  <1>6. /\ DiskTypes' /\ SyncedTypes' /\ DurableInv' /\ LogInv' /\ Repair!Here' = Repair!Here
        /\ AtHead(meta, Len(log))' /\ AtHead(synced'.meta, Len(log))
        /\ \A n \in Len(synced.log) .. Len(log) : Agrees(meta, n) /\ Agrees(synced'.meta, n)
    BY <1>1, <1>2, <1>4, <1>5, AnchorDurable
  <1>7. /\ Len(todo) \in Nat /\ Len(todo) > 0 /\ Tail(todo) \in Seq(Lines)
        /\ Len(Tail(todo)) = Len(todo) - 1
        /\ \A i \in 1 .. Len(todo) - 1 : Tail(todo)[i] = todo[i + 1]
        /\ Len(todo) = 1 => Tail(todo) = <<>>
    BY <1>2, TodoFacts
  <1>8. Len(todo) # 1 => Tail(todo) # <<>>
    <2>1. Len(<<>>) = 0 BY EmptySeq
    <2> QED BY <1>7, <2>1
  <1>9. SpanTypes' BY <1>1, <1>7 DEF SpanTypes, Appending
  <1>10. PlaceInv'
    BY <1>1, <1>2, <1>3, <1>7, <1>8 DEF PlaceInv, Appending, Appended, Repairing, Cutting
  <1>11. TodoInv'
    <2>1. \A i, j \in 1 .. Len(todo') : todo'[i] = todo'[j] => i = j
      BY <1>1, <1>7 DEF RepairInv, TodoInv
    <2>2. \A i \in 1 .. Len(todo') : todo'[i] # Repair!Event
      BY <1>1, <1>7 DEF RepairInv, TodoInv
    <2>3. \A i \in 1 .. Len(todo') :
            /\ todo'[i][2] <= Len(log) /\ todo'[i] \in synced.evidence
            /\ \A k \in 1 .. Len(log) : log[k] # todo'[i]
      <3> SUFFICES ASSUME NEW i \in 1 .. Len(todo')
                   PROVE  /\ todo'[i][2] <= Len(log) /\ todo'[i] \in synced.evidence
                          /\ \A k \in 1 .. Len(log) : log[k] # todo'[i]
        OBVIOUS
      <3>1. i + 1 \in 1 .. Len(todo) /\ todo'[i] = todo[i + 1] /\ i + 1 # 1 BY <1>1, <1>7
      <3>2. todo[i + 1] # Repair!Event BY <2>2, <3>1
      <3> QED BY <1>1, <3>1, <3>2 DEF RepairInv, TodoInv, Backing
    <2>4. Backing' = synced'.evidence BY <1>1 DEF Backing
    <2> QED BY <1>3, <1>4, <2>1, <2>2, <2>3, <2>4 DEF TodoInv
  <1>12. AnchorInv' BY <1>1, <1>2, <1>3, <1>4, <1>6 DEF AnchorInv, Cutting
  <1> QED BY <1>6, <1>9, <1>10, <1>11, <1>12 DEF RepairInv, RepairTypes

LEMMA SyncMetaKeeps ==
  ASSUME RepairInv, Repair!SyncMeta PROVE RepairInv'
  <1>1. /\ at = "metasync" /\ synced' = [synced EXCEPT !.meta = meta] /\ at' = Repair!Onwards
        /\ anchored' = TRUE /\ skipped' = FALSE /\ UNCHANGED <<Repair!disk, todo, cut>>
    BY DEF Repair!SyncMeta, Repair!AnchorSynced
  <1>2. RepairTypes /\ synced.log = log /\ meta = Len(log)
    BY <1>1 DEF RepairInv, AnchorInv
  <1>3. UNCHANGED <<log, tail, meta, evidence>> BY <1>1 DEF Repair!disk
  <1>4. /\ synced' \in [log : Seq(Lines), tail : Tails, meta : Nat \cup {Repair!NoMeta},
                        evidence : SUBSET Cuts]
        /\ synced'.log = synced.log /\ synced'.tail = synced.tail /\ synced'.meta = meta
        /\ synced'.evidence = synced.evidence
    BY <1>1, <1>2 DEF RepairTypes, SyncedTypes, DiskTypes
  <1>5. synced.evidence \subseteq evidence BY DEF RepairInv, DurableInv
  <1>6. /\ DiskTypes' /\ SyncedTypes' /\ DurableInv' /\ LogInv' /\ Repair!Here' = Repair!Here
        /\ AtHead(meta, Len(log))' /\ AtHead(synced'.meta, Len(log))
        /\ \A n \in Len(synced.log) .. Len(log) : Agrees(meta, n) /\ Agrees(synced'.meta, n)
    BY <1>1, <1>2, <1>4, <1>5, AnchorDurable
  <1>7. SpanTypes' /\ PlaceInv' /\ TodoInv' /\ at' \in {"link", "write", "idle"}
    BY <1>1, <1>3, <1>4, OnwardsPlace
  <1>8. AnchorInv' BY <1>1, <1>2, <1>3, <1>4, <1>6, <1>7 DEF AnchorInv, Cutting
  <1> QED BY <1>6, <1>7, <1>8 DEF RepairInv, RepairTypes

LEMMA LinkKeeps ==
  ASSUME RepairInv, Repair!Link PROVE RepairInv'
  <1>1. /\ at = "link" /\ at' = "evsync" /\ evidence' = evidence \cup {Repair!Here}
        /\ UNCHANGED <<log, tail, meta, synced, todo, cut, anchored, skipped>>
    BY DEF Repair!Link, Repair!history
  <1>2. /\ RepairTypes /\ tail \in Torn /\ todo # <<>> /\ synced.log = log /\ meta = Len(log)
    BY <1>1 DEF RepairInv, PlaceInv, AnchorInv, Repairing, Cutting
  <1>3. /\ Repair!Here \in Cuts /\ Repair!Here[2] = Len(log) /\ Len(log) \in Nat
        /\ Repair!Here' = Repair!Here
    BY <1>1, <1>2, Hereabouts DEF Repair!Here, Repair!Offset
  <1>4. IsFiniteSet(evidence \cup {Repair!Here})
    BY <1>2, FS_AddElement DEF RepairTypes, DiskTypes
  <1>5. RepairTypes'
    BY <1>1, <1>2, <1>3, <1>4
    DEF RepairTypes, DiskTypes, SyncedTypes, SpanTypes, Repairing, Cutting
  <1>6. DurableInv'
    <2>1. \A c \in evidence' : c[2] <= Len(synced.log)
      BY <1>1, <1>2, <1>3 DEF RepairInv, DurableInv
    <2> QED BY <1>1, <1>3, <2>1 DEF RepairInv, DurableInv
  <1>7. LogInv' BY <1>1 DEF RepairInv, LogInv, New
  <1>8. PlaceInv'
    BY <1>1, <1>2, <1>3, LineFacts DEF PlaceInv, Appending, Appended, Repairing, Cutting
  <1>9. TodoInv'
    BY <1>1 DEF RepairInv, TodoInv, Backing, Appending, Appended
  <1>10. AnchorInv' BY <1>1, <1>2 DEF RepairInv, AnchorInv, Cutting
  <1> QED BY <1>5, <1>6, <1>7, <1>8, <1>9, <1>10 DEF RepairInv

LEMMA SyncEvidenceKeeps ==
  ASSUME RepairInv, Repair!SyncEvidence PROVE RepairInv'
  <1>1. /\ at = "evsync" /\ at' = "cut"
        /\ synced' = [synced EXCEPT !.evidence = evidence, !.meta = meta]
        /\ anchored' = TRUE /\ skipped' = FALSE /\ UNCHANGED <<Repair!disk, todo, cut>>
    BY DEF Repair!SyncEvidence
  <1>2. /\ RepairTypes /\ synced.log = log /\ meta = Len(log) /\ Repair!Here \in evidence
        /\ tail \in Torn /\ todo # <<>>
    BY <1>1 DEF RepairInv, AnchorInv, PlaceInv, Cutting, Repairing
  <1>3. UNCHANGED <<log, tail, meta, evidence>> BY <1>1 DEF Repair!disk
  <1>4. /\ synced' \in [log : Seq(Lines), tail : Tails, meta : Nat \cup {Repair!NoMeta},
                        evidence : SUBSET Cuts]
        /\ synced'.log = synced.log /\ synced'.tail = synced.tail /\ synced'.meta = meta
        /\ synced'.evidence = evidence
    BY <1>1, <1>2 DEF RepairTypes, SyncedTypes, DiskTypes
  <1>5. synced.evidence \subseteq evidence BY DEF RepairInv, DurableInv
  <1>6. /\ DiskTypes' /\ SyncedTypes' /\ DurableInv' /\ LogInv' /\ Repair!Here' = Repair!Here
        /\ AtHead(meta, Len(log))' /\ AtHead(synced'.meta, Len(log))
        /\ \A n \in Len(synced.log) .. Len(log) : Agrees(meta, n) /\ Agrees(synced'.meta, n)
    BY <1>1, <1>2, <1>4, <1>5, AnchorDurable
  <1>7. SpanTypes' BY <1>1, <1>2 DEF RepairTypes, SpanTypes, Repairing, Cutting
  <1>8. PlaceInv'
    BY <1>1, <1>2, <1>3, <1>4, <1>6, LineFacts
    DEF PlaceInv, Appending, Appended, Repairing, Cutting
  <1>9. TodoInv'
    BY <1>1, <1>3, <1>4 DEF RepairInv, TodoInv, Backing, Appending, Appended
  <1>10. AnchorInv' BY <1>1, <1>2, <1>3, <1>4, <1>6 DEF AnchorInv, Cutting
  <1> QED BY <1>6, <1>7, <1>8, <1>9, <1>10 DEF RepairInv, RepairTypes

LEMMA TruncateKeeps ==
  ASSUME RepairInv, Repair!Truncate PROVE RepairInv'
  <1>1. /\ at = "cut" /\ at' = "cutsync" /\ tail' = Clean /\ cut' = cut \cup {Repair!Here}
        /\ UNCHANGED <<log, meta, evidence, synced, todo, anchored, skipped>>
    BY DEF Repair!Truncate
  <1>2. /\ RepairTypes /\ Repair!Here \in synced.evidence /\ todo # <<>>
        /\ synced.log = log /\ meta = Len(log)
    BY <1>1 DEF RepairInv, PlaceInv, AnchorInv, Repairing, Cutting
  <1>3. evidence = synced.evidence BY <1>2 DEF RepairInv, DurableInv
  <1>4. RepairTypes'
    BY <1>1, <1>2 DEF RepairTypes, DiskTypes, SyncedTypes, SpanTypes, Tails
  <1>5. DurableInv' BY <1>1, <1>2, <1>3 DEF RepairInv, DurableInv
  <1>6. LogInv' BY <1>1, LineFacts DEF RepairInv, LogInv, New
  <1>7. PlaceInv' BY <1>1, <1>2 DEF PlaceInv, Appending, Appended, Repairing, Cutting
  <1>8. TodoInv' BY <1>1 DEF RepairInv, TodoInv, Backing, Appending, Appended
  <1>9. AnchorInv' BY <1>1, <1>2 DEF RepairInv, AnchorInv, Cutting
  <1> QED BY <1>4, <1>5, <1>6, <1>7, <1>8, <1>9 DEF RepairInv

LEMMA TerminateKeeps ==
  ASSUME RepairInv, Repair!Terminate PROVE RepairInv'
  <1>1. /\ at = "idle" /\ tail \notin Torn \cup {Clean} /\ log' = Append(log, tail)
        /\ tail' = Clean /\ anchored' = FALSE /\ skipped' = (skipped \/ ~anchored)
        /\ UNCHANGED <<meta, evidence, synced, at, todo, cut>>
    BY DEF Repair!Terminate, Repair!Whole
  <1>2. /\ RepairTypes /\ tail \in Lines /\ todo = <<>>
    BY <1>1 DEF RepairInv, RepairTypes, DiskTypes, Tails, PlaceInv
  <1>3. /\ log' \in Seq(Lines) /\ Len(log') = Len(log) + 1 /\ Len(log) \in Nat
        /\ \A i \in 1 .. Len(log) : log'[i] = log[i]
        /\ log'[Len(log')] = tail
    BY <1>1, <1>2, LogGrows
  <1>4. Len(synced.log) \in Nat /\ Repair!Here \notin Cuts BY <1>1, <1>2, Hereabouts
  <1>5. evidence = synced.evidence
    BY <1>2, <1>4 DEF RepairInv, DurableInv, RepairTypes, DiskTypes
  <1>6. RepairTypes'
    BY <1>1, <1>2, <1>3 DEF RepairTypes, DiskTypes, SyncedTypes, SpanTypes, Tails
  <1>7. DurableInv' BY <1>1, <1>3, <1>4, <1>5 DEF RepairInv, DurableInv
  <1>8. tail # Repair!Event => New(tail, log, synced.evidence) /\ tail[2] \in Nat
    BY <1>2, LineFacts DEF RepairInv, LogInv
  <1>9. LogInv'
    <2>1. \A i \in 1 .. Len(log') : log'[i] # Repair!Event =>
            log'[i] \in synced'.evidence /\ log'[i][2] < i
      BY <1>1, <1>3, <1>8 DEF RepairInv, LogInv, New
    <2>2. \A i, j \in 1 .. Len(log') : log'[i] = log'[j] /\ log'[i] # Repair!Event => i = j
      BY <1>3, <1>8 DEF RepairInv, LogInv, New
    <2>3. tail' \notin Cuts BY <1>1, LineFacts
    <2> QED BY <1>1, <2>1, <2>2, <2>3 DEF RepairInv, LogInv
  <1>10. PlaceInv' BY <1>1, <1>2 DEF PlaceInv, Appending, Appended, Repairing, Cutting
  <1>11. TodoInv'
    <2>1. Len(todo') = 0 BY <1>1, <1>2, EmptySeq
    <2> QED BY <2>1 DEF TodoInv
  <1>12. AnchorInv'
    <2>1. ASSUME ~skipped', NEW n \in Len(synced.log) .. Len(log')
          PROVE  Agrees(meta, n) /\ Agrees(synced.meta, n)
      <3>1. anchored BY <1>1, <2>1
      <3> QED BY <1>3, <1>4, <2>1, <3>1 DEF RepairInv, AnchorInv, Agrees, AtHead, Repair!NoMeta
    <2> QED BY <1>1, <2>1 DEF AnchorInv, Cutting
  <1> QED BY <1>6, <1>7, <1>9, <1>10, <1>11, <1>12 DEF RepairInv

LEMMA ShortWriteKeeps ==
  ASSUME RepairInv, Repair!ShortWrite PROVE RepairInv'
  <1>1. /\ at = "write" /\ at' = "idle" /\ todo' = <<>> /\ tail' \in Torn \cup {Head(todo)}
        /\ UNCHANGED <<log, meta, evidence, synced, cut, anchored, skipped>>
    BY DEF Repair!ShortWrite, Repair!Over, Repair!history
  <1>2. RepairTypes /\ tail = Clean /\ todo # <<>>
    BY <1>1 DEF RepairInv, PlaceInv, Appending
  <1>3. /\ Head(todo) = todo[1] /\ Head(todo) \in Lines /\ Len(todo) \in Nat /\ Len(todo) > 0
    BY <1>2, TodoFacts
  <1>4. evidence = synced.evidence
    BY <1>2, Hereabouts, LineFacts DEF RepairInv, DurableInv, RepairTypes, DiskTypes
  <1>5. Len(todo') = 0 /\ todo' \in Seq(Lines) BY <1>1, EmptySeq
  <1>6. RepairTypes'
    BY <1>1, <1>2, <1>3, <1>5 DEF RepairTypes, DiskTypes, SyncedTypes, SpanTypes, Tails
  <1>7. DurableInv' BY <1>1, <1>4 DEF RepairInv, DurableInv
  <1>8. tail' \in Cuts => New(tail', log, synced.evidence)
    <2> SUFFICES ASSUME tail' \in Cuts PROVE New(tail', log, synced.evidence) OBVIOUS
    <2>1. tail' = todo[1] /\ todo[1] # Repair!Event BY <1>1, <1>3, LineFacts
    <2> QED BY <1>1, <1>3, <2>1 DEF RepairInv, TodoInv, Backing, New, Appended
  <1>9. LogInv' BY <1>1, <1>8 DEF RepairInv, LogInv, New
  <1>10. PlaceInv' BY <1>1 DEF PlaceInv, Appending, Appended, Repairing, Cutting
  <1>11. TodoInv' BY <1>5 DEF TodoInv
  <1>12. AnchorInv' BY <1>1 DEF RepairInv, AnchorInv, Cutting
  <1> QED BY <1>6, <1>7, <1>9, <1>10, <1>11, <1>12 DEF RepairInv

LEMMA PowerLossKeeps ==
  ASSUME RepairInv, Repair!PowerLoss PROVE RepairInv'
  <1>1. PICK n \in Len(synced.log) .. Len(log) :
          /\ log' = SubSeq(log, 1, n)
          /\ tail' \in (IF n = Len(log) THEN {tail} ELSE Torn \cup {Clean})
                    \cup (IF n = Len(synced.log) THEN {synced.tail} ELSE {})
    BY DEF Repair!PowerLoss
  <1>2. /\ at' = "idle" /\ todo' = <<>>
        /\ meta' \in {meta, synced.meta} /\ evidence' \in {evidence, synced.evidence}
        /\ synced' = [log |-> log', tail |-> tail', meta |-> meta', evidence |-> evidence']
        /\ UNCHANGED <<cut, anchored, skipped>>
    BY DEF Repair!PowerLoss, Repair!Over, Repair!history
  <1>3. RepairTypes /\ Len(log) \in Nat /\ Len(synced.log) \in Nat /\ n \in Nat
        /\ Len(synced.log) <= n /\ n <= Len(log)
    BY Hereabouts DEF RepairInv
  <1>4. log' \in Seq(Lines) /\ Len(log') = n /\ \A i \in 1 .. n : log'[i] = log[i]
    <2>1. \A i \in 1 .. n : log[i] \in Lines
      BY <1>3, ElementOfSeq DEF RepairTypes, DiskTypes
    <2> QED BY <1>1, <1>3, <2>1, SubSeqProperties
  <1>5. /\ synced'.log = log' /\ synced'.tail = tail' /\ synced'.meta = meta'
        /\ synced'.evidence = evidence'
    BY <1>2
  <1>6. synced.evidence \subseteq evidence' /\ evidence' \subseteq evidence
    BY <1>2 DEF RepairInv, DurableInv
  <1>7. Len(todo') = 0 /\ todo' \in Seq(Lines) BY <1>2, EmptySeq
  <1>8. RepairTypes'
    <2>1. tail' \in Tails BY <1>1, <1>3 DEF RepairTypes, DiskTypes, SyncedTypes, Tails
    <2>2. meta' \in Nat \cup {Repair!NoMeta}
      BY <1>2, <1>3 DEF RepairTypes, DiskTypes, SyncedTypes
    <2>3. evidence' \in SUBSET Cuts /\ IsFiniteSet(evidence')
      BY <1>3, <1>6, FS_Subset DEF RepairTypes, DiskTypes
    <2> QED BY <1>2, <1>3, <1>4, <1>7, <2>1, <2>2, <2>3
      DEF RepairTypes, DiskTypes, SyncedTypes, SpanTypes
  <1>9. DurableInv'
    <2>1. \A c \in evidence : c[2] \in Nat /\ c[2] <= Len(synced.log)
      BY <1>3, LineFacts DEF RepairInv, DurableInv, RepairTypes, DiskTypes
    <2> QED BY <1>2, <1>3, <1>4, <1>5, <1>6, <2>1 DEF RepairInv, DurableInv
  <1>10. tail' \in Cuts => New(tail', log', evidence')
    <2> SUFFICES ASSUME tail' \in Cuts PROVE New(tail', log', evidence') OBVIOUS
    <2>1. CASE n = Len(log) /\ tail' = tail
      BY <1>3, <1>4, <1>6, <2>1 DEF RepairInv, LogInv, New
    <2>2. CASE n = Len(synced.log) /\ tail' = synced.tail
      <3>1. \A i \in 1 .. n : log'[i] = synced.log[i]
        BY <1>4, <2>2 DEF RepairInv, DurableInv
      <3> QED BY <1>3, <1>4, <1>6, <2>2, <3>1 DEF RepairInv, LogInv, New
    <2> QED BY <1>1, <2>1, <2>2, LineFacts
  <1>11. LogInv'
    BY <1>3, <1>4, <1>5, <1>6, <1>10 DEF RepairInv, LogInv
  <1>12. PlaceInv' BY <1>2 DEF PlaceInv, Appending, Appended, Repairing, Cutting
  <1>13. TodoInv' BY <1>7 DEF TodoInv
  <1>14. AnchorInv'
    <2>1. anchored => AtHead(meta', Len(log'))
      BY <1>2, <1>3, <1>4 DEF RepairInv, AnchorInv
    <2>2. ~skipped => \A i \in Len(log') .. Len(log') : Agrees(meta', i)
      BY <1>2, <1>3, <1>4 DEF RepairInv, AnchorInv
    <2> QED BY <1>2, <1>5, <2>1, <2>2 DEF AnchorInv, Cutting
  <1> QED BY <1>8, <1>9, <1>11, <1>12, <1>13, <1>14 DEF RepairInv

(* The records of a repair: the cuts that lack theirs, once each, and the  *)
(* one it is about to make.                                                *)
LEMMA ToRecordFacts ==
  ASSUME RepairInv, NEW t \in Repair!ToRecord, tail \in Torn \cup {Clean}
  PROVE  /\ t \in Seq(Lines) /\ Len(t) \in Nat
         /\ tail # Clean => t # <<>>
         /\ \A i, j \in 1 .. Len(t) : t[i] = t[j] => i = j
         /\ \A i \in 1 .. Len(t) : t[i] \in Repair!Pending \/
                                   (t[i] = Repair!Here /\ tail # Clean)
  <1> DEFINE u == IF tail = Clean THEN <<>> ELSE <<Repair!Here>>
             n == Cardinality(Repair!Pending)
  <1>1. RepairTypes BY DEF RepairInv
  <1>2. IsFiniteSet(Repair!Pending) /\ Repair!Pending \subseteq Lines /\
        Repair!Here \notin Repair!Pending
    <2>1. Repair!Pending \subseteq evidence /\ Repair!Here \notin Repair!Pending
      BY DEF Repair!Pending
    <2> QED BY <1>1, <2>1, FS_Subset, LineFacts DEF RepairTypes, DiskTypes
  <1>3. n \in Nat BY <1>2, FS_CardinalityType
  <1>4. PICK s \in Repair!SetToSeqs(Repair!Pending) : t = s \o u BY DEF Repair!ToRecord
  <1>5. s \in [1 .. n -> Repair!Pending] /\ \A i, j \in 1 .. n : i # j => s[i] # s[j]
    <2>1. Repair!Cardinality(Repair!Pending) = n BY DEF Repair!Cardinality, Cardinality
    <2> QED BY <1>4, <2>1 DEF Repair!SetToSeqs
  <1>6. s \in Seq(Lines) /\ Len(s) = n
    <2>1. s \in [1 .. n -> Lines] BY <1>2, <1>5
    <2> QED BY <1>3, <2>1
  <1>7. /\ u \in Seq(Lines) /\ Len(u) \in {0, 1}
        /\ Len(u) = 1 <=> tail # Clean
        /\ Len(u) = 1 => u[1] = Repair!Here
    <2>1. CASE tail = Clean BY <2>1, EmptySeq
    <2>2. CASE tail # Clean
      <3>1. Repair!Here \in Lines BY <1>1, <2>2, Hereabouts, LineFacts
      <3> QED BY <2>2, <3>1
    <2> QED BY <2>1, <2>2
  <1> HIDE DEF u, n
  <1>8. /\ t \in Seq(Lines) /\ Len(t) = n + Len(u)
        /\ \A i \in 1 .. n + Len(u) : t[i] = IF i <= n THEN s[i] ELSE u[i - n]
    BY <1>4, <1>6, <1>7, ConcatProperties
  <1>9. \A i \in 1 .. Len(t) : IF i <= n THEN t[i] = s[i] /\ t[i] \in Repair!Pending
                                         ELSE i = n + 1 /\ t[i] = Repair!Here /\ tail # Clean
    BY <1>3, <1>5, <1>7, <1>8
  <1>10. \A i, j \in 1 .. Len(t) : t[i] = t[j] => i = j
    <2> SUFFICES ASSUME NEW i \in 1 .. Len(t), NEW j \in 1 .. Len(t), t[i] = t[j] PROVE i = j
      OBVIOUS
    <2>1. i \in Nat /\ j \in Nat /\ i >= 1 /\ j >= 1 BY <1>3, <1>7, <1>8
    <2>2. CASE i <= n /\ j <= n BY <1>3, <1>5, <1>9, <2>1, <2>2
    <2>3. CASE i > n /\ j > n BY <1>3, <1>9, <2>1, <2>3
    <2>4. CASE i <= n /\ j > n BY <1>2, <1>3, <1>9, <2>1, <2>4
    <2>5. CASE i > n /\ j <= n BY <1>2, <1>3, <1>9, <2>1, <2>5
    <2> QED BY <1>3, <2>1, <2>2, <2>3, <2>4, <2>5
  <1>11. tail # Clean => t # <<>>
    <2>1. Len(<<>>) = 0 BY EmptySeq
    <2> QED BY <1>3, <1>7, <1>8, <2>1
  <1> QED BY <1>3, <1>7, <1>8, <1>9, <1>10, <1>11

LEMMA RepairStartsKeeps ==
  ASSUME RepairInv, Repair!RepairStarts PROVE RepairInv'
  <1>1. /\ at = "idle" /\ at' = "sync" /\ todo' \in Repair!ToRecord
        /\ tail \in Torn \cup {Clean}
        /\ \A c \in Repair!Pending : c[2] <= Len(log)
        /\ UNCHANGED <<Repair!disk, synced, Repair!history>>
    BY DEF Repair!RepairStarts, Repair!Accepts, Repair!Whole, Repair!Offset
  <1>2. RepairTypes /\ Len(log) \in Nat BY Hereabouts DEF RepairInv
  <1>3. UNCHANGED <<log, tail, meta, evidence, anchored, skipped>> /\ Repair!Here' = Repair!Here
    BY <1>1 DEF Repair!disk, Repair!history, Repair!Here, Repair!Offset
  <1>4. /\ todo' \in Seq(Lines) /\ Len(todo') \in Nat
        /\ tail # Clean => todo' # <<>>
        /\ \A i, j \in 1 .. Len(todo') : todo'[i] = todo'[j] => i = j
        /\ \A i \in 1 .. Len(todo') : todo'[i] \in Repair!Pending \/
                                      (todo'[i] = Repair!Here /\ tail # Clean)
    BY <1>1, ToRecordFacts
  <1>5. \A c \in Repair!Pending :
          /\ c \in evidence /\ c # Repair!Event /\ c[2] <= Len(log)
          /\ \A k \in 1 .. Len(log) : log[k] # c
    <2>1. DOMAIN log = 1 .. Len(log) BY <1>2, LenProperties DEF RepairTypes, DiskTypes
    <2> QED
      BY <1>1, <1>2, <2>1, LineFacts DEF Repair!Pending, Repair!Recorded, RepairTypes, DiskTypes
  <1>6. tail # Clean => /\ Repair!Here # Repair!Event /\ Repair!Here[2] <= Len(log)
                        /\ \A k \in 1 .. Len(log) : log[k] # Repair!Here
    <2> SUFFICES ASSUME tail # Clean
                 PROVE  /\ Repair!Here # Repair!Event /\ Repair!Here[2] <= Len(log)
                        /\ \A k \in 1 .. Len(log) : log[k] # Repair!Here
      OBVIOUS
    <2>1. Repair!Here \in Cuts /\ Repair!Here[2] = Len(log) BY <1>1, <1>2, Hereabouts
    <2>2. \A k \in 1 .. Len(log) : log[k] # Repair!Event => log[k][2] < k
      BY DEF RepairInv, LogInv
    <2> QED BY <1>2, <2>1, <2>2, LineFacts
  <1>7. SpanTypes' BY <1>1, <1>2, <1>3, <1>4 DEF RepairTypes, SpanTypes, Repairing
  <1>8. PlaceInv'
    BY <1>1, <1>3, <1>4 DEF PlaceInv, Appending, Appended, Repairing, Cutting
  <1>9. TodoInv'
    <2>1. Backing' = evidence \cup {Repair!Here} BY <1>1, <1>3 DEF Backing
    <2>2. \A i \in 1 .. Len(todo') : /\ todo'[i] # Repair!Event /\ todo'[i][2] <= Len(log)
                                     /\ todo'[i] \in evidence \cup {Repair!Here}
                                     /\ \A k \in 1 .. Len(log) : log[k] # todo'[i]
      BY <1>4, <1>5, <1>6
    <2> QED BY <1>3, <1>4, <2>1, <2>2 DEF TodoInv
  <1>10. AnchorInv' BY <1>1, <1>3 DEF RepairInv, AnchorInv, Cutting
  <1> QED BY <1>1, <1>7, <1>8, <1>9, <1>10, SpanMoves DEF RepairInv, RepairTypes

LEMMA RepairKeeps == RepairInv /\ [Repair!Next]_Repair!vars => RepairInv'
  <1> SUFFICES ASSUME RepairInv, [Repair!Next]_Repair!vars PROVE RepairInv' OBVIOUS
  <1>1. CASE UNCHANGED Repair!vars
    BY <1>1 DEF Repair!vars, Repair!disk, Repair!history, RepairInv, RepairTypes, DiskTypes,
      SyncedTypes, SpanTypes,
      DurableInv, LogInv, New, PlaceInv, TodoInv, Backing, AnchorInv, Repair!Here, Repair!Offset
  <1>2. CASE Repair!WriterStarts BY <1>2, WriterStartsKeeps
  <1>3. CASE Repair!AppendStep
    <2>1. CASE Repair!Rename("anchor", "dirsync") BY <2>1, AnchorRenameKeeps
    <2> QED BY <1>3, <2>1, WriteKeeps, FsyncKeeps, AppendDoneKeeps DEF Repair!AppendStep
  <1>4. CASE Repair!RepairStarts BY <1>4, RepairStartsKeeps
  <1>5. CASE Repair!RepairStep
    <2>1. CASE Repair!Rename("meta", "metasync") BY <2>1, AnchorRenameKeeps
    <2> QED BY <1>5, <2>1, SyncLogKeeps, SyncMetaKeeps, LinkKeeps, SyncEvidenceKeeps,
      TruncateKeeps, SyncCutKeeps DEF Repair!RepairStep
  <1>6. CASE Repair!Terminate BY <1>6, TerminateKeeps
  <1>7. CASE Repair!Fault BY <1>7, ShortWriteKeeps, StopsKeeps, PowerLossKeeps DEF Repair!Fault
  <1> QED BY <1>1, <1>2, <1>3, <1>4, <1>5, <1>6, <1>7 DEF Repair!Next

(* Whatever fails, dies or loses power between two system calls of an      *)
(* append or of a repair, and however often: what was cut from the log is  *)
(* in its evidence file, has one record at most, and the repair is not     *)
(* refused but in the case its exception names (quarantine.ts,             *)
(* repairUnderLock and checkAnchor).                                       *)
THEOREM EvidenceKeptHolds == Repair!Spec => []EvidenceKept
  <1> QED BY RepairStartsUp, RepairKeeps, InvKeepsEvidence, PTL DEF Repair!Spec

-----------------------------------------------------------------------------
(* The server's ledger observer (LedgerHealth). *)

Children == Observer!Children
Probes   == Observer!Probes
None     == Observer!None


Procs    == {"unborn", "loading", "loaded", "dead"}
Outcomes == {"none", "reply", "error"}
Said     == [what : {"ready", "reply", "error", "evicted"}, n : Probes \cup {None}]

(* The variables have their types. *)
Flags ==
  /\ started \in BOOLEAN /\ closing \in BOOLEAN /\ ready \in BOOLEAN /\ sent \in BOOLEAN
  /\ evicted \in BOOLEAN /\ late \in BOOLEAN /\ respawn \in BOOLEAN

Shapes ==
  /\ child \in Children \cup {None} /\ spawns \in 0 .. LastChild
  /\ seq \in 0 .. LastProbe /\ probed \in Probes \cup {None}
  /\ lastOutcome \in Outcomes
  /\ readyTimer \in Children \cup {None} /\ timers \in Nat
  /\ proc \in [Children -> Procs] /\ asked \in [Children -> Probes \cup {None}]
  /\ outbox \in [Children -> Seq(Said)] /\ exits \subseteq Children
  /\ given \in [Probes -> Children \cup {None}] /\ answer \in [Probes -> Outcomes]

Types == Flags /\ Shapes

(* The target: one probe out at a time, of a child that exists. *)
Target ==
  /\ probed # None => probed = seq /\ child # None
  /\ child <= spawns
  /\ lastOutcome # "none" => child # None
  /\ closing => child = None /\ probed = None
  /\ ready => child # None /\ proc[child] \in {"loaded", "dead"}
  /\ respawn => timers > 0

(* The children: a dead one is gone or its exit is on the way; one speaks  *)
(* only once it is loaded.                                                 *)
Family ==
  /\ \A k \in Children : k > spawns => proc[k] = "unborn"
  /\ \A k \in Children : proc[k] \in {"unborn", "loading"} =>
       outbox[k] = <<>> /\ asked[k] = None
  /\ \A k \in Children : proc[k] \in {"unborn", "loading", "loaded"} => k \notin exits
  /\ child # None /\ proc[child] = "dead" => child \in exits
  /\ child # None => proc[child] # "unborn"

(* The probes: one is given to a child once, and answered by it once. *)
Probing ==
  /\ \A n \in Probes : n > seq => given[n] = None
  /\ probed # None /\ ~sent => given[probed] = None
  /\ \A n \in Probes : given[n] = None => answer[n] = "none"
  /\ \A k \in Children : asked[k] # None => given[asked[k]] = k /\ answer[asked[k]] = "none"

(* An answer on the way is the one its child gave to a probe it was given. *)
Spoken ==
  \A k \in Children : \A i \in 1 .. Len(outbox[k]) :
    outbox[k][i].what \in {"reply", "error"} =>
      /\ outbox[k][i].n \in Probes
      /\ given[outbox[k][i].n] = k /\ answer[outbox[k][i].n] = outbox[k][i].what

(* What state() goes by. *)
Honest ==
  /\ lastOutcome # "none" =>
       LET n == IF probed = None THEN seq ELSE seq - 1
       IN  n \in Probes /\ given[n] = child /\ answer[n] = lastOutcome
  /\ probed # None /\ sent /\ (late \/ child \notin exits) => given[probed] = child

HealthInv == Types /\ Target /\ Family /\ Probing /\ Spoken /\ Honest

USE PartsAssumption
DEF PartsAssumption, Children, Probes, None, Observer!Children, Observer!Probes,
    Observer!None, HealthInv

(* spawn(): of a target that is not stopped. *)
LEMMA SpawnKeeps ==
  ASSUME HealthInv, NEW armed \in Nat, Observer!Spawn(armed), ~closing, started' \in BOOLEAN,
         UNCHANGED <<closing, asked, outbox, exits, given, answer>>
  PROVE  HealthInv'
<1>1. CASE Observer!Failed(armed) /\ evicted' = FALSE /\ UNCHANGED <<child, spawns, sent, seq, readyTimer, proc>>
  <2> USE <1>1
  <2>1. Types'
    <3>1. Flags'
      BY DEF Types, Flags, Observer!Failed, Outcomes
    <3>2. Shapes'
      BY DEF Types, Shapes, Observer!Failed, Outcomes
    <3>3. QED
      BY <3>1, <3>2 DEF Types
  <2>2. Target' /\ Family'
    BY DEF Types, Shapes, Target, Family, Observer!Failed
  <2>3. Probing' /\ Spoken'
    BY DEF Probing, Spoken, Observer!Failed
  <2>4. Honest'
    BY DEF Honest, Observer!Failed
  <2>5. QED
    BY <2>1, <2>2, <2>3, <2>4
<1>2. CASE ~(Observer!Failed(armed) /\ evicted' = FALSE /\ UNCHANGED <<child, spawns, sent, seq, readyTimer, proc>>)
  <2>0. /\ spawns < LastChild /\ seq < LastProbe
        /\ spawns' = spawns + 1 /\ child' = spawns + 1
        /\ proc' = [proc EXCEPT ![spawns + 1] = "loading"]
        /\ seq' = seq + 1 /\ probed' = seq + 1
        /\ ready' = FALSE /\ sent' = FALSE /\ evicted' = FALSE /\ late' = FALSE
        /\ lastOutcome' = "none"
        /\ readyTimer' = spawns + 1
        /\ timers' = armed /\ respawn' = FALSE
    BY <1>2 DEF Observer!Spawn, Observer!ArmReady
  <2>1. spawns + 1 \in Children /\ seq + 1 \in Probes /\ proc[spawns + 1] = "unborn"
    BY <2>0 DEF Types, Shapes, Family
  <2>2. Types'
    <3>1. Flags'
      BY <2>0, <2>1 DEF Types, Flags, Outcomes, Procs
    <3>2. Shapes'
      BY <2>0, <2>1 DEF Types, Shapes, Outcomes, Procs
    <3>3. QED
      BY <3>1, <3>2 DEF Types
  <2>3. Target'
    BY <2>0, <2>1 DEF Target
  <2>4. Family'
    <3>1. /\ proc'[spawns + 1] = "loading" /\ outbox'[spawns + 1] = <<>> /\ asked'[spawns + 1] = None
          /\ spawns + 1 \notin exits'
          /\ \A k \in Children \ {spawns + 1} : proc'[k] = proc[k]
      BY <2>0, <2>1 DEF Types, Shapes, Family
    <3>2. \A k \in Children \ {spawns + 1} :
            k > spawns' => k > spawns /\ outbox'[k] = outbox[k] /\ asked'[k] = asked[k]
      BY <2>0 DEF Types, Shapes
    <3>3. \A k \in Children : k > spawns' => proc'[k] = "unborn"
      BY <2>0, <3>1, <3>2 DEF Types, Shapes, Family
    <3>4. \A k \in Children : /\ proc'[k] \in {"unborn", "loading"} => outbox'[k] = <<>> /\ asked'[k] = None
                             /\ proc'[k] \in {"unborn", "loading", "loaded"} => k \notin exits'
      BY <3>1 DEF Family
    <3>5. QED
      BY <2>0, <2>1, <3>1, <3>3, <3>4 DEF Family
  <2>5. Probing' /\ Honest'
    BY <2>0, <2>1 DEF Types, Shapes, Probing, Honest
  <2>6. Spoken'
    BY DEF Spoken
  <2>7. QED
    BY <2>2, <2>3, <2>4, <2>5, <2>6
<1>3. QED
  BY <1>1, <1>2

(* start() spawns the first child. *)
LEMMA StartKeeps ==
  ASSUME HealthInv, Observer!Start
  PROVE  HealthInv'
<1> QED
  BY SpawnKeeps DEF Observer!Start, Observer!childVars

(* The respawn timer spawns the next one, unless stopped. *)
LEMMA RespawnFiresKeeps ==
  ASSUME HealthInv, Observer!RespawnFires
  PROVE  HealthInv'
<1>1. CASE closing
  <2>1. Types'
    <3>1. Flags'
      BY <1>1 DEF Observer!RespawnFires, Types, Flags, Observer!childVars
    <3>2. Shapes'
      BY <1>1 DEF Observer!RespawnFires, Types, Shapes, Observer!childVars
    <3>3. QED
      BY <3>1, <3>2 DEF Types
  <2>2. QED
    BY <1>1, <2>1
    DEF Observer!RespawnFires, Target, Family, Probing, Spoken, Honest, Observer!childVars
<1>2. CASE ~closing
  <2>1. timers - 1 \in Nat
    BY DEF Observer!RespawnFires, Types, Shapes
  <2>2. Observer!Spawn(timers - 1) /\ UNCHANGED <<started, closing, asked, outbox, exits, given, answer>>
    BY <1>2 DEF Observer!RespawnFires, Observer!childVars
  <2>3. started' \in BOOLEAN
    BY <2>2 DEF Types, Flags
  <2>4. QED
    BY <1>2, <2>1, <2>2, <2>3, SpawnKeeps
<1>3. QED
  BY <1>1, <1>2

(* The current child is detached and killed. *)
LEMMA DetachKeeps ==
  ASSUME HealthInv, child # None, child' = None, readyTimer' = None, Observer!Killed(child), Observer!Failed(timers),
         UNCHANGED <<started, closing, spawns, sent, seq, evicted, asked, outbox, given, answer>>
  PROVE  HealthInv'
<1>1. /\ child \in Children
      /\ \/ proc' = [proc EXCEPT ![child] = "dead"] /\ exits' = exits \cup {child}
         \/ UNCHANGED <<proc, exits>>
  BY DEF Types, Shapes, Observer!Killed
<1>2. /\ \A k \in Children : proc'[k] = proc[k] \/ (k = child /\ proc'[k] = "dead" /\ Observer!Alive(k))
      /\ \A k \in Children : (k \in exits' <=> k \in exits) \/ proc'[k] = "dead"
      /\ proc' \in [Children -> Procs] /\ exits' \subseteq Children
  BY <1>1 DEF Types, Shapes, Procs, Observer!Killed
<1>3. Types'
  <2>1. Flags'
    BY <1>2 DEF Types, Flags, Observer!Failed, Outcomes
  <2>2. Shapes'
    BY <1>2 DEF Types, Shapes, Observer!Failed, Outcomes
  <2>3. QED
    BY <2>1, <2>2 DEF Types
<1>4. Target' /\ Honest'
  BY DEF Target, Honest, Types, Shapes, Observer!Failed
<1>5. Family'
  BY <1>2 DEF Family, Types, Shapes, Observer!Alive
<1>6. Probing' /\ Spoken'
  BY DEF Probing, Spoken, Observer!Failed
<1>7. QED
  BY <1>3, <1>4, <1>5, <1>6

(* A child that is not ready in time is detached. *)
LEMMA ReadyTimeoutKeeps ==
  ASSUME HealthInv, Observer!ReadyTimeout
  PROVE  HealthInv'
<1>1. CASE ~closing /\ child = readyTimer /\ ~ready
  BY <1>1, DetachKeeps DEF Observer!ReadyTimeout
<1>2. CASE ~(~closing /\ child = readyTimer /\ ~ready)
  <2>1. Types'
    <3>1. Flags'
      BY <1>2 DEF Observer!ReadyTimeout, Types, Flags
    <3>2. Shapes'
      BY <1>2 DEF Observer!ReadyTimeout, Types, Shapes
    <3>3. QED
      BY <3>1, <3>2 DEF Types
  <2>2. QED
    BY <1>2, <2>1 DEF Observer!ReadyTimeout, Target, Family, Probing, Spoken, Honest
<1>3. QED
  BY <1>1, <1>2

(* So is one whose process reports an error. *)
LEMMA ErrorKeeps ==
  ASSUME HealthInv, NEW k \in Children, Observer!Error(k)
  PROVE  HealthInv'
<1> QED
  BY DetachKeeps DEF Observer!Error, Observer!Hears

(* And one that exits, if it is the current one. *)
LEMMA ExitKeeps ==
  ASSUME HealthInv, NEW k \in Children, Observer!Exit(k)
  PROVE  HealthInv'
<1>1. proc[k] = "dead"
  BY DEF Observer!Exit, Types, Shapes, Procs, Family
<1>2. CASE Observer!Hears(k)
  <2>1. Types'
    <3>1. Flags'
      BY <1>2 DEF Observer!Exit, Types, Flags, Observer!Failed, Outcomes
    <3>2. Shapes'
      BY <1>2 DEF Observer!Exit, Types, Shapes, Observer!Failed, Outcomes
    <3>3. QED
      BY <3>1, <3>2 DEF Types
  <2>2. Target' /\ Family' /\ Honest'
    BY <1>1, <1>2 DEF Observer!Exit, Types, Shapes, Target, Family, Honest, Observer!Failed
  <2>3. Probing' /\ Spoken'
    BY <1>2 DEF Observer!Exit, Probing, Spoken, Observer!Failed
  <2>4. QED
    BY <2>1, <2>2, <2>3
<1>3. CASE ~Observer!Hears(k)
  <2>1. Types'
    <3>1. Flags'
      BY <1>3 DEF Observer!Exit, Types, Flags
    <3>2. Shapes'
      BY <1>3 DEF Observer!Exit, Types, Shapes
    <3>3. QED
      BY <3>1, <3>2 DEF Types
  <2>2. child # k
    BY <1>3 DEF Observer!Hears, Target
  <2>3. /\ UNCHANGED <<started, closing, child, readyTimer, ready, probed, lastOutcome, late,
                       timers, respawn, spawns, sent, seq, evicted, proc, asked, outbox, given, answer>>
        /\ exits' = exits \ {k}
    BY <1>3 DEF Observer!Exit
  <2>4. Target' /\ Probing' /\ Spoken'
    BY <2>3 DEF Target, Probing, Spoken
  <2>5. Family' /\ Honest'
    BY <1>1, <2>2, <2>3 DEF Family, Honest
  <2>6. QED
    BY <2>1, <2>4, <2>5
<1>4. QED
  BY <1>2, <1>3

(* stop() leaves no child and no probe. *)
LEMMA StopKeeps ==
  ASSUME HealthInv, Observer!Stop
  PROVE  HealthInv'
<1>1. timers' \in Nat
  BY DEF Observer!Stop, Types, Shapes, Target
<1>2. /\ \A k \in Children : proc'[k] = proc[k] \/ (k = child /\ proc'[k] = "dead" /\ Observer!Alive(k))
      /\ \A k \in Children : (k \in exits' <=> k \in exits) \/ proc'[k] = "dead"
      /\ proc' \in [Children -> Procs] /\ exits' \subseteq Children
  BY DEF Observer!Stop, Types, Shapes, Procs, Observer!Killed
<1>3. Types'
  <2>1. Flags'
    BY <1>2 DEF Observer!Stop, Types, Flags, Outcomes
  <2>2. Shapes'
    BY <1>1, <1>2 DEF Observer!Stop, Types, Shapes, Outcomes
  <2>3. QED
    BY <2>1, <2>2 DEF Types
<1>4. Target' /\ Honest'
  BY DEF Observer!Stop, Target, Honest, Types, Shapes
<1>5. Family'
  BY <1>2 DEF Observer!Stop, Family, Types, Shapes, Observer!Alive
<1>6. Probing' /\ Spoken'
  BY DEF Observer!Stop, Probing, Spoken
<1>7. QED
  BY <1>3, <1>4, <1>5, <1>6

(* A probe is sent to the current child, if it is loaded. *)
LEMMA ProbeKeeps ==
  ASSUME HealthInv, Observer!Probe
  PROVE  HealthInv'
<1>1. /\ child \in Children /\ seq + 1 \in Probes /\ given[seq + 1] = None
      /\ answer[seq + 1] = "none" /\ proc[child] \in {"loaded", "dead"}
      /\ probed = None /\ probed' = seq + 1 /\ seq' = seq + 1 /\ late' = FALSE
      /\ sent' = TRUE
      /\ UNCHANGED <<started, closing, child, spawns, ready, lastOutcome, evicted, readyTimer,
                     timers, respawn, proc, outbox, exits, answer>>
  BY DEF Observer!Probe, Observer!Send, Types, Shapes, Target, Probing
<1>2. \/ /\ proc[child] = "loaded" /\ asked' = [asked EXCEPT ![child] = seq + 1]
         /\ given' = [given EXCEPT ![seq + 1] = child]
      \/ proc[child] = "dead" /\ UNCHANGED <<asked, given>>
  BY <1>1 DEF Observer!Probe, Observer!Send
<1>3. Types'
  <2>1. Flags'
    BY <1>1, <1>2 DEF Types, Flags
  <2>2. asked \in [Children -> Probes \cup {None}] /\ given \in [Probes -> Children \cup {None}]
    BY DEF Types, Shapes
  <2>3. asked' \in [Children -> Probes \cup {None}] /\ given' \in [Probes -> Children \cup {None}]
    <3>1. CASE UNCHANGED <<asked, given>>
      BY <2>2, <3>1
    <3>2. CASE asked' = [asked EXCEPT ![child] = seq + 1] /\ given' = [given EXCEPT ![seq + 1] = child]
      BY <1>1, <2>2, <3>2
    <3>3. QED
      BY <1>2, <3>1, <3>2
  <2>4. Shapes'
    BY <1>1, <2>3 DEF Types, Shapes
  <2>5. QED
    BY <2>1, <2>4 DEF Types
<1>4. Target' /\ Family'
  BY <1>1, <1>2 DEF Types, Shapes, Target, Family
<1>5. Probing'
  <2>1. CASE proc[child] = "dead" /\ UNCHANGED <<asked, given>>
    BY <1>1, <2>1 DEF Types, Shapes, Probing
  <2>2. CASE asked' = [asked EXCEPT ![child] = seq + 1] /\ given' = [given EXCEPT ![seq + 1] = child]
    <3>1. /\ \A n \in Probes \ {seq + 1} : given'[n] = given[n]
          /\ given'[seq + 1] = child /\ asked'[child] = seq + 1
          /\ \A k \in Children \ {child} : asked'[k] = asked[k]
      BY <1>1, <2>2 DEF Types, Shapes
    <3>2. \A k \in Children : asked[k] # None => asked[k] # seq + 1 /\ asked[k] \in Probes
      BY <1>1 DEF Types, Shapes, Probing
    <3>3. \A k \in Children : asked'[k] # None =>
            given'[asked'[k]] = k /\ answer[asked'[k]] = "none"
      BY <1>1, <3>1, <3>2 DEF Probing
    <3>4. \A n \in Probes : n > seq + 1 => given'[n] = None
      BY <3>1 DEF Probing, Types, Shapes
    <3>5. \A n \in Probes : given'[n] = None => answer[n] = "none"
      BY <1>1, <3>1 DEF Probing
    <3>6. QED
      BY <1>1, <3>3, <3>4, <3>5 DEF Probing
  <2>3. QED
    BY <1>2, <2>1, <2>2
<1>6. Spoken'
  <2>1. \A n \in Probes : given[n] # None => given'[n] = given[n]
    BY <1>1, <1>2 DEF Types, Shapes
  <2>2. ASSUME NEW k \in Children, NEW i \in 1 .. Len(outbox[k]),
               outbox[k][i].what \in {"reply", "error"}
        PROVE  /\ outbox[k][i].n \in Probes
               /\ given'[outbox[k][i].n] = k /\ answer[outbox[k][i].n] = outbox[k][i].what
    <3>1. /\ outbox[k][i].n \in Probes
          /\ given[outbox[k][i].n] = k /\ answer[outbox[k][i].n] = outbox[k][i].what
      BY <2>2 DEF Spoken
    <3>2. QED
      BY <2>1, <3>1
  <2>3. outbox' = outbox /\ answer' = answer
    BY <1>1
  <2>4. QED
    BY <2>2, <2>3 DEF Spoken
<1>7. Honest'
  BY <1>1, <1>2 DEF Types, Shapes, Honest, Family
<1>8. QED
  BY <1>3, <1>4, <1>5, <1>6, <1>7

(* A probe is overdue only where its child's exit is not on the way. *)
LEMMA TimePassesKeeps ==
  ASSUME HealthInv, Observer!TimePasses
  PROVE  HealthInv'
<1>1. Types'
  <2>1. Flags'
    BY DEF Observer!TimePasses, Types, Flags, Observer!childVars
  <2>2. Shapes'
    BY DEF Observer!TimePasses, Types, Shapes, Observer!childVars
  <2>3. QED
    BY <2>1, <2>2 DEF Types
<1>2. QED
  BY <1>1 DEF Observer!TimePasses, Observer!childVars, Target, Family, Probing, Spoken,
     Honest

-----------------------------------------------------------------------------
(* A child's message goes behind those it sent before. *)
LEMMA SaysKeeps ==
  ASSUME Types, Spoken, NEW k \in Children, NEW m \in Said, Observer!Says(k, m), UNCHANGED given,
         m.what \in {"reply", "error"} =>
           m.n \in Probes /\ given[m.n] = k /\ answer'[m.n] = m.what,
         \A n \in Probes : answer[n] # "none" => answer'[n] = answer[n]
  PROVE  /\ outbox' \in [Children -> Seq(Said)] /\ Spoken'
         /\ \A j \in Children \ {k} : outbox'[j] = outbox[j]
<1>1. /\ outbox' = [outbox EXCEPT ![k] = Append(outbox[k], m)]
      /\ outbox[k] \in Seq(Said) /\ Append(outbox[k], m) \in Seq(Said)
  BY DEF Observer!Says, Types, Shapes
<1>2. outbox' \in [Children -> Seq(Said)] /\ \A j \in Children \ {k} : outbox'[j] = outbox[j]
  BY <1>1 DEF Types, Shapes
<1>3. /\ Len(outbox'[k]) = Len(outbox[k]) + 1 /\ outbox'[k][Len(outbox[k]) + 1] = m
      /\ \A i \in 1 .. Len(outbox[k]) : outbox'[k][i] = outbox[k][i]
      /\ Len(outbox[k]) \in Nat
  BY <1>1, AppendProperties DEF Types, Shapes
<1>4. ASSUME NEW j \in Children, NEW i \in 1 .. Len(outbox'[j]),
             outbox'[j][i].what \in {"reply", "error"}
      PROVE  /\ outbox'[j][i].n \in Probes /\ given'[outbox'[j][i].n] = j
             /\ answer'[outbox'[j][i].n] = outbox'[j][i].what
  <2>1. CASE j = k /\ i = Len(outbox[k]) + 1
    BY <1>3, <1>4, <2>1
  <2>2. CASE ~(j = k /\ i = Len(outbox[k]) + 1)
    <3>1. i \in 1 .. Len(outbox[j]) /\ outbox'[j][i] = outbox[j][i]
      <4>1. CASE j = k
        BY <1>3, <2>2, <4>1
      <4>2. CASE j # k
        BY <1>2, <4>2
      <4>3. QED
        BY <4>1, <4>2
    <3>2. /\ outbox[j][i].n \in Probes /\ given[outbox[j][i].n] = j
          /\ answer[outbox[j][i].n] = outbox[j][i].what
      BY <1>4, <3>1 DEF Spoken
    <3>3. answer'[outbox[j][i].n] = answer[outbox[j][i].n]
      BY <1>4, <3>1, <3>2
    <3>4. QED
      BY <3>1, <3>2, <3>3
  <2>3. QED
    BY <2>1, <2>2
<1>5. Spoken'
  BY <1>4 DEF Spoken
<1>6. QED
  BY <1>2, <1>5

(* A child says that it is ready. *)
LEMMA ChildLoadsKeeps ==
  ASSUME HealthInv, NEW k \in Children, Observer!ChildLoads(k)
  PROVE  HealthInv'
<1>1. /\ [what |-> "ready", n |-> None] \in Said
      /\ Observer!Says(k, [what |-> "ready", n |-> None]) /\ UNCHANGED <<given, answer>>
      /\ UNCHANGED <<started, closing, Observer!targetVars, asked, exits>>
      /\ proc[k] = "loading" /\ proc' = [proc EXCEPT ![k] = "loaded"]
  BY DEF Observer!ChildLoads, Said
<1>2. /\ outbox' \in [Children -> Seq(Said)] /\ Spoken'
      /\ \A j \in Children \ {k} : outbox'[j] = outbox[j]
  BY <1>1, SaysKeeps
<1>3. Types'
  <2>1. Flags'
    BY <1>1, <1>2 DEF Types, Flags, Procs, Observer!targetVars
  <2>2. Shapes'
    BY <1>1, <1>2 DEF Types, Shapes, Procs, Observer!targetVars
  <2>3. QED
    BY <2>1, <2>2 DEF Types
<1>4. Target' /\ Probing' /\ Honest'
  BY <1>1 DEF Types, Shapes, Target, Probing, Honest, Observer!targetVars
<1>5. Family'
  BY <1>1, <1>2 DEF Types, Shapes, Family, Observer!targetVars
<1>6. QED
  BY <1>2, <1>3, <1>4, <1>5

(* A child answers the probe it was given. *)
LEMMA ChildAnswersKeeps ==
  ASSUME HealthInv, NEW k \in Children, Observer!ChildAnswers(k)
  PROVE  HealthInv'
<1>1. PICK what \in {"reply", "error"} :
        Observer!Says(k, [what |-> what, n |-> asked[k]]) /\ answer' = [answer EXCEPT ![asked[k]] = what]
  BY DEF Observer!ChildAnswers
<1>2. /\ asked' = [asked EXCEPT ![k] = None] /\ proc[k] = "loaded"
      /\ asked[k] \in Probes /\ given[asked[k]] = k /\ answer[asked[k]] = "none"
      /\ UNCHANGED <<started, closing, Observer!targetVars, proc, exits, given>>
      /\ [what |-> what, n |-> asked[k]] \in Said
  BY DEF Observer!ChildAnswers, Types, Shapes, Probing, Said
<1>3. \A n \in Probes : answer[n] # "none" => answer'[n] = answer[n]
  BY <1>1, <1>2 DEF Types
<1>4. /\ outbox' \in [Children -> Seq(Said)] /\ Spoken'
      /\ \A j \in Children \ {k} : outbox'[j] = outbox[j]
  BY <1>1, <1>2, <1>3, SaysKeeps DEF Types, Shapes
<1>5. Types'
  <2>1. Flags'
    BY <1>1, <1>2, <1>4 DEF Types, Flags, Outcomes, Observer!targetVars
  <2>2. Shapes'
    BY <1>1, <1>2, <1>4 DEF Types, Shapes, Outcomes, Observer!targetVars
  <2>3. QED
    BY <2>1, <2>2 DEF Types
<1>6. Target' /\ Family'
  BY <1>2, <1>4 DEF Types, Shapes, Target, Family, Observer!targetVars
<1>7. Probing'
  BY <1>1, <1>2, <1>3 DEF Types, Shapes, Probing, Observer!targetVars
<1>8. Honest'
  BY <1>2, <1>3 DEF Types, Shapes, Honest, Observer!targetVars
<1>9. QED
  BY <1>4, <1>5, <1>6, <1>7, <1>8

(* A child dies, after what it said. *)
LEMMA ChildExitsKeeps ==
  ASSUME HealthInv, NEW k \in Children, Observer!ChildExits(k)
  PROVE  HealthInv'
<1>1. /\ Observer!Alive(k) /\ proc' = [proc EXCEPT ![k] = "dead"] /\ exits' = exits \cup {k}
      /\ UNCHANGED <<started, closing, Observer!targetVars, asked, given, answer>>
      /\ [what |-> "evicted", n |-> None] \in Said
  BY DEF Observer!ChildExits, Said
<1>2. /\ outbox' \in [Children -> Seq(Said)] /\ Spoken'
      /\ \A j \in Children \ {k} : outbox'[j] = outbox[j]
  <2>1. CASE UNCHANGED outbox
    <3>1. outbox' = outbox /\ given' = given /\ answer' = answer
      BY <1>1, <2>1
    <3>2. outbox \in [Children -> Seq(Said)]
      BY DEF Types, Shapes
    <3>3. QED
      BY <3>1, <3>2 DEF Spoken
  <2>2. CASE Observer!Says(k, [what |-> "evicted", n |-> None])
    BY <1>1, <2>2, SaysKeeps
  <2>3. QED
    BY <2>1, <2>2 DEF Observer!ChildExits
<1>3. Types'
  <2>1. Flags'
    BY <1>1, <1>2 DEF Types, Flags, Procs, Observer!targetVars
  <2>2. Shapes'
    BY <1>1, <1>2 DEF Types, Shapes, Procs, Observer!targetVars
  <2>3. QED
    BY <2>1, <2>2 DEF Types
<1>4. Target' /\ Probing'
  BY <1>1 DEF Types, Shapes, Target, Probing, Observer!targetVars, Observer!Alive
<1>5. Family'
  BY <1>1, <1>2 DEF Types, Shapes, Family, Observer!targetVars, Observer!Alive
<1>6. Honest'
  BY <1>1 DEF Types, Shapes, Honest, Observer!targetVars
<1>7. QED
  BY <1>2, <1>3, <1>4, <1>5, <1>6

(* onMessage(). *)
LEMMA MessageKeeps ==
  ASSUME HealthInv, NEW k \in Children, Observer!Message(k)
  PROVE  HealthInv'
<1> DEFINE m == Head(outbox[k])
<1>1. /\ outbox[k] \in Seq(Said) /\ outbox[k] # <<>> /\ m = outbox[k][1] /\ m \in Said
      /\ outbox' = [outbox EXCEPT ![k] = Tail(outbox[k])] /\ Tail(outbox[k]) \in Seq(Said)
      /\ UNCHANGED <<started, closing, child, spawns, seq, timers, respawn, proc, exits, answer>>
      /\ proc[k] \in {"loaded", "dead"}
  BY HeadTailProperties DEF Observer!Message, Types, Shapes, Family, Procs
<1>2. /\ outbox' \in [Children -> Seq(Said)]
      /\ \A j \in Children \ {k} : outbox'[j] = outbox[j]
      /\ \A i \in 1 .. Len(outbox'[k]) : i + 1 \in 1 .. Len(outbox[k]) /\ outbox'[k][i] = outbox[k][i + 1]
  BY <1>1, HeadTailProperties DEF Types, Shapes
<1>3. m.what \in {"reply", "error"} => m.n \in Probes /\ given[m.n] = k /\ answer[m.n] = m.what
  BY <1>1 DEF Spoken
<1>4. ASSUME \A n \in Probes : given[n] # None => given'[n] = given[n] PROVE Spoken'
  <2>1. ASSUME NEW j \in Children, NEW i \in 1 .. Len(outbox'[j]),
               outbox'[j][i].what \in {"reply", "error"}
        PROVE  /\ outbox'[j][i].n \in Probes /\ given'[outbox'[j][i].n] = j
               /\ answer'[outbox'[j][i].n] = outbox'[j][i].what
    <3>1. PICK h \in 1 .. Len(outbox[j]) : outbox'[j][i] = outbox[j][h]
      BY <1>2
    <3>2. /\ outbox[j][h].n \in Probes /\ given[outbox[j][h].n] = j
          /\ answer[outbox[j][h].n] = outbox[j][h].what
      BY <2>1, <3>1 DEF Spoken
    <3>3. given'[outbox[j][h].n] = j
      BY <1>4, <3>2
    <3>4. answer' = answer
      BY <1>1
    <3>5. QED
      BY <3>1, <3>2, <3>3, <3>4
  <2>2. QED
    BY <2>1 DEF Spoken
<1>5. CASE Observer!Hears(k) /\ m.what = "ready"
  <2>1. /\ child = k /\ ready' = TRUE /\ readyTimer' = None /\ late' = FALSE
        /\ UNCHANGED <<probed, lastOutcome, evicted>>
        /\ IF probed # None /\ ~sent THEN Observer!Send(probed) ELSE UNCHANGED <<sent, asked, given>>
    BY <1>5 DEF Observer!Message, Observer!Hears
  <2>2. CASE probed # None /\ ~sent /\ proc[k] = "loaded"
    <3>1. /\ sent' = TRUE /\ asked' = [asked EXCEPT ![k] = probed]
          /\ given' = [given EXCEPT ![probed] = k] /\ probed \in Probes
          /\ given[probed] = None /\ answer[probed] = "none" /\ probed = seq
      BY <2>1, <2>2 DEF Observer!Send, Types, Shapes, Probing, Target
    <3>2. Types'
      <4>1. Flags'
        BY <1>1, <1>2, <2>1, <3>1 DEF Types, Flags
      <4>2. Shapes'
        BY <1>1, <1>2, <2>1, <3>1 DEF Types, Shapes
      <4>3. QED
        BY <4>1, <4>2 DEF Types
    <3>3. Target' /\ Family'
      BY <1>1, <1>2, <2>1, <3>1 DEF Types, Shapes, Target, Family
    <3>4. Probing' /\ Honest'
      BY <1>1, <2>1, <3>1 DEF Types, Shapes, Probing, Honest
    <3>5. QED
      BY <1>4, <3>1, <3>2, <3>3, <3>4 DEF Types, Shapes
  <2>3. CASE ~(probed # None /\ ~sent /\ proc[k] = "loaded")
    <3>1. UNCHANGED <<asked, given>> /\ (sent' = sent \/ (sent' = TRUE /\ proc[k] = "dead"))
      BY <1>1, <2>1, <2>3 DEF Observer!Send
    <3>2. Types'
      <4>1. Flags'
        BY <1>1, <1>2, <2>1, <3>1 DEF Types, Flags
      <4>2. Shapes'
        BY <1>1, <1>2, <2>1, <3>1 DEF Types, Shapes
      <4>3. QED
        BY <4>1, <4>2 DEF Types
    <3>3. Target' /\ Family'
      BY <1>1, <1>2, <2>1, <3>1 DEF Types, Shapes, Target, Family
    <3>4. Probing' /\ Honest'
      BY <1>1, <2>1, <3>1 DEF Types, Shapes, Probing, Honest, Family
    <3>5. QED
      BY <1>4, <3>1, <3>2, <3>3, <3>4
  <2>4. QED
    BY <2>2, <2>3
<1>6. CASE Observer!Hears(k) /\ m.what \in {"reply", "error"} /\ probed = m.n
  <2>1. /\ child = k /\ probed' = None /\ late' = FALSE /\ lastOutcome' = m.what
        /\ UNCHANGED <<ready, readyTimer, sent, asked, given, evicted>>
        /\ probed = seq /\ given[seq] = child /\ answer[seq] = m.what /\ seq \in Probes
    BY <1>3, <1>6 DEF Observer!Message, Observer!Hears, Target
  <2>2. Types'
    <3>1. Flags'
      BY <1>1, <1>2, <1>6, <2>1 DEF Types, Flags, Outcomes
    <3>2. Shapes'
      BY <1>1, <1>2, <1>6, <2>1 DEF Types, Shapes, Outcomes
    <3>3. QED
      BY <3>1, <3>2 DEF Types
  <2>3. Target' /\ Probing'
    BY <1>1, <2>1 DEF Target, Probing
  <2>4. Family'
    BY <1>1, <1>2, <2>1 DEF Family
  <2>5. Honest'
    BY <1>1, <2>1 DEF Honest
  <2>6. QED
    BY <1>4, <2>1, <2>2, <2>3, <2>4, <2>5
<1>7. CASE ~(Observer!Hears(k) /\ m.what = "ready") /\ ~(Observer!Hears(k) /\ m.what \in {"reply", "error"} /\ probed = m.n)
  <2>1. /\ UNCHANGED <<ready, readyTimer, sent, asked, given, probed, late, lastOutcome>>
        /\ evicted' \in BOOLEAN
    BY <1>7 DEF Observer!Message, Types, Flags
  <2>2. Types'
    <3>1. Flags'
      BY <1>1, <1>2, <2>1 DEF Types, Flags
    <3>2. Shapes'
      BY <1>1, <1>2, <2>1 DEF Types, Shapes
    <3>3. QED
      BY <3>1, <3>2 DEF Types
  <2>3. Target' /\ Probing' /\ Honest'
    BY <1>1, <2>1 DEF Target, Probing, Honest
  <2>4. Family'
    BY <1>1, <1>2, <2>1 DEF Family
  <2>5. QED
    BY <1>4, <2>1, <2>2, <2>3, <2>4
<1>8. QED
  BY <1>5, <1>6, <1>7

-----------------------------------------------------------------------------
(* The initial states satisfy the invariant. *)
LEMMA ObserverInitial == Observer!Init => HealthInv
<1> SUFFICES ASSUME Observer!Init PROVE HealthInv
  OBVIOUS
<1>1. Types
  <2>1. Flags
    BY DEF Observer!Init, Flags
  <2>2. outbox \in [Children -> Seq(Said)]
    BY EmptySeq DEF Observer!Init
  <2>3. Shapes
    BY <2>2 DEF Observer!Init, Shapes, Outcomes, Procs
  <2>4. QED
    BY <2>1, <2>3 DEF Types
<1>2. QED
  BY <1>1 DEF Observer!Init, Target, Family, Probing, Spoken, Honest

(* Every step keeps it. *)
LEMMA ObserverInductive == HealthInv /\ [Observer!Next]_Observer!vars => HealthInv'
<1> SUFFICES ASSUME HealthInv, [Observer!Next]_Observer!vars PROVE HealthInv'
  OBVIOUS
<1>1. CASE Observer!Start \/ Observer!RespawnFires \/ Observer!ReadyTimeout \/ Observer!Probe \/ Observer!TimePasses \/ Observer!Stop
  BY <1>1, StartKeeps, RespawnFiresKeeps, ReadyTimeoutKeeps, ProbeKeeps, TimePassesKeeps,
     StopKeeps
<1>2. ASSUME NEW k \in Children, Observer!Message(k) \/ Observer!Error(k) \/ Observer!Exit(k) PROVE HealthInv'
  BY <1>2, MessageKeeps, ErrorKeeps, ExitKeeps
<1>3. ASSUME NEW k \in Children, Observer!ChildLoads(k) \/ Observer!ChildAnswers(k) \/ Observer!ChildExits(k) PROVE HealthInv'
  BY <1>3, ChildLoadsKeeps, ChildAnswersKeeps, ChildExitsKeeps
<1>4. CASE UNCHANGED Observer!vars
  <2>1. Types'
    <3>1. Flags'
      BY <1>4 DEF Observer!vars, Observer!targetVars, Observer!childVars, Types, Flags
    <3>2. Shapes'
      BY <1>4 DEF Observer!vars, Observer!targetVars, Observer!childVars, Types, Shapes
    <3>3. QED
      BY <3>1, <3>2 DEF Types
  <2>2. QED
    BY <1>4, <2>1 DEF Observer!vars, Observer!targetVars, Observer!childVars, Target,
       Family, Probing, Spoken, Honest
<1>5. QED
  BY <1>1, <1>2, <1>3, <1>4 DEF Observer!Next

(* What /v1/health says of the ledger is so (state, onMessage). *)
THEOREM StateHonestHolds == Observer!Spec => []StateHonest
<1>1. HealthInv => StateHonest
  BY DEF Honest, StateHonest, Observer!StateHonest, Observer!state, Target
<1>2. QED
  BY ObserverInitial, ObserverInductive, <1>1, PTL DEF Observer!Spec

HIDE DEF Children, Probes, None, Observer!Children, Observer!Probes, Observer!None, HealthInv

-----------------------------------------------------------------------------
(* The TigerBeetle client (LedgerClient). *)

Clients  == Client!Clients
Requests == Client!Requests

Lives == {"none", "up", "evicted", "learned", "destroyed", "aborted"}

(* The variables have their types. *)
ClientTypes ==
  /\ native \in [Clients -> Lives]
  /\ generation \in Clients /\ probing \in Clients
  /\ released \subseteq 0 .. generation
  /\ pc \in [Requests -> {"idle", "sent", "waits", "retry", "ok", "replay", "failed"}]
  /\ on \in [Requests -> Clients] /\ step \in [Requests -> {"make", "verify"}]
  /\ applied \in [Transfers -> {{}, {0}}]
  /\ ending \in {"dialing", "open", "asking", "probed", "done"}

(* The ledger has what an operation goes by: a looked-up id is there, and  *)
(* so is a replayed one from the start.                                    *)
Once ==
  \A r \in Transfers :
    /\ r \in replay => applied[r] = {0}
    /\ step[r] = "verify" => applied[r] = {0}
    /\ pc[r] = "ok" => applied[r] = {0} /\ ~(kind[r] = "reserve" /\ r \in replay)

(* The wrapper is about to act on what the current client last said; and   *)
(* that one did not know of an eviction then, or is marked: if it does now, *)
(* it learned since.                                                       *)
Acting == reconnecting = "begun" \/ (ending = "probed" /\ probing = generation)
Vouched == generation \in marked \/ native[generation] # "learned" \/ generation \in unheard

(* While every destroy() returns: a released client is destroyed, one that *)
(* a request failed on since it learned is marked, and a reconnect that    *)
(* backs off left its client dropped or destroyed.                         *)
Spared ==
  ~aborted =>
    /\ \A n \in Clients : native[n] # "aborted"
    /\ stuck = {} =>
         /\ \A n \in released : native[n] = "destroyed"
         /\ told \subseteq marked
         /\ reconnecting = "backoff" => generation \in marked \/ native[generation] = "destroyed"
         /\ Acting => Vouched

ClientInv == ClientTypes /\ Once /\ Spared /\ Client!NeverAborts

USE DEF Clients, Requests, Client!Clients, Client!Requests

(* What a step of the requests leaves of the operations: the outcome of    *)
(* none is decided without the ledger.                                     *)
LEMMA OnceStays ==
  ASSUME ClientTypes, Once, UNCHANGED <<kind, replay>>,
         \A r \in Transfers :
           /\ applied[r] = {0} => applied'[r] = {0}
           /\ step'[r] = "verify" => step[r] = "verify" \/ applied'[r] = {0}
           /\ pc'[r] = "ok" => pc[r] = "ok"
                \/ (applied'[r] = {0} /\ ~(kind[r] = "reserve" /\ r \in replay))
  PROVE  Once'
  BY DEF ClientTypes, Once

(* r goes where its request took it, or is out again; no other moves.      *)
LEMMA GoesTo ==
  ASSUME ClientTypes, NEW r \in Requests,
         NEW where \in {"waits", "retry", "ok", "replay", "failed"}, Client!Goes(r, where)
  PROVE  /\ pc' = [pc EXCEPT ![r] = where]
         /\ pc' \in [Requests -> {"idle", "sent", "waits", "retry", "ok", "replay", "failed"}]
         /\ on' \in [Requests -> Clients] /\ step' \in [Requests -> {"make", "verify"}]
         /\ \A q \in Requests : step'[q] = "verify" => step[q] = "verify"
         /\ \A q \in Requests : pc'[q] = "ok" => pc[q] = "ok" \/ (q = r /\ where = "ok")
<1>1. pc' = [pc EXCEPT ![r] = where] /\ on' = [on EXCEPT ![r] = 0]
  BY DEF Client!Goes
<1>2. \/ step' = step
      \/ step' = [step EXCEPT ![r] = "make"]
  BY DEF Client!Goes, ClientTypes
<1>3. QED
  BY <1>1, <1>2 DEF ClientTypes

(* Where a request that is made leaves the requests. *)
LEMMA SentTo ==
  ASSUME ClientTypes, NEW r \in Requests, NEW what \in {"make", "verify"}, NEW again \in BOOLEAN,
         Client!Sent(r, what, again)
  PROVE  /\ pc' \in [Requests -> {"idle", "sent", "waits", "retry", "ok", "replay", "failed"}]
         /\ on' \in [Requests -> Clients] /\ step' \in [Requests -> {"make", "verify"}]
         /\ \A q \in Requests : step'[q] = "verify" => step[q] = "verify" \/ (q = r /\ what = "verify")
         /\ \A q \in Requests : pc'[q] = "ok" => pc[q] = "ok"
<1>1. CASE closed
  <2>1. Client!Goes(r, "failed")
    BY <1>1 DEF Client!Sent
  <2>2. QED
    BY <2>1, GoesTo
<1>2. CASE ~closed
  <2>1. /\ pc' = [pc EXCEPT ![r] = "sent"] /\ on' = [on EXCEPT ![r] = generation]
        /\ step' = [step EXCEPT ![r] = what]
    BY <1>2 DEF Client!Sent
  <2>2. QED
    BY <2>1 DEF ClientTypes
<1>3. QED
  BY <1>1, <1>2

-----------------------------------------------------------------------------
(* destroy() may throw or not. *)
LEMMA ThrowsOrNot ==
  ASSUME NEW n PROVE Client!CanThrow(n) \subseteq BOOLEAN
  BY DEF Client!CanThrow

(* Releasing the current client aborts only one that has learned of its    *)
(* eviction and is not marked; one that is not marked is destroyed.        *)
LEMMA ReleaseSpares ==
  ASSUME ClientInv, ~aborted, NEW threw \in Client!CanThrow(generation),
         Client!Releases(generation, threw)
  PROVE  LET gone == Client!Destroyed(generation, threw)
         IN  /\ gone \in [Clients -> Lives] /\ released' \subseteq 0 .. generation
             /\ \A n \in Clients \ {generation} : gone[n] = native[n] /\ gone[n] # "aborted"
             /\ ~aborted' => \A n \in Clients : gone[n] # "aborted"
             /\ stuck' = {} => stuck = {}
             /\ ~aborted' /\ stuck' = {} =>
                  /\ \A n \in released' : gone[n] = "destroyed"
                  /\ generation \in marked \/ gone[generation] = "destroyed"
             /\ aborted' => /\ generation \notin marked /\ native[generation] = "learned"
                            /\ unheard' = unheard
<1> DEFINE gone == Client!Destroyed(generation, threw)
<1>1. threw \in BOOLEAN /\ generation \in Clients /\ native \in [Clients -> Lives]
      /\ released \subseteq 0 .. generation
  BY ThrowsOrNot DEF ClientInv, ClientTypes
<1>2. /\ \A n \in Clients : native[n] # "aborted"
      /\ stuck = {} => \A n \in released : native[n] = "destroyed"
  BY DEF ClientInv, Spared
<1>3. /\ gone \in [Clients -> Lives]
      /\ \A m \in Clients \ {generation} : gone[m] = native[m]
      /\ generation \in marked \/ threw => gone[generation] = native[generation]
      /\ generation \notin marked /\ ~threw =>
           gone[generation] = IF native[generation] = "learned" THEN "aborted" ELSE "destroyed"
  BY <1>1 DEF Client!Destroyed, Lives
<1>4. /\ released' = IF generation \in marked THEN released ELSE released \cup {generation}
      /\ stuck' = IF threw THEN stuck \cup {generation} ELSE stuck
      /\ aborted' = (gone[generation] = "aborted")
      /\ unheard' = IF aborted' THEN unheard ELSE {}
  BY DEF Client!Releases
<1> HIDE DEF gone
<1>5. aborted' => generation \notin marked /\ native[generation] = "learned" /\ unheard' = unheard
  <2>1. gone[generation] = "aborted" => generation \notin marked /\ native[generation] = "learned"
    <3>1. native[generation] # "aborted"
      BY <1>2, <1>1
    <3>2. gone[generation] = "aborted" => generation \notin marked /\ ~threw
      BY <1>3, <3>1
    <3>3. QED
      BY <1>3, <3>2
  <2>2. aborted' => gone[generation] = "aborted" /\ unheard' = unheard
    BY <1>4, Zenon
  <2>3. QED
    BY <2>1, <2>2
<1>6. stuck' = {} => stuck = {} /\ ~threw
  BY <1>1, <1>4
<1>7. ~aborted' /\ stuck' = {} =>
        /\ \A n \in released' : gone[n] = "destroyed"
        /\ generation \in marked \/ gone[generation] = "destroyed"
  <2> SUFFICES ASSUME ~aborted', stuck' = {}
               PROVE  /\ \A n \in released' : gone[n] = "destroyed"
                      /\ generation \in marked \/ gone[generation] = "destroyed"
    OBVIOUS
  <2>1. generation \notin marked => gone[generation] = "destroyed"
    BY <1>3, <1>4, <1>6
  <2>2. generation \in marked => gone[generation] = native[generation]
    BY <1>3
  <2>3. \A n \in released \ {generation} : gone[n] = native[n]
    <3>1. \A n \in released : n \in Clients
      BY <1>1
    <3>2. QED
      BY <1>3, <3>1
  <2>4. \A n \in released : native[n] = "destroyed"
    BY <1>2, <1>6
  <2>5. CASE generation \in marked
    <3>1. \A n \in released : gone[n] = native[n]
      BY <2>2, <2>3, <2>5
    <3>2. QED
      BY <1>4, <2>4, <2>5, <3>1
  <2>6. CASE generation \notin marked
    BY <1>4, <2>1, <2>3, <2>4, <2>6
  <2>7. QED
    BY <2>5, <2>6
<1>8. \A n \in Clients \ {generation} : gone[n] = native[n] /\ gone[n] # "aborted"
  BY <1>2, <1>3
<1>9. ~aborted' => \A n \in Clients : gone[n] # "aborted"
  <2>1. ~aborted' => gone[generation] # "aborted"
    BY <1>4, Zenon
  <2>2. QED
    BY <1>8, <2>1
<1>10. released' \subseteq 0 .. generation
  BY <1>1, <1>4
<1>11. QED
  BY <1>3, <1>5, <1>6, <1>7, <1>8, <1>9, <1>10 DEF gone

(* A failure leaves the client it came from marked, unless nothing is left *)
(* to abort, and so one that it was told by.                               *)
LEMMA FailureSpares ==
  ASSUME ClientInv, ~aborted, NEW n \in Clients,
         NEW err \in {"evicted", "closed", "connection", "other"}, Client!Failure(n, err)
  PROVE  /\ Client!AfterFailure(n, err) \in [Clients -> Lives]
         /\ \A m \in Clients : Client!AfterFailure(n, err)[m] # "aborted"
                               /\ (native[m] = "destroyed" => Client!AfterFailure(n, err)[m] = "destroyed")
         /\ \A m \in Clients \ {n} : Client!AfterFailure(n, err)[m] = native[m]
         /\ stuck = {} => n \in Client!Marked(n, err) \/ Client!AfterFailure(n, err)[n] # "learned"
         /\ stuck = {} => Client!Told(n, err) \subseteq Client!Marked(n, err)
         /\ marked \subseteq Client!Marked(n, err)
<1>1. native \in [Clients -> Lives] /\ \A m \in Clients : native[m] # "aborted"
  BY DEF ClientInv, ClientTypes, Spared
<1>2. stuck = {} => told \subseteq marked /\ (n \in released => native[n] = "destroyed")
  BY DEF ClientInv, Spared
<1>3. CASE err = "evicted"
  BY <1>1, <1>2, <1>3 DEF Client!Failure, Client!AfterFailure, Client!Marked, Client!Marks,
     Client!Told, Lives
<1>4. CASE err # "evicted"
  BY <1>1, <1>2, <1>4 DEF Client!Failure, Client!AfterFailure, Client!Marked, Client!Marks,
     Client!Told, Client!FailsAtOnce, Lives
<1>5. QED
  BY <1>3, <1>4

-----------------------------------------------------------------------------
(* A step that destroys no client. *)
LEMMA QuietKeeps ==
  ASSUME ClientInv, ~aborted, ClientTypes', Once',
         UNCHANGED <<generation, released, stuck, aborted>>,
         \A n \in Clients : native'[n] # "aborted" /\ (native[n] = "destroyed" => native'[n] = "destroyed"),
         marked \subseteq marked', stuck = {} => told' \subseteq marked',
         reconnecting' = "backoff" => reconnecting = "backoff",
         stuck = {} /\ Acting' => Vouched'
  PROVE  ClientInv'
<1>1. \A n \in released : n \in Clients
  BY DEF ClientInv, ClientTypes
<1>2. Spared'
  BY <1>1 DEF ClientInv, ClientTypes, Spared
<1>3. Client!NeverAborts'
  BY DEF Client!NeverAborts
<1>4. QED
  BY <1>2, <1>3 DEF ClientInv

(* A step of the requests, the reconnect's promise or close() alone. *)
LEMMA RequestKeeps ==
  ASSUME ClientInv, ~aborted, ClientTypes', Once',
         UNCHANGED <<Client!nativeVars, told, unheard>>,
         reconnecting' = "backoff" => reconnecting = "backoff", Acting' => Acting
  PROVE  ClientInv'
<1>1. /\ UNCHANGED <<native, generation, marked, released, stuck, aborted>>
      /\ \A n \in Clients : native'[n] # "aborted"
  BY DEF Client!nativeVars, ClientInv, Spared
<1>2. stuck = {} => told' \subseteq marked' /\ (Acting' => Vouched')
  BY <1>1 DEF ClientInv, Spared, Vouched
<1>3. QED
  BY <1>1, <1>2, QuietKeeps

(* The cluster evicts a session, or the native client learns of it: one    *)
(* that is about to be acted on was vouched for.                           *)
LEMMA EvictedKeeps ==
  ASSUME ClientInv, ~aborted, NEW n \in Clients, Client!Evict(n) \/ Client!Learn(n)
  PROVE  ClientInv'
<1>1. /\ native[n] \in {"up", "evicted"}
      /\ \/ native' = [native EXCEPT ![n] = "evicted"] /\ unheard' = unheard
         \/ /\ native' = [native EXCEPT ![n] = "learned"]
            /\ unheard' = IF Client!AboutToAct(n) THEN unheard \cup {n} ELSE unheard
      /\ UNCHANGED <<generation, marked, released, stuck, aborted, reconnecting, pc, on, step,
                     ending, probing, kind, replay, applied, told>>
  BY DEF Client!Evict, Client!Learn, Client!reconnectVars, Client!requestVars, Client!closeVars,
     Client!ledgerVars
<1>2. /\ native' \in [Clients -> Lives]
      /\ \A m \in Clients : native'[m] # "aborted" /\ (native[m] = "destroyed" => native'[m] = "destroyed")
  BY <1>1 DEF ClientInv, ClientTypes, Spared, Lives
<1>3. ClientTypes' /\ Once'
  BY <1>1, <1>2 DEF ClientInv, ClientTypes, Once
<1>4. stuck = {} /\ Acting' => Vouched'
  <2>1. CASE n # generation \/ native' = [native EXCEPT ![n] = "evicted"]
    BY <1>1, <2>1 DEF ClientInv, ClientTypes, Spared, Acting, Vouched
  <2>2. CASE n = generation /\ native' = [native EXCEPT ![n] = "learned"]
    BY <1>1, <2>2 DEF Acting, Vouched, Client!AboutToAct, ClientInv, ClientTypes
  <2>3. QED
    BY <1>1, <2>1, <2>2
<1>5. stuck = {} => told' \subseteq marked'
  BY <1>1 DEF ClientInv, Spared
<1>6. QED
  BY <1>1, <1>2, <1>3, <1>4, <1>5, QuietKeeps

-----------------------------------------------------------------------------
(* _doReconnect()'s attempt: what is left to abort is a client that        *)
(* learned since the failure it acts on.                                   *)
LEMMA AttemptKeeps ==
  ASSUME ClientInv, ~aborted, Client!Attempt
  PROVE  ClientInv'
<1>1. UNCHANGED <<marked, pc, on, step, ending, probing, kind, replay, applied, told>>
  BY DEF Client!Attempt, Client!requestVars, Client!closeVars, Client!ledgerVars
<1>2. Once'
  BY <1>1 DEF ClientInv, Once
<1>3. CASE closed
  <2>1. reconnecting' = "failed" /\ UNCHANGED <<native, generation, released, stuck, aborted, unheard>>
    BY <1>3 DEF Client!Attempt
  <2>2. ClientTypes'
    BY <1>1, <2>1 DEF ClientInv, ClientTypes
  <2>3. Acting' => Acting
    BY <1>1, <2>1 DEF Acting
  <2>4. \A n \in Clients : native'[n] # "aborted"
    BY <2>1 DEF ClientInv, Spared
  <2>5. stuck = {} => told' \subseteq marked' /\ (Acting' => Vouched')
    BY <1>1, <2>1, <2>3 DEF ClientInv, Spared, Vouched
  <2>6. QED
    BY <1>1, <1>2, <2>1, <2>2, <2>4, <2>5, QuietKeeps
<1>4. CASE ~closed
  <2>1. PICK threw \in Client!CanThrow(generation) :
          LET gone == Client!Destroyed(generation, threw)
          IN  /\ Client!Releases(generation, threw)
              /\ \/ /\ generation < LastClient
                    /\ native' = [gone EXCEPT ![generation + 1] = "up"]
                    /\ generation' = generation + 1 /\ reconnecting' = "settled"
                 \/ /\ native' = gone /\ generation' = generation
                    /\ reconnecting' \in {"failed", "backoff"}
    BY <1>4 DEF Client!Attempt, Client!Replace
  <2> DEFINE gone == Client!Destroyed(generation, threw)
  <2>2. /\ gone \in [Clients -> Lives] /\ released' \subseteq 0 .. generation
        /\ \A n \in Clients \ {generation} : gone[n] = native[n] /\ gone[n] # "aborted"
        /\ ~aborted' => \A n \in Clients : gone[n] # "aborted"
        /\ stuck' = {} => stuck = {}
        /\ ~aborted' /\ stuck' = {} =>
             /\ \A n \in released' : gone[n] = "destroyed"
             /\ generation \in marked \/ gone[generation] = "destroyed"
        /\ aborted' => /\ generation \notin marked /\ native[generation] = "learned"
                       /\ unheard' = unheard
    BY <2>1, ReleaseSpares
  <2>3. \/ /\ generation < LastClient /\ native' = [gone EXCEPT ![generation + 1] = "up"]
           /\ generation' = generation + 1 /\ reconnecting' = "settled"
        \/ native' = gone /\ generation' = generation /\ reconnecting' \in {"failed", "backoff"}
    BY <2>1
  <2> HIDE DEF gone
  <2>4. generation \in Clients /\ generation \in Nat
    BY DEF ClientInv, ClientTypes
  <2>5. aborted' /\ stuck' = {} => generation \in unheard' /\ generation \notin told'
    <3> SUFFICES ASSUME aborted', stuck' = {} PROVE generation \in unheard' /\ generation \notin told'
      OBVIOUS
    <3>1. stuck = {} /\ generation \notin marked /\ native[generation] = "learned" /\ unheard' = unheard
      BY <2>2
    <3>2. told \subseteq marked /\ reconnecting # "backoff" /\ (Acting => Vouched)
      BY <3>1 DEF ClientInv, Spared
    <3>3. reconnecting = "begun"
      BY <3>2 DEF Client!Attempt
    <3>4. QED
      BY <1>1, <3>1, <3>2, <3>3 DEF Acting, Vouched
  <2>6. CASE /\ generation < LastClient /\ native' = [gone EXCEPT ![generation + 1] = "up"]
             /\ generation' = generation + 1 /\ reconnecting' = "settled"
    <3>1. generation + 1 \in Clients /\ generation + 1 \notin released'
          /\ released' \subseteq 0 .. generation'
          /\ \A n \in released' : n \in Clients
      BY <2>2, <2>4, <2>6
    <3>2. /\ native' \in [Clients -> Lives] /\ native'[generation + 1] = "up"
          /\ \A n \in Clients \ {generation + 1} : native'[n] = gone[n]
      BY <2>2, <2>6, <3>1 DEF Lives
    <3>3. ClientTypes'
      BY <1>1, <2>6, <3>1, <3>2 DEF ClientInv, ClientTypes
    <3>4. stuck = {} => told' \subseteq marked'
      BY <1>1 DEF ClientInv, Spared
    <3>5. Vouched'
      BY <2>6, <3>2 DEF Vouched
    <3>6. Spared'
      BY <2>2, <2>6, <3>1, <3>2, <3>4, <3>5 DEF Spared
    <3>7. Client!NeverAborts'
      BY <2>2, <2>5, <3>1, <3>2 DEF Client!NeverAborts
    <3>8. QED
      BY <1>2, <3>3, <3>6, <3>7 DEF ClientInv
  <2>7. CASE native' = gone /\ generation' = generation /\ reconnecting' \in {"failed", "backoff"}
    <3>1. ClientTypes'
      BY <1>1, <2>2, <2>7 DEF ClientInv, ClientTypes
    <3>2. stuck = {} => told' \subseteq marked'
      BY <1>1 DEF ClientInv, Spared
    <3>3. ~aborted' /\ stuck' = {} => Vouched'
      BY <1>1, <2>2, <2>7 DEF Vouched
    <3>4. Spared'
      BY <1>1, <2>2, <2>7, <3>2, <3>3 DEF Spared
    <3>5. Client!NeverAborts'
      BY <2>2, <2>5, <2>7 DEF Client!NeverAborts
    <3>6. QED
      BY <1>2, <3>1, <3>4, <3>5 DEF ClientInv
  <2>8. QED
    BY <2>3, <2>6, <2>7
<1>5. QED
  BY <1>3, <1>4

(* The promise settles, and those that joined it go on. *)
LEMMA CleanupKeeps ==
  ASSUME ClientInv, ~aborted, Client!Cleanup
  PROVE  ClientInv'
<1> DEFINE after == IF reconnecting = "settled" THEN "retry" ELSE "failed"
<1>1. /\ pc' = [r \in Requests |-> IF pc[r] = "waits" THEN after ELSE pc[r]]
      /\ reconnecting' = "none"
      /\ UNCHANGED <<Client!nativeVars, on, step, ending, probing, kind, replay, applied, told, unheard>>
  BY DEF Client!Cleanup, Client!closeVars, Client!ledgerVars
<1>2. pc' \in [Requests -> {"idle", "sent", "waits", "retry", "ok", "replay", "failed"}]
  BY <1>1 DEF ClientInv, ClientTypes
<1>3. \A r \in Requests : pc'[r] = "ok" => pc[r] = "ok"
  BY <1>1
<1>4. ClientTypes' /\ Once'
  BY <1>1, <1>2, <1>3 DEF ClientInv, ClientTypes, Once, Client!nativeVars
<1>5. Acting' => Acting
  BY <1>1 DEF Acting, Client!nativeVars
<1>6. QED
  BY <1>1, <1>4, <1>5, RequestKeeps

(* A request is made, or made once more. *)
LEMMA SentKeeps ==
  ASSUME ClientInv, ~aborted, NEW r \in Requests, NEW what \in {"make", "verify"}, NEW again \in BOOLEAN,
         Client!Sent(r, what, again), what = "verify" => step[r] = "verify",
         UNCHANGED <<Client!nativeVars, Client!reconnectVars, Client!closeVars, Client!ledgerVars,
                     told, unheard>>
  PROVE  ClientInv'
<1>1. /\ pc' \in [Requests -> {"idle", "sent", "waits", "retry", "ok", "replay", "failed"}]
      /\ on' \in [Requests -> Clients] /\ step' \in [Requests -> {"make", "verify"}]
      /\ \A q \in Requests : step'[q] = "verify" => step[q] = "verify"
      /\ \A q \in Requests : pc'[q] = "ok" => pc[q] = "ok"
  BY SentTo DEF ClientInv
<1>2. Once'
  BY <1>1, OnceStays DEF ClientInv, ClientTypes, Client!ledgerVars
<1>3. ClientTypes' /\ (Acting' => Acting) /\ reconnecting' = reconnecting
  BY <1>1 DEF ClientInv, ClientTypes, Acting, Client!nativeVars, Client!reconnectVars,
     Client!closeVars, Client!ledgerVars
<1>4. QED
  BY <1>2, <1>3, RequestKeeps

(* The ledger answers a request. *)
LEMMA AnswersKeeps ==
  ASSUME ClientInv, ~aborted, NEW r \in Requests, Client!Answers(r)
  PROVE  ClientInv'
<1> DEFINE a == Client!AnswerTo(r, r \in Transfers /\ Client!Id(r) \in applied[r])
<1>1. /\ IF r \in Transfers /\ step[r] = "make" THEN Client!Lands(r) ELSE UNCHANGED applied
      /\ IF a = "verify" THEN Client!Sent(r, "verify", FALSE) ELSE Client!Goes(r, a)
      /\ UNCHANGED <<Client!nativeVars, reconnecting, ending, probing, kind, replay, told, unheard>>
  BY DEF Client!Answers, Client!reconnectVars, Client!closeVars
<1>2. /\ applied' \in [Transfers -> {{}, {0}}] /\ \A q \in Transfers : applied[q] = {0} => applied'[q] = {0}
      /\ r \in Transfers => applied'[r] = {0}
  <2>1. applied \in [Transfers -> {{}, {0}}]
    BY DEF ClientInv, ClientTypes
  <2>2. CASE r \in Transfers /\ step[r] = "make"
    <3>1. applied' = [applied EXCEPT ![r] = @ \cup {0}]
      BY <1>1, <2>2 DEF Client!Lands, Client!Id
    <3>2. applied[r] = {} \/ applied[r] = {0}
      BY <2>1, <2>2
    <3>3. applied[r] \cup {0} = {0}
      BY <3>2
    <3>4. applied' = [applied EXCEPT ![r] = {0}]
      BY <3>1, <3>3
    <3>5. QED
      BY <2>1, <2>2, <3>4
  <2>3. CASE ~(r \in Transfers /\ step[r] = "make")
    <3>1. applied' = applied
      BY <1>1, <2>3
    <3>2. r \in Transfers => step[r] = "verify"
      BY <2>3 DEF ClientInv, ClientTypes
    <3>3. r \in Transfers => applied[r] = {0}
      BY <3>2 DEF ClientInv, Once
    <3>4. QED
      BY <2>1, <3>1, <3>3
  <2>4. QED
    BY <2>2, <2>3
<1>3. a \in {"ok", "replay", "verify"}
  BY DEF Client!AnswerTo
<1>4. r \in Transfers /\ a = "ok" => ~(kind[r] = "reserve" /\ r \in replay)
  BY DEF Client!AnswerTo, Client!Id, ClientInv, ClientTypes, Once
<1> HIDE DEF a
<1>5. /\ pc' \in [Requests -> {"idle", "sent", "waits", "retry", "ok", "replay", "failed"}]
      /\ on' \in [Requests -> Clients] /\ step' \in [Requests -> {"make", "verify"}]
      /\ \A q \in Requests : step'[q] = "verify" => step[q] = "verify" \/ q = r
      /\ \A q \in Requests : pc'[q] = "ok" => pc[q] = "ok" \/ (q = r /\ a = "ok")
  <2>1. CASE a = "verify"
    <3>1. Client!Sent(r, "verify", FALSE)
      BY <1>1, <2>1
    <3>2. QED
      BY <3>1, SentTo DEF ClientInv
  <2>2. CASE a # "verify"
    <3>1. Client!Goes(r, a) /\ a \in {"waits", "retry", "ok", "replay", "failed"}
      BY <1>1, <1>3, <2>2
    <3>2. QED
      BY <3>1, GoesTo DEF ClientInv
  <2>3. QED
    BY <2>1, <2>2
<1>6. Once'
  BY <1>1, <1>2, <1>4, <1>5, OnceStays DEF ClientInv
<1>7. ClientTypes' /\ (Acting' => Acting)
  BY <1>1, <1>2, <1>5 DEF ClientInv, ClientTypes, Acting, Client!nativeVars
<1>8. QED
  BY <1>1, <1>6, <1>7, RequestKeeps

(* The ledger refuses a request. *)
LEMMA RefusesKeeps ==
  ASSUME ClientInv, ~aborted, NEW r \in Requests, Client!Refuses(r)
  PROVE  ClientInv'
<1>1. /\ Client!Goes(r, "failed")
      /\ UNCHANGED <<Client!nativeVars, reconnecting, ending, probing, kind, replay, applied, told, unheard>>
  BY DEF Client!Refuses, Client!reconnectVars, Client!closeVars, Client!ledgerVars
<1>2. /\ pc' \in [Requests -> {"idle", "sent", "waits", "retry", "ok", "replay", "failed"}]
      /\ on' \in [Requests -> Clients] /\ step' \in [Requests -> {"make", "verify"}]
      /\ \A q \in Requests : step'[q] = "verify" => step[q] = "verify"
      /\ \A q \in Requests : pc'[q] = "ok" => pc[q] = "ok"
  BY <1>1, GoesTo DEF ClientInv
<1>3. Once'
  BY <1>1, <1>2, OnceStays DEF ClientInv, ClientTypes
<1>4. ClientTypes' /\ (Acting' => Acting)
  BY <1>1, <1>2 DEF ClientInv, ClientTypes, Acting, Client!nativeVars
<1>5. QED
  BY <1>1, <1>3, <1>4, RequestKeeps

(* A failed request: its error, or a reconnect that it joins or begins. *)
LEMMA FailsKeeps ==
  ASSUME ClientInv, ~aborted, NEW r \in Requests, Client!Fails(r)
  PROVE  ClientInv'
<1>1. PICK err \in {"evicted", "closed", "connection", "other"} :
        LET n == on[r]
        IN  /\ Client!Failure(n, err)
            /\ UNCHANGED applied \/ (r \in Transfers /\ Client!Lands(r))
            /\ native' = Client!AfterFailure(n, err) /\ marked' = Client!Marked(n, err)
            /\ told' = Client!Told(n, err)
            /\ \E where \in {"failed", "waits", "retry"} : Client!Goes(r, where)
            /\ UNCHANGED reconnecting \/ (n = generation /\ reconnecting' = "begun")
            /\ UNCHANGED <<generation, released, stuck, aborted, ending, probing, kind, replay, unheard>>
  BY DEF Client!Fails, Client!Stale, Client!closeVars
<1> DEFINE n == on[r]
           nat == Client!AfterFailure(n, err)
           known == Client!Marked(n, err)
<1>2. n \in Clients
  BY DEF ClientInv, ClientTypes
<1>3. /\ nat \in [Clients -> Lives]
      /\ \A m \in Clients : nat[m] # "aborted" /\ (native[m] = "destroyed" => nat[m] = "destroyed")
      /\ \A m \in Clients \ {n} : nat[m] = native[m]
      /\ stuck = {} => n \in known \/ nat[n] # "learned"
      /\ stuck = {} => Client!Told(n, err) \subseteq known
      /\ marked \subseteq known
  BY <1>1, <1>2, FailureSpares
<1>4. native' = nat /\ marked' = known /\ told' = Client!Told(n, err)
  BY <1>1
<1> HIDE DEF nat, known
<1>5. /\ pc' \in [Requests -> {"idle", "sent", "waits", "retry", "ok", "replay", "failed"}]
      /\ on' \in [Requests -> Clients] /\ step' \in [Requests -> {"make", "verify"}]
      /\ \A q \in Requests : step'[q] = "verify" => step[q] = "verify"
      /\ \A q \in Requests : pc'[q] = "ok" => pc[q] = "ok"
  <2>1. PICK where \in {"failed", "waits", "retry"} : Client!Goes(r, where)
    BY <1>1
  <2>2. QED
    BY <2>1, GoesTo DEF ClientInv
<1>6. applied' \in [Transfers -> {{}, {0}}] /\ \A q \in Transfers : applied[q] = {0} => applied'[q] = {0}
  BY <1>1 DEF Client!Lands, Client!Id, ClientInv, ClientTypes
<1>7. Once'
  BY <1>1, <1>5, <1>6, OnceStays DEF ClientInv
<1>8. ClientTypes'
  BY <1>1, <1>3, <1>4, <1>5, <1>6 DEF ClientInv, ClientTypes
<1>9. stuck = {} /\ Acting' => Vouched'
  <2> SUFFICES ASSUME stuck = {}, Acting' PROVE Vouched'
    OBVIOUS
  <2>1. CASE n = generation
    BY <1>1, <1>3, <1>4, <2>1 DEF Vouched
  <2>2. CASE n # generation
    <3>1. Acting /\ native'[generation] = native[generation]
      BY <1>1, <1>3, <1>4, <2>2 DEF Acting, ClientInv, ClientTypes
    <3>2. QED
      BY <1>1, <1>3, <1>4, <3>1 DEF ClientInv, Spared, Vouched
  <2>3. QED
    BY <2>1, <2>2
<1>10. reconnecting' = "backoff" => reconnecting = "backoff"
  BY <1>1
<1>11. QED
  BY <1>1, <1>3, <1>4, <1>7, <1>8, <1>9, <1>10, QuietKeeps

(* The health check's tick, and its answer. *)
LEMMA HealthKeeps ==
  ASSUME ClientInv, ~aborted, Client!HealthTick \/ Client!HealthNoted
  PROVE  ClientInv'
<1>1. Ping \in Requests
      /\ UNCHANGED <<Client!nativeVars, Client!reconnectVars, Client!closeVars, Client!ledgerVars,
                     told, unheard>>
  BY DEF Client!HealthTick, Client!HealthNoted
<1>2. CASE Client!Sent(Ping, "make", FALSE)
  BY <1>1, <1>2, SentKeeps
<1>3. CASE UNCHANGED <<on, step>> /\ (pc' = pc \/ pc' = [pc EXCEPT ![Ping] = "idle"])
  <2>1. Once'
    BY <1>1, <1>3 DEF ClientInv, ClientTypes, Once, Client!ledgerVars
  <2>2. ClientTypes' /\ (Acting' => Acting) /\ reconnecting' = reconnecting
    BY <1>1, <1>3 DEF ClientInv, ClientTypes, Acting, Client!nativeVars, Client!reconnectVars,
       Client!closeVars, Client!ledgerVars
  <2>3. QED
    BY <1>1, <2>1, <2>2, RequestKeeps
<1>4. QED
  BY <1>2, <1>3 DEF Client!HealthTick, Client!HealthNoted, Client!requestVars

(* connectDeadline()'s probe is answered. *)
LEMMA ConnectedKeeps ==
  ASSUME ClientInv, ~aborted, Client!Connected
  PROVE  ClientInv'
<1>1. /\ ending' = "open"
      /\ UNCHANGED <<Client!nativeVars, reconnecting, pc, on, step, probing, kind, replay, applied, told, unheard>>
  BY DEF Client!Connected, Client!reconnectVars, Client!requestVars, Client!ledgerVars
<1>2. ClientTypes' /\ Once'
  BY <1>1 DEF ClientInv, ClientTypes, Once, Client!nativeVars
<1>3. Acting' => Acting
  BY <1>1 DEF Acting, Client!nativeVars
<1>4. QED
  BY <1>1, <1>2, <1>3, RequestKeeps

-----------------------------------------------------------------------------
(* The native destroy of close() and destroy(): what it may abort is as    *)
(* its caller's reason says.                                               *)
LEMMA DestroyKeeps ==
  ASSUME ClientInv, ~aborted, Client!Destroy,
         UNCHANGED <<generation, marked, reconnecting, pc, on, step, probing, kind, replay, applied, told>>,
         ending' \in {"asking", "probed", "done"}, ending' = "probed" => ending = "probed",
         aborted' /\ stuck' = {} =>
           \/ generation \in marked \/ native[generation] # "learned"
           \/ generation \in unheard \/ direct' \/ probing # generation
  PROVE  ClientInv'
<1>1. closed' /\ Once'
  BY DEF Client!Destroy, ClientInv, Once
<1>2. CASE UNCHANGED <<native, released, stuck, aborted, unheard>>
  <2>1. ClientTypes'
    BY <1>2 DEF ClientInv, ClientTypes
  <2>2. /\ \A n \in Clients : native'[n] # "aborted"
        /\ stuck = {} => told' \subseteq marked' /\ (Acting => Vouched)
    BY <1>2 DEF ClientInv, Spared
  <2>3. stuck = {} /\ Acting' => Vouched'
    BY <1>2, <2>2 DEF Acting, Vouched
  <2>4. QED
    BY <1>1, <1>2, <2>1, <2>2, <2>3, QuietKeeps
<1>3. ASSUME NEW threw \in Client!CanThrow(generation), Client!Releases(generation, threw),
             native' = Client!Destroyed(generation, threw)
      PROVE  ClientInv'
  <2>1. /\ native' \in [Clients -> Lives] /\ released' \subseteq 0 .. generation
        /\ \A n \in Clients \ {generation} : native'[n] = native[n] /\ native'[n] # "aborted"
        /\ ~aborted' => \A n \in Clients : native'[n] # "aborted"
        /\ stuck' = {} => stuck = {}
        /\ ~aborted' /\ stuck' = {} =>
             /\ \A n \in released' : native'[n] = "destroyed"
             /\ generation \in marked \/ native'[generation] = "destroyed"
        /\ aborted' => /\ generation \notin marked /\ native[generation] = "learned"
                       /\ unheard' = unheard
    BY <1>3, ReleaseSpares
  <2>2. ClientTypes'
    BY <2>1 DEF ClientInv, ClientTypes
  <2>3. stuck = {} => told' \subseteq marked'
    BY DEF ClientInv, Spared
  <2>4. ~aborted' /\ stuck' = {} => Vouched'
    BY <2>1 DEF Vouched
  <2>5. Spared'
    BY <2>1, <2>3, <2>4 DEF Spared
  <2>6. aborted' /\ stuck' = {} => generation \notin told' /\ (generation \in unheard' \/ direct' \/ probing' # generation)
    BY <2>1, <2>3
  <2>7. Client!NeverAborts'
    BY <1>1, <2>1, <2>6 DEF Client!NeverAborts
  <2>8. QED
    BY <1>1, <2>2, <2>5, <2>7 DEF ClientInv
<1>4. QED
  BY <1>2, <1>3 DEF Client!Destroy

(* destroy(), called without close(). *)
LEMMA DestroyCalledKeeps ==
  ASSUME ClientInv, ~aborted, Client!DestroyCalled
  PROVE  ClientInv'
<1>1. /\ Client!Destroy /\ direct' = aborted'
      /\ ending' = IF ending \in {"open", "dialing"} THEN "done" ELSE ending
      /\ UNCHANGED <<generation, marked, reconnecting, pc, on, step, probing, kind, replay, applied, told>>
  BY DEF Client!DestroyCalled, Client!reconnectVars, Client!requestVars, Client!ledgerVars
<1>2. ending \in {"dialing", "open", "asking", "probed", "done"}
  BY DEF ClientInv, ClientTypes
<1>3. ending' \in {"asking", "probed", "done"} /\ (ending' = "probed" => ending = "probed")
  BY <1>1, <1>2
<1>4. QED
  BY <1>1, <1>3, DestroyKeeps

(* close(): a client it knows to be evicted is dropped, another is asked. *)
LEMMA CloseKeeps ==
  ASSUME ClientInv, ~aborted, Client!Close
  PROVE  ClientInv'
<1>1. UNCHANGED <<generation, marked, reconnecting, pc, on, step, kind, replay, applied, told>>
  BY DEF Client!Close, Client!reconnectVars, Client!requestVars, Client!ledgerVars
<1>2. CASE generation \in marked
  <2>1. ending' = "done" /\ Client!Destroy /\ probing' = probing
    BY <1>2 DEF Client!Close
  <2>2. QED
    BY <1>1, <1>2, <2>1, DestroyKeeps
<1>3. CASE generation \notin marked
  <2>1. /\ ending' = "asking" /\ probing' = generation
        /\ UNCHANGED <<native, released, stuck, aborted, unheard>>
    BY <1>3 DEF Client!Close
  <2>2. ClientTypes' /\ Once'
    BY <1>1, <2>1 DEF ClientInv, ClientTypes, Once
  <2>3. \A n \in Clients : native'[n] # "aborted"
    BY <2>1 DEF ClientInv, Spared
  <2>4. stuck = {} => told' \subseteq marked' /\ (Acting' => Vouched')
    BY <1>1, <2>1 DEF ClientInv, Spared, Acting, Vouched
  <2>5. QED
    BY <1>1, <2>1, <2>2, <2>3, <2>4, QuietKeeps
<1>4. QED
  BY <1>2, <1>3

(* The probe's outcome: the client it asked is marked, or did not know of  *)
(* an eviction then.                                                       *)
LEMMA ProbedKeeps ==
  ASSUME ClientInv, ~aborted, Client!Probed
  PROVE  ClientInv'
<1>1. /\ ending' = "probed"
      /\ UNCHANGED <<generation, released, stuck, aborted, reconnecting, pc, on, step, probing,
                     kind, replay, applied, unheard>>
  BY DEF Client!Probed, Client!reconnectVars, Client!requestVars, Client!ledgerVars
<1>2. /\ native \in [Clients -> Lives] /\ \A n \in Clients : native[n] # "aborted"
      /\ stuck = {} => told \subseteq marked /\ (Acting => Vouched)
      /\ probing \in Clients /\ generation \in Clients
  BY DEF ClientInv, ClientTypes, Spared
<1>3. Once'
  BY <1>1 DEF ClientInv, Once
<1>4. CASE ~Client!FailsAtOnce(probing) /\ UNCHANGED <<native, marked, told>>
  <2>1. ClientTypes'
    BY <1>1, <1>4 DEF ClientInv, ClientTypes
  <2>2. native[probing] # "learned"
    BY <1>4 DEF Client!FailsAtOnce
  <2>3. stuck = {} /\ Acting' => Vouched'
    BY <1>1, <1>2, <1>4, <2>2 DEF Acting, Vouched
  <2>4. QED
    BY <1>1, <1>2, <1>3, <1>4, <2>1, <2>3, QuietKeeps
<1>5. ASSUME NEW err \in {"evicted", "closed", "connection"}, Client!Failure(probing, err),
             native' = Client!AfterFailure(probing, err), marked' = Client!Marked(probing, err),
             told' = Client!Told(probing, err)
      PROVE  ClientInv'
  <2>1. /\ native' \in [Clients -> Lives]
        /\ \A m \in Clients : native'[m] # "aborted" /\ (native[m] = "destroyed" => native'[m] = "destroyed")
        /\ \A m \in Clients \ {probing} : native'[m] = native[m]
        /\ stuck = {} => probing \in marked' \/ native'[probing] # "learned"
        /\ stuck = {} => told' \subseteq marked'
        /\ marked \subseteq marked'
    BY <1>2, <1>5, FailureSpares
  <2>2. ClientTypes'
    BY <1>1, <2>1 DEF ClientInv, ClientTypes
  <2>3. stuck = {} /\ Acting' => Vouched'
    <3>1. CASE probing = generation
      BY <1>1, <2>1, <3>1 DEF Vouched
    <3>2. CASE probing # generation
      BY <1>1, <1>2, <2>1, <3>2 DEF Acting, Vouched
    <3>3. QED
      BY <3>1, <3>2
  <2>4. QED
    BY <1>1, <1>3, <2>1, <2>2, <2>3, QuietKeeps
<1>6. QED
  BY <1>4, <1>5 DEF Client!Probed

(* close()'s destroy: of the client it asked, unless it was replaced. *)
LEMMA ClosesKeeps ==
  ASSUME ClientInv, ~aborted, Client!Closes
  PROVE  ClientInv'
<1>1. /\ ending = "probed" /\ ending' = "done" /\ Client!Destroy
      /\ UNCHANGED <<generation, marked, reconnecting, pc, on, step, probing, kind, replay, applied, told>>
  BY DEF Client!Closes, Client!reconnectVars, Client!requestVars, Client!ledgerVars
<1>2. stuck' = {} => stuck = {}
  BY <1>1 DEF Client!Destroy, Client!Releases
<1>3. stuck = {} /\ probing = generation => Vouched
  BY <1>1 DEF ClientInv, Spared, Acting
<1>4. QED
  BY <1>1, <1>2, <1>3, DestroyKeeps DEF Vouched

-----------------------------------------------------------------------------
(* The initial states satisfy ClientInv, and every step keeps it. *)
LEMMA ClientInitial == Client!Init => ClientInv
<1> SUFFICES ASSUME Client!Init PROVE ClientInv
  OBVIOUS
<1>1. ClientTypes
  BY PartsAssumption DEF Client!Init, ClientTypes, Lives, PartsAssumption
<1>2. Once
  BY DEF Client!Init, Once
<1>3. Spared /\ Client!NeverAborts
  BY DEF Client!Init, Spared, Acting, Client!NeverAborts
<1>4. QED
  BY <1>1, <1>2, <1>3 DEF ClientInv

(* Every step keeps ClientInv. *)
LEMMA ClientInductive == ClientInv /\ [Client!Next]_Client!vars => ClientInv'
<1> SUFFICES ASSUME ClientInv, [Client!Next]_Client!vars PROVE ClientInv'
  OBVIOUS
<1>1. ASSUME ~aborted, NEW n \in Clients, Client!Evict(n) \/ Client!Learn(n) PROVE ClientInv'
  BY <1>1, EvictedKeeps
<1>2. ASSUME ~aborted, NEW r \in Requests, Client!Start(r) PROVE ClientInv'
  BY <1>2, SentKeeps DEF Client!Start
<1>3. ASSUME ~aborted, NEW r \in Requests, Client!Retry(r) PROVE ClientInv'
  <2>1. step[r] \in {"make", "verify"}
    BY DEF ClientInv, ClientTypes
  <2>2. QED
    BY <1>3, <2>1, SentKeeps DEF Client!Retry
<1>4. ASSUME ~aborted, NEW r \in Requests, Client!Answers(r) \/ Client!Refuses(r) \/ Client!Fails(r) PROVE ClientInv'
  BY <1>4, AnswersKeeps, RefusesKeeps, FailsKeeps
<1>5. CASE ~aborted /\ (Client!Attempt \/ Client!Cleanup \/ Client!HealthTick \/ Client!HealthNoted \/ Client!Connected)
  BY <1>5, AttemptKeeps, CleanupKeeps, HealthKeeps, ConnectedKeeps
<1>6. CASE ~aborted /\ (Client!Close \/ Client!Probed \/ Client!Closes \/ Client!DestroyCalled)
  BY <1>6, CloseKeeps, ProbedKeeps, ClosesKeeps, DestroyCalledKeeps
<1>7. CASE UNCHANGED Client!vars
  <2>1. ClientTypes' /\ Once'
    BY <1>7 DEF Client!vars, Client!nativeVars, Client!requestVars, Client!closeVars,
       Client!ledgerVars, ClientInv, ClientTypes, Once
  <2>2. Spared' /\ Client!NeverAborts'
    BY <1>7 DEF Client!vars, Client!nativeVars, Client!reconnectVars, Client!closeVars,
       ClientInv, Spared, Acting, Vouched, Client!NeverAborts
  <2>3. QED
    BY <2>1, <2>2 DEF ClientInv
<1>8. QED
  BY <1>1, <1>2, <1>3, <1>4, <1>5, <1>6, <1>7 DEF Client!Next

(* A transfer reaches the ledger once, under one id (withReconnect). *)
THEOREM TransferOnceHolds == Client!Spec => []TransferOnce
<1>1. ClientInv => TransferOnce
  BY DEF ClientInv, ClientTypes, Once, TransferOnce, Client!TransferOnce
<1>2. QED
  BY ClientInitial, ClientInductive, <1>1, PTL DEF Client!Spec

(* A client that a request failed on since it learned of its eviction is   *)
(* never destroyed, and another one that learned is only where it learned  *)
(* after the last answer acted on, destroy() was called without close(),   *)
(* or it replaced the one close() asked (send, close, destroy,             *)
(* _doReconnect).                                                          *)
THEOREM NeverAbortsHolds == Client!Spec => []NeverAborts
<1>1. ClientInv => NeverAborts
  BY DEF ClientInv, NeverAborts
<1>2. QED
  BY ClientInitial, ClientInductive, <1>1, PTL DEF Client!Spec

HIDE PartsAssumption DEF PartsAssumption, Clients, Requests, Client!Clients, Client!Requests

-----------------------------------------------------------------------------
(* The circuit breaker: it implements BreakerContract for every threshold, *)
(* reset timeout and number of outstanding requests.                       *)


(* The strengthening: the threshold facts and OpenHasFailure, with types. *)
BreakerInv == TypeOK /\ ThresholdsActedOn /\ OpenHasFailure

USE ThresholdsAssumption, BreakerAssumption
DEF ThresholdsAssumption, BreakerAssumption, Never

(* Each operator of BreakerOps keeps the record's type and its thresholds. *)
LEMMA OpsType ==
  ASSUME NEW b \in Breakers, NEW t \in BOOLEAN,
         b.state = "half-open" => b.halfOpenSuccesses < HalfOpenSuccessThreshold,
         b.state = "closed" => b.consecutiveFailures < FailureThreshold
  PROVE  \A c \in {GetState(b, t), RecordSuccess(b), RecordFailure(b), Reset(b)} :
           /\ c \in Breakers
           /\ c.state = "half-open" => c.halfOpenSuccesses < HalfOpenSuccessThreshold
           /\ c.state = "closed" => c.consecutiveFailures < FailureThreshold
  BY DEF Breakers, CircuitState, GetState, RecordSuccess, RecordFailure, Reset, TransitionTo

(* The initial state satisfies BreakerInv. *)
LEMMA BreakerInitial == Init => BreakerInv
<1> SUFFICES ASSUME Init PROVE BreakerInv
  OBVIOUS
<1>1. NewBreaker \in Breakers
  BY DEF NewBreaker, Breakers, CircuitState
<1>2. NewBreaker.state = "closed" /\ NewBreaker.consecutiveFailures = 0
  BY DEF NewBreaker
<1>3. TypeOK
  <2>1. resets \in BOOLEAN
    BY Zenon DEF Init
  <2>2. sinceFailure \in {Never} \cup 0 .. ResetTimeout
    BY DEF Init
  <2>3. outstanding \in 0 .. MaxOutstanding
    BY DEF Init
  <2>4. QED
    BY <1>1, <2>1, <2>2, <2>3 DEF Init, TypeOK
<1>4. QED
  BY <1>2, <1>3 DEF Init, BreakerInv, ThresholdsActedOn, OpenHasFailure

(* BreakerInv is inductive: late outcomes in any order keep it. *)
LEMMA BreakerInductive == BreakerInv /\ [Next]_vars => BreakerInv'
<1> SUFFICES ASSUME BreakerInv, [Next]_vars PROVE BreakerInv'
  OBVIOUS
<1>0. /\ cb \in Breakers /\ TimedOut \in BOOLEAN
      /\ cb.state = "half-open" => cb.halfOpenSuccesses < HalfOpenSuccessThreshold
      /\ cb.state = "closed" => cb.consecutiveFailures < FailureThreshold
  BY DEF BreakerInv, TypeOK, ThresholdsActedOn, TimedOut
<1>1. CASE Tick
  BY <1>1 DEF Tick, BreakerInv, TypeOK, ThresholdsActedOn, OpenHasFailure
<1>2. CASE AllowRequest
  <2>1. cb' \in Breakers /\ ThresholdsActedOn'
    BY <1>0, <1>2, OpsType DEF AllowRequest, ThresholdsActedOn
  <2>2. OpenHasFailure'
    BY <1>0, <1>2
    DEF AllowRequest, GetState, TransitionTo, Breakers, BreakerInv, OpenHasFailure
  <2>3. QED
    BY <2>1, <2>2, <1>2 DEF AllowRequest, BreakerInv, TypeOK, Capped
<1>3. CASE SuccessReported
  <2>1. cb' \in Breakers /\ ThresholdsActedOn'
    BY <1>0, <1>3, OpsType DEF SuccessReported, ThresholdsActedOn
  <2>2. OpenHasFailure'
    BY <1>0, <1>3
    DEF SuccessReported, RecordSuccess, TransitionTo, Breakers, BreakerInv, OpenHasFailure
  <2>3. QED
    BY <2>1, <2>2, <1>3 DEF SuccessReported, BreakerInv, TypeOK
<1>4. CASE FailureReported
  <2>1. cb' \in Breakers /\ ThresholdsActedOn'
    BY <1>0, <1>4, OpsType DEF FailureReported, ThresholdsActedOn
  <2>2. QED
    BY <2>1, <1>4 DEF FailureReported, BreakerInv, TypeOK, OpenHasFailure
<1>5. CASE GivenBack
  BY <1>5 DEF GivenBack, BreakerInv, TypeOK, ThresholdsActedOn, OpenHasFailure
<1>6. CASE ResetCalled
  <2>1. cb' \in Breakers /\ ThresholdsActedOn'
    BY <1>0, <1>6, OpsType DEF ResetCalled, ThresholdsActedOn
  <2>2. QED
    BY <2>1, <1>6 DEF ResetCalled, Reset, TransitionTo, BreakerInv, TypeOK, OpenHasFailure
<1>7. CASE UNCHANGED vars
  BY <1>7 DEF vars, BreakerInv, TypeOK, ThresholdsActedOn, OpenHasFailure
<1>8. QED
  BY <1>1, <1>2, <1>3, <1>4, <1>5, <1>6, <1>7 DEF Next

(* The invariant, and with it ThresholdsActedOn and OpenHasFailure, holds  *)
(* in every reachable state.                                               *)
THEOREM BreakerInvariant == Spec => [](TypeOK /\ ThresholdsActedOn /\ OpenHasFailure)
<1> QED
  BY BreakerInitial, BreakerInductive, PTL DEF Spec, BreakerInv

(* Every step of the breaker is a step of the contract, or no step of it. *)
LEMMA StepSimulation == BreakerInv /\ [Next]_vars => [Contract!ContractNext]_Contract!contractVars
<1> SUFFICES ASSUME BreakerInv, [Next]_vars
    PROVE  [Contract!ContractNext]_Contract!contractVars
  OBVIOUS
<1> USE DEF BreakerInv, TypeOK, Breakers, CircuitState, Contract!ContractNext, Contract!contractVars
<1>1. CASE Tick
  BY <1>1 DEF Tick, TimedOut, Contract!CoolDown
<1>2. CASE AllowRequest
  BY <1>2 DEF AllowRequest, GetState, TransitionTo, TimedOut, Contract!Probe
<1>3. CASE SuccessReported
  BY <1>3 DEF SuccessReported, RecordSuccess, TransitionTo, TimedOut, Contract!Recover
<1>4. CASE FailureReported
  BY <1>4 DEF FailureReported, RecordFailure, TransitionTo, TimedOut,
              Contract!Trip, Contract!Reopen, Contract!LateFailure
<1>5. CASE GivenBack
  BY <1>5 DEF GivenBack, TimedOut
<1>6. CASE ResetCalled
  BY <1>6 DEF ResetCalled, Reset, TransitionTo, TimedOut, Contract!ForceReset
<1>7. CASE UNCHANGED vars
  BY <1>7 DEF vars, TimedOut
<1>8. QED
  BY <1>1, <1>2, <1>3, <1>4, <1>5, <1>6, <1>7 DEF Next

(* The breaker implements its contract: an open breaker is left only after *)
(* a failure-free reset timeout, or by reset().                            *)
THEOREM BreakerImplementsContract == Spec => ImplementsContract
<1>1. Init => Contract!ContractInit
  BY DEF Init, Contract!ContractInit, NewBreaker, TimedOut
<1>2. QED
  BY <1>1, BreakerInitial, BreakerInductive, StepSimulation, PTL
  DEF Spec, ImplementsContract, Contract!ContractSpec
===============================================================================
