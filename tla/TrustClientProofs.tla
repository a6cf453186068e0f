-------------------------- MODULE TrustClientProofs ---------------------------
(***************************************************************************)
(* The parts of Metering, for every value of their constants.              *)
(*                                                                         *)
(* The plugin's transcript mode, of any number of messages, hooks, holds   *)
(* and faults, in the behaviours of its own module, Meter!Spec: a message  *)
(* is posted at most once. A hold bears its messages while it may still    *)
(* be charged or a file names it, and the inductive invariant (MeterInv)   *)
(* says that two holds bear one message only as two tries of one keyed     *)
(* vehicle, that a borne message is kept from being posted anew by the     *)
(* cursor or by the hold's file, and what a hook at each place may assume  *)
(* of the cursor and the files it read: it works on copies, and hooks of   *)
(* the same and of other agents have moved the files since.                *)
(*                                                                         *)
(* The trust() client, for any number of calls and streams, with or        *)
(* without an engine, with requests, appends and emitters that fail in     *)
(* every way the module allows: one outcome per hold, and a drain that     *)
(* waits for it. The inductive invariant says which place of a call goes   *)
(* with which state of its gate (finalizeState): a request to post goes    *)
(* out only from a settled gate and one to void only from a voided one,    *)
(* and what was posted, answered or recorded is a consequence of that. For *)
(* destroy() it says what the two counters count, so that the drain ends   *)
(* with nobody left who could place a hold behind the sweep.               *)
(***************************************************************************)
EXTENDS Metering, FiniteSets, FiniteSetTheorems, SequenceTheorems, TLAPS

-----------------------------------------------------------------------------
(* The transcript mode. *)

(* The variables have their types. *)
Cursors ==
  [partial : SUBSET Messages, claimed : SUBSET Messages, accounted : SUBSET Messages,
   posted : SUBSET Messages, denied : SUBSET Messages, assigned : SUBSET Messages,
   unresolved : SUBSET SUBSET Messages]
Outcomes == {None, "settled", "released", "claimed", "unresolved"}
FileKinds == {"none", "live", "settling", "both", "done"}
Jobs ==
  [agent : Meter!Owners \cup {None}, task : {None, "window", "journal", "remainder"},
  keyed : BOOLEAN,
   mem : Cursors, listed : SUBSET (Transfers \X FileKinds), live : SUBSET Messages,
   finished : SUBSET (Transfers \X {"done", "settling"}), own : SUBSET Messages,
   aside : SUBSET Messages, vehicles : SUBSET SUBSET Messages, group : SUBSET Messages,
   hold : Transfers \cup {None}, retry : BOOLEAN, result : Outcomes, down : BOOLEAN,
   next : {None, "unlock", "authorize", "post"}, left : SUBSET Transfers,
   agents : Seq(Meter!Owners)]
Files == [kind : FileKinds, agent : Meter!Owners \cup {None}, ids : SUBSET Messages,
         keyed : BOOLEAN,
          outcome : Outcomes, by : Meter!Hooks \cup {None}]
Holds == [st : {"free", "pending", "settled", "gone"}, agent : Meter!Owners \cup {None},
          ids : SUBSET Messages, keyed : BOOLEAN]
Places == {"idle", "over", "dead", "open", "reconcile", "claim", "save", "sweep", "authorize",
           "record", "post", "settle", "journal", "unlink", "unlock", "leftovers", "agents"}
MeterTypes ==
  /\ session \in Sessions
  /\ transcript \in [Meter!Owners -> SUBSET Messages] /\ cursor \in [Meter!Owners -> Cursors]
  /\ claims \in [Messages -> Meter!Owners \cup {None}]
  /\ locks \in [Meter!Owners -> Meter!Hooks \cup {None}]
  /\ file \in [Transfers -> Files] /\ srv \in [Transfers -> Holds]
  /\ landing \subseteq Transfers
  /\ at \in [Meter!Hooks -> Places] /\ job \in [Meter!Hooks -> Jobs]

(* A hold bears a message while it may still be charged, or a file names   *)
(* it: until then nothing else may be charged for that message.            *)
Filed(h) == file[h].kind # "none"
Live(h) == srv[h].st \in {"pending", "settled"}
Bears(h, m) == (Filed(h) \/ Live(h)) /\ m \in srv[h].ids
SameKey(g, h) ==
  srv[g].keyed /\ srv[h].keyed /\ srv[g].agent = srv[h].agent /\ srv[g].ids = srv[h].ids

(* A file whose messages a reconcile lets go. *)
Residual(h) == file[h].kind \in {"settling", "both", "done"} /\ file[h].outcome = "released"

(* A cursor keeps a message from being posted anew. *)
Covers(c, m) == m \notin c.claimed \/ m \in c.assigned \/ m \in UNION c.unresolved

FileInv ==
  \A h \in Transfers :
    /\ Filed(h) => /\ srv[h].st # "free" /\ file[h].agent = srv[h].agent
                   /\ file[h].ids = srv[h].ids /\ file[h].keyed = srv[h].keyed
    /\ srv[h].st # "free" => srv[h].agent \in Meter!Owners
    /\ file[h].kind = "live" => file[h].outcome = None
    /\ file[h].kind \in {"settling", "both", "done"} => file[h].by \in Meter!Hooks
    /\ Residual(h) => srv[h].st = "gone"

(* Two holds bear one message only as two tries of one vehicle, of which   *)
(* the server charges one.                                                 *)
UnitInv ==
  \A g, h \in Transfers :
    /\ \A m \in Messages : Bears(g, m) /\ Bears(h, m) => g = h \/ SameKey(g, h)
    /\ \A m \in Messages : Bears(g, m) /\ Bears(h, m) /\ Filed(g) /\ Filed(h) => g = h
    /\ srv[g].st = "settled" /\ srv[h].st = "settled" /\ SameKey(g, h) => g = h

(* What a hold bears is its agent's, and the cursor or the file keep it. *)
OwedInv ==
  \A h \in Transfers : \A m \in Messages : Bears(h, m) =>
    /\ claims[m] = srv[h].agent
    /\ Covers(cursor[srv[h].agent], m) \/ Residual(h)

(* A cursor of agent a agrees with the claims, and with the holds: a       *)
(* vehicle's messages are borne by that vehicle's holds only, a bound      *)
(* message by one hold at most.                                            *)
Sound(c, a) ==
  /\ \A m \in c.claimed : claims[m] = a
  /\ \A v \in c.unresolved : \A m \in v : claims[m] = a
  /\ \A v \in c.unresolved : \A h \in Transfers : \A m \in v :
       Bears(h, m) => srv[h].keyed /\ srv[h].agent = a /\ srv[h].ids = v
  /\ \A v, w \in c.unresolved : \A m \in v : m \in w => v = w
  /\ \A v \in c.unresolved : \A m \in v : m \notin c.assigned
  /\ \A m \in c.assigned : \A g, h \in Transfers :
       Bears(g, m) /\ Bears(h, m) /\ srv[h].agent = a => g = h
SoundInv == \A a \in Meter!Owners : Sound(cursor[a], a)

DiskInv == FileInv /\ UnitInv /\ OwedInv /\ SoundInv

(* Where a hook works on its copy of an agent's cursor. *)
Posting(k) == at[k] = "settle" /\ job[k].task = "remainder"
Past(k) ==
  Posting(k) \/ at[k] \in {"claim", "save", "sweep", "authorize", "record", "post"}
Working(k) == Past(k) \/ at[k] \in {"reconcile", "unlock"}

Placed(k) ==
  /\ at[k] \notin {"idle", "over", "dead", "leftovers", "agents"} =>
     job[k].agent \in Meter!Owners
  /\ Working(k) => locks[job[k].agent] = k
  /\ at[k] = "settle" => job[k].task \in {"journal", "remainder"}
  /\ at[k] = "record" => job[k].next = "unlock" /\ job[k].task = "window"
  /\ at[k] = "post" \/ (at[k] \in {"save", "sweep"} /\ job[k].next = "post") =>
       job[k].task = "remainder"
  /\ at[k] \in {"save", "sweep"} => job[k].next \in {"unlock", "authorize", "post"}
  /\ at[k] \in {"authorize", "record", "post"} \/ Posting(k) => job[k].finished = {}
  /\ at[k] \in {"reconcile", "sweep", "authorize", "record", "post"} \/ Posting(k) =>
       job[k].mem = cursor[job[k].agent]
  /\ job[k].task = "window" => ~job[k].retry

(* The file, or the hold, in a hook's hands. *)
Settles(k) ==
  LET j == job[k] IN
  /\ (at[k] = "settle" /\ j.task = "journal") \/ at[k] = "journal" =>
       /\ j.hold \in Transfers
       /\ file[j.hold].kind = "settling" /\ file[j.hold].by = k /\ file[j.hold].outcome = None
  /\ at[k] = "journal" /\ j.result = "released" => srv[j.hold].st = "gone"
  /\ at[k] = "unlink" =>
       j.hold \in Transfers /\ file[j.hold].kind \in {"settling", "both"} /\ file[j.hold].by = k
  /\ at[k] = "record" \/ Posting(k) =>
       /\ j.hold \in Transfers /\ file[j.hold].kind = "none" /\ srv[j.hold].st # "free"
       /\ srv[j.hold].agent = j.agent /\ srv[j.hold].ids = j.group
       /\ srv[j.hold].keyed = j.keyed

(* What a hook listed of the journal: every file that it needs to have     *)
(* read is found under a name it listed.                                   *)
Lists(k) ==
  at[k] = "reconcile" =>
    /\ \A e \in job[k].listed :
         /\ srv[e[1]].st # "free" /\ srv[e[1]].agent = job[k].agent
         /\ e[2] = "done" => file[e[1]].kind \in {"done", "none"}
    /\ \A h \in Transfers : \A m \in Messages :
         Bears(h, m) /\ srv[h].agent = job[k].agent /\ ~Covers(job[k].mem, m) =>
           <<h, "both">> \in job[k].listed \/ <<h, file[h].kind>> \in job[k].listed

(* A settle's file is swept only when its hook is dead. *)
Sweeps(k) ==
  Past(k) => \A h \in Transfers : <<h, "settling">> \in job[k].finished =>
    /\ srv[h].st # "free" /\ srv[h].agent = job[k].agent
    /\ Filed(h) => file[h].kind # "live" /\ file[h].by \in Meter!Hooks /\ Meter!Dead(file[h].by)

(* What a hook's copy of the cursor lets go, nothing bears but a released  *)
(* hold's file, which the hook has read: as live, or to be swept.          *)
Remembers(k) ==
  /\ Working(k) => Sound(job[k].mem, job[k].agent)
  /\ Past(k) => \A h \in Transfers : \A m \in Messages :
       Bears(h, m) /\ srv[h].agent = job[k].agent /\ ~Covers(job[k].mem, m) =>
         /\ Residual(h)
         /\ m \in job[k].live \/ (file[h].kind = "done" /\ <<h, "done">> \in job[k].finished)

(* The messages a hook binds are on no other hold, once it asks for one. *)
Binding(k) ==
  ~job[k].retry /\ (at[k] = "authorize" \/
  (at[k] \in {"save", "sweep"} /\ job[k].next = "authorize"))
Retrying(k) == job[k].retry /\ (at[k] = "authorize" \/ Posting(k))
Binds(k) ==
  LET j == job[k] IN
  /\ at[k] \in {"save", "sweep"} /\ j.next = "authorize" => ~j.retry
  /\ Binding(k) =>
       /\ IF j.task = "remainder" /\ j.keyed
          THEN j.group \in j.mem.unresolved ELSE j.group \subseteq j.mem.assigned
       /\ \A h \in Transfers : \A m \in j.group : Bears(h, m) =>
            Residual(h) /\ file[h].kind = "done" /\ <<h, "done">> \in j.finished
  /\ at[k] = "record" => j.group \subseteq j.mem.assigned
  /\ at[k] = "record" \/ (Posting(k) /\ ~j.retry) =>
       \A h \in Transfers : \A m \in j.group : Bears(h, m) => h = j.hold
  /\ Retrying(k) => j.keyed /\ j.group \in j.mem.unresolved
  /\ Binding(k) \/ Retrying(k) \/ at[k] = "record" \/ Posting(k) =>
       \A m \in j.group : claims[m] = j.agent

(* What a Stop has left to post. *)
Owns(k) ==
  LET j == job[k] IN
  Past(k) /\ at[k] # "claim" /\ j.task = "remainder" =>
    /\ \A m \in j.own : /\ m \in j.mem.claimed /\ m \notin j.mem.assigned
                         /\ m \notin j.live /\ m \notin UNION j.mem.unresolved
    /\ j.vehicles \subseteq j.mem.unresolved /\ (j.vehicles # {} => j.keyed)
    /\ at[k] = "authorize" \/ Posting(k) \/ Binding(k) =>
         j.own \cap j.group = {} /\ j.group \notin j.vehicles

HookInv(k) ==
  Placed(k) /\ Settles(k) /\ Lists(k) /\ Sweeps(k) /\ Remembers(k) /\ Binds(k) /\ Owns(k)

MeterInv == MeterTypes /\ DiskInv /\ \A k \in Meter!Hooks : HookInv(k)

-----------------------------------------------------------------------------
(* The shape of the records. *)

Parts ==
  {"agent", "task", "keyed", "mem", "listed", "live", "finished", "own", "aside", "vehicles",
   "group", "hold", "retry", "result", "down", "next", "left", "agents"}

LEMMA Shapes ==
  /\ \A j \in Jobs : DOMAIN j = Parts /\ j.mem \in Cursors
  /\ \A c \in Cursors : DOMAIN c = {"partial", "claimed", "accounted", "posted", "denied",
                                     "assigned", "unresolved"}
  /\ \A f \in Files : DOMAIN f = {"kind", "agent", "ids", "keyed", "outcome", "by"}
  /\ \A s \in Holds : DOMAIN s = {"st", "agent", "ids", "keyed"}
  <1>1. \A j \in Jobs : DOMAIN j = Parts /\ j.mem \in Cursors
    BY DEF Jobs, Parts
  <1>2. \A c \in Cursors : DOMAIN c = {"partial", "claimed", "accounted", "posted", "denied",
                                        "assigned", "unresolved"}
    BY DEF Cursors
  <1>3. \A f \in Files : DOMAIN f = {"kind", "agent", "ids", "keyed", "outcome", "by"}
    BY DEF Files
  <1>4. \A s \in Holds : DOMAIN s = {"st", "agent", "ids", "keyed"}
    BY DEF Holds
  <1> QED BY <1>1, <1>2, <1>3, <1>4

LEMMA NoJobIsJob == Meter!NoJob \in Jobs
  <1>1. Meter!emptyCursor \in Cursors BY DEF Meter!emptyCursor, Cursors
  <1>2. <<>> \in Seq(Meter!Owners) OBVIOUS
  <1> QED BY <1>1, <1>2 DEF Jobs, Meter!NoJob, Outcomes

(* What the cursor's operations keep and let go. *)
LEMMA CursorOps ==
  ASSUME NEW c \in Cursors, NEW ids \in SUBSET Messages
  PROVE  /\ Meter!accountIds(c, ids) \in Cursors
         /\ Meter!accountIds(c, ids).claimed = c.claimed \ ids
         /\ Meter!accountIds(c, ids).assigned = c.assigned \ ids
         /\ Meter!accountIds(c, ids).unresolved = c.unresolved
         /\ Meter!postIds(c, ids) \in Cursors
         /\ Meter!postIds(c, ids).claimed = c.claimed \ ids
         /\ Meter!postIds(c, ids).assigned = c.assigned \ ids
         /\ Meter!postIds(c, ids).unresolved = c.unresolved
         /\ Meter!denyIds(c, ids) \in Cursors
         /\ Meter!denyIds(c, ids).claimed = c.claimed \ ids
         /\ Meter!denyIds(c, ids).assigned = c.assigned \ ids
         /\ Meter!denyIds(c, ids).unresolved = c.unresolved
         /\ Meter!releaseIds(c, ids) \in Cursors
         /\ Meter!releaseIds(c, ids).claimed = c.claimed
         /\ Meter!releaseIds(c, ids).assigned = c.assigned \ ids
         /\ Meter!releaseIds(c, ids).unresolved = c.unresolved
  <1>1. Meter!accountIds(c, ids) \in Cursors /\ Meter!denyIds(c, ids) \in Cursors /\
        Meter!releaseIds(c, ids) \in Cursors
    BY DEF Cursors, Meter!accountIds, Meter!denyIds, Meter!releaseIds
  <1>2. /\ Meter!accountIds(c, ids).claimed = c.claimed \ ids
        /\ Meter!accountIds(c, ids).assigned = c.assigned \ ids
        /\ Meter!accountIds(c, ids).unresolved = c.unresolved
    BY DEF Cursors, Meter!accountIds
  <1>3. /\ Meter!denyIds(c, ids).claimed = c.claimed \ ids
        /\ Meter!denyIds(c, ids).assigned = c.assigned \ ids
        /\ Meter!denyIds(c, ids).unresolved = c.unresolved
    BY DEF Cursors, Meter!denyIds
  <1>4. /\ Meter!releaseIds(c, ids).claimed = c.claimed
        /\ Meter!releaseIds(c, ids).assigned = c.assigned \ ids
        /\ Meter!releaseIds(c, ids).unresolved = c.unresolved
    BY DEF Cursors, Meter!releaseIds
  <1>5. /\ Meter!postIds(c, ids) \in Cursors
        /\ Meter!postIds(c, ids).claimed = Meter!accountIds(c, ids).claimed
        /\ Meter!postIds(c, ids).assigned = Meter!accountIds(c, ids).assigned
        /\ Meter!postIds(c, ids).unresolved = Meter!accountIds(c, ids).unresolved
    <2> DEFINE a == Meter!accountIds(c, ids)
    <2>1. a \in Cursors BY <1>1
    <2> HIDE DEF a
    <2>2. [a EXCEPT !.posted = @ \cup ids] \in Cursors BY <2>1 DEF Cursors
    <2>3. /\ [a EXCEPT !.posted = @ \cup ids].claimed = a.claimed
          /\ [a EXCEPT !.posted = @ \cup ids].assigned = a.assigned
          /\ [a EXCEPT !.posted = @ \cup ids].unresolved = a.unresolved
      BY <2>1 DEF Cursors
    <2> QED BY <2>2, <2>3 DEF a, Meter!postIds
  <1> QED BY <1>1, <1>2, <1>3, <1>4, <1>5

-----------------------------------------------------------------------------
(* Steps of the server, and of one hook. *)

(* Holds end, or are charged once per key. *)
Served ==
  /\ \A h \in Transfers :
       /\ srv'[h].agent = srv[h].agent /\ srv'[h].ids = srv[h].ids
       /\ srv'[h].keyed = srv[h].keyed
       /\ \/ srv'[h].st = srv[h].st
          \/ srv[h].st = "pending" /\ srv'[h].st = "settled"
          \/ srv[h].st # "free" /\ srv'[h].st = "gone"
  /\ \A g, h \in Transfers : srv'[g].st = "settled" /\ srv'[h].st = "settled" /\
                             SameKey(g, h) => g = h

Alone(k) == \A l \in Meter!Hooks : l # k => at'[l] = at[l] /\ job'[l] = job[l]
Keeps(k, S) == \A f \in Parts \ S : job'[k][f] = job[k][f]
SameLocks(k) == \A l \in Meter!Hooks : l # k /\ Working(l) => locks'[job[l].agent] = locks[job[l].agent]

LEMMA DiskServed ==
  ASSUME MeterInv, Served, UNCHANGED <<file, claims, cursor>>
  PROVE  DiskInv'
  <1>1. FileInv' BY DEF MeterInv, DiskInv, FileInv, Served, Filed, Residual
  <1>2. \A h \in Transfers : \A m \in Messages : Bears(h, m)' => Bears(h, m)
    BY DEF Served, Bears, Filed, Live
  <1>3. UnitInv' BY <1>2 DEF MeterInv, DiskInv, UnitInv, Served, SameKey, Filed
  <1>4. OwedInv' BY <1>2 DEF MeterInv, DiskInv, OwedInv, Served, Covers, Residual
  <1>5. SoundInv' BY <1>2 DEF MeterInv, MeterTypes, DiskInv, SoundInv, Sound, Served, Cursors
  <1> QED BY <1>1, <1>3, <1>4, <1>5 DEF DiskInv

LEMMA HookServed ==
  ASSUME MeterInv, Served, UNCHANGED <<file, claims, cursor>>, NEW l \in Meter!Hooks,
         at'[l] = at[l], job'[l] = job[l], Working(l) =>
         locks'[job[l].agent] = locks[job[l].agent],
         \A k \in Meter!Hooks : Meter!Dead(k) => Meter!Dead(k)'
  PROVE  HookInv(l)'
  <1>0. HookInv(l) /\ job[l] \in Jobs BY DEF MeterInv, MeterTypes
  <1>1. \A h \in Transfers : \A m \in Messages : Bears(h, m)' => Bears(h, m)
    BY DEF Served, Bears, Filed, Live
  <1>2. Placed(l)' BY <1>0 DEF HookInv, Placed, Working, Past, Posting
  <1>3. Settles(l)' BY <1>0 DEF HookInv, Settles, Posting, Served
  <1>4. Lists(l)' BY <1>0, <1>1 DEF HookInv, Lists, Covers, Served, Jobs
  <1>5. Sweeps(l)' BY <1>0 DEF HookInv, Sweeps, Past, Posting, Filed, Served
  <1>6. Remembers(l)'
    BY <1>0, <1>1, Shapes DEF HookInv, Remembers, Sound, Working, Past, Posting, Covers,
      Residual, Served, Cursors
  <1>7. Binds(l)'
    BY <1>0, <1>1 DEF HookInv, Binds, Binding, Retrying, Posting, Residual, Served, Jobs
  <1>8. Owns(l)' BY <1>0 DEF HookInv, Owns, Past, Posting, Binding
  <1> QED BY <1>2, <1>3, <1>4, <1>5, <1>6, <1>7, <1>8 DEF HookInv

(* A hook's step that touches at most the server's holds. *)
LEMMA StepServed ==
  ASSUME MeterInv, NEW k \in Meter!Hooks, Alone(k), Served, UNCHANGED <<file, claims, cursor>>,
         SameLocks(k), ~Meter!Dead(k), MeterTypes', HookInv(k)'
  PROVE  MeterInv'
  <1>1. DiskInv' BY DiskServed
  <1>2. \A l \in Meter!Hooks : Meter!Dead(l) => Meter!Dead(l)' BY DEF Alone, Meter!Dead
  <1>3. ASSUME NEW l \in Meter!Hooks PROVE HookInv(l)'
    BY <1>2, HookServed DEF Alone, SameLocks
  <1> QED BY <1>1, <1>3 DEF MeterInv

LEMMA HostKeeps ==
  ASSUME MeterInv, Served, UNCHANGED <<file, claims, cursor, locks, at, job>>, MeterTypes'
  PROVE  MeterInv'
  <1>1. DiskInv' BY DiskServed
  <1>2. ASSUME NEW l \in Meter!Hooks PROVE HookInv(l)'
    BY HookServed DEF Meter!Dead
  <1> QED BY <1>1, <1>2 DEF MeterInv

(* A hook between two agents, or done. *)
LEMMA Rests ==
  ASSUME NEW k \in Meter!Hooks, at'[k] \in {"over", "dead", "leftovers", "agents", "open"},
         at'[k] = "open" => job'[k].agent \in Meter!Owners,
         job'[k].task = "window" => ~job'[k].retry
  PROVE  HookInv(k)'
  <1>1. Placed(k)' BY DEF Placed, Working, Past, Posting
  <1>2. Settles(k)' /\ Lists(k)' /\ Sweeps(k)' BY DEF Settles, Lists, Sweeps, Past, Posting
  <1>3. Remembers(k)' BY DEF Remembers, Working, Past, Posting
  <1>4. Binds(k)' BY DEF Binds, Binding, Retrying, Posting
  <1>5. Owns(k)' BY DEF Owns, Past, Posting
  <1> QED BY <1>1, <1>2, <1>3, <1>4, <1>5 DEF HookInv

(* A hook that is done with its agent. *)
LEMMA Unlocks ==
  ASSUME NEW k \in Meter!Hooks, at'[k] = "unlock", job'[k].agent \in Meter!Owners,
         locks'[job'[k].agent] = k,
         job'[k].task = "window" => ~job'[k].retry,
         Sound(job[k].mem, job[k].agent)'
  PROVE  HookInv(k)'
  <1>1. Placed(k)' BY DEF Placed, Working, Past, Posting
  <1>2. Settles(k)' /\ Lists(k)' /\ Sweeps(k)' BY DEF Settles, Lists, Sweeps, Past, Posting
  <1>3. Remembers(k)' BY DEF Remembers, Working, Past, Posting
  <1>4. Binds(k)' BY DEF Binds, Binding, Retrying, Posting
  <1>5. Owns(k)' BY DEF Owns, Past, Posting
  <1> QED BY <1>1, <1>2, <1>3, <1>4, <1>5 DEF HookInv

(* A cursor that keeps less, and one while holds end. *)
LEMMA SoundShrinks ==
  ASSUME NEW c \in Cursors, NEW d \in Cursors, NEW a, Sound(c, a),
         d.claimed \subseteq c.claimed,
         d.assigned \subseteq c.assigned, d.unresolved \subseteq c.unresolved
  PROVE  Sound(d, a)
  BY DEF Sound

LEMMA SoundFewer ==
  ASSUME \A h \in Transfers : \A m \in Messages : Bears(h, m)' => Bears(h, m),
         \A h \in Transfers : /\ srv'[h].agent = srv[h].agent /\ srv'[h].ids = srv[h].ids
                             /\ srv'[h].keyed = srv[h].keyed,
         UNCHANGED claims, NEW c \in Cursors, NEW a, Sound(c, a)
  PROVE  Sound(c, a)'
  BY DEF Sound, Cursors

LEMMA SoundServed ==
  ASSUME Served, UNCHANGED <<file, claims>>, NEW c \in Cursors, NEW a, Sound(c, a)
  PROVE  Sound(c, a)'
  <1>1. \A h \in Transfers : \A m \in Messages : Bears(h, m)' => Bears(h, m)
    BY DEF Served, Bears, Filed, Live
  <1> QED BY <1>1, SoundFewer DEF Served

(* What a hook goes on with. *)
LEMMA GoesAlone ==
  ASSUME MeterTypes, NEW k \in Meter!Hooks, NEW to, NEW j, Meter!Goes(k, to), Meter!Knows(k, j)
  PROVE  Alone(k) /\ at'[k] = to /\ job'[k] = j
  BY DEF MeterTypes, Meter!Goes, Meter!Knows, Alone

LEMMA GoesOn ==
  ASSUME MeterTypes, NEW k \in Meter!Hooks, NEW to, Meter!Goes(k, to), UNCHANGED job
  PROVE  Alone(k) /\ at'[k] = to /\ job'[k] = job[k]
  BY DEF MeterTypes, Meter!Goes, Alone

LEMMA TypesKept ==
  ASSUME MeterTypes, UNCHANGED <<session, transcript, cursor, claims, locks, file, srv,
         landing>>,
         NEW k \in Meter!Hooks, NEW to \in Places, Meter!Goes(k, to), UNCHANGED job \/
         \E j \in Jobs : Meter!Knows(k, j)
  PROVE  MeterTypes'
  <1>1. at' \in [Meter!Hooks -> Places] BY DEF MeterTypes, Meter!Goes
  <1>2. job' \in [Meter!Hooks -> Jobs] BY DEF MeterTypes, Meter!Knows
  <1> QED BY <1>1, <1>2 DEF MeterTypes

-----------------------------------------------------------------------------
(* The host, the server and time. *)

LEMMA HostWritesKeeps ==
  ASSUME MeterInv, Meter!HostWrites \/ Meter!HostForks PROVE MeterInv'
  <1>1. MeterTypes BY DEF MeterInv
  <1>2. UNCHANGED <<session, cursor, claims, locks, file, srv, landing, at, job>>
    BY DEF Meter!HostWrites, Meter!HostForks, Meter!disk, Meter!server
  <1>3. transcript' \in [Meter!Owners -> SUBSET Messages]
    BY <1>1 DEF Meter!HostWrites, Meter!HostForks, MeterTypes, Meter!Owners
  <1>4. MeterTypes' BY <1>1, <1>2, <1>3 DEF MeterTypes
  <1>5. Served BY <1>2 DEF Served, MeterInv, DiskInv, UnitInv
  <1> QED BY <1>2, <1>4, <1>5, HostKeeps

LEMMA BecomesServed ==
  ASSUME MeterInv, NEW h \in Transfers, srv[h].st = "pending",
         NEW st, st = "gone" \/ (st = "settled" /\ Meter!Chargeable(h)), Meter!Becomes(h, st)
  PROVE  Served /\ srv' \in [Transfers -> Holds] /\ srv'[h].st = st
  <1>1. srv \in [Transfers -> Holds] /\ srv[h] \in Holds BY DEF MeterInv, MeterTypes
  <1>2. srv' \in [Transfers -> Holds]
    <2>1. [srv[h] EXCEPT !.st = st] \in Holds BY <1>1 DEF Holds
    <2> QED BY <1>1, <2>1 DEF Meter!Becomes
  <1>3. \A g \in Transfers :
          /\ srv'[g].agent = srv[g].agent /\ srv'[g].ids = srv[g].ids
          /\ srv'[g].keyed = srv[g].keyed
          /\ srv'[g].st = IF g = h THEN st ELSE srv[g].st
    BY <1>1, Shapes DEF Meter!Becomes
  <1>4. Served
    BY <1>3 DEF Served, SameKey, MeterInv, DiskInv, UnitInv, Meter!Chargeable, Meter!KeyCharged
  <1> QED BY <1>2, <1>3, <1>4

LEMMA SameServed ==
  ASSUME MeterInv, UNCHANGED srv PROVE Served /\ srv' \in [Transfers -> Holds]
  BY DEF Served, MeterInv, MeterTypes, DiskInv, UnitInv

LEMMA LateSettleKeeps ==
  ASSUME MeterInv, Meter!LateSettle PROVE MeterInv'
  <1>1. PICK h \in landing : /\ landing' = landing \ {h}
                          /\ Meter!Becomes(h, IF Meter!Chargeable(h) THEN "settled" ELSE srv[h].st)
    BY DEF Meter!LateSettle
  <1>2. UNCHANGED <<session, transcript, file, claims, cursor, locks, at, job>>
    BY DEF Meter!LateSettle, Meter!disk
  <1>3. h \in Transfers BY DEF MeterInv, MeterTypes
  <1>4. Served /\ srv' \in [Transfers -> Holds]
    <2>1. CASE Meter!Chargeable(h) BY <1>1, <1>3, <2>1, BecomesServed DEF Meter!Chargeable
    <2>2. CASE ~Meter!Chargeable(h)
      <3>1. srv' = srv
        <4>1. srv \in [Transfers -> Holds] /\ srv[h] \in Holds BY <1>3 DEF MeterInv, MeterTypes
        <4>2. [srv[h] EXCEPT !.st = srv[h].st] = srv[h] BY <4>1 DEF Holds
        <4> QED BY <1>1, <2>2, <4>1, <4>2 DEF Meter!Becomes
      <3> QED BY <3>1, SameServed
    <2> QED BY <2>1, <2>2
  <1>5. MeterTypes' BY <1>1, <1>2, <1>4 DEF MeterInv, MeterTypes
  <1> QED BY <1>2, <1>4, <1>5, HostKeeps

LEMMA ExpiresKeeps ==
  ASSUME MeterInv, Meter!Expires PROVE MeterInv'
  <1>1. PICK h \in Transfers : srv[h].st = "pending" /\ Meter!Becomes(h, "gone")
    BY DEF Meter!Expires
  <1>2. UNCHANGED <<session, transcript, file, claims, cursor, locks, landing, at, job>>
    BY DEF Meter!Expires, Meter!disk
  <1>3. Served /\ srv' \in [Transfers -> Holds] BY <1>1, BecomesServed
  <1>4. MeterTypes' BY <1>2, <1>3 DEF MeterInv, MeterTypes
  <1> QED BY <1>2, <1>3, <1>4, HostKeeps

LEMMA LoseCursorKeeps ==
  ASSUME MeterInv, NEW a \in Meter!Owners, Meter!LoseCursor(a) PROVE MeterInv'
  <1>1. /\ locks[a] = None /\ cursor' = [cursor EXCEPT ![a] = Meter!emptyCursor]
        /\ UNCHANGED <<session, transcript, claims, file, locks, srv, landing, at, job>>
    BY DEF Meter!LoseCursor, Meter!server
  <1>2. Meter!emptyCursor \in Cursors BY DEF Meter!emptyCursor, Cursors
  <1>3. MeterTypes' BY <1>1, <1>2 DEF MeterInv, MeterTypes
  <1>4. \A b \in Meter!Owners : cursor'[b] = IF b = a THEN Meter!emptyCursor ELSE cursor[b]
    BY <1>1 DEF MeterInv, MeterTypes
  <1>5. FileInv' /\ UnitInv'
    BY <1>1 DEF MeterInv, DiskInv, FileInv, UnitInv, Filed, Live, Bears, Residual, SameKey
  <1>6. OwedInv'
    BY <1>1, <1>4 DEF MeterInv, MeterTypes, DiskInv, OwedInv, FileInv, Filed, Live, Bears,
      Residual, Covers, Meter!emptyCursor
  <1>7. SoundInv'
    BY <1>1, <1>4 DEF MeterInv, DiskInv, SoundInv, Sound, Bears, Filed, Live, Meter!emptyCursor
  <1>8. ASSUME NEW l \in Meter!Hooks PROVE HookInv(l)'
    <2>0. HookInv(l) BY DEF MeterInv
    <2>1. Working(l) => job[l].agent # a BY <1>1, <2>0, MeterAssumption DEF HookInv, Placed
    <2>2. Placed(l)' BY <1>1, <1>4, <2>0, <2>1 DEF HookInv, Placed, Working, Past, Posting
    <2>3. Settles(l)' /\ Lists(l)' /\ Sweeps(l)' /\ Remembers(l)' /\ Binds(l)' /\ Owns(l)'
      BY <1>1, <2>0 DEF HookInv, Settles, Lists, Sweeps, Remembers, Binds, Owns, Sound,
        Posting, Past,
        Working, Binding, Retrying, Bears, Filed, Live, Residual, Covers, Meter!Dead
    <2> QED BY <2>2, <2>3 DEF HookInv
  <1> QED BY <1>3, <1>5, <1>6, <1>7, <1>8 DEF MeterInv, DiskInv

-----------------------------------------------------------------------------
(* A hook starts, stops, or takes a lock. *)

LEMMA KillKeeps ==
  ASSUME MeterInv, NEW k \in Meter!Hooks, Meter!Kill(k) PROVE MeterInv'
  <1>1. /\ Meter!Goes(k, "dead") /\ Meter!Knows(k, Meter!NoJob) /\ ~Meter!Dead(k)
        /\ UNCHANGED <<session, transcript, cursor, claims, file, locks, srv, landing>>
    BY DEF Meter!Kill, Meter!disk, Meter!server, Meter!Dead
  <1>2. MeterTypes' BY <1>1, TypesKept, NoJobIsJob DEF MeterInv, Places
  <1>3. Alone(k) /\ at'[k] = "dead" /\ job'[k] = Meter!NoJob BY <1>1, GoesAlone DEF MeterInv
  <1>4. HookInv(k)' BY <1>3, Rests DEF Meter!NoJob
  <1> QED BY <1>1, <1>2, <1>3, <1>4, SameServed, StepServed DEF SameLocks

LEMMA PreStartsKeeps ==
  ASSUME MeterInv, NEW k \in Meter!Hooks, Meter!PreStarts(k) PROVE MeterInv'
  <1>1. PICK a \in Meter!Owners, keyed \in BOOLEAN :
          /\ Meter!Goes(k, "open") /\ at[k] = "idle"
          /\ Meter!Knows(k, [Meter!NoJob EXCEPT !.agent = a, !.task = "window",
             !.keyed = keyed])
          /\ UNCHANGED <<session, transcript, cursor, claims, file, locks, srv, landing>>
    BY DEF Meter!PreStarts, Meter!disk, Meter!server
  <1> DEFINE j == [Meter!NoJob EXCEPT !.agent = a, !.task = "window", !.keyed = keyed]
  <1>2. j \in Jobs BY NoJobIsJob DEF Jobs
  <1>3. MeterTypes' BY <1>1, <1>2, TypesKept DEF MeterInv, Places
  <1>4. Alone(k) /\ at'[k] = "open" /\ job'[k] = j BY <1>1, GoesAlone DEF MeterInv
  <1>5. j.agent \in Meter!Owners /\ ~j.retry /\ j.finished = {} BY DEF Meter!NoJob
  <1> HIDE DEF j
  <1>6. HookInv(k)' BY <1>4, <1>5, Rests
  <1> QED BY <1>1, <1>3, <1>4, <1>6, SameServed, StepServed DEF SameLocks, Meter!Dead

LEMMA StopStartsKeeps ==
  ASSUME MeterInv, NEW k \in Meter!Hooks, Meter!StopStarts(k) PROVE MeterInv'
  <1>1. PICK keyed \in BOOLEAN :
          /\ Meter!Goes(k, "leftovers") /\ at[k] = "idle"
          /\ Meter!Knows(k, [Meter!NoJob EXCEPT !.keyed = keyed, !.agents = session.agents,
             !.left = Meter!Named({"live"})])
          /\ UNCHANGED <<session, transcript, cursor, claims, file, locks, srv, landing>>
    BY DEF Meter!StopStarts, Meter!disk, Meter!server
  <1> DEFINE j == [Meter!NoJob EXCEPT !.keyed = keyed, !.agents = session.agents,
  !.left = Meter!Named({"live"})]
  <1>2. j \in Jobs
    <2>1. session.agents \in Seq(Meter!Owners) BY MeterAssumption DEF MeterInv, MeterTypes
    <2>2. Meter!Named({"live"}) \in SUBSET Transfers BY DEF Meter!Named
    <2> QED BY <2>1, <2>2, NoJobIsJob DEF Jobs
  <1>3. MeterTypes' BY <1>1, <1>2, TypesKept DEF MeterInv, Places
  <1>4. Alone(k) /\ at'[k] = "leftovers" /\ job'[k] = j BY <1>1, GoesAlone DEF MeterInv
  <1>5. ~j.retry /\ j.finished = {} BY DEF Meter!NoJob
  <1> HIDE DEF j
  <1>6. HookInv(k)' BY <1>4, <1>5, Rests
  <1> QED BY <1>1, <1>3, <1>4, <1>6, SameServed, StepServed DEF SameLocks, Meter!Dead

LEMMA LeavesKeeps ==
  ASSUME MeterInv, NEW k \in Meter!Hooks, Meter!Busy(k) \/ Meter!Unlock(k) PROVE MeterInv'
  <1> DEFINE j == [Meter!NoJob EXCEPT !.keyed = job[k].keyed, !.left = job[k].left,
  !.agents = job[k].agents]
             to == Meter!Onward(job[k])
  <1>1. /\ Meter!Goes(k, to) /\ Meter!Knows(k, j) /\ ~Meter!Dead(k)
        /\ UNCHANGED <<session, transcript, cursor, claims, file, srv, landing>>
    BY DEF Meter!Busy, Meter!Unlock, Meter!Leaves, Meter!disk, Meter!server, Meter!Dead
  <1>2. j \in Jobs
    <2>1. job[k] \in Jobs BY DEF MeterInv, MeterTypes
    <2> QED BY <2>1, NoJobIsJob DEF Jobs
  <1>3. to \in {"over", "leftovers", "agents"} BY DEF Meter!Onward
  <1>4. Alone(k) /\ at'[k] = to /\ job'[k] = j BY <1>1, GoesAlone DEF MeterInv
  <1>5. j.task = None /\ ~j.retry /\ j.finished = {} BY DEF Meter!NoJob
  <1> HIDE DEF j, to
  <1>6. locks' \in [Meter!Owners -> Meter!Hooks \cup {None}] /\ SameLocks(k)
    <2>1. CASE Meter!Busy(k) BY <2>1 DEF Meter!Busy, SameLocks, MeterInv, MeterTypes
    <2>2. CASE Meter!Unlock(k)
      <3>1. at[k] = "unlock" /\ locks' = [locks EXCEPT ![job[k].agent] = None]
        BY <2>2 DEF Meter!Unlock
      <3>2. \A l \in Meter!Hooks : Working(l) => job[l].agent \in Meter!Owners /\
                                   locks[job[l].agent] = l
        BY DEF MeterInv, HookInv, Placed, Working, Past, Posting
      <3> QED BY <3>1, <3>2 DEF MeterInv, MeterTypes, SameLocks, Working
    <2> QED BY <2>1, <2>2
  <1>7. MeterTypes'
    <2>1. at' \in [Meter!Hooks -> Places]
      BY <1>1, <1>3 DEF MeterInv, MeterTypes, Meter!Goes, Places
    <2>2. job' \in [Meter!Hooks -> Jobs] BY <1>1, <1>2 DEF MeterInv, MeterTypes, Meter!Knows
    <2> QED BY <1>1, <1>6, <2>1, <2>2 DEF MeterInv, MeterTypes
  <1>8. HookInv(k)' BY <1>3, <1>4, <1>5, Rests
  <1> QED BY <1>1, <1>4, <1>6, <1>7, <1>8, SameServed, StepServed

LEMMA SaveFailsKeeps ==
  ASSUME MeterInv, NEW k \in Meter!Hooks, Meter!SaveFails(k) PROVE MeterInv'
  <1>1. /\ Meter!Goes(k, "unlock") /\ UNCHANGED job /\ at[k] = "save"
        /\ UNCHANGED <<session, transcript, cursor, claims, file, locks, srv, landing>>
    BY DEF Meter!SaveFails, Meter!disk, Meter!server
  <1>2. MeterTypes' BY <1>1, TypesKept DEF MeterInv, Places
  <1>3. Alone(k) /\ at'[k] = "unlock" /\ job'[k] = job[k] BY <1>1, GoesOn DEF MeterInv
  <1>4. Placed(k) /\ Remembers(k) /\ job[k].mem \in Cursors
    BY Shapes DEF MeterInv, MeterTypes, HookInv
  <1>5. Sound(job[k].mem, job[k].agent)'
    BY <1>1, <1>3, <1>4, SameServed, SoundServed DEF Remembers, Working, Past
  <1>7. HookInv(k)' BY <1>1, <1>3, <1>4, <1>5, Unlocks DEF Placed, Working, Past
  <1> QED BY <1>1, <1>2, <1>3, <1>7, SameServed, StepServed DEF SameLocks, Meter!Dead

LEMMA NoLeftoversKeeps ==
  ASSUME MeterInv, NEW k \in Meter!Hooks, Meter!NoLeftovers(k) \/
         Meter!JournalFails(k) PROVE MeterInv'
  <1>1. PICK to \in {"agents", "open"} :
        /\ Meter!Goes(k, to) /\ UNCHANGED job /\ at[k] \in {"leftovers", "journal"}
        /\ to = "open" => at[k] = "journal"
        /\ UNCHANGED <<session, transcript, cursor, claims, file, locks, srv, landing>>
    BY DEF Meter!NoLeftovers, Meter!JournalFails, Meter!disk, Meter!server
  <1>2. MeterTypes' BY <1>1, TypesKept DEF MeterInv, Places
  <1>3. Alone(k) /\ at'[k] = to /\ job'[k] = job[k] BY <1>1, GoesOn DEF MeterInv
  <1>4. Placed(k) BY DEF MeterInv, HookInv
  <1>6. HookInv(k)' BY <1>1, <1>3, <1>4, Rests DEF Placed
  <1> QED BY <1>1, <1>2, <1>3, <1>6, SameServed, StepServed DEF SameLocks, Meter!Dead

LEMMA OpenKeeps ==
  ASSUME MeterInv, NEW k \in Meter!Hooks, Meter!Open(k) PROVE MeterInv'
  <1> DEFINE a == job[k].agent
             L == {<<h, file[h].kind>> : h \in {g \in Meter!Named({"live", "settling", "done",
                  "both"}) :
                                                  file[g].agent = a}}
             j == [job[k] EXCEPT !.mem = cursor[a], !.listed = L]
  <1>1. /\ at[k] = "open" /\ (locks[a] # None => Meter!Dead(locks[a])) /\
           locks' = [locks EXCEPT ![a] = k]
        /\ Meter!Goes(k, "reconcile") /\ Meter!Knows(k, j)
        /\ UNCHANGED <<session, transcript, cursor, claims, file, srv, landing>>
    BY DEF Meter!Open, Meter!disk, Meter!server
  <1>2. a \in Meter!Owners /\ job[k] \in Jobs /\ cursor[a] \in Cursors /\ Placed(k)
    BY <1>1 DEF MeterInv, MeterTypes, HookInv, Placed
  <1>3. j \in Jobs
    <2>1. L \in SUBSET (Transfers \X FileKinds) BY DEF Meter!Named, MeterInv, MeterTypes, Files
    <2> HIDE DEF L
    <2> QED BY <1>2, <2>1 DEF Jobs
  <1>4. Alone(k) /\ at'[k] = "reconcile" /\ job'[k] = j BY <1>1, GoesAlone DEF MeterInv
  <1>5. /\ j.mem = cursor[a] /\ j.listed = L /\ j.agent = a /\ j.task = job[k].task
        /\ j.retry = job[k].retry /\ j.finished = job[k].finished
    BY <1>2, Shapes DEF Parts
  <1>6. MeterTypes'
    <2>1. at' \in [Meter!Hooks -> Places] BY <1>1 DEF MeterInv, MeterTypes, Meter!Goes, Places
    <2>2. job' \in [Meter!Hooks -> Jobs] BY <1>1, <1>3 DEF MeterInv, MeterTypes, Meter!Knows
    <2>3. locks' \in [Meter!Owners -> Meter!Hooks \cup {None}] BY <1>1 DEF MeterInv, MeterTypes
    <2> QED BY <1>1, <2>1, <2>2, <2>3 DEF MeterInv, MeterTypes
  <1> HIDE DEF j
  <1>7. SameLocks(k)
    BY <1>1, <1>2, MeterAssumption DEF SameLocks, MeterInv, MeterTypes, HookInv, Placed,
      Working, Past, Posting, Meter!Dead
  <1>8. HookInv(k)'
    <2>1. Placed(k)'
      BY <1>1, <1>2, <1>4, <1>5 DEF Placed, Working, Past, Posting, MeterInv, MeterTypes
    <2>2. Settles(k)' /\ Binds(k)' /\ Owns(k)'
      BY <1>4 DEF Settles, Binds, Owns, Past, Posting, Binding, Retrying
    <2>3. Lists(k)'
      <3>1. ASSUME NEW e \in L
            PROVE  srv[e[1]].st # "free" /\ srv[e[1]].agent = a /\
                   (e[2] = "done" => file[e[1]].kind \in {"done", "none"})
        BY DEF Meter!Named, MeterInv, DiskInv, FileInv, Filed
      <3>2. ASSUME NEW h \in Transfers, NEW m \in Messages, Bears(h, m), srv[h].agent = a,
                   ~Covers(cursor[a], m)
            PROVE  <<h, file[h].kind>> \in L
        BY <3>2 DEF Meter!Named, MeterInv, DiskInv, OwedInv, FileInv, Filed, Residual
      <3> HIDE DEF L
      <3>3. \A h \in Transfers : \A m \in Messages : Bears(h, m)' <=> Bears(h, m)
        BY <1>1 DEF Bears, Filed, Live
      <3>4. \A m \in Messages : Covers(job[k].mem, m)' <=> Covers(cursor[a], m)
        BY <1>4, <1>5 DEF Covers
      <3> QED BY <1>1, <1>4, <1>5, <3>1, <3>2, <3>3, <3>4 DEF Lists
    <2>4. Sweeps(k)' BY <1>4 DEF Sweeps, Past, Posting
    <2>5. Sound(job[k].mem, job[k].agent)'
      BY <1>1, <1>2, <1>4, <1>5, SameServed, SoundServed DEF MeterInv, DiskInv, SoundInv
    <2>6. Remembers(k)' BY <1>1, <1>4, <1>5, <2>5 DEF Remembers, Working, Past, Posting
    <2> QED BY <2>1, <2>2, <2>3, <2>4, <2>6 DEF HookInv
  <1> QED BY <1>1, <1>4, <1>6, <1>7, <1>8, SameServed, StepServed DEF Meter!Dead

LEMMA NextAgentKeeps ==
  ASSUME MeterInv, NEW k \in Meter!Hooks, Meter!NextAgent(k) PROVE MeterInv'
  <1> DEFINE j == job[k]
             j2 == [j EXCEPT !.agent = Head(j.agents), !.agents = Tail(j.agents),
                   !.task = "remainder"]
  <1>1. /\ at[k] = "agents"
        /\ UNCHANGED <<session, transcript, cursor, claims, file, locks, srv, landing>>
    BY DEF Meter!NextAgent, Meter!disk, Meter!server
  <1>2. j \in Jobs BY DEF MeterInv, MeterTypes, HookInv
  <1>3. CASE j.agents # <<>> /\ Meter!Goes(k, "open") /\ Meter!Knows(k, j2)
    <2>1. Head(j.agents) \in Meter!Owners /\ Tail(j.agents) \in Seq(Meter!Owners)
      BY <1>2, <1>3, HeadTailProperties DEF Jobs
    <2>2. j2 \in Jobs BY <1>2, <2>1 DEF Jobs
    <2>3. MeterTypes' BY <1>1, <1>3, <2>2, TypesKept DEF MeterInv, Places
    <2>4. Alone(k) /\ at'[k] = "open" /\ job'[k] = j2 BY <1>3, GoesAlone DEF MeterInv
    <2>5. j2.agent \in Meter!Owners /\ j2.task = "remainder" /\ j2.finished = j.finished
      BY <1>2, <2>1, Shapes DEF Parts
    <2> HIDE DEF j2
    <2>7. HookInv(k)' BY <2>4, <2>5, Rests
    <2> QED BY <1>1, <2>3, <2>4, <2>7, SameServed, StepServed DEF SameLocks, Meter!Dead
  <1>4. CASE j.agents = <<>> /\ Meter!Goes(k, "over") /\ Meter!Knows(k, Meter!NoJob)
    <2>1. MeterTypes' BY <1>1, <1>4, NoJobIsJob, TypesKept DEF MeterInv, Places
    <2>2. Alone(k) /\ at'[k] = "over" /\ job'[k] = Meter!NoJob BY <1>4, GoesAlone DEF MeterInv
    <2>3. HookInv(k)' BY <2>2, Rests DEF Meter!NoJob
    <2> QED BY <1>1, <2>1, <2>2, <2>3, SameServed, StepServed DEF SameLocks, Meter!Dead
  <1> QED BY <1>3, <1>4 DEF Meter!NextAgent

-----------------------------------------------------------------------------
(* A hold's file is renamed, journalled and removed. *)

(* A rename that leaves what the files say of the holds. *)
Renamed(k) ==
  /\ \A h \in Transfers :
       /\ Filed(h)' => Filed(h) /\ file'[h].agent = file[h].agent /\ file'[h].ids = file[h].ids
                                /\ file'[h].keyed = file[h].keyed
       /\ Residual(h)' => srv[h].st = "gone"
       /\ Residual(h) => Residual(h)' \/ file'[h].kind = "none"
       /\ file'[h].kind = "live" => file[h].kind = "live" /\ file'[h].outcome = None
       /\ file'[h].kind \in {"settling", "both", "done"} => file'[h].by \in Meter!Hooks
       /\ file[h].kind = "done" => file'[h] = file[h] \/ file'[h].kind = "none"
       /\ file[h].kind = "settling" /\ file[h].by \in Meter!Hooks \ {k} /\
          ~Meter!Dead(file[h].by) =>
            file'[h] = file[h]
       /\ file[h].kind = "settling" => file'[h].kind \in {"settling", "both", "none"}
       /\ file[h].kind = "settling" => file'[h].kind # "both" \/ file[h].outcome = None
       /\ file[h].kind = "both" /\ file[h].by \in Meter!Hooks \ {k} /\
          ~Meter!Dead(file[h].by) =>
            file'[h].kind \in {"settling", "both"}
       /\ Filed(h)' /\ file[h].kind # "live" => file'[h].by = file[h].by
       /\ file[h].kind = "live" => file'[h].kind \in {"live", "settling"}

LEMMA DiskRenamed ==
  ASSUME MeterInv, NEW k \in Meter!Hooks, Renamed(k), UNCHANGED <<srv, claims, cursor>>
  PROVE  DiskInv'
  <1>1. FileInv' BY DEF MeterInv, DiskInv, FileInv, Renamed, Filed
  <1>2. \A h \in Transfers : \A m \in Messages : Bears(h, m)' => Bears(h, m) /\
                                                 (Filed(h)' => Filed(h))
    BY DEF Renamed, Bears, Live
  <1>3. UnitInv' BY <1>2 DEF MeterInv, DiskInv, UnitInv, SameKey
  <1>4. OwedInv'
    BY <1>2 DEF MeterInv, DiskInv, OwedInv, FileInv, Renamed, Covers, Bears, Filed, Live
  <1>5. SoundInv' BY <1>2 DEF MeterInv, MeterTypes, DiskInv, SoundInv, Sound, Cursors
  <1> QED BY <1>1, <1>3, <1>4, <1>5 DEF DiskInv

LEMMA HookRenamed ==
  ASSUME MeterInv, NEW k \in Meter!Hooks, Renamed(k), UNCHANGED <<srv, claims, cursor, locks>>,
         Alone(k),
         ~Meter!Dead(k), NEW l \in Meter!Hooks, l # k
  PROVE  HookInv(l)'
  <1>0. /\ HookInv(l) /\ job[l] \in Jobs /\ FileInv /\ OwedInv /\ at'[l] = at[l]
        /\ job'[l] = job[l]
        /\ UNCHANGED <<srv, claims, cursor, locks>>
    BY DEF MeterInv, MeterTypes, DiskInv, Alone
  <1>1. \A h \in Transfers : \A m \in Messages : Bears(h, m)' => Bears(h, m)
    BY <1>0 DEF Renamed, Bears, Live
  <1>2. Placed(l)' BY <1>0 DEF HookInv, Placed, Working, Past, Posting
  <1>3. Settles(l)' BY <1>0 DEF HookInv, Settles, Posting, Renamed, Meter!Dead, Filed
  <1>a. ASSUME NEW h \in Transfers, NEW m \in Messages, Bears(h, m)', Residual(h)
        PROVE  Residual(h)' /\ (file[h].kind = "done" => file'[h].kind = "done")
    BY <1>0, <1>a DEF FileInv, Renamed, Bears, Filed, Live
  <1>4. Lists(l)'
    <2>0. CASE at[l] # "reconcile" BY <1>0, <2>0 DEF Lists
    <2> SUFFICES ASSUME at[l] = "reconcile" PROVE Lists(l)' BY <2>0
    <2>1. ASSUME NEW e \in job[l].listed
          PROVE  /\ srv[e[1]].st # "free" /\ srv[e[1]].agent = job[l].agent
                 /\ e[2] = "done" => file'[e[1]].kind \in {"done", "none"}
      <3>1. e[1] \in Transfers BY <1>0 DEF Jobs
      <3> QED BY <1>0, <3>1 DEF HookInv, Lists, Renamed, Filed
    <2>2. ASSUME NEW h \in Transfers, NEW m \in Messages, Bears(h, m)',
                 srv[h].agent = job[l].agent,
                 ~Covers(job[l].mem, m)
          PROVE  <<h, "both">> \in job[l].listed \/ <<h, file'[h].kind>> \in job[l].listed
      <3>1. <<h, "both">> \in job[l].listed \/ <<h, file[h].kind>> \in job[l].listed
        BY <1>0, <1>1, <2>2 DEF HookInv, Lists
      <3>2. job[l].mem = cursor[srv[h].agent] BY <1>0, <2>2 DEF HookInv, Placed
      <3>3. Residual(h) BY <1>0, <1>1, <2>2, <3>2 DEF OwedInv
      <3>4. Residual(h)' /\ (file[h].kind = "done" => file'[h].kind = "done")
        BY <1>a, <2>2, <3>3
      <3>5. CASE file[h].kind = "done" BY <3>1, <3>4, <3>5
      <3>6. CASE file[h].kind = "both" BY <3>1, <3>6
      <3>7. CASE file[h].kind = "settling"
        <4>1. file'[h].kind = "settling"
          BY <3>3, <3>4, <3>7, MeterAssumption DEF Residual, Renamed
        <4> QED BY <3>1, <3>7, <4>1
      <3> QED BY <3>3, <3>5, <3>6, <3>7 DEF Residual
    <2>3. \A m \in Messages : Covers(job[l].mem, m)' <=> Covers(job[l].mem, m)
      BY <1>0 DEF Covers
    <2> QED BY <1>0, <2>1, <2>2, <2>3 DEF Lists
  <1>5. Sweeps(l)'
    <2>1. ASSUME Past(l), NEW h \in Transfers, <<h, "settling">> \in job[l].finished, Filed(h)'
          PROVE  file'[h].kind # "live" /\ file'[h].by \in Meter!Hooks /\
                 at'[file'[h].by] = "dead"
      <3>1. Filed(h) BY <2>1 DEF Renamed
      <3>2. file[h].kind # "live" /\ file[h].by \in Meter!Hooks /\ Meter!Dead(file[h].by)
        BY <1>0, <2>1, <3>1 DEF HookInv, Sweeps
      <3>3. file'[h].by = file[h].by BY <2>1, <3>2 DEF Renamed
      <3>4. file'[h].kind # "live" BY <3>2 DEF Renamed
      <3> QED BY <3>2, <3>3, <3>4 DEF Alone, Meter!Dead
    <2> QED BY <1>0, <2>1 DEF HookInv, Sweeps, Meter!Dead, Past, Posting
  <1>6. Remembers(l)'
    <2>1. Working(l) => Sound(job[l].mem, job[l].agent)'
      BY <1>0, <1>1, Shapes, SoundFewer DEF HookInv, Remembers
    <2>2. \A m \in Messages : Covers(job[l].mem, m)' <=> Covers(job[l].mem, m)
      BY <1>0 DEF Covers
    <2> QED BY <1>0, <1>1, <1>a, <2>1, <2>2 DEF HookInv, Remembers, Working, Past, Posting
  <1>7. Binds(l)'
    BY <1>0, <1>1, <1>a DEF HookInv, Binds, Binding, Retrying, Posting, Jobs
  <1>8. Owns(l)' BY <1>0 DEF HookInv, Owns, Past, Posting, Binding
  <1> QED BY <1>2, <1>3, <1>4, <1>5, <1>6, <1>7, <1>8 DEF HookInv

LEMMA StepRenamed ==
  ASSUME MeterInv, NEW k \in Meter!Hooks, Renamed(k), UNCHANGED <<srv, claims, cursor, locks>>,
         Alone(k),
         ~Meter!Dead(k), MeterTypes', HookInv(k)'
  PROVE  MeterInv'
  BY DiskRenamed, HookRenamed DEF MeterInv


(* A hook with a settling file in its hands. *)
LEMMA HoldsFile ==
  ASSUME NEW k \in Meter!Hooks, at'[k] \in {"settle", "journal", "unlink"},
         job'[k].agent \in Meter!Owners,
         at'[k] = "settle" => job'[k].task = "journal", job'[k].task = "window" =>
         ~job'[k].retry,
         Settles(k)'
  PROVE  HookInv(k)'
  <1>1. Placed(k)' BY DEF Placed, Working, Past, Posting
  <1>2. Lists(k)' /\ Remembers(k)' /\ Sweeps(k)'
    BY DEF Lists, Remembers, Sweeps, Working, Past, Posting
  <1>3. Binds(k)' BY DEF Binds, Binding, Retrying, Posting
  <1>4. Owns(k)' BY DEF Owns, Past, Posting
  <1> QED BY <1>1, <1>2, <1>3, <1>4 DEF HookInv

LEMMA TakesKeeps ==
  ASSUME MeterInv, NEW k \in Meter!Hooks, NEW h \in Transfers, NEW j \in Jobs,
         Meter!Takes(k, h, j), ~Meter!Dead(k)
  PROVE  MeterInv'
  <1> DEFINE j2 == [j EXCEPT !.agent = file[h].agent, !.task = "journal", !.hold = h,
                             !.group = file[h].ids]
  <1>1. /\ file[h].kind = "live" /\ Meter!Goes(k, "settle") /\ Meter!Knows(k, j2)
        /\ file' = [file EXCEPT ![h].kind = "settling", ![h].by = k]
        /\ UNCHANGED <<session, transcript, cursor, claims, locks, srv, landing>>
    BY DEF Meter!Takes, Meter!server
  <1>2. /\ MeterTypes /\ file \in [Transfers -> Files] /\ file[h] \in Files /\ FileInv
        /\ file[h].agent \in Meter!Owners /\ file[h].ids \in SUBSET Messages
        /\ file[h].outcome = None
    <2>1. file \in [Transfers -> Files] /\ file[h] \in Files /\ FileInv /\ MeterTypes
      BY DEF MeterInv, MeterTypes, HookInv, DiskInv
    <2> QED BY <1>1, <2>1 DEF FileInv, Filed, Files
  <1>3. j2 \in Jobs BY <1>2 DEF Jobs
  <1>4. Alone(k) /\ at'[k] = "settle" /\ job'[k] = j2 BY <1>1, <1>2, GoesAlone
  <1>5. /\ j2.agent \in Meter!Owners /\ j2.task = "journal" /\ j2.hold = h
        /\ j2.finished = j.finished
    BY <1>2, Shapes DEF Parts
  <1>6. /\ file' \in [Transfers -> Files] /\ \A g \in Transfers : g # h => file'[g] = file[g]
        /\ file'[h].kind = "settling" /\ file'[h].by = k /\ file'[h].agent = file[h].agent
        /\ file'[h].ids = file[h].ids /\ file'[h].keyed = file[h].keyed
        /\ file'[h].outcome = None
    <2>1. [file[h] EXCEPT !.kind = "settling", !.by = k] \in Files BY <1>2 DEF Files, FileKinds
    <2> QED BY <1>1, <1>2, <2>1, Shapes
  <1>7. MeterTypes'
    <2>1. at' \in [Meter!Hooks -> Places] BY <1>1, <1>2 DEF MeterTypes, Meter!Goes, Places
    <2>2. job' \in [Meter!Hooks -> Jobs] BY <1>1, <1>2, <1>3 DEF MeterTypes, Meter!Knows
    <2> QED BY <1>1, <1>2, <1>6, <2>1, <2>2 DEF MeterTypes
  <1> HIDE DEF j2
  <1>8. Renamed(k)
    BY <1>1, <1>2, <1>6, MeterAssumption DEF Renamed, FileInv, Filed, Residual, Files
  <1>9. HookInv(k)'
    <2>1. Settles(k)' BY <1>4, <1>5, <1>6 DEF Settles, Posting
    <2> QED BY <1>4, <1>5, <2>1, HoldsFile
  <1> QED BY <1>1, <1>4, <1>7, <1>8, <1>9, StepRenamed

LEMMA PostStartsKeeps ==
  ASSUME MeterInv, NEW k \in Meter!Hooks, Meter!PostStarts(k) PROVE MeterInv'
  <1> QED BY NoJobIsJob, TakesKeeps DEF Meter!PostStarts, Meter!Dead

LEMMA SettleLeftoverKeeps ==
  ASSUME MeterInv, NEW k \in Meter!Hooks, Meter!SettleLeftover(k) PROVE MeterInv'
  <1>1. at[k] = "leftovers" /\ job[k] \in Jobs /\ Placed(k)
    BY DEF Meter!SettleLeftover, MeterInv, MeterTypes, HookInv
  <1>2. PICK h \in job[k].left :
          \/ Meter!Takes(k, h, [job[k] EXCEPT !.left = @ \ {h}])
          \/ /\ Meter!Knows(k, [job[k] EXCEPT !.left = @ \ {h}])
             /\ UNCHANGED <<session, transcript, cursor, claims, file, locks, srv, landing, at>>
    BY DEF Meter!SettleLeftover, Meter!disk, Meter!server
  <1> DEFINE j == [job[k] EXCEPT !.left = @ \ {h}]
  <1>3. h \in Transfers /\ j \in Jobs BY <1>1 DEF Jobs
  <1>4. j.finished = job[k].finished /\ j.task = job[k].task /\ j.retry = job[k].retry
    BY <1>1, Shapes DEF Parts
  <1>5. CASE Meter!Takes(k, h, j) BY <1>1, <1>3, <1>4, <1>5, TakesKeeps DEF Meter!Dead
  <1>6. CASE /\ Meter!Knows(k, j)
             /\ UNCHANGED <<session, transcript, cursor, claims, file, locks, srv, landing, at>>
    <2>1. Meter!Goes(k, "leftovers") BY <1>1, <1>6 DEF Meter!Goes, MeterInv, MeterTypes
    <2>2. MeterTypes' BY <1>3, <1>6, <2>1, TypesKept DEF MeterInv, Places
    <2>3. Alone(k) /\ at'[k] = "leftovers" /\ job'[k] = j BY <1>6, <2>1, GoesAlone DEF MeterInv
    <2> HIDE DEF j
    <2>5. HookInv(k)' BY <1>1, <1>4, <2>3, Rests DEF Placed
    <2> QED BY <1>1, <1>6, <2>2, <2>3, <2>5, SameServed, StepServed DEF SameLocks, Meter!Dead
  <1> QED BY <1>2, <1>5, <1>6

LEMMA JournalKeeps ==
  ASSUME MeterInv, NEW k \in Meter!Hooks, Meter!Journal(k) PROVE MeterInv'
  <1> DEFINE h == job[k].hold
             r == job[k].result
  <1>1. /\ at[k] = "journal" /\ Meter!Goes(k, "unlink")
        /\ file' = [file EXCEPT ![h].kind = "both", ![h].outcome = r]
        /\ UNCHANGED <<session, transcript, cursor, claims, locks, srv, landing, job>>
    BY DEF Meter!Journal, Meter!server
  <1>2. /\ MeterTypes /\ file \in [Transfers -> Files] /\ FileInv /\ Placed(k)
        /\ h \in Transfers /\ file[h] \in Files /\ r \in Outcomes
        /\ file[h].kind = "settling" /\ file[h].by = k /\ file[h].outcome = None
        /\ r = "released" => srv[h].st = "gone"
    <2>1. file \in [Transfers -> Files] /\ FileInv /\ Placed(k) /\ MeterTypes
          /\ Settles(k) /\ job[k] \in Jobs
      BY DEF MeterInv, MeterTypes, HookInv, DiskInv
    <2> QED BY <1>1, <2>1 DEF Settles, Jobs
  <1>3. Alone(k) /\ at'[k] = "unlink" /\ job'[k] = job[k] BY <1>1, <1>2, GoesOn
  <1>4. /\ file' \in [Transfers -> Files] /\ \A g \in Transfers : g # h => file'[g] = file[g]
        /\ file'[h].kind = "both" /\ file'[h].by = k /\ file'[h].agent = file[h].agent
        /\ file'[h].ids = file[h].ids /\ file'[h].keyed = file[h].keyed /\ file'[h].outcome = r
    <2>1. [file[h] EXCEPT !.kind = "both", !.outcome = r] \in Files BY <1>2 DEF Files, FileKinds
    <2> QED BY <1>1, <1>2, <2>1, Shapes
  <1>5. MeterTypes'
    <2>1. at' \in [Meter!Hooks -> Places] BY <1>1, <1>2 DEF MeterTypes, Meter!Goes, Places
    <2> QED BY <1>1, <1>2, <1>4, <2>1 DEF MeterTypes
  <1> HIDE DEF h, r
  <1>6. Renamed(k) BY <1>1, <1>2, <1>4, MeterAssumption DEF Renamed, FileInv, Filed, Residual
  <1>7. HookInv(k)'
    <2>1. Settles(k)' BY <1>2, <1>3, <1>4 DEF Settles, Posting, h, r
    <2> QED BY <1>1, <1>2, <1>3, <2>1, HoldsFile DEF Placed
  <1> QED BY <1>1, <1>3, <1>5, <1>6, <1>7, StepRenamed DEF Meter!Dead

LEMMA UnlinkKeeps ==
  ASSUME MeterInv, NEW k \in Meter!Hooks, Meter!Unlink(k) PROVE MeterInv'
  <1> DEFINE h == job[k].hold
  <1>1. /\ at[k] = "unlink" /\ Meter!Goes(k, "open")
        /\ file' = [file EXCEPT ![h] = Meter!Without(@, "settling")]
        /\ UNCHANGED <<session, transcript, cursor, claims, locks, srv, landing, job>>
    BY DEF Meter!Unlink, Meter!server
  <1>2. /\ MeterTypes /\ file \in [Transfers -> Files] /\ FileInv /\ Placed(k)
        /\ h \in Transfers /\ file[h] \in Files
        /\ file[h].kind \in {"settling", "both"} /\ file[h].by = k
    <2>1. file \in [Transfers -> Files] /\ FileInv /\ Placed(k) /\ MeterTypes /\ Settles(k)
      BY DEF MeterInv, MeterTypes, HookInv, DiskInv
    <2> QED BY <1>1, <2>1 DEF Settles
  <1>3. Alone(k) /\ at'[k] = "open" /\ job'[k] = job[k] BY <1>1, <1>2, GoesOn
  <1>4. /\ file' \in [Transfers -> Files] /\ \A g \in Transfers : g # h => file'[g] = file[g]
        /\ file[h].kind = "settling" => file'[h].kind = "none"
        /\ file[h].kind = "both" =>
             /\ file'[h].kind = "done" /\ file'[h].by = k /\ file'[h].agent = file[h].agent
             /\ file'[h].ids = file[h].ids /\ file'[h].keyed = file[h].keyed
             /\ file'[h].outcome = file[h].outcome
    <2>1. file'[h] = Meter!Without(file[h], "settling") /\ \A g \in Transfers : g # h =>
          file'[g] = file[g]
      BY <1>1, <1>2
    <2>2. CASE file[h].kind = "settling"
      <3>1. file'[h] = Meter!NoFile BY <2>1, <2>2 DEF Meter!Without
      <3>2. Meter!NoFile \in Files /\ Meter!NoFile.kind = "none"
        BY DEF Meter!NoFile, Files, FileKinds, Outcomes
      <3>3. file' \in [Transfers -> Files] BY <1>1, <1>2, <2>1, <3>1, <3>2
      <3> QED BY <2>1, <2>2, <3>1, <3>2, <3>3
    <2>3. CASE file[h].kind = "both"
      <3>1. file'[h] = [file[h] EXCEPT !.kind = "done"] BY <2>1, <2>3 DEF Meter!Without
      <3>2. [file[h] EXCEPT !.kind = "done"] \in Files BY <1>2 DEF Files, FileKinds
      <3>3. file' \in [Transfers -> Files] BY <1>1, <1>2, <2>1, <3>1, <3>2
      <3> QED BY <1>2, <2>1, <2>3, <3>1, <3>3, Shapes
    <2> QED BY <1>2, <2>2, <2>3
  <1>5. MeterTypes'
    <2>1. at' \in [Meter!Hooks -> Places] BY <1>1, <1>2 DEF MeterTypes, Meter!Goes, Places
    <2> QED BY <1>1, <1>2, <1>4, <2>1 DEF MeterTypes
  <1> HIDE DEF h
  <1>6. Renamed(k) BY <1>1, <1>2, <1>4, MeterAssumption DEF Renamed, FileInv, Filed, Residual
  <1>8. HookInv(k)' BY <1>1, <1>2, <1>3, Rests DEF Placed
  <1> QED BY <1>1, <1>3, <1>5, <1>6, <1>8, StepRenamed DEF Meter!Dead

(* What a removal makes of a file. *)
LEMMA WithoutOps ==
  ASSUME NEW f \in Files, NEW as \in {"done", "settling"}
  PROVE  /\ Meter!Without(f, as) \in Files
         /\ Meter!Without(f, as) = f \/ f.kind = as \/ f.kind = "both"
         /\ f.kind = as => Meter!Without(f, as).kind = "none"
         /\ f.kind = "both" =>
              /\ Meter!Without(f, as).kind = IF as = "done" THEN "settling" ELSE "done"
              /\ Meter!Without(f, as).by = f.by /\ Meter!Without(f, as).agent = f.agent
              /\ Meter!Without(f, as).ids = f.ids /\ Meter!Without(f, as).keyed = f.keyed
              /\ Meter!Without(f, as).outcome = f.outcome
  <1>1. CASE f.kind = "both"
    <2>1. Meter!Without(f, as) = [f EXCEPT !.kind = IF as = "done" THEN "settling" ELSE "done"]
      BY <1>1 DEF Meter!Without
    <2>2. [f EXCEPT !.kind = IF as = "done" THEN "settling" ELSE "done"] \in Files
      BY DEF Files, FileKinds
    <2> QED BY <1>1, <2>1, <2>2, Shapes
  <1>2. CASE f.kind = as
    <2>1. Meter!Without(f, as) = Meter!NoFile BY <1>2 DEF Meter!Without
    <2>2. Meter!NoFile \in Files /\ Meter!NoFile.kind = "none"
      BY DEF Meter!NoFile, Files, FileKinds, Outcomes
    <2> QED BY <1>2, <2>1, <2>2
  <1>3. CASE f.kind # "both" /\ f.kind # as BY <1>3 DEF Meter!Without
  <1> QED BY <1>1, <1>2, <1>3

LEMMA RemoveFilesKeeps ==
  ASSUME MeterInv, NEW k \in Meter!Hooks, Meter!RemoveFiles(k) PROVE MeterInv'
  <1> DEFINE j == job[k]
             j2 == [j EXCEPT !.finished = {}]
             gone(f, h, as) == IF <<h, as>> \in j.finished THEN Meter!Without(f, as) ELSE f
  <1>1. /\ at[k] = "sweep" /\ Meter!Goes(k, j.next) /\ Meter!Knows(k, j2)
        /\ file' = [h \in Transfers |-> gone(gone(file[h], h, "done"), h, "settling")]
        /\ UNCHANGED <<session, transcript, cursor, claims, locks, srv, landing>>
    BY DEF Meter!RemoveFiles, Meter!server
  <1>2. /\ MeterTypes /\ file \in [Transfers -> Files] /\ FileInv /\ HookInv(k) /\ j \in Jobs
        /\ j.next \in {"unlock", "authorize", "post"} /\ j.mem \in Cursors
    <2>1. MeterTypes /\ file \in [Transfers -> Files] /\ FileInv /\ HookInv(k) /\ j \in Jobs
      BY DEF MeterInv, MeterTypes, DiskInv
    <2> QED BY <1>1, <2>1, Shapes DEF HookInv, Placed, Jobs
  <1>3. j2 \in Jobs BY <1>2 DEF Jobs
  <1>4. Alone(k) /\ at'[k] = j.next /\ job'[k] = j2 BY <1>1, <1>2, GoesAlone
  <1>5. j2.finished = {} /\ \A f \in Parts \ {"finished"} : j2[f] = j[f]
    BY <1>2, Shapes DEF Parts
  <1>6. ASSUME NEW h \in Transfers
        PROVE  /\ file'[h] \in Files
               /\ \/ file'[h] = file[h] \/ file'[h].kind = "none"
                  \/ /\ file[h].kind = "both" /\ file'[h].kind \in {"settling", "done"}
                     /\ file'[h].by = file[h].by /\ file'[h].agent = file[h].agent
                     /\ file'[h].ids = file[h].ids /\ file'[h].keyed = file[h].keyed
                     /\ file'[h].outcome = file[h].outcome
               /\ file[h].kind = "done" /\ <<h, "done">> \in j.finished =>
                  file'[h].kind = "none"
               /\ <<h, "settling">> \notin j.finished =>
                    /\ file[h].kind \in {"live", "settling"} => file'[h] = file[h]
                    /\ file[h].kind = "both" => file'[h].kind \in {"both", "settling"}
               /\ file[h].kind = "live" => file'[h] = file[h]
               /\ file[h].kind = "none" => file'[h].kind = "none"
    <2> DEFINE f == gone(file[h], h, "done")
    <2>1. file[h] \in Files /\ file'[h] = gone(f, h, "settling") BY <1>1, <1>2
    <2>2. /\ f \in Files
          /\ f = file[h] \/ f.kind = "none"
             \/ /\ file[h].kind = "both" /\ f.kind = "settling"
                /\ f.by = file[h].by /\ f.agent = file[h].agent
                /\ f.ids = file[h].ids /\ f.keyed = file[h].keyed /\ f.outcome = file[h].outcome
          /\ file[h].kind = "done" /\ <<h, "done">> \in j.finished => f.kind = "none"
          /\ file[h].kind \in {"live", "settling"} => f = file[h]
          /\ file[h].kind = "none" => f.kind = "none"
          /\ file[h].kind = "both" => f.kind \in {"both", "settling"}
      BY <2>1, WithoutOps
    <2> HIDE DEF f
    <2>3. CASE <<h, "settling">> \notin j.finished BY <2>1, <2>2, <2>3
    <2>4. CASE <<h, "settling">> \in j.finished
      <3>1. file'[h] = Meter!Without(f, "settling") BY <2>1, <2>4
      <3>2. /\ file'[h] \in Files
            /\ file'[h] = f \/ f.kind = "settling" \/ f.kind = "both"
            /\ f.kind = "settling" => file'[h].kind = "none"
            /\ f.kind = "both" =>
                 /\ file'[h].kind = "done" /\ file'[h].by = f.by /\ file'[h].agent = f.agent
                 /\ file'[h].ids = f.ids /\ file'[h].keyed = f.keyed
                 /\ file'[h].outcome = f.outcome
        BY <2>2, <3>1, WithoutOps
      <3>3. CASE f = file[h] BY <2>2, <2>4, <3>2, <3>3
      <3>4. CASE f.kind = "none" BY <2>2, <2>4, <3>2, <3>4
      <3>5. CASE file[h].kind = "both" /\ f.kind = "settling" BY <2>4, <3>2, <3>5
      <3> QED BY <2>2, <3>3, <3>4, <3>5
    <2> QED BY <2>3, <2>4
  <1>7. MeterTypes'
    <2>1. at' \in [Meter!Hooks -> Places] BY <1>1, <1>2 DEF MeterTypes, Meter!Goes, Places
    <2>2. job' \in [Meter!Hooks -> Jobs] BY <1>1, <1>2, <1>3 DEF MeterTypes, Meter!Knows
    <2>3. file' \in [Transfers -> Files] BY <1>1, <1>6
    <2> QED BY <1>1, <1>2, <2>1, <2>2, <2>3 DEF MeterTypes
  <1> HIDE DEF j2, gone
  <1>8. Renamed(k)
    <2>1. \A h \in Transfers : <<h, "settling">> \in j.finished =>
            file[h].kind = "none" \/
            (file[h].kind # "live" /\ file[h].by \in Meter!Hooks /\ Meter!Dead(file[h].by))
      BY <1>1, <1>2 DEF HookInv, Sweeps, Past, Filed
    <2>2. ASSUME NEW h \in Transfers, <<h, "settling">> \in j.finished
          PROVE  file[h].by \in Meter!Hooks \ {k} /\ ~Meter!Dead(file[h].by) =>
                 file[h].kind = "none"
      BY <2>1, <2>2
    <2>3. ASSUME NEW h \in Transfers, file'[h] = file[h]
          PROVE  /\ Filed(h)' <=> Filed(h)
                 /\ Residual(h)' <=> Residual(h)
                 /\ file'[h].kind = "live" => file'[h].outcome = None
                 /\ file'[h].kind \in {"settling", "both", "done"} =>
                    file'[h].by \in Meter!Hooks
      BY <1>2, <2>3 DEF FileInv, Filed, Residual
    <2>4. ASSUME NEW h \in Transfers, file[h].kind = "both",
                 file'[h].kind \in {"settling", "done"},
                 file'[h].by = file[h].by, file'[h].outcome = file[h].outcome
          PROVE  Filed(h) /\ (Residual(h)' <=> Residual(h)) /\ file'[h].by \in Meter!Hooks
      BY <1>2, <2>4 DEF FileInv, Filed, Residual
    <2>5. \A h \in Transfers : Residual(h) => srv[h].st = "gone" BY <1>2 DEF FileInv
    <2>6. \A h \in Transfers : file'[h].kind = "none" => ~Residual(h)' /\ ~Filed(h)'
      BY DEF Residual, Filed
    <2> SUFFICES ASSUME NEW h \in Transfers
                 PROVE  Renamed(k)!1!(h)
      BY DEF Renamed
    <2>7. CASE file'[h] = file[h] BY <1>6, <2>2, <2>3, <2>5, <2>7
    <2>8. CASE file'[h].kind = "none" BY <1>6, <2>2, <2>6, <2>8
    <2>9. CASE /\ file[h].kind = "both" /\ file'[h].kind \in {"settling", "done"}
               /\ file'[h].by = file[h].by /\ file'[h].agent = file[h].agent
               /\ file'[h].ids = file[h].ids /\ file'[h].keyed = file[h].keyed
               /\ file'[h].outcome = file[h].outcome
      BY <1>6, <2>2, <2>4, <2>5, <2>9
    <2> QED BY <1>6, <2>7, <2>8, <2>9
  <1>9. \A h \in Transfers : \A m \in Messages : Bears(h, m)' => Bears(h, m)
    BY <1>1, <1>6 DEF Bears, Filed, Live
  <1>10. ASSUME NEW h \in Transfers, NEW m \in Messages, Bears(h, m)', Residual(h)
         PROVE  Residual(h)' /\ ~(file[h].kind = "done" /\ <<h, "done">> \in j.finished)
    BY <1>1, <1>2, <1>6, <1>10 DEF FileInv, Residual, Bears, Filed, Live
  <1>11. HookInv(k)'
    <2>1. \A m \in Messages : Covers(job[k].mem, m)' <=> Covers(j.mem, m)
      BY <1>4, <1>5 DEF Covers, Parts
    <2>2. Placed(k)'
      BY <1>1, <1>2, <1>4, <1>5 DEF HookInv, Placed, Working, Past, Posting, Parts, Binds
    <2>3. Settles(k)' /\ Lists(k)' /\ Sweeps(k)'
      BY <1>2, <1>4, <1>5 DEF Settles, Lists, Sweeps, Posting
    <2>4. Remembers(k)'
      <3>1. Sound(job[k].mem, job[k].agent)'
        BY <1>1, <1>2, <1>4, <1>5, <1>9, SoundFewer DEF HookInv, Remembers, Working, Past, Parts
      <3>2. ASSUME NEW h \in Transfers, NEW m \in Messages, Bears(h, m)',
                   srv[h].agent = j.agent,
                   ~Covers(j.mem, m)
            PROVE  Residual(h)' /\ m \in j.live
        BY <1>1, <1>2, <1>9, <1>10, <3>2 DEF HookInv, Remembers, Past
      <3> QED BY <1>1, <1>4, <1>5, <2>1, <3>1, <3>2 DEF Remembers, Working, Past, Parts
    <2>5. Binds(k)'
      <3>1. \A h \in Transfers : \A m \in j.group : Binding(k) => ~Bears(h, m)'
        BY <1>2, <1>9, <1>10 DEF HookInv, Binds, Jobs
      <3> QED
        BY <1>1, <1>2, <1>4, <1>5, <3>1 DEF HookInv, Binds, Binding, Retrying, Posting, Parts
    <2>6. Owns(k)'
      BY <1>1, <1>2, <1>4, <1>5 DEF HookInv, Owns, Binds, Past, Posting, Binding, Parts
    <2> QED BY <2>2, <2>3, <2>4, <2>5, <2>6 DEF HookInv
  <1> QED BY <1>1, <1>4, <1>7, <1>8, <1>11, StepRenamed DEF Meter!Dead

-----------------------------------------------------------------------------
(* An agent's messages are claimed, bound and selected. *)

LEMMA TypesServed ==
  ASSUME MeterTypes, UNCHANGED <<session, transcript, cursor, claims, locks, file>>,
         srv' \in [Transfers -> Holds], landing' \subseteq Transfers, NEW k \in Meter!Hooks,
         NEW to \in Places, Meter!Goes(k, to), NEW j \in Jobs, Meter!Knows(k, j)
  PROVE  MeterTypes'
  <1>1. at' \in [Meter!Hooks -> Places] BY DEF MeterTypes, Meter!Goes
  <1>2. job' \in [Meter!Hooks -> Jobs] BY DEF MeterTypes, Meter!Knows
  <1> QED BY <1>1, <1>2 DEF MeterTypes

LEMMA ClaimLeftKeeps ==
  ASSUME MeterInv, NEW k \in Meter!Hooks, Meter!ClaimLeft(k) PROVE MeterInv'
  <1>1. PICK m \in Meter!Unclaimed(k) :
          /\ at[k] = "claim" /\ Meter!Knows(k, [job[k] EXCEPT !.aside = @ \cup {m}])
          /\ UNCHANGED <<session, transcript, cursor, claims, file, locks, srv, landing, at>>
    BY DEF Meter!ClaimLeft, Meter!disk, Meter!server
  <1> DEFINE j == [job[k] EXCEPT !.aside = @ \cup {m}]
  <1>2. MeterTypes /\ HookInv(k) /\ job[k] \in Jobs BY DEF MeterInv, MeterTypes
  <1>3. j \in Jobs
    <2>1. m \in Messages BY <1>2 DEF Meter!Unclaimed, Meter!selectNew, Jobs, Cursors
    <2> QED BY <1>2, <2>1 DEF Jobs
  <1>4. Meter!Goes(k, "claim") BY <1>1, <1>2 DEF Meter!Goes, MeterTypes
  <1>5. MeterTypes' BY <1>1, <1>2, <1>3, <1>4, TypesKept DEF Places
  <1>6. Alone(k) /\ at'[k] = "claim" /\ job'[k] = j BY <1>1, <1>2, <1>4, GoesAlone
  <1>7. \A f \in Parts \ {"aside"} : j[f] = job[k][f] BY <1>2, Shapes DEF Parts
  <1> HIDE DEF j
  <1>8. HookInv(k)'
    <2>1. Placed(k)'
      BY <1>1, <1>2, <1>6, <1>7 DEF HookInv, Placed, Working, Past, Posting, Parts
    <2>2. Settles(k)' /\ Lists(k)' /\ Binds(k)'
      BY <1>6 DEF Settles, Lists, Binds, Binding, Retrying, Posting
    <2>3. Sweeps(k)'
      BY <1>1, <1>2, <1>6, <1>7 DEF HookInv, Sweeps, Past, Posting, Filed, Meter!Dead, Parts
    <2>4. Remembers(k)'
      BY <1>1, <1>2, <1>6, <1>7 DEF HookInv, Remembers, Working, Past, Posting, Parts, Sound,
        Covers,
        Bears, Filed, Live, Residual
    <2>5. Owns(k)' BY <1>1, <1>2, <1>6, <1>7 DEF HookInv, Owns, Past, Posting, Binding, Parts
    <2> QED BY <2>1, <2>2, <2>3, <2>4, <2>5 DEF HookInv
  <1> QED BY <1>1, <1>5, <1>6, <1>8, SameServed, StepServed DEF SameLocks, Meter!Dead


(* What a hook may bind: nothing bears it, but a file that its cursor has  *)
(* let go and it will remove.                                              *)
LEMMA FreshBorne ==
  ASSUME MeterInv, NEW k \in Meter!Hooks, Past(k), NEW m \in Messages, NEW h \in Transfers,
         m \in job[k].mem.claimed, ~Covers(job[k].mem, m), m \notin job[k].live, Bears(h, m)
  PROVE  /\ Residual(h) /\ file[h].kind = "done" /\ <<h, "done">> \in job[k].finished
         /\ srv[h].agent = job[k].agent
         /\ \A g \in Transfers : Bears(g, m) => g = h
  <1>1. HookInv(k) /\ DiskInv BY DEF MeterInv
  <1>2. claims[m] = job[k].agent BY <1>1 DEF HookInv, Remembers, Working, Sound
  <1>3. ASSUME NEW g \in Transfers, Bears(g, m)
        PROVE  /\ srv[g].agent = job[k].agent /\ Residual(g) /\ Filed(g)
               /\ file[g].kind = "done" /\ <<g, "done">> \in job[k].finished
    <2>1. srv[g].agent = job[k].agent BY <1>1, <1>2, <1>3 DEF DiskInv, OwedInv
    <2>2. Residual(g) /\ file[g].kind = "done" /\ <<g, "done">> \in job[k].finished
      BY <1>1, <1>3, <2>1 DEF HookInv, Remembers
    <2> QED BY <2>1, <2>2 DEF Residual, Filed
  <1> QED BY <1>1, <1>3 DEF DiskInv, UnitInv

LEMMA FreshOps ==
  ASSUME MeterInv, NEW k \in Meter!Hooks, NEW m \in Meter!Own(k)
  PROVE  /\ m \in Messages /\ m \in job[k].mem.claimed /\ m \notin job[k].mem.assigned
         /\ m \notin job[k].live /\ m \notin UNION job[k].mem.unresolved
         /\ ~Covers(job[k].mem, m)
  <1>1. job[k].mem \in Cursors BY Shapes DEF MeterInv, MeterTypes
  <1> QED BY <1>1 DEF Meter!Own, Meter!selectNew, Covers, Cursors

LEMMA WindowKeeps ==
  ASSUME MeterInv, NEW k \in Meter!Hooks, Meter!Window(k) PROVE MeterInv'
  <1> DEFINE j == job[k]
  <1>1. PICK ids \in {{}} \cup {{m \in Meter!Own(k) : session.class[m] = session.class[n]} :
        n \in Meter!Own(k)} :
          /\ Meter!Knows(k, [j EXCEPT !.group = ids, !.mem.assigned = @ \cup ids,
                                !.next = IF ids = {} THEN "unlock" ELSE "authorize"])
          /\ at[k] = "claim" /\ j.task = "window" /\ Meter!Goes(k, "save")
          /\ UNCHANGED <<session, transcript, cursor, claims, file, locks, srv, landing>>
    BY DEF Meter!Window, Meter!disk, Meter!server
  <1> DEFINE j2 == [j EXCEPT !.group = ids, !.mem.assigned = @ \cup ids,
                             !.next = IF ids = {} THEN "unlock" ELSE "authorize"]
             c2 == [j.mem EXCEPT !.assigned = @ \cup ids]
  <1>2. MeterTypes /\ HookInv(k) /\ DiskInv /\ j \in Jobs /\ j.mem \in Cursors /\ Past(k)
    BY <1>1, Shapes DEF MeterInv, MeterTypes, Past
  <1>3. ids \subseteq Meter!Own(k) BY <1>1
  <1>4. ids \in SUBSET Messages BY <1>3, FreshOps
  <1>5. c2 \in Cursors /\ c2.claimed = j.mem.claimed /\ c2.assigned = j.mem.assigned \cup ids
        /\ c2.unresolved = j.mem.unresolved
    BY <1>2, <1>4 DEF Cursors
  <1>6. /\ j2 \in Jobs /\ j2.mem = c2 /\ j2.group = ids
        /\ j2.next = IF ids = {} THEN "unlock" ELSE "authorize"
        /\ \A f \in Parts \ {"mem", "group", "next"} : j2[f] = j[f]
    <2>1. j2 = [j EXCEPT !.mem = c2, !.group = ids,
          !.next = IF ids = {} THEN "unlock" ELSE "authorize"]
      BY <1>2, Shapes DEF Parts
    <2> QED BY <1>2, <1>4, <1>5, <2>1, Shapes DEF Parts, Jobs
  <1>7. Alone(k) /\ at'[k] = "save" /\ job'[k] = j2 BY <1>1, <1>2, GoesAlone
  <1>8. MeterTypes' BY <1>1, <1>2, <1>6, TypesKept DEF Places
  <1> HIDE DEF j2, c2
  <1>9. \A h \in Transfers : \A m \in Messages : Bears(h, m)' <=> Bears(h, m)
    BY <1>1 DEF Bears, Filed, Live
  <1>10. ASSUME NEW m \in ids, NEW h \in Transfers, Bears(h, m)
         PROVE  /\ Residual(h) /\ file[h].kind = "done" /\ <<h, "done">> \in j.finished
                /\ \A g \in Transfers : Bears(g, m) => g = h
    BY <1>2, <1>3, <1>10, FreshOps, FreshBorne
  <1>11. HookInv(k)'
    <2>1. Placed(k)'
      BY <1>1, <1>2, <1>6, <1>7 DEF HookInv, Placed, Working, Past, Posting, Parts
    <2>2. Settles(k)' /\ Lists(k)' BY <1>7 DEF Settles, Lists, Posting
    <2>3. Sweeps(k)'
      BY <1>1, <1>2, <1>6, <1>7 DEF HookInv, Sweeps, Past, Posting, Filed, Meter!Dead, Parts,
        Alone
    <2>4. Remembers(k)'
      <3>1. Sound(j.mem, j.agent) BY <1>2 DEF HookInv, Remembers, Working
      <3>2. Sound(c2, j.agent)
        <4>1. \A v \in c2.unresolved : \A m \in v : m \notin c2.assigned
          BY <1>3, <1>5, <3>1, FreshOps DEF Sound
        <4>2. ASSUME NEW m \in c2.assigned, NEW g \in Transfers, NEW h \in Transfers,
                     Bears(g, m), Bears(h, m), srv[h].agent = j.agent
              PROVE  g = h
          BY <1>5, <1>10, <3>1, <4>2 DEF Sound
        <4> QED BY <1>5, <3>1, <4>1, <4>2 DEF Sound
      <3>3. Sound(job[k].mem, job[k].agent)'
        BY <1>1, <1>5, <1>6, <1>7, <1>9, <3>2, SoundFewer DEF Parts
      <3>4. \A m \in Messages : ~Covers(c2, m) => ~Covers(j.mem, m) BY <1>5 DEF Covers
      <3>5. \A m \in Messages : Covers(job[k].mem, m)' <=> Covers(c2, m)
        BY <1>6, <1>7 DEF Covers
      <3> QED BY <1>1, <1>2, <1>6, <1>7, <1>9, <3>3, <3>4, <3>5
               DEF HookInv, Remembers, Working, Past, Posting, Parts, Residual
    <2>5. Binds(k)'
      <3>1. \A m \in ids : claims[m] = j.agent
        BY <1>2, <1>3, FreshOps DEF HookInv, Remembers, Working, Sound
      <3>2. \A h \in Transfers : \A m \in ids : Bears(h, m)' =>
              Residual(h) /\ file[h].kind = "done" /\ <<h, "done">> \in j.finished
        BY <1>4, <1>9, <1>10
      <3> QED BY <1>1, <1>2, <1>5, <1>6, <1>7, <3>1, <3>2
               DEF HookInv, Placed, Binds, Binding, Retrying, Posting, Parts, Residual
    <2>6. Owns(k)' BY <1>1, <1>6, <1>7 DEF Owns, Parts
    <2> QED BY <2>1, <2>2, <2>3, <2>4, <2>5, <2>6 DEF HookInv
  <1> QED BY <1>1, <1>7, <1>8, <1>11, SameServed, StepServed DEF SameLocks, Meter!Dead

LEMMA SelectedKeeps ==
  ASSUME MeterInv, NEW k \in Meter!Hooks, Meter!Selected(k) PROVE MeterInv'
  <1> DEFINE j == job[k]
             vs == IF j.keyed THEN j.mem.unresolved ELSE {}
             j2 == [j EXCEPT !.own = Meter!Own(k), !.next = "post", !.vehicles = vs]
  <1>1. /\ at[k] = "claim" /\ j.task = "remainder" /\ Meter!Knows(k, j2)
        /\ Meter!Goes(k, "save")
        /\ UNCHANGED <<session, transcript, cursor, claims, file, locks, srv, landing>>
    BY DEF Meter!Selected, Meter!disk, Meter!server
  <1>2. MeterTypes /\ HookInv(k) /\ j \in Jobs /\ j.mem \in Cursors
    BY Shapes DEF MeterInv, MeterTypes
  <1>3. Meter!Own(k) \in SUBSET Messages BY FreshOps
  <1>4. /\ j2 \in Jobs /\ j2.own = Meter!Own(k) /\ j2.next = "post" /\ j2.vehicles = vs
        /\ \A f \in Parts \ {"own", "next", "vehicles"} : j2[f] = j[f]
    <2>1. vs \in SUBSET SUBSET Messages BY <1>2 DEF Cursors
    <2> HIDE DEF vs
    <2> QED BY <1>2, <1>3, <2>1, Shapes DEF Parts, Jobs
  <1>5. Alone(k) /\ at'[k] = "save" /\ job'[k] = j2 BY <1>1, <1>2, GoesAlone
  <1>6. MeterTypes' BY <1>1, <1>2, <1>4, TypesKept DEF Places
  <1> HIDE DEF j2
  <1>7. HookInv(k)'
    <2>1. Placed(k)'
      BY <1>1, <1>2, <1>4, <1>5 DEF HookInv, Placed, Working, Past, Posting, Parts
    <2>2. Settles(k)' /\ Lists(k)' /\ Binds(k)'
      BY <1>4, <1>5 DEF Settles, Lists, Binds, Binding, Retrying, Posting
    <2>3. Sweeps(k)'
      BY <1>1, <1>2, <1>4, <1>5 DEF HookInv, Sweeps, Past, Posting, Filed, Meter!Dead, Parts,
        Alone
    <2>4. Remembers(k)'
      BY <1>1, <1>2, <1>4, <1>5 DEF HookInv, Remembers, Working, Past, Posting, Parts, Sound,
        Covers,
        Bears, Filed, Live, Residual
    <2>5. Owns(k)' BY <1>1, <1>4, <1>5, FreshOps DEF Owns, Past, Posting, Binding, Parts
    <2> QED BY <2>1, <2>2, <2>3, <2>4, <2>5 DEF HookInv
  <1> QED BY <1>1, <1>5, <1>6, <1>7, SameServed, StepServed DEF SameLocks, Meter!Dead

-----------------------------------------------------------------------------
(* What a Stop posts. *)

LEMMA RetryVehicleKeeps ==
  ASSUME MeterInv, NEW k \in Meter!Hooks, Meter!RetryVehicle(k) PROVE MeterInv'
  <1> DEFINE j == job[k]
  <1>1. PICK v \in j.vehicles :
          /\ Meter!Knows(k, [j EXCEPT !.vehicles = @ \ {v}, !.group = v, !.retry = TRUE])
          /\ at[k] = "post" /\ Meter!Goes(k, "authorize")
          /\ UNCHANGED <<session, transcript, cursor, claims, file, locks, srv, landing>>
    BY DEF Meter!RetryVehicle, Meter!disk, Meter!server
  <1> DEFINE j2 == [j EXCEPT !.vehicles = @ \ {v}, !.group = v, !.retry = TRUE]
  <1>2. MeterTypes /\ HookInv(k) /\ j \in Jobs /\ j.mem \in Cursors
    BY Shapes DEF MeterInv, MeterTypes
  <1>3. /\ j.task = "remainder" /\ j.keyed /\ v \in j.mem.unresolved
        /\ j.vehicles \subseteq j.mem.unresolved
        /\ Sound(j.mem, j.agent) /\ v \in SUBSET Messages
    <2>1. j.task = "remainder" /\ Past(k) BY <1>1, <1>2 DEF HookInv, Placed, Past
    <2> QED BY <1>1, <1>2, <2>1 DEF HookInv, Owns, Remembers, Working, Jobs
  <1>4. /\ j2 \in Jobs /\ j2.vehicles = j.vehicles \ {v} /\ j2.group = v /\ j2.retry
        /\ \A f \in Parts \ {"vehicles", "group", "retry"} : j2[f] = j[f]
    BY <1>2, <1>3, Shapes DEF Parts, Jobs
  <1>5. Alone(k) /\ at'[k] = "authorize" /\ job'[k] = j2 BY <1>1, <1>2, GoesAlone
  <1>6. MeterTypes' BY <1>1, <1>2, <1>4, TypesKept DEF Places
  <1> HIDE DEF j2
  <1>7. HookInv(k)'
    <2>1. Placed(k)'
      BY <1>1, <1>2, <1>3, <1>4, <1>5 DEF HookInv, Placed, Working, Past, Posting, Parts
    <2>2. Settles(k)' /\ Lists(k)' BY <1>5 DEF Settles, Lists, Posting
    <2>3. Sweeps(k)'
      BY <1>1, <1>2, <1>4, <1>5 DEF HookInv, Sweeps, Past, Posting, Filed, Meter!Dead, Parts,
        Alone
    <2>4. Remembers(k)'
      BY <1>1, <1>2, <1>4, <1>5 DEF HookInv, Remembers, Working, Past, Posting, Parts, Sound,
        Covers,
        Bears, Filed, Live, Residual
    <2>5. Binds(k)'
      BY <1>1, <1>3, <1>4, <1>5 DEF Binds, Binding, Retrying, Posting, Parts, Sound
    <2>6. Owns(k)'
      <3>1. \A m \in j.own : m \notin v BY <1>1, <1>2, <1>3 DEF HookInv, Owns, Past
      <3> QED
        BY <1>1, <1>2, <1>3, <1>4, <1>5, <3>1 DEF HookInv, Owns, Past, Posting, Binding, Parts
    <2> QED BY <2>1, <2>2, <2>3, <2>4, <2>5, <2>6 DEF HookInv
  <1> QED BY <1>1, <1>5, <1>6, <1>7, SameServed, StepServed DEF SameLocks, Meter!Dead

LEMMA PostGroupKeeps ==
  ASSUME MeterInv, NEW k \in Meter!Hooks, Meter!PostGroup(k) PROVE MeterInv'
  <1> DEFINE j == job[k]
  <1>1. PICK n \in j.own :
          /\ Meter!Knows(k, [j EXCEPT
               !.own = @ \ {m \in j.own : session.class[m] = session.class[n]},
               !.group = {m \in j.own : session.class[m] = session.class[n]}, !.retry = FALSE,
               !.next = "authorize",
               !.mem = Meter!Bound(j.mem, {m \in j.own : session.class[m] = session.class[n]},
               j.keyed)])
          /\ at[k] = "post" /\ j.vehicles = {} /\ Meter!Goes(k, "save")
          /\ UNCHANGED <<session, transcript, cursor, claims, file, locks, srv, landing>>
    BY DEF Meter!PostGroup, Meter!disk, Meter!server
  <1> DEFINE ids == {m \in j.own : session.class[m] = session.class[n]}
             c2 == Meter!Bound(j.mem, ids, j.keyed)
             j2 == [j EXCEPT !.own = @ \ ids, !.group = ids, !.retry = FALSE,
                   !.next = "authorize",
                             !.mem = c2]
  <1>2. MeterTypes /\ HookInv(k) /\ j \in Jobs /\ j.mem \in Cursors /\ Past(k)
    BY <1>1, Shapes DEF MeterInv, MeterTypes, Past
  <1>3. /\ j.task = "remainder" /\ j.finished = {} /\ Sound(j.mem, j.agent)
        /\ j.own \in SUBSET Messages
        /\ \A m \in j.own : /\ m \in j.mem.claimed /\ m \notin j.mem.assigned
                             /\ m \notin j.live /\ m \notin UNION j.mem.unresolved
    BY <1>1, <1>2 DEF HookInv, Placed, Past, Owns, Remembers, Working, Jobs
  <1>4. ids \in SUBSET Messages /\ ids \subseteq j.own BY <1>3
  <1>5. ASSUME NEW m \in ids, NEW h \in Transfers PROVE ~Bears(h, m)
    <2>1. ~Covers(j.mem, m) BY <1>3, <1>4 DEF Covers
    <2> QED BY <1>2, <1>3, <1>4, <2>1, FreshBorne
  <1> HIDE DEF ids
  <1>6. /\ c2 \in Cursors /\ c2.claimed = j.mem.claimed
        /\ c2.assigned = IF j.keyed THEN j.mem.assigned ELSE j.mem.assigned \cup ids
        /\ c2.unresolved = IF j.keyed THEN j.mem.unresolved \cup {ids} ELSE j.mem.unresolved
    <2>1. CASE j.keyed BY <1>2, <1>4, <2>1 DEF Cursors, Meter!Bound
    <2>2. CASE ~j.keyed BY <1>2, <1>4, <2>2 DEF Cursors, Meter!Bound
    <2> QED BY <2>1, <2>2
  <1> HIDE DEF c2
  <1>7. /\ j2 \in Jobs /\ j2.mem = c2 /\ j2.group = ids /\ j2.next = "authorize" /\ ~j2.retry
        /\ j2.own = j.own \ ids
        /\ \A f \in Parts \ {"own", "group", "retry", "next", "mem"} : j2[f] = j[f]
    BY <1>2, <1>3, <1>4, <1>6, Shapes DEF Parts, Jobs
  <1>8. Alone(k) /\ at'[k] = "save" /\ job'[k] = j2 BY <1>1, <1>2, GoesAlone DEF ids, c2
  <1>9. MeterTypes' BY <1>1, <1>2, <1>7, TypesKept DEF Places, ids, c2
  <1> HIDE DEF j2
  <1>10. \A h \in Transfers : \A m \in Messages : Bears(h, m)' <=> Bears(h, m)
    BY <1>1 DEF Bears, Filed, Live
  <1>11. HookInv(k)'
    <2>1. Placed(k)'
      BY <1>1, <1>2, <1>7, <1>8 DEF HookInv, Placed, Working, Past, Posting, Parts
    <2>2. Settles(k)' /\ Lists(k)' BY <1>8 DEF Settles, Lists, Posting
    <2>3. Sweeps(k)'
      BY <1>1, <1>2, <1>7, <1>8 DEF HookInv, Sweeps, Past, Posting, Filed, Meter!Dead, Parts,
        Alone
    <2>4. Remembers(k)'
      <3>1. Sound(c2, j.agent)
        <4>1. CASE j.keyed
          <5>1. \A v \in c2.unresolved : \A m \in v : claims[m] = j.agent
            BY <1>3, <1>4, <1>6, <4>1 DEF Sound
          <5>2. ASSUME NEW v \in c2.unresolved, NEW h \in Transfers, NEW m \in v, Bears(h, m)
                PROVE  srv[h].keyed /\ srv[h].agent = j.agent /\ srv[h].ids = v
            BY <1>3, <1>5, <1>6, <4>1, <5>2 DEF Sound
          <5>3. ASSUME NEW v \in c2.unresolved, NEW w \in c2.unresolved, NEW m \in v, m \in w
                PROVE  v = w
            BY <1>3, <1>4, <1>6, <4>1, <5>3 DEF Sound
          <5>4. \A v \in c2.unresolved : \A m \in v : m \notin c2.assigned
            BY <1>3, <1>4, <1>6, <4>1 DEF Sound
          <5>5. \A m \in c2.claimed : claims[m] = j.agent BY <1>3, <1>6 DEF Sound
          <5>6. \A m \in c2.assigned : \A g, h \in Transfers :
                  Bears(g, m) /\ Bears(h, m) /\ srv[h].agent = j.agent => g = h
            BY <1>3, <1>6, <4>1 DEF Sound
          <5> QED BY <5>1, <5>2, <5>3, <5>4, <5>5, <5>6 DEF Sound
        <4>2. CASE ~j.keyed
          <5>1. \A v \in c2.unresolved : \A m \in v : m \notin c2.assigned
            BY <1>3, <1>4, <1>6, <4>2 DEF Sound
          <5>2. ASSUME NEW m \in c2.assigned, NEW g \in Transfers, NEW h \in Transfers,
                       Bears(g, m), Bears(h, m), srv[h].agent = j.agent
                PROVE  g = h
            BY <1>3, <1>5, <1>6, <4>2, <5>2 DEF Sound
          <5> QED BY <1>3, <1>6, <4>2, <5>1, <5>2 DEF Sound
        <4> QED BY <4>1, <4>2
      <3>2. Sound(job[k].mem, job[k].agent)'
        BY <1>1, <1>6, <1>7, <1>8, <1>10, <3>1, SoundFewer DEF Parts
      <3>3. \A m \in Messages : ~Covers(c2, m) => ~Covers(j.mem, m) BY <1>6 DEF Covers
      <3>4. \A m \in Messages : Covers(job[k].mem, m)' <=> Covers(c2, m)
        BY <1>7, <1>8 DEF Covers
      <3> QED BY <1>1, <1>2, <1>7, <1>8, <1>10, <3>2, <3>3, <3>4
               DEF HookInv, Remembers, Working, Past, Posting, Parts, Residual
    <2>5. Binds(k)'
      <3>1. \A m \in ids : claims[m] = j.agent BY <1>3, <1>4 DEF Sound
      <3>2. \A h \in Transfers : \A m \in ids : ~Bears(h, m)' BY <1>4, <1>5, <1>10
      <3>3. IF j.keyed THEN ids \in c2.unresolved ELSE ids \subseteq c2.assigned BY <1>6
      <3> QED BY <1>1, <1>3, <1>7, <1>8, <3>1, <3>2, <3>3
               DEF Binds, Binding, Retrying, Posting, Parts
    <2>6. Owns(k)'
      <3>1. \A m \in j.own \ ids : m \notin c2.assigned /\ m \notin UNION c2.unresolved
        BY <1>3, <1>6
      <3> QED BY <1>1, <1>3, <1>6, <1>7, <1>8, <3>1 DEF Owns, Past, Posting, Binding, Parts
    <2> QED BY <2>1, <2>2, <2>3, <2>4, <2>5, <2>6 DEF HookInv
  <1> QED BY <1>1, <1>8, <1>9, <1>11, SameServed, StepServed DEF SameLocks, Meter!Dead

LEMMA AllPostedKeeps ==
  ASSUME MeterInv, NEW k \in Meter!Hooks, Meter!Posted(k) PROVE MeterInv'
  <1>1. /\ Meter!Goes(k, "unlock") /\ UNCHANGED job /\ at[k] = "post"
        /\ UNCHANGED <<session, transcript, cursor, claims, file, locks, srv, landing>>
    BY DEF Meter!Posted, Meter!disk, Meter!server
  <1>2. MeterTypes' BY <1>1, TypesKept DEF MeterInv, Places
  <1>3. Alone(k) /\ at'[k] = "unlock" /\ job'[k] = job[k] BY <1>1, GoesOn DEF MeterInv
  <1>4. Placed(k) /\ Remembers(k) /\ job[k].mem \in Cursors
    BY Shapes DEF MeterInv, MeterTypes, HookInv
  <1>5. Sound(job[k].mem, job[k].agent)'
    BY <1>1, <1>3, <1>4, SameServed, SoundServed DEF Remembers, Working, Past
  <1>7. HookInv(k)' BY <1>1, <1>3, <1>4, <1>5, Unlocks DEF Placed, Working, Past
  <1> QED BY <1>1, <1>2, <1>3, <1>7, SameServed, StepServed DEF SameLocks, Meter!Dead

-----------------------------------------------------------------------------
(* Requests end. *)

LEMMA SettleServed ==
  ASSUME MeterInv, NEW h \in Transfers, NEW r \in Meter!Results, Meter!SettleAnswer(h, r)
  PROVE  /\ Served /\ srv' \in [Transfers -> Holds] /\ landing' \subseteq Transfers
         /\ \A keyed \in BOOLEAN : Meter!settleOutcome(r, keyed) = "released" =>
                                   srv'[h].st = "gone"
  <1>1. landing \subseteq Transfers BY DEF MeterInv, MeterTypes
  <1>2. CASE r = "ok"
    <2>1. Meter!Chargeable(h) /\ Meter!Becomes(h, "settled") /\ UNCHANGED landing
      BY <1>2 DEF Meter!SettleAnswer
    <2> QED BY <1>1, <1>2, <2>1, BecomesServed DEF Meter!Chargeable, Meter!settleOutcome
  <1>3. CASE r \in {"already", "refused", "unsent"}
    <2>1. srv[h].st = "pending" /\ Meter!Becomes(h, "gone") /\ UNCHANGED landing
      BY <1>3 DEF Meter!SettleAnswer
    <2> QED BY <1>1, <2>1, BecomesServed
  <1>4. CASE r \in {"gone", "expired"}
    <2>1. srv[h].st = "gone" /\ UNCHANGED <<srv, landing>> BY <1>4 DEF Meter!SettleAnswer
    <2> QED BY <1>1, <2>1, SameServed
  <1>5. CASE r = "lost"
    <2>1. \A keyed \in BOOLEAN : Meter!settleOutcome(r, keyed) # "released"
      BY <1>5 DEF Meter!settleOutcome
    <2>2. CASE Meter!Chargeable(h) /\ Meter!Becomes(h, "settled") /\ UNCHANGED landing
      BY <1>1, <2>1, <2>2, BecomesServed DEF Meter!Chargeable
    <2>3. CASE UNCHANGED srv /\ landing' = landing \cup {h} BY <1>1, <2>1, <2>3, SameServed
    <2> QED BY <1>5, <2>2, <2>3 DEF Meter!SettleAnswer
  <1> QED BY <1>2, <1>3, <1>4, <1>5 DEF Meter!Results

LEMMA SettleOutcomes ==
  ASSUME NEW r, NEW keyed \in BOOLEAN
  PROVE  Meter!settleOutcome(r, keyed) \in {"settled", "released", "claimed", "unresolved"}
  BY DEF Meter!settleOutcome

LEMMA HoldSettlesKeeps ==
  ASSUME MeterInv, NEW k \in Meter!Hooks, Meter!HoldSettles(k) PROVE MeterInv'
  <1> DEFINE j == job[k]
             h == j.hold
  <1>1. PICK r \in Meter!Results :
          Meter!SettleAnswer(h, r) /\
          Meter!Knows(k, [j EXCEPT !.result = Meter!settleOutcome(r, file[h].keyed)])
    BY DEF Meter!HoldSettles
  <1>2. /\ at[k] = "settle" /\ j.task = "journal" /\ Meter!Goes(k, "journal")
        /\ UNCHANGED <<session, transcript, cursor, claims, file, locks>>
    BY DEF Meter!HoldSettles, Meter!disk
  <1> DEFINE o == Meter!settleOutcome(r, file[h].keyed)
             j2 == [j EXCEPT !.result = o]
  <1>3. MeterTypes /\ HookInv(k) /\ j \in Jobs BY DEF MeterInv, MeterTypes
  <1>4. /\ h \in Transfers /\ file[h].kind = "settling" /\ file[h].by = k
        /\ file[h].outcome = None
        /\ file[h].keyed \in BOOLEAN
    BY <1>2, <1>3 DEF HookInv, Settles, MeterTypes, Files
  <1>5. /\ Served /\ srv' \in [Transfers -> Holds] /\ landing' \subseteq Transfers
        /\ o = "released" => srv'[h].st = "gone"
    BY <1>1, <1>4, SettleServed
  <1>6. o \in Outcomes BY <1>4, SettleOutcomes DEF Outcomes
  <1>7. j2 \in Jobs /\ j2.result = o /\ \A f \in Parts \ {"result"} : j2[f] = j[f]
    <2> HIDE DEF o
    <2> QED BY <1>3, <1>6, Shapes DEF Parts, Jobs
  <1>8. Alone(k) /\ at'[k] = "journal" /\ job'[k] = j2 BY <1>1, <1>2, <1>3, GoesAlone
  <1>9. MeterTypes' BY <1>1, <1>2, <1>3, <1>5, <1>7, TypesServed DEF Places
  <1> HIDE DEF j2, o
  <1>10. HookInv(k)'
    <2>1. Settles(k)' BY <1>2, <1>4, <1>5, <1>7, <1>8 DEF Settles, Posting, Parts
    <2> QED BY <1>2, <1>3, <1>7, <1>8, <2>1, HoldsFile DEF HookInv, Placed, Parts
  <1> QED BY <1>2, <1>5, <1>8, <1>9, <1>10, StepServed DEF SameLocks, Meter!Dead

(* What an ending makes of a cursor. *)
Shrinks(c, d, ids, S) ==
  /\ d \in Cursors
  /\ d.claimed \subseteq c.claimed /\ c.claimed \ ids \subseteq d.claimed
  /\ d.assigned \subseteq c.assigned
  /\ d.unresolved \subseteq c.unresolved /\ c.unresolved \ {ids} \subseteq d.unresolved
  /\ \A m \in Messages : Covers(c, m) => Covers(d, m) \/ m \in S

LEMMA OutcomeShrinks ==
  ASSUME NEW c \in Cursors, NEW ids \in SUBSET Messages,
         NEW o \in {"settled", "claimed", "denied", "released", "unresolved"}
  PROVE  Shrinks(c, Meter!Outcome(c, ids, o), ids, IF o = "released" THEN ids ELSE {})
  <1> DEFINE d == IF o = "unresolved" THEN c ELSE [c EXCEPT !.unresolved = @ \ {ids}]
             e == Meter!Outcome(c, ids, o)
  <1>1. /\ d \in Cursors /\ d.claimed = c.claimed /\ d.assigned = c.assigned
        /\ d.unresolved = IF o = "unresolved" THEN c.unresolved ELSE c.unresolved \ {ids}
    BY DEF Cursors
  <1>2. e = CASE o = "settled" -> Meter!postIds(d, ids)
              [] o = "claimed" -> Meter!accountIds(d, ids)
              [] o = "denied" -> Meter!denyIds(d, ids)
              [] o = "released" -> Meter!releaseIds(d, ids)
              [] OTHER -> d
    BY DEF Meter!Outcome
  <1> HIDE DEF d, e
  <1>3. CASE o \in {"settled", "claimed", "denied"}
    <2>1. e \in Cursors /\ e.claimed = d.claimed \ ids /\ e.assigned = d.assigned \ ids
          /\ e.unresolved = d.unresolved
      BY <1>1, <1>2, <1>3, CursorOps
    <2>2. \A m \in Messages : Covers(c, m) => Covers(e, m) BY <1>1, <1>3, <2>1 DEF Covers
    <2> QED BY <1>1, <1>3, <2>1, <2>2 DEF Shrinks, e
  <1>4. CASE o = "released"
    <2>1. e \in Cursors /\ e.claimed = d.claimed /\ e.assigned = d.assigned \ ids
          /\ e.unresolved = d.unresolved
      BY <1>1, <1>2, <1>4, CursorOps
    <2>2. \A m \in Messages : Covers(c, m) => Covers(e, m) \/ m \in ids
      BY <1>1, <1>4, <2>1 DEF Covers
    <2> QED BY <1>1, <1>4, <2>1, <2>2 DEF Shrinks, e
  <1>5. CASE o = "unresolved"
    <2>1. e = d BY <1>2, <1>5
    <2> QED BY <1>1, <1>5, <2>1 DEF Shrinks, Covers, e
  <1> QED BY <1>3, <1>4, <1>5

LEMMA EndedKeeps ==
  ASSUME MeterInv, NEW k \in Meter!Hooks, at[k] \in {"authorize", "record"} \/ Posting(k),
         Served,
         UNCHANGED <<session, transcript, cursor, claims, file, locks>>,
         srv' \in [Transfers -> Holds], landing' \subseteq Transfers,
         NEW j \in Jobs, Meter!Goes(k, "save"), Meter!Knows(k, j),
         j.next \in {"unlock", "post"},
         j.next = "post" => job[k].task = "remainder",
         \A f \in Parts \ {"mem", "next", "down", "hold"} : j[f] = job[k][f],
         NEW S, Shrinks(job[k].mem, j.mem, job[k].group, S),
         \A m \in S : \A h \in Transfers : ~Bears(h, m)'
  PROVE  MeterInv'
  <1>1. MeterTypes /\ HookInv(k) /\ job[k] \in Jobs /\ job[k].mem \in Cursors /\ Past(k)
    BY Shapes DEF MeterInv, MeterTypes, Past
  <1>2. Alone(k) /\ at'[k] = "save" /\ job'[k] = j BY <1>1, GoesAlone
  <1>3. MeterTypes' BY <1>1, TypesServed DEF Places
  <1>4. \A h \in Transfers : \A m \in Messages : Bears(h, m)' => Bears(h, m)
    BY DEF Served, Bears, Filed, Live
  <1>5. HookInv(k)'
    <2>1. Placed(k)' BY <1>1, <1>2 DEF HookInv, Placed, Working, Past, Posting, Parts
    <2>2. Settles(k)' /\ Lists(k)' BY <1>2 DEF Settles, Lists, Posting
    <2>3. Sweeps(k)'
      BY <1>1, <1>2 DEF HookInv, Sweeps, Past, Posting, Filed, Meter!Dead, Parts, Alone, Served
    <2>4. Remembers(k)'
      <3>1. Sound(j.mem, j.agent)
        BY <1>1, SoundShrinks DEF HookInv, Remembers, Working, Shrinks, Parts
      <3>2. Sound(job[k].mem, job[k].agent)'
        BY <1>2, <1>4, <3>1, SoundFewer DEF Shrinks, Served
      <3>3. ASSUME NEW h \in Transfers, NEW m \in Messages, Bears(h, m)', ~Covers(j.mem, m)
            PROVE  ~Covers(job[k].mem, m)
        BY <3>3 DEF Shrinks
      <3>4. \A m \in Messages : Covers(job[k].mem, m)' <=> Covers(j.mem, m) BY <1>2 DEF Covers
      <3> QED BY <1>1, <1>2, <1>4, <3>2, <3>3, <3>4
               DEF HookInv, Remembers, Working, Past, Posting, Parts, Residual, Served
    <2>5. Binds(k)' BY <1>2 DEF Binds, Binding, Retrying, Posting
    <2>6. Owns(k)'
      <3>1. ASSUME job[k].task = "remainder"
            PROVE  job[k].own \cap job[k].group = {} /\ job[k].group \notin job[k].vehicles
        <4>1. at[k] # "record" BY <1>1, <3>1 DEF HookInv, Placed
        <4> QED BY <1>1, <3>1, <4>1 DEF HookInv, Owns, Posting
      <3>2. ASSUME job[k].task = "remainder"
            PROVE  /\ \A m \in job[k].own :
                        /\ m \in j.mem.claimed /\ m \notin j.mem.assigned
                        /\ m \notin job[k].live /\ m \notin UNION j.mem.unresolved
                   /\ job[k].vehicles \subseteq j.mem.unresolved
                   /\ job[k].vehicles # {} => job[k].keyed
        <4>1. /\ \A m \in job[k].own : /\ m \in job[k].mem.claimed /\
                                          m \notin job[k].mem.assigned
                                         /\ m \notin job[k].live
                                         /\ m \notin UNION job[k].mem.unresolved
              /\ job[k].vehicles \subseteq job[k].mem.unresolved
              /\ (job[k].vehicles # {} => job[k].keyed)
          BY <1>1, <3>2 DEF HookInv, Owns, Posting
        <4> QED BY <3>1, <3>2, <4>1 DEF Shrinks
      <3> QED BY <1>2, <3>2 DEF Owns, Past, Posting, Binding, Parts
    <2> QED BY <2>1, <2>2, <2>3, <2>4, <2>5, <2>6 DEF HookInv
  <1> QED BY <1>1, <1>2, <1>3, <1>5, StepServed DEF SameLocks, Meter!Dead, Posting

LEMMA RecordFailsKeeps ==
  ASSUME MeterInv, NEW k \in Meter!Hooks, Meter!RecordFails(k) PROVE MeterInv'
  <1> DEFINE j == job[k]
             h == j.hold
             d == Meter!releaseIds(j.mem, j.group)
             j2 == [j EXCEPT !.mem = d]
  <1>1. /\ at[k] = "record" /\ Meter!Goes(k, "save") /\ Meter!Knows(k, j2)
        /\ Meter!Becomes(h, "gone")
        /\ UNCHANGED <<session, transcript, cursor, claims, file, locks, landing>>
    BY DEF Meter!RecordFails, Meter!disk
  <1>2. MeterTypes /\ HookInv(k) /\ j \in Jobs /\ j.mem \in Cursors /\
        j.group \in SUBSET Messages
    BY Shapes DEF MeterInv, MeterTypes, Jobs
  <1>3. /\ h \in Transfers /\ file[h].kind = "none" /\ srv[h].st # "free" /\ srv[h] \in Holds
        /\ \A g \in Transfers : \A m \in j.group : Bears(g, m) => g = h
    BY <1>1, <1>2 DEF HookInv, Settles, Binds, MeterTypes
  <1>4. /\ d \in Cursors /\ d.claimed = j.mem.claimed /\ d.assigned = j.mem.assigned \ j.group
        /\ d.unresolved = j.mem.unresolved
    BY <1>2, CursorOps
  <1> HIDE DEF d
  <1>5. j2 \in Jobs /\ j2.mem = d /\ \A f \in Parts \ {"mem"} : j2[f] = j[f]
    BY <1>2, <1>4, Shapes DEF Parts, Jobs
  <1> HIDE DEF j2
  <1>6. Shrinks(j.mem, d, j.group, j.group)
    BY <1>2, <1>4 DEF Shrinks, Covers
  <1>7. /\ srv' \in [Transfers -> Holds] /\ srv'[h].st = "gone"
        /\ \A g \in Transfers : /\ srv'[g].agent = srv[g].agent /\ srv'[g].ids = srv[g].ids
                                 /\ srv'[g].keyed = srv[g].keyed /\
                                    (g # h => srv'[g].st = srv[g].st)
    <2>1. srv \in [Transfers -> Holds] BY <1>2 DEF MeterTypes
    <2>2. [srv[h] EXCEPT !.st = "gone"] \in Holds BY <1>3 DEF Holds
    <2> QED BY <1>1, <1>3, <2>1, <2>2, Shapes DEF Meter!Becomes
  <1>8. ASSUME NEW m \in j.group, NEW g \in Transfers PROVE ~Bears(g, m)'
    BY <1>1, <1>3, <1>7 DEF Bears, Filed, Live
  <1>9. Served
    BY <1>2, <1>3, <1>7 DEF Served, SameKey, MeterInv, DiskInv, UnitInv
  <1> QED
    <2>1. j2.next = "unlock" BY <1>1, <1>2, <1>5 DEF HookInv, Placed, Parts
    <2>2. landing \subseteq Transfers BY <1>2 DEF MeterTypes
    <2> QED BY <1>1, <1>5, <1>6, <1>7, <1>8, <1>9, <2>1, <2>2, EndedKeeps DEF Parts

-----------------------------------------------------------------------------
(* A hold is granted. *)

LEMMA OnlyHolder ==
  ASSUME MeterInv, NEW k \in Meter!Hooks, NEW l \in Meter!Hooks, k # l, Working(k), Working(l)
  PROVE  job[k].agent # job[l].agent
  BY DEF MeterInv, HookInv, Placed

(* A hook of another agent, while hold h comes to bear messages claimed by *)
(* agent a.                                                                *)
LEMMA Elsewhere ==
  ASSUME MeterInv, NEW l \in Meter!Hooks, NEW a, NEW h \in Transfers,
         NEW ids \in SUBSET Messages,
         \A m \in ids : claims[m] = a, srv'[h].agent = a,
         Working(l) => job[l].agent # a /\ locks'[job[l].agent] = locks[job[l].agent],
         UNCHANGED <<claims, cursor>>, at'[l] = at[l], job'[l] = job[l],
         \A k \in Meter!Hooks : Meter!Dead(k) => Meter!Dead(k)',
         \A g \in Transfers : g # h =>
           srv'[g] = srv[g] /\ file'[g] = file[g],
         \A m \in Messages : Bears(h, m)' => Bears(h, m) \/ m \in ids,
         srv[h].st # "free" =>
           srv'[h] = srv[h] /\ srv[h].agent = a,
         Filed(h)' => srv[h].st # "free", ~Filed(h),
         (at[l] = "record" \/ Posting(l)) => job[l].hold # h
  PROVE  HookInv(l)'
  <1>0. /\ HookInv(l) /\ job[l] \in Jobs /\ job[l].mem \in Cursors /\ at'[l] = at[l]
        /\ job'[l] = job[l]
        /\ UNCHANGED <<claims, cursor>> /\ DiskInv
    BY Shapes DEF MeterInv, MeterTypes
  <1>1. \A g \in Transfers : \A m \in Messages :
          Bears(g, m)' => Bears(g, m) \/ (g = h /\ m \in ids)
    BY DEF Bears, Filed, Live
  <1>a. \A g \in Transfers : \A m \in Messages :
          /\ Bears(g, m)' /\ srv'[g].agent # a => Bears(g, m) /\ g # h
          /\ Bears(g, m)' /\ claims[m] # a => Bears(g, m) /\ g # h
    <2>1. ASSUME NEW m \in Messages, Bears(h, m)' PROVE claims[m] = a
      <3>1. CASE m \in ids BY <3>1
      <3>2. CASE Bears(h, m)
        <4>1. srv[h].st # "free" BY <3>2 DEF Bears, Live, Filed
        <4> QED BY <1>0, <3>2, <4>1 DEF DiskInv, OwedInv
      <3> QED BY <2>1, <3>1, <3>2
    <2> QED BY <1>1, <2>1
  <1>2. Placed(l)' BY <1>0 DEF HookInv, Placed, Working, Past, Posting
  <1>3. Settles(l)'
    <2>1. CASE at[l] = "record" \/ Posting(l)
      BY <1>0, <2>1 DEF HookInv, Settles, Posting
    <2>2. CASE at[l] # "record" /\ ~Posting(l)
      <3>1. (at[l] = "settle" /\ job[l].task = "journal") \/ at[l] \in {"journal", "unlink"} =>
            job[l].hold # h
        BY <1>0 DEF HookInv, Settles, Filed
      <3> QED BY <1>0, <2>2, <3>1 DEF HookInv, Settles, Posting
    <2> QED BY <2>1, <2>2
  <1>4. Lists(l)'
    <2>0. CASE at[l] # "reconcile" BY <1>0, <2>0 DEF Lists
    <2> SUFFICES ASSUME at[l] = "reconcile" PROVE Lists(l)' BY <2>0
    <2>1. ASSUME NEW e \in job[l].listed
          PROVE  /\ srv'[e[1]].st # "free" /\ srv'[e[1]].agent = job[l].agent
                 /\ e[2] = "done" => file'[e[1]].kind \in {"done", "none"}
      <3>1. e[1] \in Transfers /\ srv[e[1]].st # "free" /\ srv[e[1]].agent = job[l].agent
        BY <1>0, <2>1 DEF Jobs, HookInv, Lists
      <3>2. e[1] # h BY <3>1 DEF Working
      <3> QED BY <1>0, <3>1, <3>2 DEF HookInv, Lists
    <2>2. ASSUME NEW g \in Transfers, NEW m \in Messages, Bears(g, m)',
                 srv'[g].agent = job[l].agent,
                 ~Covers(job[l].mem, m)
          PROVE  <<g, "both">> \in job[l].listed \/ <<g, file'[g].kind>> \in job[l].listed
      <3>1. Bears(g, m) /\ g # h BY <1>a, <2>2 DEF Working
      <3> QED BY <1>0, <2>2, <3>1 DEF HookInv, Lists
    <2>3. \A m \in Messages : Covers(job[l].mem, m)' <=> Covers(job[l].mem, m)
      BY <1>0 DEF Covers
    <2> QED BY <1>0, <2>1, <2>2, <2>3 DEF Lists
  <1>5. Sweeps(l)'
    <2>1. ASSUME Past(l), NEW g \in Transfers, <<g, "settling">> \in job[l].finished
          PROVE  g # h
      BY <1>0, <2>1 DEF HookInv, Sweeps, Working
    <2> QED BY <1>0, <2>1 DEF HookInv, Sweeps, Past, Posting, Filed
  <1>6. Remembers(l)'
    <2>1. ASSUME Working(l) PROVE Sound(job[l].mem, job[l].agent)'
      <3>1. Sound(job[l].mem, job[l].agent) /\ job[l].agent # a
        BY <1>0, <2>1 DEF HookInv, Remembers
      <3>2. ASSUME NEW v \in job[l].mem.unresolved, NEW g \in Transfers, NEW m \in v,
                   Bears(g, m)'
            PROVE  srv'[g].keyed /\ srv'[g].agent = job[l].agent /\ srv'[g].ids = v
        <4>1. m \in Messages BY <1>0 DEF Cursors
        <4>2. claims[m] # a BY <3>1 DEF Sound
        <4>3. Bears(g, m) /\ g # h BY <1>a, <3>2, <4>1, <4>2
        <4> QED BY <3>1, <4>3 DEF Sound
      <3>3. ASSUME NEW m \in job[l].mem.assigned, NEW f \in Transfers, NEW g \in Transfers,
                   Bears(f, m)', Bears(g, m)', srv'[g].agent = job[l].agent
            PROVE  f = g
        <4>1. m \in Messages BY <1>0 DEF Cursors
        <4>2. Bears(g, m) /\ g # h BY <1>a, <3>1, <3>3, <4>1
        <4>3. claims[m] = job[l].agent BY <1>0, <3>3, <4>1, <4>2 DEF DiskInv, OwedInv
        <4>4. Bears(f, m) BY <1>a, <3>1, <3>3, <4>1, <4>3
        <4> QED BY <3>1, <3>3, <4>2, <4>4 DEF Sound
      <3> QED BY <1>0, <3>1, <3>2, <3>3 DEF Sound
    <2>2. \A m \in Messages : Covers(job[l].mem, m)' <=> Covers(job[l].mem, m)
      BY <1>0 DEF Covers
    <2>3. ASSUME Past(l), NEW g \in Transfers, NEW m \in Messages, Bears(g, m)',
                 srv'[g].agent = job[l].agent, ~Covers(job[l].mem, m)
          PROVE  /\ Residual(g)'
                 /\ m \in job[l].live \/ (file'[g].kind = "done" /\ <<g,
                    "done">> \in job[l].finished)
      <3>1. Bears(g, m) /\ g # h BY <1>a, <2>3 DEF Working
      <3> QED BY <1>0, <2>3, <3>1 DEF HookInv, Remembers, Residual
    <2> QED BY <1>0, <2>1, <2>2, <2>3 DEF Remembers, Working, Past, Posting
  <1>7. Binds(l)'
    <2>1. ASSUME Binding(l) \/ at[l] = "record" \/ Posting(l), NEW g \in Transfers,
                 NEW m \in job[l].group,
                 Bears(g, m)'
          PROVE  Bears(g, m) /\ g # h
      <3>1. m \in Messages /\ claims[m] = job[l].agent /\ job[l].agent # a
        BY <1>0, <2>1 DEF HookInv, Binds, Jobs, Binding, Working, Past
      <3> QED BY <1>a, <2>1, <3>1
    <2> QED BY <1>0, <2>1 DEF HookInv, Binds, Binding, Retrying, Posting, Residual
  <1>8. Owns(l)' BY <1>0 DEF HookInv, Owns, Past, Posting, Binding
  <1> QED BY <1>2, <1>3, <1>4, <1>5, <1>6, <1>7, <1>8 DEF HookInv

(* The disk, as hold h comes to bear messages of agent a: bound, or those  *)
(* of one vehicle.                                                         *)
LEMMA DiskGains ==
  ASSUME MeterInv, NEW a \in Meter!Owners, NEW h \in Transfers, NEW ids \in SUBSET Messages,
         UNCHANGED <<claims, cursor>>, ~Filed(h),
         \A g \in Transfers : g # h => srv'[g] = srv[g] /\ file'[g] = file[g],
         srv'[h].st # "free", srv'[h].agent = a, srv'[h].ids = ids,
         srv[h].st # "free" \/ srv'[h].st = "settled" => srv'[h] = srv[h],
         file'[h].kind \in {"none", "live"},
         file'[h].kind = "live" =>
           /\ file'[h].agent = a /\ file'[h].ids = ids /\ file'[h].keyed = srv'[h].keyed
           /\ file'[h].outcome = None,
         \A m \in ids : claims[m] = a,
         \/ /\ ids \subseteq cursor[a].assigned
            /\ \A g \in Transfers : \A m \in ids : Bears(g, m) => g = h
         \/ ids \in cursor[a].unresolved /\ srv'[h].keyed /\ file'[h].kind = "none"
  PROVE  DiskInv'
  <1>0. DiskInv /\ cursor[a] \in Cursors /\ Sound(cursor[a], a)
    BY DEF MeterInv, MeterTypes, DiskInv, SoundInv
  <1>1. \A g \in Transfers : \A m \in Messages :
          Bears(g, m)' => \/ g # h /\ Bears(g, m) /\ (Filed(g)' <=> Filed(g))
                          \/ g = h /\ m \in ids
    <2>1. ASSUME NEW g \in Transfers, g # h
          PROVE  \A m \in Messages : (Bears(g, m)' <=> Bears(g, m)) /\ (Filed(g)' <=> Filed(g))
      <3>1. srv'[g] = srv[g] /\ file'[g] = file[g] BY <2>1
      <3> QED BY <3>1 DEF Bears, Filed, Live
    <2>2. \A m \in Messages : Bears(h, m)' => m \in ids BY DEF Bears
    <2> SUFFICES ASSUME NEW g \in Transfers, NEW m \in Messages, Bears(g, m)'
                 PROVE  \/ g # h /\ Bears(g, m) /\ (Filed(g)' <=> Filed(g))
                        \/ g = h /\ m \in ids
      OBVIOUS
    <2>3. CASE g = h BY <2>2, <2>3
    <2>4. CASE g # h
      <3>1. Bears(g, m) BY <2>1, <2>4
      <3>2. Filed(g)' <=> Filed(g) BY <2>1, <2>4
      <3> QED BY <2>4, <3>1, <3>2
    <2> QED BY <2>3, <2>4
  <1>2. ASSUME NEW g \in Transfers, NEW m \in ids, Bears(g, m), g # h
        PROVE  /\ SameKey(g, h)' /\ SameKey(h, g)' /\ file'[h].kind = "none"
               /\ ids \in cursor[a].unresolved /\ m \notin cursor[a].assigned
    BY <1>0, <1>2 DEF Sound, SameKey
  <1>3. FileInv' BY <1>0, MeterAssumption DEF DiskInv, FileInv, Filed, Residual
  <1>4. UnitInv'
    <2>1. ASSUME NEW f \in Transfers, NEW g \in Transfers, NEW m \in Messages, Bears(f, m)',
                 Bears(g, m)'
          PROVE  /\ f = g \/ SameKey(f, g)'
                 /\ Filed(f)' /\ Filed(g)' => f = g
      <3>1. CASE f # h /\ g # h
        <4>1. Bears(f, m) /\ Bears(g, m) /\ (Filed(f)' <=> Filed(f)) /\ (Filed(g)' <=> Filed(g))
          BY <1>1, <2>1, <3>1
        <4>2. SameKey(f, g)' <=> SameKey(f, g) BY <3>1 DEF SameKey
        <4> QED BY <1>0, <4>1, <4>2 DEF DiskInv, UnitInv
      <3>2. CASE f # g /\ (f = h \/ g = h) BY <1>1, <1>2, <2>1, <3>2 DEF Filed
      <3> QED BY <3>1, <3>2
    <2>2. ASSUME NEW f \in Transfers, NEW g \in Transfers,
                 srv'[f].st = "settled", srv'[g].st = "settled", SameKey(f, g)'
          PROVE  f = g
      <3>1. srv'[f] = srv[f] /\ srv'[g] = srv[g] BY <2>2
      <3> QED BY <1>0, <2>2, <3>1 DEF DiskInv, UnitInv, SameKey
    <2> QED BY <2>1, <2>2 DEF UnitInv
  <1>5. OwedInv'
    <2>1. ASSUME NEW g \in Transfers, NEW m \in Messages, Bears(g, m)'
          PROVE  /\ claims[m] = srv'[g].agent
                 /\ Covers(cursor[srv'[g].agent], m) \/ Residual(g)'
      <3>1. CASE g # h BY <1>0, <1>1, <2>1, <3>1 DEF DiskInv, OwedInv, Residual
      <3>2. CASE g = h BY <1>0, <1>1, <2>1, <3>2 DEF Covers
      <3> QED BY <3>1, <3>2
    <2>2. \A b \in Meter!Owners : \A m \in Messages : Covers(cursor[b], m)' <=> Covers(cursor[b], m)
      BY DEF Covers
    <2>3. \A g \in Transfers : \A m \in Messages : Bears(g, m)' => srv'[g].agent \in Meter!Owners
      BY <1>0, <1>1 DEF DiskInv, FileInv, Bears, Filed, Live
    <2> QED BY <2>1, <2>2, <2>3 DEF OwedInv
  <1>6. ASSUME NEW b \in Meter!Owners PROVE Sound(cursor[b], b)'
    <2> DEFINE c == cursor[b]
    <2>1. Sound(c, b) /\ c \in Cursors BY <1>0 DEF DiskInv, SoundInv, MeterInv, MeterTypes
    <2>2. ASSUME NEW v \in c.unresolved, NEW g \in Transfers, NEW m \in v, Bears(g, m)'
          PROVE  srv'[g].keyed /\ srv'[g].agent = b /\ srv'[g].ids = v
      <3>0. m \in Messages BY <2>1 DEF Cursors
      <3>1. CASE g # h BY <1>1, <2>1, <2>2, <3>0, <3>1 DEF Sound
      <3>2. CASE g = h
        <4>1. m \in ids /\ claims[m] = a BY <1>1, <2>2, <3>0, <3>2
        <4>2. b = a BY <2>1, <4>1 DEF Sound
        <4>3. m \notin cursor[a].assigned BY <1>0, <4>2 DEF Sound
        <4>4. ids \in cursor[a].unresolved /\ srv'[h].keyed BY <4>1, <4>3
        <4> QED BY <1>0, <3>2, <4>1, <4>2, <4>4 DEF Sound
      <3> QED BY <3>1, <3>2
    <2>3. ASSUME NEW m \in c.assigned, NEW f \in Transfers, NEW g \in Transfers,
                 Bears(f, m)', Bears(g, m)', srv'[g].agent = b
          PROVE  f = g
      <3>0. m \in Messages BY <2>1 DEF Cursors
      <3>1. CASE f # h /\ g # h BY <1>1, <2>1, <2>3, <3>0, <3>1 DEF Sound
      <3>2. CASE f # g /\ g = h
        <4>1. m \in ids /\ Bears(f, m) /\ b = a BY <1>1, <2>3, <3>0, <3>2
        <4> QED BY <1>2, <3>2, <4>1
      <3>3. CASE f # g /\ f = h
        <4>1. m \in ids /\ Bears(g, m) /\ srv[g].agent = b BY <1>1, <2>3, <3>0, <3>3
        <4>2. b = a BY <1>0, <3>0, <4>1 DEF DiskInv, OwedInv
        <4> QED BY <1>2, <3>3, <4>1, <4>2
      <3> QED BY <3>1, <3>2, <3>3
    <2> QED BY <2>1, <2>2, <2>3 DEF Sound
  <1> QED BY <1>3, <1>4, <1>5, <1>6 DEF DiskInv, SoundInv

LEMMA GrantKeeps ==
  ASSUME MeterInv, NEW k \in Meter!Hooks, at[k] = "authorize", NEW h \in Transfers,
         srv[h].st = "free",
         srv' = [srv EXCEPT ![h] = [st |-> "pending", agent |-> job[k].agent,
                                    ids |-> job[k].group, keyed |-> job[k].keyed]],
         UNCHANGED <<session, transcript, cursor, claims, file, locks, landing>>,
         NEW j \in Jobs, NEW to \in Places, Meter!Goes(k, to), Meter!Knows(k, j), j.hold = h,
         \A f \in Parts \ {"hold", "next"} : j[f] = job[k][f],
         \/ to = "record" /\ j.task = "window" /\ j.next = "unlock"
         \/ to = "settle" /\ j.task = "remainder"
  PROVE  MeterInv'
  <1> DEFINE i == job[k]
  <1>0. PICK a, ids : a = i.agent /\ ids = i.group OBVIOUS
  <1>1. MeterTypes /\ HookInv(k) /\ i \in Jobs /\ i.mem \in Cursors /\ Past(k) /\ Working(k) /\
        DiskInv
    BY Shapes DEF MeterInv, MeterTypes, Past, Working
  <1>2. /\ a \in Meter!Owners /\ ids \in SUBSET Messages /\ i.keyed \in BOOLEAN
        /\ i.mem = cursor[a] /\ i.finished = {} /\ \A m \in ids : claims[m] = a
    BY <1>0, <1>1 DEF HookInv, Placed, Binds, Binding, Retrying, Jobs
  <1>3. Alone(k) /\ at'[k] = to /\ job'[k] = j BY <1>1, GoesAlone
  <1>4. /\ srv' \in [Transfers -> Holds] /\ \A g \in Transfers : g # h => srv'[g] = srv[g]
        /\ srv'[h].st = "pending" /\ srv'[h].agent = a /\ srv'[h].ids = ids
        /\ srv'[h].keyed = i.keyed
    <2>1. srv \in [Transfers -> Holds] BY <1>1 DEF MeterTypes
    <2>2. [st |-> "pending", agent |-> a, ids |-> ids, keyed |-> i.keyed] \in Holds
      BY <1>2 DEF Holds
    <2> QED BY <1>0, <2>1, <2>2
  <1>5. MeterTypes' BY <1>1, <1>4, TypesServed DEF MeterTypes
  <1>6. ~Filed(h) /\ file[h].kind = "none" /\ \A m \in Messages : ~Bears(h, m)
    BY <1>1 DEF DiskInv, FileInv, Filed, Bears, Live
  <1>7. \/ /\ ~i.retry /\ ids \subseteq cursor[a].assigned
           /\ \A g \in Transfers : \A m \in ids : ~Bears(g, m)
        \/ /\ ~i.retry /\ ids \in cursor[a].unresolved /\ i.keyed /\ i.task = "remainder"
           /\ \A g \in Transfers : \A m \in ids : ~Bears(g, m)
        \/ i.retry /\ ids \in cursor[a].unresolved /\ i.keyed /\ i.task = "remainder"
    BY <1>0, <1>1, <1>2 DEF HookInv, Placed, Binds, Binding, Retrying, Parts
  <1>8. DiskInv' BY <1>1, <1>2, <1>4, <1>6, <1>7, DiskGains
  <1>9. ASSUME NEW l \in Meter!Hooks, l # k PROVE HookInv(l)'
    <2>1. Working(l) => job[l].agent # a BY <1>0, <1>1, <1>9, OnlyHolder
    <2>2. at[l] = "record" \/ Posting(l) => job[l].hold # h
      BY DEF MeterInv, HookInv, Settles
    <2>3. \A n \in Meter!Hooks : Meter!Dead(n) => Meter!Dead(n)' BY <1>3 DEF Alone, Meter!Dead
    <2>4. \A m \in Messages : Bears(h, m)' => m \in ids BY <1>4 DEF Bears
    <2>5. ~Filed(h)' BY <1>6 DEF Filed
    <2> QED BY <1>2, <1>3, <1>4, <1>6, <1>9, <2>1, <2>2, <2>3, <2>4, <2>5, Elsewhere DEF Alone
  <1>10. HookInv(k)'
    <2>1. Placed(k)' BY <1>1, <1>2, <1>3 DEF HookInv, Placed, Working, Past, Posting, Parts
    <2>2. Settles(k)' BY <1>0, <1>3, <1>4, <1>6 DEF Settles, Posting, Parts
    <2>3. Lists(k)' BY <1>3 DEF Lists
    <2>4. Sweeps(k)' BY <1>2, <1>3 DEF Sweeps, Parts
    <2>5. Remembers(k)'
      <3>1. Sound(job[k].mem, job[k].agent)'
        <4>1. Sound(cursor[a], a)' BY <1>2, <1>8 DEF DiskInv, SoundInv
        <4>2. job'[k].mem = cursor'[a] /\ job'[k].agent = a BY <1>0, <1>2, <1>3 DEF Parts
        <4> QED BY <4>1, <4>2
      <3>2. ASSUME NEW g \in Transfers, NEW m \in Messages, Bears(g, m)', srv'[g].agent = a,
                   ~Covers(i.mem, m)
            PROVE  Residual(g) /\ m \in i.live
        <4>1. m \notin ids BY <1>2, <1>7, <3>2 DEF Covers
        <4>2. g # h BY <1>4, <3>2, <4>1 DEF Bears
        <4>3. Bears(g, m) /\ srv[g].agent = a BY <1>4, <3>2, <4>2 DEF Bears, Filed, Live
        <4> QED BY <1>0, <1>1, <1>2, <3>2, <4>3 DEF HookInv, Remembers
      <3>3. \A m \in Messages : Covers(job[k].mem, m)' <=> Covers(i.mem, m)
        BY <1>3 DEF Covers, Parts
      <3>4. \A g \in Transfers : Residual(g) => Residual(g)' BY DEF Residual
      <3> QED BY <1>0, <1>2, <1>3, <3>1, <3>2, <3>3, <3>4 DEF Remembers, Parts
    <2>6. Binds(k)'
      <3>1. to = "record" \/ ~i.retry => \A g \in Transfers : \A m \in ids : Bears(g, m)' =>
            g = h
        BY <1>0, <1>1, <1>2, <1>3, <1>4, <1>7 DEF Bears, Filed, Live, HookInv, Placed, Parts
      <3> QED BY <1>0, <1>2, <1>3, <1>7, <3>1 DEF Binds, Binding, Retrying, Posting, Parts
    <2>7. Owns(k)' BY <1>1, <1>3 DEF HookInv, Owns, Past, Posting, Binding, Parts
    <2> QED BY <2>1, <2>2, <2>3, <2>4, <2>5, <2>6, <2>7 DEF HookInv
  <1> QED BY <1>5, <1>8, <1>9, <1>10 DEF MeterInv

LEMMA FileRecordKeeps ==
  ASSUME MeterInv, NEW k \in Meter!Hooks, Meter!Record(k) PROVE MeterInv'
  <1> DEFINE j == job[k]
  <1>0. PICK h, a, ids : h = j.hold /\ a = j.agent /\ ids = j.group OBVIOUS
  <1> DEFINE f2 == [Meter!NoFile EXCEPT !.kind = "live", !.agent = a, !.ids = ids,
  !.keyed = j.keyed]
  <1>1. /\ at[k] = "record" /\ Meter!Goes(k, "unlock") /\ file' = [file EXCEPT ![h] = f2]
        /\ UNCHANGED <<session, transcript, cursor, claims, locks, srv, landing, job>>
    BY <1>0 DEF Meter!Record, Meter!server
  <1>2. MeterTypes /\ HookInv(k) /\ j \in Jobs /\ j.mem \in Cursors /\ Past(k) /\ Working(k) /\
        DiskInv
    BY <1>1, Shapes DEF MeterInv, MeterTypes, Past, Working
  <1>3. /\ a \in Meter!Owners /\ ids \in SUBSET Messages /\ j.keyed \in BOOLEAN /\ locks[a] = k
        /\ j.mem = cursor[a] /\ h \in Transfers /\ file[h].kind = "none" /\ srv[h].st # "free"
        /\ srv[h].agent = a /\ srv[h].ids = ids /\ srv[h].keyed = j.keyed
        /\ ids \subseteq cursor[a].assigned /\ \A m \in ids : claims[m] = a
        /\ \A g \in Transfers : \A m \in ids : Bears(g, m) => g = h
    BY <1>0, <1>1, <1>2 DEF HookInv, Placed, Settles, Binds, Jobs
  <1>4. Alone(k) /\ at'[k] = "unlock" /\ job'[k] = j BY <1>1, <1>2, GoesOn
  <1>5. /\ file' \in [Transfers -> Files] /\ \A g \in Transfers : g # h => file'[g] = file[g]
        /\ file'[h].kind = "live" /\ file'[h].agent = a /\ file'[h].ids = ids
        /\ file'[h].keyed = j.keyed /\ file'[h].outcome = None
    <2>1. Meter!NoFile \in Files BY DEF Meter!NoFile, Files, FileKinds, Outcomes
    <2>2. f2 \in Files BY <1>3, <2>1 DEF Files, FileKinds
    <2>3. f2.kind = "live" /\ f2.agent = a /\ f2.ids = ids /\ f2.keyed = j.keyed /\
          f2.outcome = None
      BY DEF Meter!NoFile
    <2>4. file \in [Transfers -> Files] BY <1>2 DEF MeterTypes
    <2> HIDE DEF f2
    <2> QED BY <1>1, <1>3, <2>2, <2>3, <2>4
  <1>6. MeterTypes'
    <2>1. at' \in [Meter!Hooks -> Places] BY <1>1, <1>2 DEF MeterTypes, Meter!Goes, Places
    <2> QED BY <1>1, <1>2, <1>5, <2>1 DEF MeterTypes
  <1>7. DiskInv' BY <1>1, <1>3, <1>5, DiskGains DEF Filed
  <1>8. ASSUME NEW l \in Meter!Hooks, l # k PROVE HookInv(l)'
    <2>1. Working(l) => job[l].agent # a BY <1>0, <1>2, <1>8, OnlyHolder
    <2>2. at[l] = "record" \/ Posting(l) => job[l].hold # h
      <3>1. HookInv(l) BY DEF MeterInv
      <3>2. at[l] = "record" \/ Posting(l) => Working(l) BY DEF Working, Past
      <3> QED BY <1>3, <2>1, <3>1, <3>2 DEF HookInv, Settles
    <2>3. \A n \in Meter!Hooks : Meter!Dead(n) => Meter!Dead(n)'
      BY <1>1, <1>4 DEF Alone, Meter!Dead
    <2>4. \A m \in Messages : Bears(h, m)' => m \in ids BY <1>1, <1>3 DEF Bears
    <2> QED BY <1>1, <1>3, <1>4, <1>5, <1>8, <2>1, <2>2, <2>3, <2>4, Elsewhere DEF Alone, Filed
  <1>9. HookInv(k)'
    <2>1. Sound(job[k].mem, job[k].agent)'
      <3>1. Sound(cursor[a], a)' BY <1>3, <1>7 DEF DiskInv, SoundInv
      <3>2. job'[k].mem = cursor'[a] /\ job'[k].agent = a BY <1>0, <1>1, <1>3, <1>4
      <3> QED BY <3>1, <3>2
    <2> QED BY <1>0, <1>1, <1>2, <1>3, <1>4, <2>1, Unlocks DEF HookInv, Placed
  <1> QED BY <1>6, <1>7, <1>8, <1>9 DEF MeterInv

LEMMA PreAuthorizesKeeps ==
  ASSUME MeterInv, NEW k \in Meter!Hooks, Meter!PreAuthorizes(k) PROVE MeterInv'
  <1> DEFINE j == job[k]
  <1>1. /\ at[k] = "authorize" /\ j.task = "window"
        /\ UNCHANGED <<session, transcript, cursor, claims, file, locks, landing>>
    BY DEF Meter!PreAuthorizes, Meter!disk
  <1>2. PICK r \in {"granted", "already", "denied", "failed"}, h \in Transfers \cup {None} :
          /\ Meter!AuthorizeAnswer(k, j.keyed, r, h)
          /\ Meter!Goes(k, IF r = "granted" THEN "record" ELSE "save")
          /\ Meter!Knows(k, [j EXCEPT !.hold = h, !.next = "unlock",
               !.mem = CASE r = "granted" -> j.mem
                         [] r = "already" -> Meter!postIds(j.mem, j.group)
                         [] OTHER -> Meter!releaseIds(j.mem, j.group)])
    BY DEF Meter!PreAuthorizes
  <1> DEFINE d == CASE r = "granted" -> j.mem
                    [] r = "already" -> Meter!postIds(j.mem, j.group)
                    [] OTHER -> Meter!releaseIds(j.mem, j.group)
             j2 == [j EXCEPT !.hold = h, !.next = "unlock", !.mem = d]
  <1>3. MeterTypes /\ HookInv(k) /\ j \in Jobs /\ j.mem \in Cursors /\
        j.group \in SUBSET Messages
    BY Shapes DEF MeterInv, MeterTypes, Jobs
  <1>4. d \in Cursors BY <1>3, CursorOps
  <1>5. /\ j2 \in Jobs /\ j2.mem = d /\ j2.hold = h /\ j2.next = "unlock"
        /\ \A f \in Parts \ {"mem", "hold", "next"} : j2[f] = j[f]
    <2> HIDE DEF d
    <2> QED BY <1>3, <1>4, Shapes DEF Parts, Jobs
  <1>6. CASE r = "granted"
    <2>1. /\ h \in Transfers /\ srv[h].st = "free"
          /\ srv' = [srv EXCEPT ![h] = [st |-> "pending", agent |-> j.agent, ids |-> j.group,
                                        keyed |-> j.keyed]]
      BY <1>2, <1>6 DEF Meter!AuthorizeAnswer
    <2>2. j2.mem = j.mem BY <1>5, <1>6
    <2>3. \A f \in Parts \ {"hold", "next"} : j2[f] = j[f] BY <1>5, <2>2 DEF Parts
    <2>4. Meter!Goes(k, "record") /\ Meter!Knows(k, j2) BY <1>2, <1>6
    <2>5. j2.task = "window" BY <1>1, <1>5 DEF Parts
    <2> HIDE DEF j2
    <2> QED BY <1>1, <1>5, <2>1, <2>3, <2>4, <2>5, GrantKeeps DEF Places
  <1>7. CASE r # "granted"
    <2>1. UNCHANGED srv BY <1>2, <1>7 DEF Meter!AuthorizeAnswer
    <2>2. Meter!Goes(k, "save") /\ Meter!Knows(k, j2) BY <1>2, <1>7
    <2>3. Shrinks(j.mem, d, j.group, IF r = "already" THEN {} ELSE j.group)
      <3>1. CASE r = "already"
        <4>1. /\ d = Meter!postIds(j.mem, j.group) /\ d.claimed = j.mem.claimed \ j.group
              /\ d.assigned = j.mem.assigned \ j.group /\ d.unresolved = j.mem.unresolved
          BY <1>3, <3>1, CursorOps
        <4> QED BY <1>4, <3>1, <4>1 DEF Shrinks, Covers
      <3>2. CASE r # "already"
        <4>1. /\ d = Meter!releaseIds(j.mem, j.group) /\ d.claimed = j.mem.claimed
              /\ d.assigned = j.mem.assigned \ j.group /\ d.unresolved = j.mem.unresolved
          BY <1>3, <1>7, <3>2, CursorOps
        <4> QED BY <1>4, <3>2, <4>1 DEF Shrinks, Covers
      <3> QED BY <3>1, <3>2
    <2>4. \A m \in j.group : \A g \in Transfers : ~Bears(g, m)'
      <3>1. \A m \in j.group : \A g \in Transfers : ~Bears(g, m)
        BY <1>1, <1>3 DEF HookInv, Placed, Binds, Binding
      <3> QED BY <1>1, <2>1, <3>1 DEF Bears, Filed, Live
    <2>5. landing' \subseteq Transfers BY <1>1, <1>3 DEF MeterTypes
    <2>6. Served /\ srv' \in [Transfers -> Holds] BY <2>1, SameServed
    <2>7. \A f \in Parts \ {"mem", "next", "down", "hold"} : j2[f] = j[f] BY <1>5
    <2>8. Shrinks(j.mem, j2.mem, j.group, IF r = "already" THEN {} ELSE j.group)
      BY <1>5, <2>3
    <2>9. \A m \in (IF r = "already" THEN {} ELSE j.group) : \A g \in Transfers : ~Bears(g, m)'
      BY <2>4
    <2>10. /\ j2 \in Jobs /\ j2.next \in {"unlock", "post"}
           /\ j2.next = "post" => j.task = "remainder"
      BY <1>5
    <2>11. /\ at[k] \in {"authorize", "record"} \/ Posting(k)
           /\ UNCHANGED <<session, transcript, cursor, claims, file, locks>>
      BY <1>1
    <2> HIDE DEF j2, d
    <2> QED BY <2>2, <2>5, <2>6, <2>7, <2>8, <2>9, <2>10, <2>11, EndedKeeps
  <1> QED BY <1>6, <1>7

(* What ends a posting. *)
LEMMA PostEnds ==
  ASSUME MeterInv, NEW k \in Meter!Hooks, at[k] = "authorize" \/ Posting(k),
         job[k].task = "remainder",
         Served, UNCHANGED <<session, transcript, cursor, claims, file, locks>>,
         srv' \in [Transfers -> Holds], landing' \subseteq Transfers,
         NEW o \in {"settled", "claimed", "denied", "released", "unresolved"},
         NEW down \in BOOLEAN,
         Meter!Ended(k, o, down),
         o = "released" => \A m \in job[k].group : \A h \in Transfers : ~Bears(h, m)'
  PROVE  MeterInv'
  <1> DEFINE i == job[k]
             d == Meter!Outcome(i.mem, i.group, o)
             j == [i EXCEPT !.mem = d, !.down = down,
                  !.next = IF down THEN "unlock" ELSE "post"]
  <1>1. Meter!Goes(k, "save") /\ Meter!Knows(k, j) BY DEF Meter!Ended
  <1>2. i \in Jobs /\ i.mem \in Cursors /\ i.group \in SUBSET Messages
    BY Shapes DEF MeterInv, MeterTypes, Jobs
  <1>3. Shrinks(i.mem, d, i.group, IF o = "released" THEN i.group ELSE {})
    BY <1>2, OutcomeShrinks
  <1> HIDE DEF d
  <1>4. /\ j \in Jobs /\ j.mem = d /\ j.next \in {"unlock", "post"}
        /\ \A f \in Parts \ {"mem", "down", "next"} : j[f] = i[f]
    BY <1>2, <1>3, Shapes DEF Parts, Jobs, Shrinks
  <1> HIDE DEF j
  <1>5. \A m \in IF o = "released" THEN i.group ELSE {} : \A h \in Transfers : ~Bears(h, m)'
    OBVIOUS
  <1> QED BY <1>1, <1>3, <1>4, <1>5, EndedKeeps DEF Parts

LEMMA GroupAuthorizesKeeps ==
  ASSUME MeterInv, NEW k \in Meter!Hooks, Meter!GroupAuthorizes(k) PROVE MeterInv'
  <1> DEFINE j == job[k]
  <1>1. /\ at[k] = "authorize" /\ j.task = "remainder"
        /\ UNCHANGED <<session, transcript, cursor, claims, file, locks, landing>>
    BY DEF Meter!GroupAuthorizes, Meter!disk
  <1>2. PICK r \in {"granted", "already", "denied", "failed"}, h \in Transfers \cup {None} :
          /\ Meter!AuthorizeAnswer(k, j.keyed, r, h)
          /\ \/ r = "granted" /\ Meter!Goes(k, "settle") /\
                Meter!Knows(k, [j EXCEPT !.hold = h])
             \/ r = "already" /\ Meter!Ended(k, "settled", FALSE)
             \/ r = "denied" /\ Meter!Ended(k, "denied", FALSE)
             \/ r = "failed" /\ \E down \in BOOLEAN :
                Meter!Ended(k, Meter!Unsettled(j.retry), down)
    BY DEF Meter!GroupAuthorizes
  <1>3. MeterTypes /\ HookInv(k) /\ j \in Jobs BY DEF MeterInv, MeterTypes
  <1>4. CASE r = "granted"
    <2> DEFINE j2 == [j EXCEPT !.hold = h]
    <2>1. /\ h \in Transfers /\ srv[h].st = "free"
          /\ srv' = [srv EXCEPT ![h] = [st |-> "pending", agent |-> j.agent, ids |-> j.group,
                                        keyed |-> j.keyed]]
      BY <1>2, <1>4 DEF Meter!AuthorizeAnswer
    <2>2. Meter!Goes(k, "settle") /\ Meter!Knows(k, j2) BY <1>2, <1>4
    <2>3. /\ j2 \in Jobs /\ j2.hold = h /\ \A f \in Parts \ {"hold"} : j2[f] = j[f]
      BY <1>3, <2>1, Shapes DEF Parts, Jobs
    <2>4. j2.task = "remainder" BY <1>1, <2>3 DEF Parts
    <2> HIDE DEF j2
    <2> QED BY <1>1, <2>1, <2>2, <2>3, <2>4, GrantKeeps DEF Places
  <1>5. CASE r # "granted"
    <2>1. UNCHANGED srv BY <1>2, <1>5 DEF Meter!AuthorizeAnswer
    <2>2. Served /\ srv' \in [Transfers -> Holds] /\ landing' \subseteq Transfers
      BY <1>1, <1>3, <2>1, SameServed DEF MeterTypes
    <2>3. ~j.retry => \A m \in j.group : \A g \in Transfers : ~Bears(g, m)'
      <3>1. ~j.retry => \A m \in j.group : \A g \in Transfers : ~Bears(g, m)
        BY <1>1, <1>3 DEF HookInv, Placed, Binds, Binding
      <3> QED BY <1>1, <2>1, <3>1 DEF Bears, Filed, Live
    <2>4. PICK o \in {"settled", "denied", "released", "unresolved"}, down \in BOOLEAN :
            Meter!Ended(k, o, down) /\ (o = "released" => ~j.retry)
      <3>1. CASE r = "already" BY <1>2, <3>1
      <3>2. CASE r = "denied" BY <1>2, <3>2
      <3>3. CASE r = "failed" BY <1>2, <3>3 DEF Meter!Unsettled
      <3> QED BY <1>5, <3>1, <3>2, <3>3
    <2> QED BY <1>1, <2>2, <2>3, <2>4, PostEnds
  <1> QED BY <1>4, <1>5

LEMMA GroupSettlesKeeps ==
  ASSUME MeterInv, NEW k \in Meter!Hooks, Meter!GroupSettles(k) PROVE MeterInv'
  <1> DEFINE j == job[k]
  <1>0. PICK h : h = j.hold OBVIOUS
  <1> DEFINE o(r) == Meter!settleOutcome(r, j.keyed)
             e(r) == IF o(r) = "released" THEN Meter!Unsettled(j.retry) ELSE o(r)
  <1>1. /\ at[k] = "settle" /\ j.task = "remainder" /\ Posting(k)
        /\ UNCHANGED <<session, transcript, cursor, claims, file, locks>>
    BY DEF Meter!GroupSettles, Meter!disk, Posting
  <1>2. PICK r \in Meter!Results : Meter!SettleAnswer(h, r) /\ Meter!Ended(k, e(r), FALSE)
    BY <1>0 DEF Meter!GroupSettles
  <1>3. MeterTypes /\ HookInv(k) /\ j \in Jobs /\ j.keyed \in BOOLEAN
    BY DEF MeterInv, MeterTypes, Jobs
  <1>4. /\ h \in Transfers /\ file[h].kind = "none"
        /\ ~j.retry => \A g \in Transfers : \A m \in j.group : Bears(g, m) => g = h
    BY <1>0, <1>1, <1>3 DEF HookInv, Settles, Binds
  <1>5. /\ Served /\ srv' \in [Transfers -> Holds] /\ landing' \subseteq Transfers
        /\ o(r) = "released" => srv'[h].st = "gone"
    BY <1>2, <1>3, <1>4, SettleServed
  <1>6. e(r) \in {"settled", "claimed", "released", "unresolved"}
        /\ (e(r) = "released" => o(r) = "released" /\ ~j.retry)
    BY <1>3, SettleOutcomes DEF Meter!Unsettled
  <1> HIDE DEF o, e
  <1>7. ASSUME e(r) = "released", NEW m \in j.group, NEW g \in Transfers PROVE ~Bears(g, m)'
    <2>1. Bears(g, m)' => Bears(g, m) BY <1>1, <1>5 DEF Served, Bears, Filed, Live
    <2>2. ~Bears(h, m)' BY <1>1, <1>4, <1>5, <1>6, <1>7 DEF Bears, Filed, Live
    <2> QED BY <1>4, <1>6, <1>7, <2>1, <2>2
  <1> QED BY <1>1, <1>2, <1>5, <1>6, <1>7, PostEnds

-----------------------------------------------------------------------------
(* The cursor is saved; a message is claimed. *)

LEMMA SaveKeeps ==
  ASSUME MeterInv, NEW k \in Meter!Hooks, Meter!Save(k) PROVE MeterInv'
  <1> DEFINE j == job[k]
             to == IF j.finished = {} THEN j.next ELSE "sweep"
  <1>0. PICK a : a = j.agent OBVIOUS
  <1>1. /\ at[k] = "save" /\ cursor' = [cursor EXCEPT ![a] = j.mem] /\ Meter!Goes(k, to)
        /\ UNCHANGED <<session, transcript, claims, file, locks, srv, landing, job>>
    BY <1>0 DEF Meter!Save, Meter!server
  <1>2. /\ MeterTypes /\ HookInv(k) /\ j \in Jobs /\ j.mem \in Cursors /\ DiskInv
        /\ Past(k) /\ Working(k) /\ a \in Meter!Owners
        /\ j.next \in {"unlock", "authorize", "post"}
    BY <1>0, <1>1, Shapes DEF MeterInv, MeterTypes, HookInv, Placed, Past, Working
  <1>3. Alone(k) /\ at'[k] = to /\ job'[k] = j BY <1>1, <1>2, GoesOn
  <1>4. cursor' \in [Meter!Owners -> Cursors] /\ \A b \in Meter!Owners :
        cursor'[b] = IF b = a THEN j.mem ELSE cursor[b]
    BY <1>1, <1>2 DEF MeterTypes
  <1>5. MeterTypes'
    <2>1. at' \in [Meter!Hooks -> Places] BY <1>1, <1>2 DEF MeterTypes, Meter!Goes, Places
    <2> QED BY <1>1, <1>2, <1>4, <2>1 DEF MeterTypes
  <1> HIDE DEF to
  <1>6. \A h \in Transfers : /\ \A m \in Messages : Bears(h, m)' <=> Bears(h, m)
                             /\ Filed(h)' <=> Filed(h)
                             /\ Residual(h)' <=> Residual(h)
    BY <1>1 DEF Bears, Filed, Live, Residual
  <1>7. DiskInv'
    <2>1. FileInv' /\ UnitInv' BY <1>1, <1>2, <1>6 DEF DiskInv, FileInv, UnitInv, SameKey
    <2>2. OwedInv'
      <3>1. ASSUME NEW h \in Transfers, NEW m \in Messages, Bears(h, m), srv[h].agent = a
            PROVE  Covers(j.mem, m) \/ Residual(h)
        BY <1>0, <1>2, <3>1 DEF HookInv, Remembers
      <3>2. \A h \in Transfers : \A m \in Messages : Bears(h, m) => srv[h].agent \in Meter!Owners
        BY <1>2 DEF DiskInv, FileInv, Bears, Filed, Live
      <3> QED BY <1>1, <1>2, <1>4, <1>6, <3>1, <3>2 DEF DiskInv, OwedInv, Covers
    <2>3. ASSUME NEW b \in Meter!Owners PROVE Sound(cursor[b], b)'
      <3>1. Sound(IF b = a THEN j.mem ELSE cursor[b], b)
        BY <1>0, <1>2 DEF HookInv, Remembers, DiskInv, SoundInv
      <3>2. cursor'[b] \in Cursors BY <1>4
      <3> QED BY <1>1, <1>4, <1>6, <3>1, <3>2, SoundFewer
    <2> QED BY <2>1, <2>2, <2>3 DEF DiskInv, SoundInv
  <1>8. ASSUME NEW l \in Meter!Hooks, l # k PROVE HookInv(l)'
    <2>1. HookInv(l) /\ at'[l] = at[l] /\ job'[l] = job[l] /\ job[l] \in Jobs
      BY <1>3, <1>8, <1>2 DEF MeterInv, Alone, MeterTypes
    <2>2. Working(l) => job[l].agent # a BY <1>0, <1>2, <1>8, OnlyHolder
    <2>3. \A n \in Meter!Hooks : Meter!Dead(n) => Meter!Dead(n)'
      BY <1>1, <1>3 DEF Alone, Meter!Dead
    <2>4. Placed(l)' BY <1>1, <1>4, <2>1, <2>2 DEF HookInv, Placed, Working, Past, Posting
    <2>5. Settles(l)' /\ Sweeps(l)' /\ Owns(l)'
      BY <1>1, <2>1, <2>3 DEF HookInv, Settles, Sweeps, Owns, Posting, Past, Binding, Filed
    <2>6. \A m \in Messages : Covers(job[l].mem, m)' <=> Covers(job[l].mem, m)
      BY <2>1 DEF Covers
    <2>7. Lists(l)' BY <1>1, <1>6, <2>1, <2>6 DEF HookInv, Lists
    <2>8. Remembers(l)'
      <3>1. Working(l) => Sound(job[l].mem, job[l].agent)'
        BY <1>1, <1>6, <2>1, Shapes, SoundFewer DEF HookInv, Remembers
      <3> QED BY <1>1, <1>6, <2>1, <2>6, <3>1 DEF HookInv, Remembers, Working, Past, Posting
    <2>9. Binds(l)'
      BY <1>1, <1>6, <2>1 DEF HookInv, Binds, Binding, Retrying, Posting, Jobs
    <2> QED BY <2>4, <2>5, <2>7, <2>8, <2>9 DEF HookInv
  <1>9. HookInv(k)'
    <2>1. Placed(k)'
      BY <1>0, <1>1, <1>2, <1>3, <1>4 DEF HookInv, Placed, Binds, Working, Past, Posting, to
    <2>2. Settles(k)' /\ Lists(k)' BY <1>2, <1>3 DEF Settles, Lists, Posting, to
    <2>3. Sweeps(k)'
      BY <1>1, <1>2, <1>3 DEF HookInv, Sweeps, Filed, Meter!Dead, Alone
    <2>4. Remembers(k)'
      <3>1. Sound(job[k].mem, job[k].agent)'
        BY <1>1, <1>2, <1>3, <1>6, SoundFewer DEF HookInv, Remembers
      <3>2. \A m \in Messages : Covers(job[k].mem, m)' <=> Covers(j.mem, m) BY <1>3 DEF Covers
      <3> QED BY <1>1, <1>2, <1>3, <1>6, <3>1, <3>2 DEF HookInv, Remembers
    <2>5. Binds(k)'
      BY <1>1, <1>2, <1>3, <1>6 DEF HookInv, Binds, Binding, Retrying, Posting, Jobs, to
    <2>6. Owns(k)' BY <1>1, <1>2, <1>3 DEF HookInv, Owns, Binds, Past, Posting, Binding, to
    <2> QED BY <2>1, <2>2, <2>3, <2>4, <2>5, <2>6 DEF HookInv
  <1> QED BY <1>5, <1>7, <1>8, <1>9 DEF MeterInv

LEMMA ClaimKeeps ==
  ASSUME MeterInv, NEW k \in Meter!Hooks, Meter!Claim(k) PROVE MeterInv'
  <1> DEFINE j == job[k]
  <1>1. PICK m \in Meter!Unclaimed(k) :
          /\ at[k] = "claim" /\ claims' = [claims EXCEPT ![m] = IF @ = None THEN j.agent ELSE @]
          /\ Meter!Knows(k, [j EXCEPT !.mem = Meter!Claimed(j.mem, m)])
          /\ UNCHANGED <<session, transcript, cursor, file, locks, srv, landing, at>>
    BY DEF Meter!Claim, Meter!server
  <1> DEFINE d == Meter!Claimed(j.mem, m)
             j2 == [j EXCEPT !.mem = d]
  <1>2. /\ MeterTypes /\ HookInv(k) /\ j \in Jobs /\ j.mem \in Cursors /\ DiskInv
        /\ Past(k) /\ Working(k) /\ j.agent \in Meter!Owners
    BY <1>1, Shapes DEF MeterInv, MeterTypes, HookInv, Placed, Past, Working
  <1>3. m \in Messages /\ m \notin j.mem.claimed
    BY <1>2 DEF Meter!Unclaimed, Meter!selectNew, Cursors
  <1>4. /\ d \in Cursors /\ d.assigned \subseteq j.mem.assigned
        /\ d.unresolved = j.mem.unresolved
        /\ d.claimed = IF claims[m] = None THEN j.mem.claimed \cup {m} ELSE j.mem.claimed
        /\ \A n \in Messages : n # m => (Covers(d, n) <=> Covers(j.mem, n))
        /\ claims[m] # None => Covers(d, m)
    <2>1. CASE claims[m] = None
      <3>1. d = [j.mem EXCEPT !.claimed = @ \cup {m}] BY <2>1 DEF Meter!Claimed
      <3> QED BY <1>2, <1>3, <2>1, <3>1 DEF Cursors, Covers
    <2>2. CASE claims[m] # None
      <3>1. d = Meter!accountIds(j.mem, {m}) BY <2>2 DEF Meter!Claimed
      <3>2. /\ d \in Cursors /\ d.claimed = j.mem.claimed \ {m}
            /\ d.assigned = j.mem.assigned \ {m}
            /\ d.unresolved = j.mem.unresolved
        BY <1>2, <1>3, <3>1, CursorOps
      <3> QED BY <1>3, <2>2, <3>2 DEF Covers
    <2> QED BY <2>1, <2>2
  <1> HIDE DEF d
  <1>5. j2 \in Jobs /\ j2.mem = d /\ \A f \in Parts \ {"mem"} : j2[f] = j[f]
    BY <1>2, <1>4, Shapes DEF Parts, Jobs
  <1>6. Meter!Goes(k, "claim") BY <1>1, <1>2 DEF Meter!Goes, MeterTypes
  <1>7. Alone(k) /\ at'[k] = "claim" /\ job'[k] = j2 BY <1>1, <1>2, <1>6, GoesAlone DEF d
  <1>8. /\ claims' \in [Messages -> Meter!Owners \cup {None}]
        /\ \A n \in Messages : claims'[n] = IF n = m /\
                               claims[m] = None THEN j.agent ELSE claims[n]
    BY <1>1, <1>2, <1>3 DEF MeterTypes
  <1>9. MeterTypes'
    <2>1. job' \in [Meter!Hooks -> Jobs] BY <1>1, <1>2, <1>5 DEF MeterTypes, Meter!Knows, d
    <2> QED BY <1>1, <1>2, <1>8, <2>1 DEF MeterTypes
  <1> HIDE DEF j2
  <1>10. \A h \in Transfers : /\ \A n \in Messages : Bears(h, n)' <=> Bears(h, n)
                              /\ Filed(h)' <=> Filed(h)
                              /\ Residual(h)' <=> Residual(h)
    BY <1>1 DEF Bears, Filed, Live, Residual
  <1>11. \A n \in Messages : \A b \in Meter!Owners : claims[n] = b => claims'[n] = b
    BY <1>8, MeterAssumption
  <1>12. \A h \in Transfers : \A n \in Messages : Bears(h, n) => srv[h].agent \in Meter!Owners
    BY <1>2 DEF DiskInv, FileInv, Bears, Filed, Live
  <1>13. ASSUME claims[m] = None, NEW h \in Transfers PROVE ~Bears(h, m)
    BY <1>2, <1>3, <1>12, <1>13, MeterAssumption DEF DiskInv, OwedInv
  <1>14. ASSUME NEW c \in Cursors, NEW b \in Meter!Owners, Sound(c, b) PROVE Sound(c, b)'
    <2>1. \A n \in c.claimed : claims'[n] = b BY <1>11, <1>14 DEF Sound, Cursors
    <2>2. \A v \in c.unresolved : \A n \in v : claims'[n] = b BY <1>11, <1>14 DEF Sound, Cursors
    <2> QED BY <1>1, <1>10, <1>14, <2>1, <2>2 DEF Sound, Cursors
  <1>15. DiskInv'
    <2>1. FileInv' /\ UnitInv' BY <1>1, <1>2, <1>10 DEF DiskInv, FileInv, UnitInv, SameKey
    <2>2. OwedInv'
      BY <1>1, <1>2, <1>10, <1>11, <1>12 DEF DiskInv, OwedInv, Covers
    <2>3. ASSUME NEW b \in Meter!Owners PROVE Sound(cursor[b], b)'
      <3>1. Sound(cursor[b], b) /\ cursor[b] \in Cursors
        BY <1>2 DEF DiskInv, SoundInv, MeterTypes
      <3>2. cursor'[b] = cursor[b] BY <1>1
      <3> QED BY <1>14, <3>1, <3>2
    <2> QED BY <2>1, <2>2, <2>3 DEF DiskInv, SoundInv
  <1>16. ASSUME NEW l \in Meter!Hooks, l # k PROVE HookInv(l)'
    <2>1. HookInv(l) /\ at'[l] = at[l] /\ job'[l] = job[l] /\ job[l] \in Jobs /\
          job[l].mem \in Cursors
      BY <1>2, <1>7, <1>16, Shapes DEF MeterInv, Alone, MeterTypes
    <2>2. Placed(l)' BY <1>1, <2>1 DEF HookInv, Placed, Working, Past, Posting
    <2>3. Settles(l)' /\ Sweeps(l)' /\ Owns(l)'
      BY <1>1, <2>1 DEF HookInv, Settles, Sweeps, Owns, Posting, Past, Binding, Filed,
        Meter!Dead
    <2>4. \A n \in Messages : Covers(job[l].mem, n)' <=> Covers(job[l].mem, n)
      BY <2>1 DEF Covers
    <2>5. Lists(l)' BY <1>1, <1>10, <2>1, <2>4 DEF HookInv, Lists
    <2>6. Remembers(l)'
      <3>1. Working(l) => job[l].agent \in Meter!Owners
        BY <2>1 DEF HookInv, Placed, Working, Past, Posting
      <3>2. Working(l) => Sound(job[l].mem, job[l].agent)'
        BY <1>14, <2>1, <3>1 DEF HookInv, Remembers
      <3> QED BY <1>1, <1>10, <2>1, <2>4, <3>2 DEF HookInv, Remembers, Working, Past, Posting
    <2>7. Binds(l)'
      <3>1. ASSUME Binding(l) \/ Retrying(l) \/ at[l] = "record" \/ Posting(l),
                   NEW n \in job[l].group
            PROVE  claims'[n] = job[l].agent
        <4>1. n \in Messages BY <2>1 DEF Jobs
        <4>2. claims[n] = job[l].agent BY <2>1, <3>1 DEF HookInv, Binds
        <4>3. job[l].agent \in Meter!Owners
          BY <2>1, <3>1 DEF HookInv, Placed, Posting, Binding, Retrying
        <4> QED BY <1>11, <4>1, <4>2, <4>3
      <3> QED BY <1>1, <1>10, <2>1, <3>1 DEF HookInv, Binds, Binding, Retrying, Posting, Jobs
    <2> QED BY <2>2, <2>3, <2>5, <2>6, <2>7 DEF HookInv
  <1>17. HookInv(k)'
    <2>1. Placed(k)'
      BY <1>1, <1>2, <1>5, <1>7 DEF HookInv, Placed, Working, Past, Posting, Parts
    <2>2. Settles(k)' /\ Lists(k)' /\ Binds(k)' /\ Owns(k)'
      BY <1>7 DEF Settles, Lists, Binds, Owns, Binding, Retrying, Posting
    <2>3. Sweeps(k)'
      BY <1>1, <1>2, <1>5, <1>7 DEF HookInv, Sweeps, Filed, Meter!Dead, Parts
    <2>4. Remembers(k)'
      <3>1. Sound(j.mem, j.agent) BY <1>2 DEF HookInv, Remembers
      <3>2. Sound(job[k].mem, job[k].agent)'
        <4>1. \A n \in d.claimed : claims'[n] = j.agent
          BY <1>2, <1>3, <1>4, <1>8, <1>11, <3>1 DEF Sound, Cursors
        <4>2. \A v \in d.unresolved : \A n \in v : claims'[n] = j.agent
          BY <1>2, <1>4, <1>11, <3>1 DEF Sound, Cursors
        <4>3. job'[k].mem = d /\ job'[k].agent = j.agent BY <1>5, <1>7 DEF Parts
        <4>4. \A v \in d.unresolved : \A h \in Transfers : \A n \in v :
                Bears(h, n)' => srv'[h].keyed /\ srv'[h].agent = j.agent /\ srv'[h].ids = v
          BY <1>1, <1>4, <1>10, <3>1 DEF Sound, Cursors
        <4>5. \A n \in d.assigned : \A g, h \in Transfers :
                Bears(g, n)' /\ Bears(h, n)' /\ srv'[h].agent = j.agent => g = h
          BY <1>1, <1>4, <1>10, <3>1 DEF Sound, Cursors
        <4>6. /\ \A v, w \in d.unresolved : \A n \in v : n \in w => v = w
              /\ \A v \in d.unresolved : \A n \in v : n \notin d.assigned
          BY <1>4, <3>1 DEF Sound
        <4> QED BY <4>1, <4>2, <4>3, <4>4, <4>5, <4>6 DEF Sound
      <3>3. ASSUME NEW h \in Transfers, NEW n \in Messages, Bears(h, n), ~Covers(d, n)
            PROVE  ~Covers(j.mem, n)
        BY <1>4, <1>13, <3>3
      <3>4. \A n \in Messages : Covers(job[k].mem, n)' <=> Covers(d, n) BY <1>5, <1>7 DEF Covers
      <3> QED BY <1>1, <1>2, <1>5, <1>7, <1>10, <3>2, <3>3, <3>4
               DEF HookInv, Remembers, Parts
    <2> QED BY <2>1, <2>2, <2>3, <2>4 DEF HookInv
  <1> QED BY <1>9, <1>15, <1>16, <1>17 DEF MeterInv

-----------------------------------------------------------------------------
(* The journal is read. *)

(* What a reconcile makes of a cursor. *)
Vehicles(D, S) ==
  {file[h].ids : h \in {g \in {f \in D : file[f].outcome = "unresolved"} \cup S : file[g].keyed}}

Reconciled(c, D, S, d) ==
  /\ d \in Cursors /\ d.claimed \subseteq c.claimed /\ d.assigned \subseteq c.assigned
  /\ d.unresolved = c.unresolved \cup Vehicles(D, S)
  /\ \A v \in Vehicles(D, S) : \A m \in v : m \notin d.assigned
  /\ \A m \in Messages : Covers(c, m) /\ ~Covers(d, m) =>
       /\ m \in c.assigned
       /\ \E h \in D : file[h].outcome = "released" /\ m \in file[h].ids
  /\ \A m \in Meter!IdsOf(S) : Covers(d, m)

LEMMA ReconcileOps ==
  ASSUME MeterTypes, NEW c \in Cursors, NEW D \in SUBSET Transfers, NEW S \in SUBSET Transfers,
         NEW live \in SUBSET Messages
  PROVE  Reconciled(c, D, S, Meter!reconcile(c, D, S, live))
  <1> DEFINE d == Meter!reconcile(c, D, S, live)
             U == {h \in D : file[h].outcome = "unresolved"} \cup S
             V == Vehicles(D, S)
             with(o) == {h \in D : file[h].outcome = o}
             keyed == {h \in U : file[h].keyed}
             R == Meter!IdsOf(with("released"))
             P == Meter!IdsOf(with("settled"))
             A == Meter!IdsOf(with("claimed") \cup (U \ keyed))
             one == Meter!releaseIds(c, R)
             two == Meter!postIds(one, P)
             read == Meter!accountIds(two, A)
             kept == Meter!keepUnresolved(read, V)
             B == kept.assigned \ live
  <1>1. d = Meter!accountIds(kept, B) /\ V = {file[h].ids : h \in keyed}
    BY DEF Meter!reconcile, Vehicles
  <1>2. \A h \in Transfers : file[h].ids \in SUBSET Messages BY DEF MeterTypes, Files
  <1>3. /\ R \in SUBSET Messages /\ P \in SUBSET Messages /\ A \in SUBSET Messages
        /\ V \in SUBSET SUBSET Messages /\ UNION V \in SUBSET Messages
    BY <1>1, <1>2 DEF Meter!IdsOf
  <1>4. Meter!IdsOf(S) \subseteq A \cup UNION V BY <1>1 DEF Meter!IdsOf
  <1>5. \A m \in R : \E h \in D : file[h].outcome = "released" /\ m \in file[h].ids
    BY DEF Meter!IdsOf
  <1> HIDE DEF R, P, A, V, d
  <1>6. one \in Cursors /\ one.claimed = c.claimed /\ one.assigned = c.assigned \ R
        /\ one.unresolved = c.unresolved
    BY <1>3, CursorOps
  <1> HIDE DEF one
  <1>7. two \in Cursors /\ two.claimed = c.claimed \ P /\ two.assigned = (c.assigned \ R) \ P
        /\ two.unresolved = c.unresolved
    BY <1>3, <1>6, CursorOps
  <1> HIDE DEF two
  <1>8. read \in Cursors /\ read.claimed = (c.claimed \ P) \ A /\
        read.assigned = ((c.assigned \ R) \ P) \ A
        /\ read.unresolved = c.unresolved
    BY <1>3, <1>7, CursorOps
  <1> HIDE DEF read
  <1>9. kept \in Cursors /\ kept.claimed = read.claimed /\
        kept.assigned = read.assigned \ UNION V
        /\ kept.unresolved = c.unresolved \cup V
    <2> DEFINE let == Meter!releaseIds(read, UNION V)
    <2>1. let \in Cursors /\ let.claimed = read.claimed /\
          let.assigned = read.assigned \ UNION V
          /\ let.unresolved = read.unresolved
      BY <1>3, <1>8, CursorOps
    <2>2. kept = [let EXCEPT !.unresolved = @ \cup V] BY DEF Meter!keepUnresolved
    <2> HIDE DEF let
    <2>3. [let EXCEPT !.unresolved = @ \cup V] \in Cursors BY <1>3, <2>1 DEF Cursors
    <2>4. /\ [let EXCEPT !.unresolved = @ \cup V].claimed = let.claimed
          /\ [let EXCEPT !.unresolved = @ \cup V].assigned = let.assigned
          /\ [let EXCEPT !.unresolved = @ \cup V].unresolved = let.unresolved \cup V
      BY <2>1 DEF Cursors
    <2> QED BY <1>8, <2>1, <2>2, <2>3, <2>4
  <1> HIDE DEF kept
  <1>10. B \in SUBSET Messages BY <1>9 DEF Cursors
  <1>11. /\ d \in Cursors /\ d.claimed = kept.claimed \ B /\ d.assigned = kept.assigned \ B
         /\ d.unresolved = kept.unresolved
    BY <1>1, <1>9, <1>10, CursorOps
  <1> HIDE DEF B
  <1>12. ASSUME NEW m \in Messages, Covers(c, m), ~Covers(d, m)
         PROVE  m \in c.assigned /\ m \in R
    <2>1. m \in d.claimed /\ m \notin d.assigned /\ m \notin UNION d.unresolved
      BY <1>12 DEF Covers
    <2>2. m \in c.assigned BY <1>8, <1>9, <1>11, <1>12, <2>1 DEF Covers
    <2> QED BY <1>8, <1>9, <1>11, <2>1, <2>2
  <1>13. \A m \in Meter!IdsOf(S) : Covers(d, m) BY <1>4, <1>8, <1>9, <1>11 DEF Covers
  <1> QED BY <1>5, <1>8, <1>9, <1>11, <1>12, <1>13 DEF Reconciled, V, d

LEMMA IngestOps ==
  ASSUME MeterTypes, NEW c \in Cursors, NEW a \in Meter!Owners
  PROVE  /\ Meter!ingest(c, a) \in Cursors /\ Meter!ingest(c, a).claimed = c.claimed
         /\ Meter!ingest(c, a).assigned = c.assigned
         /\ Meter!ingest(c, a).unresolved = c.unresolved
  <1>1. transcript[a] \in SUBSET Messages BY DEF MeterTypes
  <1> QED BY <1>1 DEF Meter!ingest, Cursors

LEMMA ReconcileKeeps ==
  ASSUME MeterInv, NEW k \in Meter!Hooks, Meter!Reconcile(k) PROVE MeterInv'
  <1> DEFINE j == job[k]
             done == Meter!Reads(k, "done")
             busy == Meter!Reads(k, "settling")
             livesOf(T) == Meter!IdsOf(Meter!Reads(k, "live") \cup (busy \ T))
             cOf(T) == Meter!reconcile(j.mem, done, T, livesOf(T))
             to == IF j.task = "journal" THEN "save" ELSE "claim"
  <1>0. PICK a : a = j.agent OBVIOUS
  <1>1. /\ at[k] = "reconcile" /\ Meter!Goes(k, to)
        /\ UNCHANGED <<session, transcript, cursor, claims, file, locks, srv, landing>>
    BY DEF Meter!Reconcile, Meter!disk, Meter!server
  <1>2. PICK S \in SUBSET {h \in busy : Meter!Dead(file[h].by)} :
          Meter!Knows(k, [j EXCEPT !.listed = {}, !.live = livesOf(S),
            !.finished = {<<h, "done">> : h \in done} \cup {<<h, "settling">> : h \in S},
            !.mem = IF j.task = "journal" THEN cOf(S) ELSE Meter!ingest(cOf(S), j.agent),
            !.next = "unlock"])
    BY DEF Meter!Reconcile
  <1> DEFINE live == livesOf(S)
             c == cOf(S)
             d == IF j.task = "journal" THEN c ELSE Meter!ingest(c, j.agent)
             fin == {<<h, "done">> : h \in done} \cup {<<h, "settling">> : h \in S}
             j2 == [j EXCEPT !.listed = {}, !.live = live, !.finished = fin, !.mem = d,
                             !.next = "unlock"]
             V == Vehicles(done, S)
  <1>3. /\ MeterTypes /\ HookInv(k) /\ j \in Jobs /\ j.mem \in Cursors /\ DiskInv /\ Working(k)
        /\ a \in Meter!Owners /\ Sound(j.mem, a) /\ j.mem = cursor[a]
    BY <1>0, <1>1, Shapes DEF MeterInv, MeterTypes, HookInv, Placed, Remembers, Working
  <1>4. /\ done \in SUBSET Transfers /\ busy \in SUBSET Transfers /\ S \in SUBSET Transfers
        /\ \A h \in done : /\ file[h].kind \in {"done", "both"}
                           /\ <<h, "done">> \in j.listed \/ <<h, "both">> \in j.listed
        /\ \A h \in busy : /\ file[h].kind \in {"settling", "both"}
                           /\ <<h, "settling">> \in j.listed \/ <<h, "both">> \in j.listed
        /\ \A h \in Transfers : file[h].kind \in {"done", "both"} /\
             (<<h, "done">> \in j.listed \/ <<h, "both">> \in j.listed) => h \in done
        /\ \A h \in Transfers : file[h].kind \in {"settling", "both"} /\
             (<<h, "settling">> \in j.listed \/ <<h, "both">> \in j.listed) => h \in busy
        /\ Meter!Reads(k, "live") \in SUBSET Transfers
    BY DEF Meter!Reads, Meter!Named
  <1>5. \A h \in done \cup busy : Filed(h) /\ srv[h].st # "free" /\ srv[h].agent = a
    <2>1. \A e \in j.listed : srv[e[1]].st # "free" /\ srv[e[1]].agent = a
      BY <1>0, <1>1, <1>3 DEF HookInv, Lists
    <2>2. ASSUME NEW h \in done \cup busy PROVE srv[h].st # "free" /\ srv[h].agent = a
      <3>1. PICK x : <<h, x>> \in j.listed BY <1>4
      <3> QED BY <2>1, <3>1
    <2> QED BY <1>4, <2>2 DEF Filed
  <1>6. live \in SUBSET Messages
    <2>1. \A h \in Transfers : file[h].ids \in SUBSET Messages BY <1>3 DEF MeterTypes, Files
    <2> QED BY <1>4, <2>1 DEF Meter!IdsOf
  <1>7. \A h \in busy \ S : \A m \in file[h].ids : m \in live BY DEF Meter!IdsOf
  <1>8. /\ c \in Cursors /\ c.claimed \subseteq j.mem.claimed
        /\ c.assigned \subseteq j.mem.assigned
        /\ c.unresolved = j.mem.unresolved \cup V
        /\ \A v \in V : \A m \in v : m \notin c.assigned
        /\ \A m \in Messages : Covers(j.mem, m) /\ ~Covers(c, m) =>
             /\ m \in j.mem.assigned
             /\ \E h \in done : file[h].outcome = "released" /\ m \in file[h].ids
        /\ \A m \in Meter!IdsOf(S) : Covers(c, m)
    <2> HIDE DEF live, done, busy
    <2>1. c = Meter!reconcile(j.mem, done, S, live) BY DEF live
    <2> HIDE DEF c
    <2>2. Reconciled(j.mem, done, S, Meter!reconcile(j.mem, done, S, live))
      BY <1>3, <1>4, <1>6, ReconcileOps
    <2> QED BY <2>1, <2>2 DEF Reconciled
  <1>9. \A v \in V : \E h \in done \cup S : file[h].keyed /\ v = file[h].ids
    BY DEF Vehicles
  <1> HIDE DEF c, V, live, done, busy
  <1>10. d \in Cursors /\ d.claimed = c.claimed /\ d.assigned = c.assigned /\
         d.unresolved = c.unresolved
    BY <1>0, <1>3, <1>8, IngestOps
  <1> HIDE DEF d
  <1>11. fin \in SUBSET (Transfers \X {"done", "settling"}) BY <1>4
  <1>12. /\ j2 \in Jobs /\ j2.live = live /\ j2.finished = fin /\ j2.mem = d
         /\ j2.next = "unlock"
         /\ \A f \in Parts \ {"listed", "live", "finished", "mem", "next"} : j2[f] = j[f]
    <2> HIDE DEF fin
    <2> QED BY <1>3, <1>6, <1>10, <1>11, Shapes DEF Parts, Jobs
  <1>13. Meter!Knows(k, j2) BY <1>2 DEF d, c, live, done, busy
  <1> HIDE DEF j2
  <1>14. Alone(k) /\ at'[k] = to /\ job'[k] = j2 BY <1>1, <1>3, <1>13, GoesAlone
  <1>15. MeterTypes' BY <1>1, <1>3, <1>12, <1>13, TypesKept DEF Places
  <1>16. \A h \in done \cup S : \A m \in file[h].ids : Bears(h, m) /\ file[h].ids = srv[h].ids
                                                       /\ file[h].keyed = srv[h].keyed
    <2>1. \A h \in done \cup S : h \in Transfers /\ Filed(h) BY <1>4, <1>5
    <2> QED BY <1>3, <2>1 DEF DiskInv, FileInv, Bears
  <1>17. \A h \in done \cup S : file[h].ids \in SUBSET Messages
    BY <1>3, <1>4 DEF MeterTypes, Files
  <1> SUFFICES HookInv(k)'
    BY <1>1, <1>14, <1>15, SameServed, StepServed DEF SameLocks, Meter!Dead
  <1>18. Sound(c, a)
    <2>1. ASSUME NEW v \in V PROVE \A m \in v : claims[m] = a
      <3>1. PICK h \in done \cup S : v = file[h].ids BY <1>9
      <3>2. \A m \in v : m \in Messages /\ Bears(h, m) BY <1>16, <1>17, <3>1
      <3>3. srv[h].agent = a /\ h \in Transfers BY <1>4, <1>5
      <3> QED BY <1>3, <3>2, <3>3 DEF DiskInv, OwedInv
    <2>2. ASSUME NEW v \in V, NEW g \in Transfers, NEW m \in v, Bears(g, m)
          PROVE  srv[g].keyed /\ srv[g].agent = a /\ srv[g].ids = v
      <3>1. PICK h \in done \cup S : file[h].keyed /\ v = file[h].ids BY <1>9
      <3>2. m \in Messages /\ Bears(h, m) /\ v = srv[h].ids /\ srv[h].keyed
        BY <1>16, <1>17, <3>1
      <3>3. srv[h].agent = a /\ h \in Transfers BY <1>4, <1>5
      <3>4. g = h \/ SameKey(g, h) BY <1>3, <2>2, <3>2, <3>3 DEF DiskInv, UnitInv
      <3> QED BY <3>2, <3>3, <3>4 DEF SameKey
    <2>3. ASSUME NEW v \in j.mem.unresolved, NEW w \in V, NEW m, m \in v, m \in w PROVE v = w
      <3>1. PICK h \in done \cup S : w = file[h].ids BY <1>9
      <3>2. Bears(h, m) /\ w = srv[h].ids /\ h \in Transfers BY <1>4, <1>16, <2>3, <3>1
      <3> QED BY <1>3, <2>3, <3>2 DEF Sound
    <2>4. ASSUME NEW v \in V, NEW w \in V, NEW m, m \in v, m \in w PROVE v = w
      <3>1. PICK h \in done \cup S : v = file[h].ids BY <1>9
      <3>2. PICK g \in done \cup S : w = file[g].ids BY <1>9
      <3>3. /\ h \in Transfers /\ g \in Transfers /\ Filed(h) /\ Filed(g) /\ m \in Messages
            /\ Bears(h, m) /\ Bears(g, m)
        BY <1>4, <1>5, <1>16, <1>17, <2>4, <3>1, <3>2
      <3>4. g = h BY <1>3, <3>3 DEF DiskInv, UnitInv
      <3> QED BY <3>1, <3>2, <3>4
    <2>5. \A v \in c.unresolved : \A m \in v : claims[m] = a BY <1>3, <1>8, <2>1 DEF Sound
    <2>6. \A v \in c.unresolved : \A h \in Transfers : \A m \in v :
            Bears(h, m) => srv[h].keyed /\ srv[h].agent = a /\ srv[h].ids = v
      BY <1>3, <1>8, <2>2 DEF Sound
    <2>7. \A v, w \in c.unresolved : \A m \in v : m \in w => v = w
      BY <1>3, <1>8, <2>3, <2>4 DEF Sound
    <2>8. \A v \in c.unresolved : \A m \in v : m \notin c.assigned BY <1>3, <1>8 DEF Sound
    <2>9. \A m \in c.claimed : claims[m] = a BY <1>3, <1>8 DEF Sound
    <2>10. \A m \in c.assigned : \A g, h \in Transfers :
             Bears(g, m) /\ Bears(h, m) /\ srv[h].agent = a => g = h
      BY <1>3, <1>8 DEF Sound
    <2> QED BY <2>5, <2>6, <2>7, <2>8, <2>9, <2>10 DEF Sound
  <1>19. ASSUME NEW h \in Transfers, NEW m \in Messages, Bears(h, m), srv[h].agent = a,
                ~Covers(c, m)
         PROVE  Residual(h) /\ (m \in live \/ (file[h].kind = "done" /\ <<h, "done">> \in fin))
    <2>1. Residual(h) /\ (h \in busy \/ (file[h].kind = "done" /\ h \in done))
      <3>1. CASE Covers(j.mem, m)
        <4>1. PICK g \in done : file[g].outcome = "released" /\ m \in file[g].ids
          BY <1>8, <1>19, <3>1
        <4>2. m \in j.mem.assigned BY <1>8, <1>19, <3>1
        <4>3. Bears(g, m) /\ g \in Transfers BY <1>4, <1>16, <4>1
        <4>4. g = h BY <1>3, <1>19, <4>2, <4>3 DEF Sound
        <4>5. file[h].kind \in {"done", "both"} BY <1>4, <4>4
        <4>6. Residual(h) BY <4>1, <4>4, <4>5 DEF Residual
        <4>7. CASE file[h].kind = "done" BY <4>4, <4>6, <4>7
        <4>8. CASE file[h].kind = "both"
          <5>1. <<h, "done">> \notin j.listed BY <1>1, <1>3, <4>8 DEF HookInv, Lists
          <5>2. <<h, "both">> \in j.listed BY <1>4, <4>4, <5>1
          <5> QED BY <1>4, <4>6, <4>8, <5>2
        <4> QED BY <4>5, <4>7, <4>8
      <3>2. CASE ~Covers(j.mem, m)
        <4>1. Residual(h) BY <1>3, <1>19, <3>2 DEF DiskInv, OwedInv
        <4>2. <<h, "both">> \in j.listed \/ <<h, file[h].kind>> \in j.listed
          BY <1>0, <1>1, <1>3, <1>19, <3>2 DEF HookInv, Lists
        <4> QED BY <1>4, <4>1, <4>2 DEF Residual
      <3> QED BY <3>1, <3>2
    <2>2. m \in file[h].ids
      BY <1>3, <1>19, <2>1 DEF DiskInv, FileInv, Residual, Bears, Filed
    <2>3. CASE file[h].kind = "done" /\ h \in done BY <2>1, <2>3
    <2>4. CASE h \in busy
      <3>1. h \notin S BY <1>8, <1>19, <2>2 DEF Meter!IdsOf
      <3> QED BY <1>7, <2>1, <2>2, <2>4, <3>1 DEF live
    <2> QED BY <2>1, <2>3, <2>4
  <1>20. Placed(k)'
    BY <1>0, <1>1, <1>3, <1>12, <1>14 DEF HookInv, Placed, Working, Past, Posting, Parts
  <1>21. Settles(k)' /\ Lists(k)' BY <1>14 DEF Settles, Lists, Posting
  <1>22. Sweeps(k)'
    <2>1. ASSUME NEW h \in Transfers, <<h, "settling">> \in fin PROVE h \in S BY <2>1
    <2>2. ASSUME NEW h \in S
          PROVE  /\ srv[h].st # "free" /\ srv[h].agent = a /\ file[h].kind # "live"
                 /\ file[h].by \in Meter!Hooks /\ Meter!Dead(file[h].by)
      <3>1. h \in busy /\ Meter!Dead(file[h].by) /\ h \in Transfers BY <1>4
      <3>2. file[h].kind \in {"settling", "both"} BY <1>4, <3>1
      <3> QED BY <1>3, <1>5, <3>1, <3>2 DEF DiskInv, FileInv
    <2>3. \A n \in Meter!Hooks : Meter!Dead(n) => Meter!Dead(n)'
      BY <1>1, <1>14 DEF Alone, Meter!Dead
    <2> HIDE DEF fin
    <2> QED BY <1>0, <1>1, <1>12, <1>14, <2>1, <2>2, <2>3 DEF Sweeps, Parts
  <1>23. Remembers(k)'
    <2>1. Sound(job[k].mem, job[k].agent)'
      <3>1. Sound(d, a) BY <1>8, <1>10, <1>18, SoundShrinks
      <3>2. Served BY <1>1, SameServed
      <3> QED BY <1>0, <1>1, <1>10, <1>12, <1>14, <3>1, <3>2, SoundServed DEF Parts
    <2>2. \A m \in Messages : Covers(job[k].mem, m)' <=> Covers(c, m)
      BY <1>10, <1>12, <1>14 DEF Covers
    <2>3. \A h \in Transfers : /\ \A m \in Messages : Bears(h, m)' <=> Bears(h, m)
                               /\ Residual(h)' <=> Residual(h)
      BY <1>1 DEF Bears, Filed, Live, Residual
    <2> HIDE DEF fin
    <2> QED BY <1>0, <1>1, <1>12, <1>14, <1>19, <2>1, <2>2, <2>3 DEF Remembers, Parts
  <1>24. Binds(k)' /\ Owns(k)'
    BY <1>12, <1>14 DEF Binds, Owns, Binding, Retrying, Past, Posting, Parts
  <1> QED BY <1>20, <1>21, <1>22, <1>23, <1>24 DEF HookInv

-----------------------------------------------------------------------------

LEMMA MeterStarts == Meter!Init => MeterInv
  <1> SUFFICES ASSUME Meter!Init PROVE MeterInv OBVIOUS
  <1>1. Meter!emptyCursor \in Cursors BY DEF Meter!emptyCursor, Cursors
  <1>2. Meter!NoFile \in Files /\ Meter!NoHold \in Holds
    BY DEF Meter!NoFile, Meter!NoHold, Files, Holds, FileKinds, Outcomes
  <1>3. MeterTypes BY <1>1, <1>2, NoJobIsJob DEF Meter!Init, MeterTypes, Meter!Owners, Places
  <1>4. \A h \in Transfers : ~Filed(h) /\ ~Residual(h) /\ srv[h].st = "free" /\
                             \A m \in Messages : ~Bears(h, m)
    BY DEF Meter!Init, Meter!NoFile, Meter!NoHold, Filed, Residual, Bears, Live
  <1>5. FileInv BY <1>4 DEF FileInv, Meter!Init, Meter!NoFile, Filed
  <1>6. UnitInv /\ OwedInv BY <1>4 DEF UnitInv, OwedInv
  <1>7. SoundInv BY DEF Meter!Init, SoundInv, Sound, Meter!emptyCursor
  <1>8. ASSUME NEW k \in Meter!Hooks PROVE HookInv(k)
    <2>1. at[k] = "idle" /\ job[k] = Meter!NoJob BY DEF Meter!Init
    <2>2. Meter!NoJob.task = None /\ ~Meter!NoJob.retry BY DEF Meter!NoJob
    <2> QED BY <2>1, <2>2 DEF HookInv, Placed, Settles, Lists, Sweeps, Remembers, Binds, Owns,
      Working, Past, Posting, Binding, Retrying
  <1> QED BY <1>3, <1>5, <1>6, <1>7, <1>8 DEF MeterInv, DiskInv

LEMMA StepKeeps ==
  ASSUME MeterInv, NEW k \in Meter!Hooks, Meter!Step(k) PROVE MeterInv'
  <1>1. CASE Meter!Open(k) BY <1>1, OpenKeeps
  <1>2. CASE Meter!Busy(k) \/ Meter!Unlock(k) BY <1>2, LeavesKeeps
  <1>3. CASE Meter!Reconcile(k) BY <1>3, ReconcileKeeps
  <1>4. CASE Meter!Save(k) BY <1>4, SaveKeeps
  <1>5. CASE Meter!SaveFails(k) BY <1>5, SaveFailsKeeps
  <1>6. CASE Meter!RemoveFiles(k) BY <1>6, RemoveFilesKeeps
  <1>7. CASE Meter!Claim(k) BY <1>7, ClaimKeeps
  <1>8. CASE Meter!ClaimLeft(k) BY <1>8, ClaimLeftKeeps
  <1>9. CASE Meter!Window(k) BY <1>9, WindowKeeps
  <1>10. CASE Meter!Selected(k) BY <1>10, SelectedKeeps
  <1>11. CASE Meter!PreAuthorizes(k) BY <1>11, PreAuthorizesKeeps
  <1>12. CASE Meter!Record(k) BY <1>12, FileRecordKeeps
  <1>13. CASE Meter!RecordFails(k) BY <1>13, RecordFailsKeeps
  <1>14. CASE Meter!HoldSettles(k) BY <1>14, HoldSettlesKeeps
  <1>15. CASE Meter!Journal(k) BY <1>15, JournalKeeps
  <1>16. CASE Meter!JournalFails(k) \/ Meter!NoLeftovers(k) BY <1>16, NoLeftoversKeeps
  <1>17. CASE Meter!Unlink(k) BY <1>17, UnlinkKeeps
  <1>18. CASE Meter!SettleLeftover(k) BY <1>18, SettleLeftoverKeeps
  <1>19. CASE Meter!NextAgent(k) BY <1>19, NextAgentKeeps
  <1>20. CASE Meter!RetryVehicle(k) BY <1>20, RetryVehicleKeeps
  <1>21. CASE Meter!PostGroup(k) BY <1>21, PostGroupKeeps
  <1>22. CASE Meter!Posted(k) BY <1>22, AllPostedKeeps
  <1>23. CASE Meter!GroupAuthorizes(k) BY <1>23, GroupAuthorizesKeeps
  <1>24. CASE Meter!GroupSettles(k) BY <1>24, GroupSettlesKeeps
  <1> QED BY <1>1, <1>2, <1>3, <1>4, <1>5, <1>6, <1>7, <1>8, <1>9, <1>10, <1>11, <1>12, <1>13,
    <1>14, <1>15, <1>16, <1>17, <1>18, <1>19, <1>20, <1>21, <1>22, <1>23, <1>24 DEF Meter!Step

LEMMA MeterKeeps == MeterInv /\ [Meter!Next]_Meter!vars => MeterInv'
  <1> SUFFICES ASSUME MeterInv, [Meter!Next]_Meter!vars PROVE MeterInv' OBVIOUS
  <1>1. session.hooks \subseteq Meter!Hooks BY MeterAssumption DEF MeterInv, MeterTypes
  <1>2. CASE UNCHANGED Meter!vars
    <2>1. UNCHANGED <<session, transcript, cursor, claims, file, locks, srv, landing, at, job>>
      BY <1>2 DEF Meter!vars, Meter!disk, Meter!server
    <2>2. Served BY <2>1, SameServed
    <2>3. MeterTypes' BY <2>1 DEF MeterInv, MeterTypes
    <2> QED BY <2>1, <2>2, <2>3, HostKeeps
  <1>3. CASE Meter!HostWrites \/ Meter!HostForks BY <1>3, HostWritesKeeps
  <1>4. CASE Meter!LateSettle BY <1>4, LateSettleKeeps
  <1>5. CASE Meter!Expires BY <1>5, ExpiresKeeps
  <1>6. CASE \E a \in Meter!Owners : Meter!LoseCursor(a) BY <1>6, LoseCursorKeeps
  <1>7. CASE \E k \in Pres \cap session.hooks : Meter!PreStarts(k) BY <1>1, <1>7, PreStartsKeeps
  <1>8. CASE \E k \in Posts \cap session.hooks : Meter!PostStarts(k)
    BY <1>1, <1>8, PostStartsKeeps
  <1>9. CASE \E k \in Stops \cap session.hooks : Meter!StopStarts(k)
    BY <1>1, <1>9, StopStartsKeeps
  <1>10. CASE \E k \in session.hooks : Meter!Kill(k) \/ Meter!Step(k)
    BY <1>1, <1>10, KillKeeps, StepKeeps
  <1> QED BY <1>2, <1>3, <1>4, <1>5, <1>6, <1>7, <1>8, <1>9, <1>10 DEF Meter!Next

(* Every transcript message is posted at most once, whatever dies or is    *)
(* lost: by one agent, on one hold (transcript.mjs, selectOwn and the      *)
(* bindings written before every authorize).                               *)
THEOREM MessagePostedOnce == Meter!Spec => []PostedOnce
  <1>1. MeterInv => PostedOnce
    BY DEF MeterInv, DiskInv, UnitInv, PostedOnce, Meter!PostedOnce, Meter!Charges, Bears, Live
  <1> QED BY <1>1, MeterStarts, MeterKeeps, PTL DEF Meter!Spec

-----------------------------------------------------------------------------
(* The trust() client. *)

USE TrustClientAssumption DEF TrustClientAssumption

(* Before its terminal has claimed, and after a settle has. *)
Entering  == {"idle", "admitted", "gate", "hold", "provider"}
Open      == {"live", "returning", "throwing"}
Settling  == {"commit", "post", "posting", "check"}
AtWork    == Settling \cup {"record"}

(* The gate agrees with the call's place. *)
GateInv(c) ==
  /\ pc[c] \in Entering \cup Open => finalizeState[c] = "pending"
  /\ pc[c] \in Settling => finalizeState[c] = "settled"
  /\ pc[c] = "record" => finalizeState[c] = IF IsStream(c) THEN "settled" ELSE "pending"
  /\ pc[c] = "release" => finalizeState[c] # "settled"
  /\ pc[c] = "voiding" => finalizeState[c] = "voided"
  /\ finalizeState[c] = "pending" /\ gen[c] = "body" => pc[c] = "live"

(* A request is the one its place makes, and changes what it may. *)
RequestInv(c) ==
  /\ op[c] = "none" <=> ans[c] = "none"
  /\ op[c] = "hold" <=> pc[c] = "hold"
  /\ op[c] = "post" <=> pc[c] = "posting"
  /\ op[c] = "void" => finalizeState[c] = "voided"
  /\ op[c] = "post" /\ ans[c] = "ok" => tb[c] = "posted"
  /\ op[c] = "void" /\ ans[c] = "ok" => tb[c] = "voided"
  /\ tb[c] = "posted" => finalizeState[c] = "settled"

(* The answer to the caller is that of the gate. *)
ReceiptInv(c) ==
  /\ receipt[c] = "rejected" => finalizeState[c] = "voided"
  /\ receipt[c] \in {"settled", "unsettled"} => finalizeState[c] = "settled"

(* Once its POST is over, a charge is in the ledger or explained. *)
Explained(c) == tb[c] = "posted" \/ "settlement_ambiguous" \in rec[c] \/ auditDegraded
ChargeInv(c) ==
  engine /\ finalizeState[c] = "settled" /\ pc[c] \in {"record", "check", "failed", "over"}
    => Explained(c)

(* Unless the ledger failed a request, a pending transfer is an entry of   *)
(* the engine, or is about to be one.                                      *)
PendingInv(c) ==
  ~faulty /\ tb[c] = "pending" => c \in pendingMap \/ (op[c] = "hold" /\ ans[c] = "ok")

(* What inFlightCount counts: a call until its answer or its stream is     *)
(* handed out.                                                             *)
InCall(c) ==
  \/ pc[c] \in {"admitted", "gate", "hold", "provider", "voiding", "failed"}
  \/ pc[c] \in AtWork /\ ~IsStream(c)
  \/ pc[c] = "release" /\ finalizeState[c] = "pending"

(* What inFlightStreamCount counts: a stream until its terminal settles; a *)
(* helper only until a late signal.                                        *)
Streaming(c) ==
  /\ IsStream(c)
  /\ \/ pc[c] \in Open \cup AtWork
     \/ pc[c] = "release" /\ finalizeState[c] = "voided"
InStream(c) == Streaming(c) /\ (kind[c] = "iter" \/ counted[c])

StreamInv(c) ==
  /\ pc[c] \in Open => IsStream(c)
  /\ pc[c] \in {"returning", "throwing"} => kind[c] = "iter"
  /\ pc[c] = "release" /\ finalizeState[c] = "voided" => IsStream(c)
  /\ counted[c] => kind[c] = "helper" /\ Streaming(c)
  /\ kind[c] = "helper" /\ Streaming(c) => counted[c] \/ late[c]
  /\ pc[c] \in Entering => gen[c] = "start"

CallInv(c) ==
  /\ GateInv(c) /\ RequestInv(c) /\ ReceiptInv(c) /\ ChargeInv(c)
  /\ PendingInv(c) /\ StreamInv(c)

InCalls   == {c \in Calls : InCall(c)}
InStreams == {c \in Calls : InStream(c)}
CountInv ==
  /\ IsFiniteSet(InCalls) /\ inFlightCount = Cardinality(InCalls)
  /\ IsFiniteSet(InStreams) /\ inFlightStreamCount = Cardinality(InStreams)

(* After a drain that did not give up nothing is in flight, and the sweep  *)
(* has in hand all that is pending.                                        *)
Drained == dpc \in {"sweep", "closed"} /\ ~missed
SweepInv ==
  Drained =>
    /\ \A c \in Calls : ~InCall(c) /\ ~InStream(c)
    /\ pendingMap \subseteq entries
    /\ dpc = "closed" => entries = {}

IInv == TypeOK /\ (\A c \in Calls : CallInv(c)) /\ CountInv /\ SweepInv

-----------------------------------------------------------------------------
(* What a step of another call leaves alone. *)
Untouched(d) ==
  /\ kind'[d] = kind[d] /\ pc'[d] = pc[d] /\ finalizeState'[d] = finalizeState[d]
  /\ gen'[d] = gen[d] /\ late'[d] = late[d] /\ counted'[d] = counted[d]
  /\ op'[d] = op[d] /\ ans'[d] = ans[d] /\ tb'[d] = tb[d]
  /\ receipt'[d] = receipt[d] /\ rec'[d] = rec[d]
  /\ d \in pendingMap' <=> d \in pendingMap

(* A call is counted when it comes in and no longer when it leaves. *)
Moves(in, inNext, n, nNext) ==
  nNext = n + (IF inNext /\ ~in THEN 1 ELSE 0) - (IF in /\ ~inNext THEN 1 ELSE 0)

(* Before destroy() has drained, anything may come in; after, nothing new  *)
(* does, and the map gains no entry but from a call that is in flight.     *)
SweepStep(c) ==
  /\ dpc' = dpc /\ missed' = missed /\ entries' \subseteq entries
  /\ Drained /\ (InCall(c)' \/ InStream(c)') => InCall(c) \/ InStream(c)
  /\ Drained /\ ~InCall(c) => pendingMap' \ entries' \subseteq pendingMap \ entries

(* What each action of a call c owes. *)
Kept(c) ==
  /\ TypeOK'
  /\ \A d \in Calls \ {c} : Untouched(d)
  /\ engine' = engine /\ (auditDegraded => auditDegraded') /\ (faulty => faulty')
  /\ CallInv(c)'
  /\ Moves(InCall(c), InCall(c)', inFlightCount, inFlightCount')
  /\ Moves(InStream(c), InStream(c)', inFlightStreamCount, inFlightStreamCount')
  /\ SweepStep(c)

(* A step that leaves a call alone keeps its invariant. *)
LEMMA Frame ==
  ASSUME NEW d \in Calls, CallInv(d), Untouched(d), engine' = engine,
         auditDegraded => auditDegraded', faulty => faulty'
  PROVE  CallInv(d)' /\ InCall(d)' = InCall(d) /\ InStream(d)' = InStream(d)
<1>1. /\ IsStream(d)' = IsStream(d) /\ InCall(d)' = InCall(d)
      /\ Streaming(d)' = Streaming(d) /\ InStream(d)' = InStream(d)
  BY DEF Untouched, IsStream, InCall, Streaming, InStream
<1>2. GateInv(d)' /\ RequestInv(d)' /\ ReceiptInv(d)'
  BY <1>1 DEF Untouched, CallInv, GateInv, RequestInv, ReceiptInv
<1>3. ChargeInv(d)' /\ PendingInv(d)'
  BY DEF Untouched, CallInv, ChargeInv, Explained, PendingInv
<1>4. StreamInv(d)'
  BY <1>1 DEF Untouched, CallInv, StreamInv
<1>5. QED
  BY <1>1, <1>2, <1>3, <1>4 DEF CallInv

(* A set that gains or loses one member, or none. *)
LEMMA Counted ==
  ASSUME NEW S, NEW T, NEW c, IsFiniteSet(S), \A d : d # c => (d \in S <=> d \in T),
         NEW n, NEW m, n = Cardinality(S), Moves(c \in S, c \in T, n, m)
  PROVE  IsFiniteSet(T) /\ m = Cardinality(T)
<1>0. Cardinality(S) \in Nat
  BY FS_CardinalityType
<1>1. CASE c \in T /\ c \notin S
  <2>1. T = S \cup {c}
    BY <1>1
  <2>2. IsFiniteSet(T) /\ Cardinality(T) = Cardinality(S) + 1
    BY <1>1, <2>1, FS_AddElement
  <2>3. QED
    BY <1>0, <1>1, <2>2 DEF Moves
<1>2. CASE c \in S /\ c \notin T
  <2>1. T = S \ {c}
    BY <1>2
  <2>2. IsFiniteSet(T) /\ Cardinality(T) = Cardinality(S) - 1
    BY <1>2, <2>1, FS_RemoveElement
  <2>3. QED
    BY <1>0, <1>2, <2>2 DEF Moves
<1>3. CASE c \in S <=> c \in T
  <2>1. T = S
    BY <1>3
  <2>2. QED
    BY <1>0, <1>3, <2>1 DEF Moves
<1>4. QED
  BY <1>1, <1>2, <1>3

(* What an action owes is enough. *)
LEMMA KeptSuffices ==
  ASSUME IInv, NEW c \in Calls, Kept(c)
  PROVE  IInv'
<1>1. \A d \in Calls \ {c} :
        CallInv(d)' /\ InCall(d)' = InCall(d) /\ InStream(d)' = InStream(d)
  BY Frame DEF IInv, Kept
<1>2. CountInv'
  <2>1. \A d : d # c => (d \in InCalls <=> d \in InCalls')
    BY <1>1 DEF InCalls
  <2>2. \A d : d # c => (d \in InStreams <=> d \in InStreams')
    BY <1>1 DEF InStreams
  <2>3. Moves(c \in InCalls, c \in InCalls', inFlightCount, inFlightCount')
    BY DEF Kept, Moves, InCalls
  <2>4. Moves(c \in InStreams, c \in InStreams', inFlightStreamCount, inFlightStreamCount')
    BY DEF Kept, Moves, InStreams
  <2>5. IsFiniteSet(InCalls') /\ inFlightCount' = Cardinality(InCalls')
    BY <2>1, <2>3, Counted DEF IInv, CountInv
  <2>6. IsFiniteSet(InStreams') /\ inFlightStreamCount' = Cardinality(InStreams')
    BY <2>2, <2>4, Counted DEF IInv, CountInv
  <2>7. QED
    BY <2>5, <2>6 DEF CountInv
<1>3. SweepInv'
  <2>1. SUFFICES ASSUME Drained'
                 PROVE  /\ \A d \in Calls : ~InCall(d)' /\ ~InStream(d)'
                        /\ pendingMap' \subseteq entries'
                        /\ dpc' = "closed" => entries' = {}
    BY DEF SweepInv
  <2>2. Drained /\ SweepInv
    BY <2>1 DEF Drained, Kept, SweepStep, IInv
  <2>3. QED
    BY <1>1, <2>2 DEF SweepInv, Kept, SweepStep
<1>4. QED
  BY <1>1, <1>2, <1>3 DEF IInv, Kept

-----------------------------------------------------------------------------
(* An append of one record: what it may change. *)
LEMMA AppendedTypes ==
  ASSUME TypeOK, NEW c \in Calls, NEW k \in RecordKinds, NEW notes \in BOOLEAN,
         Appended(c, k, notes) \/ UNCHANGED auditVars
  PROVE  /\ rec' \in [Calls -> SUBSET RecordKinds]
         /\ callAuditDegraded' \in [Calls -> BOOLEAN] /\ auditDegraded' \in BOOLEAN
<1>1. CASE rec' = [rec EXCEPT ![c] = @ \cup {k}] /\ UNCHANGED <<callAuditDegraded, auditDegraded>>
  <2>1. rec[c] \cup {k} \in SUBSET RecordKinds
    BY DEF TypeOK
  <2>2. QED
    BY <1>1, <2>1 DEF TypeOK
<1>2. CASE auditDegraded' = TRUE /\ UNCHANGED rec
           /\ callAuditDegraded' = [callAuditDegraded EXCEPT ![c] = @ \/ notes]
  BY <1>2 DEF TypeOK
<1>3. CASE UNCHANGED auditVars
  BY <1>3 DEF TypeOK, auditVars
<1>4. QED
  BY <1>1, <1>2, <1>3 DEF Appended

(* What a request does to the transfer, one case per request. *)
LEMMA AppliesFacts ==
  ASSUME TypeOK, NEW c \in Calls, op[c] # "none", Applies(c)
  PROVE  /\ tb' \in [Calls -> {"none", "pending", "posted", "voided", "expired"}]
         /\ posted' \in [Calls -> Nat]
         /\ \A d \in Calls \ {c} : tb'[d] = tb[d]
         /\ op[c] = "hold" => tb'[c] = "pending"
         /\ op[c] = "post" => tb'[c] = "posted" /\ tb[c] = "pending"
         /\ op[c] = "void" => tb'[c] = "voided" /\ tb[c] \in {"pending", "expired"}
<1>1. Min({cost[c], est[c]}) \in Nat
  <2>1. PICK n \in {cost[c], est[c]} : \A m \in {cost[c], est[c]} : n <= m
    BY DEF TypeOK
  <2>2. QED
    BY <2>1 DEF TypeOK, Min
<1>2. op[c] \in {"hold", "post", "void"}
  BY DEF TypeOK
<1>3. CASE op[c] = "hold"
  BY <1>3 DEF TypeOK, Applies
<1>4. CASE op[c] = "post"
  BY <1>1, <1>4 DEF TypeOK, Applies
<1>5. CASE op[c] = "void"
  BY <1>5 DEF TypeOK, Applies
<1>6. QED
  BY <1>2, <1>3, <1>4, <1>5

-----------------------------------------------------------------------------
(* One lemma per action of a call. The groups of variables, the groups of  *)
(* places and the move from place to place are expanded from here on.      *)
USE DEF To, streamVars, countVars, moneyVars, tbVars, auditVars, destroyVars,
        IsStream, Entering, Open, Settling, AtWork

LEMMA AdmitGoogleCallKeeps ==
  ASSUME IInv, NEW c \in Calls, AdmitGoogleCall(c)
  PROVE  Kept(c)
<1>0. TypeOK /\ CallInv(c)
  BY DEF IInv
<1>1. TypeOK'
  BY <1>0 DEF TypeOK, AdmitGoogleCall
<1>2. \A d \in Calls \ {c} : Untouched(d)
  BY <1>0 DEF TypeOK, Untouched, AdmitGoogleCall
<1>3. engine' = engine /\ (auditDegraded => auditDegraded') /\ (faulty => faulty')
  BY <1>0 DEF TypeOK, AdmitGoogleCall
<1>4. CallInv(c)'
  BY <1>0 DEF TypeOK, CallInv, GateInv, RequestInv, ReceiptInv, ChargeInv, Explained, PendingInv,
     StreamInv, Streaming, AdmitGoogleCall
<1>5. /\ Moves(InCall(c), InCall(c)', inFlightCount, inFlightCount')
      /\ Moves(InStream(c), InStream(c)', inFlightStreamCount, inFlightStreamCount')
  BY <1>0 DEF TypeOK, CallInv, GateInv, StreamInv, RequestInv, Moves, InCall, InStream, Streaming,
     AdmitGoogleCall
<1>6. SweepStep(c)
  BY <1>0 DEF TypeOK, CallInv, GateInv, RequestInv, StreamInv, SweepStep, Drained, InCall,
     InStream, Streaming, Destroyed, admissionsRevoked, AdmitGoogleCall
<1>7. QED
  BY <1>1, <1>2, <1>3, <1>4, <1>5, <1>6 DEF Kept

LEMMA EnterKeeps ==
  ASSUME IInv, NEW c \in Calls, Enter(c)
  PROVE  Kept(c)
<1>0. TypeOK /\ CallInv(c)
  BY DEF IInv
<1>1. TypeOK'
  BY <1>0 DEF TypeOK, Enter
<1>2. \A d \in Calls \ {c} : Untouched(d)
  BY <1>0 DEF TypeOK, Untouched, Enter
<1>3. engine' = engine /\ (auditDegraded => auditDegraded') /\ (faulty => faulty')
  BY <1>0 DEF TypeOK, Enter
<1>4. CallInv(c)'
  BY <1>0 DEF TypeOK, CallInv, GateInv, RequestInv, ReceiptInv, ChargeInv, Explained, PendingInv,
     StreamInv, Streaming, Enter
<1>5. /\ Moves(InCall(c), InCall(c)', inFlightCount, inFlightCount')
      /\ Moves(InStream(c), InStream(c)', inFlightStreamCount, inFlightStreamCount')
  BY <1>0 DEF TypeOK, CallInv, GateInv, StreamInv, RequestInv, Moves, InCall, InStream, Streaming,
     Enter
<1>6. SweepStep(c)
  BY <1>0 DEF TypeOK, CallInv, GateInv, RequestInv, StreamInv, SweepStep, Drained, InCall,
     InStream, Streaming, Destroyed, admissionsRevoked, Enter
<1>7. QED
  BY <1>1, <1>2, <1>3, <1>4, <1>5, <1>6 DEF Kept

LEMMA RefusedAtEntryKeeps ==
  ASSUME IInv, NEW c \in Calls, RefusedAtEntry(c)
  PROVE  Kept(c)
<1>0. TypeOK /\ CallInv(c)
  BY DEF IInv
<1>1. TypeOK'
  BY <1>0 DEF TypeOK, RefusedAtEntry, Answer
<1>2. \A d \in Calls \ {c} : Untouched(d)
  BY <1>0 DEF TypeOK, Untouched, RefusedAtEntry, Answer
<1>3. engine' = engine /\ (auditDegraded => auditDegraded') /\ (faulty => faulty')
  BY <1>0 DEF TypeOK, RefusedAtEntry, Answer
<1>4. CallInv(c)'
  BY <1>0 DEF TypeOK, CallInv, GateInv, RequestInv, ReceiptInv, ChargeInv, Explained, PendingInv,
     StreamInv, Streaming, RefusedAtEntry, Answer
<1>5. /\ Moves(InCall(c), InCall(c)', inFlightCount, inFlightCount')
      /\ Moves(InStream(c), InStream(c)', inFlightStreamCount, inFlightStreamCount')
  BY <1>0 DEF TypeOK, CallInv, GateInv, StreamInv, RequestInv, Moves, InCall, InStream, Streaming,
     RefusedAtEntry, Answer
<1>6. SweepStep(c)
  BY <1>0 DEF TypeOK, CallInv, GateInv, RequestInv, StreamInv, SweepStep, Drained, InCall,
     InStream, Streaming, Destroyed, admissionsRevoked, RefusedAtEntry, Answer
<1>7. QED
  BY <1>1, <1>2, <1>3, <1>4, <1>5, <1>6 DEF Kept

LEMMA GateKeeps ==
  ASSUME IInv, NEW c \in Calls, Gate(c)
  PROVE  Kept(c)
<1>0. TypeOK /\ CallInv(c)
  BY DEF IInv
<1>1. TypeOK'
  <2>1. CASE engine
    BY <1>0, <2>1 DEF TypeOK, Gate, Request
  <2>2. CASE ~engine
    <3>1. inFlightHoldTotal' \in Int /\ holdActive' \in [Calls -> BOOLEAN] /\ pc'[c] = "provider"
      <4>1. est[c] \in Int /\ inFlightHoldTotal \in Int
        BY <1>0 DEF TypeOK
      <4>2. sessionShare(c, est[c]) \in Int
        BY <4>1 DEF sessionShare
      <4>3. inFlightHoldTotal' \in Int
        BY <2>2, <4>1, <4>2 DEF Gate
      <4>4. holdActive' = [holdActive EXCEPT ![c] = TRUE] /\ pc' = [pc EXCEPT ![c] = "provider"]
        BY <2>2 DEF Gate
      <4>5. QED
        BY <1>0, <4>3, <4>4 DEF TypeOK
    <3>2. UNCHANGED <<inFlightCount, inFlightStreamCount, budgetSpent>>
      BY DEF Gate
    <3>3. QED
      BY <1>0, <2>2, <3>1, <3>2 DEF TypeOK, Gate
  <2>3. QED
    BY <2>1, <2>2
<1>2. \A d \in Calls \ {c} : Untouched(d)
  BY <1>0 DEF TypeOK, Untouched, Gate, Request
<1>3. engine' = engine /\ (auditDegraded => auditDegraded') /\ (faulty => faulty')
  BY <1>0 DEF TypeOK, Gate, Request
<1>4. CallInv(c)'
  BY <1>0 DEF TypeOK, CallInv, GateInv, RequestInv, ReceiptInv, ChargeInv, Explained, PendingInv,
     StreamInv, Streaming, Gate, Request
<1>5. /\ Moves(InCall(c), InCall(c)', inFlightCount, inFlightCount')
      /\ Moves(InStream(c), InStream(c)', inFlightStreamCount, inFlightStreamCount')
  BY <1>0 DEF TypeOK, CallInv, GateInv, StreamInv, RequestInv, Moves, InCall, InStream, Streaming,
     Gate, Request
<1>6. SweepStep(c)
  BY <1>0 DEF TypeOK, CallInv, GateInv, RequestInv, StreamInv, SweepStep, Drained, InCall,
     InStream, Streaming, Destroyed, admissionsRevoked, Gate, Request
<1>7. QED
  BY <1>1, <1>2, <1>3, <1>4, <1>5, <1>6 DEF Kept

LEMMA DeniedKeeps ==
  ASSUME IInv, NEW c \in Calls, Denied(c)
  PROVE  Kept(c)
<1>0. TypeOK /\ CallInv(c)
  BY DEF IInv
<1>1. TypeOK'
  <2>1. /\ rec' \in [Calls -> SUBSET RecordKinds]
        /\ callAuditDegraded' \in [Calls -> BOOLEAN] /\ auditDegraded' \in BOOLEAN
    BY <1>0, AppendedTypes DEF Denied, RecordKinds
  <2>2. QED
    BY <1>0, <2>1 DEF TypeOK, Denied, Answer
<1>2. \A d \in Calls \ {c} : Untouched(d)
  BY <1>0 DEF TypeOK, Untouched, Denied, Answer, Appended, RecordKinds
<1>3. engine' = engine /\ (auditDegraded => auditDegraded') /\ (faulty => faulty')
  BY <1>0 DEF TypeOK, Denied, Answer, Appended, RecordKinds
<1>4. CallInv(c)'
  BY <1>0 DEF TypeOK, CallInv, GateInv, RequestInv, ReceiptInv, ChargeInv, Explained, PendingInv,
     StreamInv, Streaming, Denied, Answer, Appended, RecordKinds
<1>5. /\ Moves(InCall(c), InCall(c)', inFlightCount, inFlightCount')
      /\ Moves(InStream(c), InStream(c)', inFlightStreamCount, inFlightStreamCount')
  BY <1>0 DEF TypeOK, CallInv, GateInv, StreamInv, RequestInv, Moves, InCall, InStream, Streaming,
     Denied, Answer, Appended, RecordKinds
<1>6. SweepStep(c)
  BY <1>0 DEF TypeOK, CallInv, GateInv, RequestInv, StreamInv, SweepStep, Drained, InCall,
     InStream, Streaming, Destroyed, admissionsRevoked, Denied, Answer, Appended, RecordKinds
<1>7. QED
  BY <1>1, <1>2, <1>3, <1>4, <1>5, <1>6 DEF Kept

LEMMA HoldPlacedKeeps ==
  ASSUME IInv, NEW c \in Calls, HoldPlaced(c)
  PROVE  Kept(c)
<1>0. TypeOK /\ CallInv(c)
  BY DEF IInv
<1>1. TypeOK'
  BY <1>0 DEF TypeOK, HoldPlaced, EndRequest, sessionShare
<1>2. \A d \in Calls \ {c} : Untouched(d)
  BY <1>0 DEF TypeOK, Untouched, HoldPlaced, EndRequest, sessionShare
<1>3. engine' = engine /\ (auditDegraded => auditDegraded') /\ (faulty => faulty')
  BY <1>0 DEF TypeOK, HoldPlaced, EndRequest, sessionShare
<1>4. CallInv(c)'
  BY <1>0 DEF TypeOK, CallInv, GateInv, RequestInv, ReceiptInv, ChargeInv, Explained, PendingInv,
     StreamInv, Streaming, HoldPlaced, EndRequest, sessionShare
<1>5. /\ Moves(InCall(c), InCall(c)', inFlightCount, inFlightCount')
      /\ Moves(InStream(c), InStream(c)', inFlightStreamCount, inFlightStreamCount')
  BY <1>0 DEF TypeOK, CallInv, GateInv, StreamInv, RequestInv, Moves, InCall, InStream, Streaming,
     HoldPlaced, EndRequest, sessionShare
<1>6. SweepStep(c)
  BY <1>0 DEF TypeOK, CallInv, GateInv, RequestInv, StreamInv, SweepStep, Drained, InCall,
     InStream, Streaming, Destroyed, admissionsRevoked, HoldPlaced, EndRequest, sessionShare
<1>7. QED
  BY <1>1, <1>2, <1>3, <1>4, <1>5, <1>6 DEF Kept

LEMMA HoldRefusedKeeps ==
  ASSUME IInv, NEW c \in Calls, HoldRefused(c)
  PROVE  Kept(c)
<1>0. TypeOK /\ CallInv(c)
  BY DEF IInv
<1>1. TypeOK'
  <2>1. Appended(c, "denied", FALSE) \/ UNCHANGED auditVars
    BY DEF HoldRefused
  <2>2. /\ rec' \in [Calls -> SUBSET RecordKinds]
        /\ callAuditDegraded' \in [Calls -> BOOLEAN] /\ auditDegraded' \in BOOLEAN
    BY <1>0, <2>1, AppendedTypes DEF RecordKinds
  <2>3. QED
    BY <1>0, <2>2 DEF TypeOK, HoldRefused, Answer, EndRequest
<1>2. \A d \in Calls \ {c} : Untouched(d)
  BY <1>0 DEF TypeOK, Untouched, HoldRefused, Answer, Appended, EndRequest, RecordKinds
<1>3. engine' = engine /\ (auditDegraded => auditDegraded') /\ (faulty => faulty')
  BY <1>0 DEF TypeOK, HoldRefused, Answer, Appended, EndRequest, RecordKinds
<1>4. CallInv(c)'
  BY <1>0 DEF TypeOK, CallInv, GateInv, RequestInv, ReceiptInv, ChargeInv, Explained, PendingInv,
     StreamInv, Streaming, HoldRefused, Answer, Appended, EndRequest, RecordKinds
<1>5. /\ Moves(InCall(c), InCall(c)', inFlightCount, inFlightCount')
      /\ Moves(InStream(c), InStream(c)', inFlightStreamCount, inFlightStreamCount')
  BY <1>0 DEF TypeOK, CallInv, GateInv, StreamInv, RequestInv, Moves, InCall, InStream, Streaming,
     HoldRefused, Answer, Appended, EndRequest, RecordKinds
<1>6. SweepStep(c)
  BY <1>0 DEF TypeOK, CallInv, GateInv, RequestInv, StreamInv, SweepStep, Drained, InCall,
     InStream, Streaming, Destroyed, admissionsRevoked, HoldRefused, Answer, Appended, EndRequest,
     RecordKinds
<1>7. QED
  BY <1>1, <1>2, <1>3, <1>4, <1>5, <1>6 DEF Kept

LEMMA ProviderFailsKeeps ==
  ASSUME IInv, NEW c \in Calls, ProviderFails(c)
  PROVE  Kept(c)
<1>0. TypeOK /\ CallInv(c)
  BY DEF IInv
<1>1. TypeOK'
  BY <1>0 DEF TypeOK, ProviderFails
<1>2. \A d \in Calls \ {c} : Untouched(d)
  BY <1>0 DEF TypeOK, Untouched, ProviderFails
<1>3. engine' = engine /\ (auditDegraded => auditDegraded') /\ (faulty => faulty')
  BY <1>0 DEF TypeOK, ProviderFails
<1>4. CallInv(c)'
  BY <1>0 DEF TypeOK, CallInv, GateInv, RequestInv, ReceiptInv, ChargeInv, Explained, PendingInv,
     StreamInv, Streaming, ProviderFails
<1>5. /\ Moves(InCall(c), InCall(c)', inFlightCount, inFlightCount')
      /\ Moves(InStream(c), InStream(c)', inFlightStreamCount, inFlightStreamCount')
  BY <1>0 DEF TypeOK, CallInv, GateInv, StreamInv, RequestInv, Moves, InCall, InStream, Streaming,
     ProviderFails
<1>6. SweepStep(c)
  BY <1>0 DEF TypeOK, CallInv, GateInv, RequestInv, StreamInv, SweepStep, Drained, InCall,
     InStream, Streaming, Destroyed, admissionsRevoked, ProviderFails
<1>7. QED
  BY <1>1, <1>2, <1>3, <1>4, <1>5, <1>6 DEF Kept

LEMMA ProviderRepliesKeeps ==
  ASSUME IInv, NEW c \in Calls, ProviderReplies(c)
  PROVE  Kept(c)
<1>0. TypeOK /\ CallInv(c)
  BY DEF IInv
<1>1. TypeOK'
  BY <1>0 DEF TypeOK, ProviderReplies
<1>2. \A d \in Calls \ {c} : Untouched(d)
  BY <1>0 DEF TypeOK, Untouched, ProviderReplies
<1>3. engine' = engine /\ (auditDegraded => auditDegraded') /\ (faulty => faulty')
  BY <1>0 DEF TypeOK, ProviderReplies
<1>4. CallInv(c)'
  BY <1>0 DEF TypeOK, CallInv, GateInv, RequestInv, ReceiptInv, ChargeInv, Explained, PendingInv,
     StreamInv, Streaming, ProviderReplies
<1>5. /\ Moves(InCall(c), InCall(c)', inFlightCount, inFlightCount')
      /\ Moves(InStream(c), InStream(c)', inFlightStreamCount, inFlightStreamCount')
  BY <1>0 DEF TypeOK, CallInv, GateInv, StreamInv, RequestInv, Moves, InCall, InStream, Streaming,
     ProviderReplies
<1>6. SweepStep(c)
  BY <1>0 DEF TypeOK, CallInv, GateInv, RequestInv, StreamInv, SweepStep, Drained, InCall,
     InStream, Streaming, Destroyed, admissionsRevoked, ProviderReplies
<1>7. QED
  BY <1>1, <1>2, <1>3, <1>4, <1>5, <1>6 DEF Kept

LEMMA StreamReturnedKeeps ==
  ASSUME IInv, NEW c \in Calls, StreamReturned(c)
  PROVE  Kept(c)
<1>0. TypeOK /\ CallInv(c)
  BY DEF IInv
<1>1. TypeOK'
  BY <1>0 DEF TypeOK, StreamReturned
<1>2. \A d \in Calls \ {c} : Untouched(d)
  BY <1>0 DEF TypeOK, Untouched, StreamReturned
<1>3. engine' = engine /\ (auditDegraded => auditDegraded') /\ (faulty => faulty')
  BY <1>0 DEF TypeOK, StreamReturned
<1>4. CallInv(c)'
  BY <1>0 DEF TypeOK, CallInv, GateInv, RequestInv, ReceiptInv, ChargeInv, Explained, PendingInv,
     StreamInv, Streaming, StreamReturned
<1>5. /\ Moves(InCall(c), InCall(c)', inFlightCount, inFlightCount')
      /\ Moves(InStream(c), InStream(c)', inFlightStreamCount, inFlightStreamCount')
  <2>1. InCall(c) /\ ~InCall(c)' /\ ~InStream(c)
    BY <1>0 DEF TypeOK, StreamReturned, InCall, InStream, Streaming
  <2>2. InStream(c)'
    <3>1. CASE kind[c] = "iter"
      BY <1>0, <3>1 DEF TypeOK, StreamReturned, InStream, Streaming
    <3>2. CASE kind[c] = "helper"
      <4>1. kind' = kind /\ counted' = [counted EXCEPT ![c] = kind[c] = "helper"]
        BY DEF StreamReturned
      <4>2. pc' = [pc EXCEPT ![c] = "live"]
        BY DEF StreamReturned
      <4>3. kind'[c] = "helper"
        BY <3>2, <4>1
      <4>4. pc'[c] = "live"
        BY <1>0, <4>2 DEF TypeOK
      <4>5. c \in DOMAIN counted
        BY <1>0 DEF TypeOK
      <4>6. counted'[c]
        BY <3>2, <4>1, <4>5, Zenon
      <4>7. QED
        BY <4>3, <4>4, <4>6 DEF InStream, Streaming
    <3>3. QED
      BY <3>1, <3>2 DEF StreamReturned
  <2>3. QED
    BY <1>0, <2>1, <2>2 DEF TypeOK, StreamReturned, Moves
<1>6. SweepStep(c)
  BY <1>0 DEF TypeOK, CallInv, GateInv, RequestInv, StreamInv, SweepStep, Drained, InCall,
     InStream, Streaming, Destroyed, admissionsRevoked, StreamReturned
<1>7. QED
  BY <1>1, <1>2, <1>3, <1>4, <1>5, <1>6 DEF Kept

LEMMA IterNextKeeps ==
  ASSUME IInv, NEW c \in Calls, IterNext(c)
  PROVE  Kept(c)
<1>0. TypeOK /\ CallInv(c)
  BY DEF IInv
<1>1. TypeOK'
  BY <1>0 DEF TypeOK, IterNext
<1>2. \A d \in Calls \ {c} : Untouched(d)
  BY <1>0 DEF TypeOK, Untouched, IterNext
<1>3. engine' = engine /\ (auditDegraded => auditDegraded') /\ (faulty => faulty')
  BY <1>0 DEF TypeOK, IterNext
<1>4. CallInv(c)'
  BY <1>0 DEF TypeOK, CallInv, GateInv, RequestInv, ReceiptInv, ChargeInv, Explained, PendingInv,
     StreamInv, Streaming, IterNext
<1>5. /\ Moves(InCall(c), InCall(c)', inFlightCount, inFlightCount')
      /\ Moves(InStream(c), InStream(c)', inFlightStreamCount, inFlightStreamCount')
  BY <1>0 DEF TypeOK, CallInv, GateInv, StreamInv, RequestInv, Moves, InCall, InStream, Streaming,
     IterNext
<1>6. SweepStep(c)
  BY <1>0 DEF TypeOK, CallInv, GateInv, RequestInv, StreamInv, SweepStep, Drained, InCall,
     InStream, Streaming, Destroyed, admissionsRevoked, IterNext
<1>7. QED
  BY <1>1, <1>2, <1>3, <1>4, <1>5, <1>6 DEF Kept

LEMMA IterUnstartedKeeps ==
  ASSUME IInv, NEW c \in Calls, IterUnstarted(c)
  PROVE  Kept(c)
<1>0. TypeOK /\ CallInv(c)
  BY DEF IInv
<1>1. TypeOK'
  BY <1>0 DEF TypeOK, IterUnstarted
<1>2. \A d \in Calls \ {c} : Untouched(d)
  BY <1>0 DEF TypeOK, Untouched, IterUnstarted
<1>3. engine' = engine /\ (auditDegraded => auditDegraded') /\ (faulty => faulty')
  BY <1>0 DEF TypeOK, IterUnstarted
<1>4. CallInv(c)'
  BY <1>0 DEF TypeOK, CallInv, GateInv, RequestInv, ReceiptInv, ChargeInv, Explained, PendingInv,
     StreamInv, Streaming, IterUnstarted
<1>5. /\ Moves(InCall(c), InCall(c)', inFlightCount, inFlightCount')
      /\ Moves(InStream(c), InStream(c)', inFlightStreamCount, inFlightStreamCount')
  BY <1>0 DEF TypeOK, CallInv, GateInv, StreamInv, RequestInv, Moves, InCall, InStream, Streaming,
     IterUnstarted
<1>6. SweepStep(c)
  BY <1>0 DEF TypeOK, CallInv, GateInv, RequestInv, StreamInv, SweepStep, Drained, InCall,
     InStream, Streaming, Destroyed, admissionsRevoked, IterUnstarted
<1>7. QED
  BY <1>1, <1>2, <1>3, <1>4, <1>5, <1>6 DEF Kept

LEMMA IterTerminalKeeps ==
  ASSUME IInv, NEW c \in Calls, IterTerminal(c)
  PROVE  Kept(c)
<1>0. TypeOK /\ CallInv(c)
  BY DEF IInv
<1>1. TypeOK'
  BY <1>0 DEF TypeOK, IterTerminal, ClaimSettle, ClaimVoid, Answer
<1>2. \A d \in Calls \ {c} : Untouched(d)
  BY <1>0 DEF TypeOK, Untouched, IterTerminal, ClaimSettle, ClaimVoid, Answer
<1>3. engine' = engine /\ (auditDegraded => auditDegraded') /\ (faulty => faulty')
  BY <1>0 DEF TypeOK, IterTerminal, ClaimSettle, ClaimVoid, Answer
<1>4. CallInv(c)'
  BY <1>0 DEF TypeOK, CallInv, GateInv, RequestInv, ReceiptInv, ChargeInv, Explained, PendingInv,
     StreamInv, Streaming, IterTerminal, ClaimSettle, ClaimVoid, Answer
<1>5. /\ Moves(InCall(c), InCall(c)', inFlightCount, inFlightCount')
      /\ Moves(InStream(c), InStream(c)', inFlightStreamCount, inFlightStreamCount')
  BY <1>0 DEF TypeOK, CallInv, GateInv, StreamInv, RequestInv, Moves, InCall, InStream, Streaming,
     IterTerminal, ClaimSettle, ClaimVoid, Answer
<1>6. SweepStep(c)
  BY <1>0 DEF TypeOK, CallInv, GateInv, RequestInv, StreamInv, SweepStep, Drained, InCall,
     InStream, Streaming, Destroyed, admissionsRevoked, IterTerminal, ClaimSettle, ClaimVoid, Answer
<1>7. QED
  BY <1>1, <1>2, <1>3, <1>4, <1>5, <1>6 DEF Kept

LEMMA HelperTerminalKeeps ==
  ASSUME IInv, NEW c \in Calls, HelperTerminal(c)
  PROVE  Kept(c)
<1>0. TypeOK /\ CallInv(c)
  BY DEF IInv
<1>1. TypeOK'
  <2>1. signals' \in [Calls -> SUBSET {"finalMessage", "error", "abort", "end"}]
    <3>1. PICK s \in {"finalMessage", "error", "abort", "end"} : Emits(c, s)
      BY DEF HelperTerminal
    <3>2. signals[c] \cup {s} \in SUBSET {"finalMessage", "error", "abort", "end"}
      BY <1>0 DEF TypeOK
    <3>3. QED
      BY <1>0, <3>1, <3>2 DEF TypeOK, Emits
  <2>2. gen' \in [Calls -> {"start", "body", "done"}]
    BY <1>0 DEF TypeOK, HelperTerminal, Emits
  <2>3. /\ cost' \in [Calls -> Nat]
        /\ finalizeState' \in [Calls -> {"pending", "settled", "voided"}]
        /\ receipt' \in [Calls -> {"none", "refused", "rejected", "settled", "unsettled"}]
        /\ \E x \in {"commit", "release"} : pc' = [pc EXCEPT ![c] = x]
    <3>1. CASE ClaimSettle(c)
      <4>1. PICK x \in Costs : cost' = [cost EXCEPT ![c] = x]
        BY <3>1 DEF ClaimSettle
      <4>2. x \in Nat
        OBVIOUS
      <4>3. cost' \in [Calls -> Nat]
        BY <1>0, <4>1, <4>2 DEF TypeOK
      <4>4. QED
        BY <1>0, <3>1, <4>3 DEF TypeOK, ClaimSettle, To
    <3>2. CASE ClaimVoid(c)
      BY <1>0, <3>2 DEF TypeOK, ClaimVoid, Answer, To
    <3>3. QED
      BY <3>1, <3>2 DEF HelperTerminal
  <2>4. QED
    BY <1>0, <2>1, <2>2, <2>3 DEF TypeOK, HelperTerminal
<1>2. \A d \in Calls \ {c} : Untouched(d)
  BY <1>0 DEF TypeOK, Untouched, HelperTerminal, Emits, ClaimSettle, ClaimVoid, Answer
<1>3. engine' = engine /\ (auditDegraded => auditDegraded') /\ (faulty => faulty')
  BY <1>0 DEF TypeOK, HelperTerminal, Emits, ClaimSettle, ClaimVoid, Answer
<1>4. CallInv(c)'
  BY <1>0 DEF TypeOK, CallInv, GateInv, RequestInv, ReceiptInv, ChargeInv, Explained, PendingInv,
     StreamInv, Streaming, HelperTerminal, Emits, ClaimSettle, ClaimVoid, Answer
<1>5. /\ Moves(InCall(c), InCall(c)', inFlightCount, inFlightCount')
      /\ Moves(InStream(c), InStream(c)', inFlightStreamCount, inFlightStreamCount')
  BY <1>0 DEF TypeOK, CallInv, GateInv, StreamInv, RequestInv, Moves, InCall, InStream, Streaming,
     HelperTerminal, Emits, ClaimSettle, ClaimVoid, Answer
<1>6. SweepStep(c)
  BY <1>0 DEF TypeOK, CallInv, GateInv, RequestInv, StreamInv, SweepStep, Drained, InCall,
     InStream, Streaming, Destroyed, admissionsRevoked, HelperTerminal, Emits, ClaimSettle,
     ClaimVoid, Answer
<1>7. QED
  BY <1>1, <1>2, <1>3, <1>4, <1>5, <1>6 DEF Kept

LEMMA HelperLateKeeps ==
  ASSUME IInv, NEW c \in Calls, HelperLate(c)
  PROVE  Kept(c)
<1>0. TypeOK /\ CallInv(c)
  BY DEF IInv
<1>1. TypeOK'
  <2>1. signals' \in [Calls -> SUBSET {"finalMessage", "error", "abort", "end"}]
    <3>1. PICK s \in {"finalMessage", "error", "abort", "end"} : Emits(c, s)
      BY DEF HelperLate
    <3>2. signals[c] \cup {s} \in SUBSET {"finalMessage", "error", "abort", "end"}
      BY <1>0 DEF TypeOK
    <3>3. QED
      BY <1>0, <3>1, <3>2 DEF TypeOK, Emits
  <2>2. gen' \in [Calls -> {"start", "body", "done"}]
    BY <1>0 DEF TypeOK, HelperLate, Emits
  <2>3. /\ late' \in [Calls -> BOOLEAN] /\ counted' \in [Calls -> BOOLEAN]
        /\ inFlightCount' \in Int /\ inFlightStreamCount' \in Int
    <3>1. CASE UNCHANGED <<countVars, late>>
      BY <1>0, <3>1 DEF TypeOK
    <3>2. CASE /\ StreamDone(c) /\ UNCHANGED inFlightCount
               /\ late' = [late EXCEPT ![c] = TRUE]
      <4>1. counted' = [counted EXCEPT ![c] = FALSE]
            /\ inFlightStreamCount' \in {inFlightStreamCount, inFlightStreamCount - 1}
        BY <3>2 DEF StreamDone
      <4>2. QED
        BY <1>0, <3>2, <4>1 DEF TypeOK
    <3>3. QED
      BY <3>1, <3>2 DEF HelperLate
  <2>4. QED
    BY <1>0, <2>1, <2>2, <2>3 DEF TypeOK, HelperLate
<1>2. \A d \in Calls \ {c} : Untouched(d)
  BY <1>0 DEF TypeOK, Untouched, HelperLate, Emits, StreamDone
<1>3. engine' = engine /\ (auditDegraded => auditDegraded') /\ (faulty => faulty')
  BY <1>0 DEF TypeOK, HelperLate, Emits, StreamDone
<1>4. CallInv(c)'
  BY <1>0 DEF TypeOK, CallInv, GateInv, RequestInv, ReceiptInv, ChargeInv, Explained, PendingInv,
     StreamInv, Streaming, HelperLate, Emits, StreamDone
<1>5. /\ Moves(InCall(c), InCall(c)', inFlightCount, inFlightCount')
      /\ Moves(InStream(c), InStream(c)', inFlightStreamCount, inFlightStreamCount')
  BY <1>0 DEF TypeOK, CallInv, GateInv, StreamInv, RequestInv, Moves, InCall, InStream, Streaming,
     HelperLate, Emits, StreamDone
<1>6. SweepStep(c)
  BY <1>0 DEF TypeOK, CallInv, GateInv, RequestInv, StreamInv, SweepStep, Drained, InCall,
     InStream, Streaming, Destroyed, admissionsRevoked, HelperLate, Emits, StreamDone
<1>7. QED
  BY <1>1, <1>2, <1>3, <1>4, <1>5, <1>6 DEF Kept

LEMMA RecordKeeps ==
  ASSUME IInv, NEW c \in Calls, Record(c)
  PROVE  Kept(c)
<1>0. TypeOK /\ CallInv(c)
  BY DEF IInv
<1>1. TypeOK'
  <2>1. /\ rec' \in [Calls -> SUBSET RecordKinds]
        /\ callAuditDegraded' \in [Calls -> BOOLEAN] /\ auditDegraded' \in BOOLEAN
    BY <1>0, AppendedTypes DEF Record, RecordKinds
  <2>2. QED
    BY <1>0, <2>1, SMTT(30) DEF TypeOK, Record
<1>2. \A d \in Calls \ {c} : Untouched(d)
  BY <1>0 DEF TypeOK, Untouched, Record, Appended, AppendFailed, RecordKinds
<1>3. engine' = engine /\ (auditDegraded => auditDegraded') /\ (faulty => faulty')
  BY <1>0 DEF TypeOK, Record, Appended, AppendFailed, RecordKinds
<1>4. CallInv(c)'
  BY <1>0 DEF TypeOK, CallInv, GateInv, RequestInv, ReceiptInv, ChargeInv, Explained, PendingInv,
     StreamInv, Streaming, Record, Appended, AppendFailed, RecordKinds
<1>5. /\ Moves(InCall(c), InCall(c)', inFlightCount, inFlightCount')
      /\ Moves(InStream(c), InStream(c)', inFlightStreamCount, inFlightStreamCount')
  BY <1>0 DEF TypeOK, CallInv, GateInv, StreamInv, RequestInv, Moves, InCall, InStream, Streaming,
     Record, Appended, AppendFailed, RecordKinds
<1>6. SweepStep(c)
  BY <1>0 DEF TypeOK, CallInv, GateInv, RequestInv, StreamInv, SweepStep, Drained, InCall,
     InStream, Streaming, Destroyed, admissionsRevoked, Record, Appended, AppendFailed, RecordKinds
<1>7. QED
  BY <1>1, <1>2, <1>3, <1>4, <1>5, <1>6 DEF Kept

LEMMA CommitKeeps ==
  ASSUME IInv, NEW c \in Calls, Commit(c)
  PROVE  Kept(c)
<1>0. TypeOK /\ CallInv(c)
  BY DEF IInv
<1>1. TypeOK'
  BY <1>0 DEF TypeOK, Commit, AfterPost, sessionShare
<1>2. \A d \in Calls \ {c} : Untouched(d)
  BY <1>0 DEF TypeOK, Untouched, Commit, AfterPost, sessionShare
<1>3. engine' = engine /\ (auditDegraded => auditDegraded') /\ (faulty => faulty')
  BY <1>0 DEF TypeOK, Commit, AfterPost, sessionShare
<1>4. CallInv(c)'
  BY <1>0 DEF TypeOK, CallInv, GateInv, RequestInv, ReceiptInv, ChargeInv, Explained, PendingInv,
     StreamInv, Streaming, Commit, AfterPost, sessionShare
<1>5. /\ Moves(InCall(c), InCall(c)', inFlightCount, inFlightCount')
      /\ Moves(InStream(c), InStream(c)', inFlightStreamCount, inFlightStreamCount')
  BY <1>0 DEF TypeOK, CallInv, GateInv, StreamInv, RequestInv, Moves, InCall, InStream, Streaming,
     Commit, AfterPost, sessionShare
<1>6. SweepStep(c)
  BY <1>0 DEF TypeOK, CallInv, GateInv, RequestInv, StreamInv, SweepStep, Drained, InCall,
     InStream, Streaming, Destroyed, admissionsRevoked, Commit, AfterPost, sessionShare
<1>7. QED
  BY <1>1, <1>2, <1>3, <1>4, <1>5, <1>6 DEF Kept

LEMMA PostKeeps ==
  ASSUME IInv, NEW c \in Calls, Post(c)
  PROVE  Kept(c)
<1>0. TypeOK /\ CallInv(c)
  BY DEF IInv
<1>1. TypeOK'
  BY <1>0 DEF TypeOK, Post, Request
<1>2. \A d \in Calls \ {c} : Untouched(d)
  BY <1>0 DEF TypeOK, Untouched, Post, Request
<1>3. engine' = engine /\ (auditDegraded => auditDegraded') /\ (faulty => faulty')
  BY <1>0 DEF TypeOK, Post, Request
<1>4. CallInv(c)'
  BY <1>0 DEF TypeOK, CallInv, GateInv, RequestInv, ReceiptInv, ChargeInv, Explained, PendingInv,
     StreamInv, Streaming, Post, Request
<1>5. /\ Moves(InCall(c), InCall(c)', inFlightCount, inFlightCount')
      /\ Moves(InStream(c), InStream(c)', inFlightStreamCount, inFlightStreamCount')
  BY <1>0 DEF TypeOK, CallInv, GateInv, StreamInv, RequestInv, Moves, InCall, InStream, Streaming,
     Post, Request
<1>6. SweepStep(c)
  BY <1>0 DEF TypeOK, CallInv, GateInv, RequestInv, StreamInv, SweepStep, Drained, InCall,
     InStream, Streaming, Destroyed, admissionsRevoked, Post, Request
<1>7. QED
  BY <1>1, <1>2, <1>3, <1>4, <1>5, <1>6 DEF Kept

LEMMA PostedKeeps ==
  ASSUME IInv, NEW c \in Calls, Posted(c)
  PROVE  Kept(c)
<1>0. TypeOK /\ CallInv(c)
  BY DEF IInv
<1>1. TypeOK'
  <2>1. Appended(c, "settlement_ambiguous", TRUE) \/ UNCHANGED auditVars
    BY DEF Posted
  <2>2. /\ rec' \in [Calls -> SUBSET RecordKinds]
        /\ callAuditDegraded' \in [Calls -> BOOLEAN] /\ auditDegraded' \in BOOLEAN
    BY <1>0, <2>1, AppendedTypes DEF RecordKinds
  <2>3. settled' \in [Calls -> BOOLEAN] /\ pendingMap' \subseteq Calls
    <3>1. CASE ans[c] = "ok"
      BY <1>0, <3>1 DEF TypeOK, Posted
    <3>2. CASE ans[c] # "ok"
      <4>1. settled' = [settled EXCEPT ![c] = FALSE] /\ pendingMap' = pendingMap
        BY <3>2 DEF Posted
      <4>2. QED
        BY <1>0, <4>1 DEF TypeOK
    <3>3. QED
      BY <3>1, <3>2
  <2>4. QED
    BY <1>0, <2>2, <2>3 DEF TypeOK, Posted, AfterPost, EndRequest
<1>2. \A d \in Calls \ {c} : Untouched(d)
  BY <1>0 DEF TypeOK, Untouched, Posted, AfterPost, EndRequest, Appended, RecordKinds
<1>3. engine' = engine /\ (auditDegraded => auditDegraded') /\ (faulty => faulty')
  BY <1>0 DEF TypeOK, Posted, AfterPost, EndRequest, Appended, RecordKinds
<1>4. CallInv(c)'
  BY <1>0 DEF TypeOK, CallInv, GateInv, RequestInv, ReceiptInv, ChargeInv, Explained, PendingInv,
     StreamInv, Streaming, Posted, AfterPost, EndRequest, Appended, RecordKinds
<1>5. /\ Moves(InCall(c), InCall(c)', inFlightCount, inFlightCount')
      /\ Moves(InStream(c), InStream(c)', inFlightStreamCount, inFlightStreamCount')
  BY <1>0 DEF TypeOK, CallInv, GateInv, StreamInv, RequestInv, Moves, InCall, InStream, Streaming,
     Posted, AfterPost, EndRequest, Appended, RecordKinds
<1>6. SweepStep(c)
  BY <1>0 DEF TypeOK, CallInv, GateInv, RequestInv, StreamInv, SweepStep, Drained, InCall,
     InStream, Streaming, Destroyed, admissionsRevoked, Posted, AfterPost, EndRequest, Appended,
     RecordKinds
<1>7. QED
  BY <1>1, <1>2, <1>3, <1>4, <1>5, <1>6 DEF Kept

LEMMA CheckKeeps ==
  ASSUME IInv, NEW c \in Calls, Check(c)
  PROVE  Kept(c)
<1>0. TypeOK /\ CallInv(c)
  BY DEF IInv
<1>1. TypeOK'
  <2>1. Appended(c, "settlement_shortfall", TRUE) \/ UNCHANGED auditVars
    BY DEF Check
  <2>2. /\ rec' \in [Calls -> SUBSET RecordKinds]
        /\ callAuditDegraded' \in [Calls -> BOOLEAN] /\ auditDegraded' \in BOOLEAN
    BY <1>0, <2>1, AppendedTypes DEF RecordKinds
  <2>3. /\ pc' \in [Calls -> {"over", "failed"} \cup {pc[d] : d \in Calls}]
        /\ receipt' \in [Calls -> {"refused", "settled", "unsettled"} \cup {receipt[d] : d \in Calls}]
    BY <1>0 DEF TypeOK, Check, Answer
  <2>4. inFlightCount' \in Int /\ inFlightStreamCount' \in Int /\ counted' \in [Calls -> BOOLEAN]
    <3>1. CASE IsStream(c)
      <4>1. inFlightCount' = inFlightCount /\ counted' = [counted EXCEPT ![c] = FALSE]
            /\ inFlightStreamCount' \in {inFlightStreamCount, inFlightStreamCount - 1}
        BY <3>1 DEF Check, StreamDone
      <4>2. QED
        BY <1>0, <4>1 DEF TypeOK
    <3>2. CASE ~IsStream(c)
      BY <1>0, <3>2 DEF TypeOK, Check
    <3>3. QED
      BY <3>1, <3>2
  <2>5. QED
    BY <1>0, <2>2, <2>3, <2>4 DEF TypeOK, Check
<1>2. \A d \in Calls \ {c} : Untouched(d)
  BY <1>0 DEF TypeOK, Untouched, Check, Answer, Appended, StreamDone, RecordKinds
<1>3. engine' = engine /\ (auditDegraded => auditDegraded') /\ (faulty => faulty')
  BY <1>0 DEF TypeOK, Check, Answer, Appended, StreamDone, RecordKinds
<1>4. CallInv(c)'
  BY <1>0 DEF TypeOK, CallInv, GateInv, RequestInv, ReceiptInv, ChargeInv, Explained, PendingInv,
     StreamInv, Streaming, Check, Answer, Appended, StreamDone, RecordKinds
<1>5. /\ Moves(InCall(c), InCall(c)', inFlightCount, inFlightCount')
      /\ Moves(InStream(c), InStream(c)', inFlightStreamCount, inFlightStreamCount')
  BY <1>0 DEF TypeOK, CallInv, GateInv, StreamInv, RequestInv, Moves, InCall, InStream, Streaming,
     Check, Answer, Appended, StreamDone, RecordKinds
<1>6. SweepStep(c)
  BY <1>0 DEF TypeOK, CallInv, GateInv, RequestInv, StreamInv, SweepStep, Drained, InCall,
     InStream, Streaming, Destroyed, admissionsRevoked, Check, Answer, Appended, StreamDone,
     RecordKinds
<1>7. QED
  BY <1>1, <1>2, <1>3, <1>4, <1>5, <1>6 DEF Kept

LEMMA VoidCallKeeps ==
  ASSUME IInv, NEW c \in Calls, VoidCall(c)
  PROVE  Kept(c)
<1>0. TypeOK /\ CallInv(c)
  BY DEF IInv
<1>1. TypeOK'
  BY <1>0 DEF TypeOK, VoidCall, Request, ReleaseHold, sessionShare
<1>2. \A d \in Calls \ {c} : Untouched(d)
  BY <1>0 DEF TypeOK, Untouched, VoidCall, Request, ReleaseHold, sessionShare
<1>3. engine' = engine /\ (auditDegraded => auditDegraded') /\ (faulty => faulty')
  BY <1>0 DEF TypeOK, VoidCall, Request, ReleaseHold, sessionShare
<1>4. CallInv(c)'
  BY <1>0 DEF TypeOK, CallInv, GateInv, RequestInv, ReceiptInv, ChargeInv, Explained, PendingInv,
     StreamInv, Streaming, VoidCall, Request, ReleaseHold, sessionShare
<1>5. /\ Moves(InCall(c), InCall(c)', inFlightCount, inFlightCount')
      /\ Moves(InStream(c), InStream(c)', inFlightStreamCount, inFlightStreamCount')
  BY <1>0 DEF TypeOK, CallInv, GateInv, StreamInv, RequestInv, Moves, InCall, InStream, Streaming,
     VoidCall, Request, ReleaseHold, sessionShare
<1>6. SweepStep(c)
  BY <1>0 DEF TypeOK, CallInv, GateInv, RequestInv, StreamInv, SweepStep, Drained, InCall,
     InStream, Streaming, Destroyed, admissionsRevoked, VoidCall, Request, ReleaseHold, sessionShare
<1>7. QED
  BY <1>1, <1>2, <1>3, <1>4, <1>5, <1>6 DEF Kept

LEMMA VoidStreamKeeps ==
  ASSUME IInv, NEW c \in Calls, VoidStream(c)
  PROVE  Kept(c)
<1>0. TypeOK /\ CallInv(c)
  BY DEF IInv
<1>1. TypeOK'
  <2>1. /\ rec' \in [Calls -> SUBSET RecordKinds]
        /\ callAuditDegraded' \in [Calls -> BOOLEAN] /\ auditDegraded' \in BOOLEAN
    BY <1>0, AppendedTypes DEF VoidStream, RecordKinds
  <2>2. QED
    BY <1>0, <2>1 DEF TypeOK, VoidStream, Request, ReleaseHold, StreamDone, sessionShare
<1>2. \A d \in Calls \ {c} : Untouched(d)
  BY <1>0 DEF TypeOK, Untouched, VoidStream, Request, ReleaseHold, Appended, StreamDone,
     sessionShare, RecordKinds
<1>3. engine' = engine /\ (auditDegraded => auditDegraded') /\ (faulty => faulty')
  BY <1>0 DEF TypeOK, VoidStream, Request, ReleaseHold, Appended, StreamDone, sessionShare,
     RecordKinds
<1>4. CallInv(c)'
  BY <1>0 DEF TypeOK, CallInv, GateInv, RequestInv, ReceiptInv, ChargeInv, Explained, PendingInv,
     StreamInv, Streaming, VoidStream, Request, ReleaseHold, Appended, StreamDone, sessionShare,
     RecordKinds
<1>5. /\ Moves(InCall(c), InCall(c)', inFlightCount, inFlightCount')
      /\ Moves(InStream(c), InStream(c)', inFlightStreamCount, inFlightStreamCount')
  BY <1>0 DEF TypeOK, CallInv, GateInv, StreamInv, RequestInv, Moves, InCall, InStream, Streaming,
     VoidStream, Request, ReleaseHold, Appended, StreamDone, sessionShare, RecordKinds
<1>6. SweepStep(c)
  BY <1>0 DEF TypeOK, CallInv, GateInv, RequestInv, StreamInv, SweepStep, Drained, InCall,
     InStream, Streaming, Destroyed, admissionsRevoked, VoidStream, Request, ReleaseHold, Appended,
     StreamDone, sessionShare, RecordKinds
<1>7. QED
  BY <1>1, <1>2, <1>3, <1>4, <1>5, <1>6 DEF Kept

LEMMA VoidedKeeps ==
  ASSUME IInv, NEW c \in Calls, Voided(c)
  PROVE  Kept(c)
<1>0. TypeOK /\ CallInv(c)
  BY DEF IInv
<1>1. TypeOK'
  BY <1>0 DEF TypeOK, Voided, EndRequest
<1>2. \A d \in Calls \ {c} : Untouched(d)
  BY <1>0 DEF TypeOK, Untouched, Voided, EndRequest
<1>3. engine' = engine /\ (auditDegraded => auditDegraded') /\ (faulty => faulty')
  BY <1>0 DEF TypeOK, Voided, EndRequest
<1>4. CallInv(c)'
  BY <1>0 DEF TypeOK, CallInv, GateInv, RequestInv, ReceiptInv, ChargeInv, Explained, PendingInv,
     StreamInv, Streaming, Voided, EndRequest
<1>5. /\ Moves(InCall(c), InCall(c)', inFlightCount, inFlightCount')
      /\ Moves(InStream(c), InStream(c)', inFlightStreamCount, inFlightStreamCount')
  BY <1>0 DEF TypeOK, CallInv, GateInv, StreamInv, RequestInv, Moves, InCall, InStream, Streaming,
     Voided, EndRequest
<1>6. SweepStep(c)
  BY <1>0 DEF TypeOK, CallInv, GateInv, RequestInv, StreamInv, SweepStep, Drained, InCall,
     InStream, Streaming, Destroyed, admissionsRevoked, Voided, EndRequest
<1>7. QED
  BY <1>1, <1>2, <1>3, <1>4, <1>5, <1>6 DEF Kept

LEMMA FailedKeeps ==
  ASSUME IInv, NEW c \in Calls, Failed(c)
  PROVE  Kept(c)
<1>0. TypeOK /\ CallInv(c)
  BY DEF IInv
<1>1. TypeOK'
  <2>1. /\ rec' \in [Calls -> SUBSET RecordKinds]
        /\ callAuditDegraded' \in [Calls -> BOOLEAN] /\ auditDegraded' \in BOOLEAN
    BY <1>0, AppendedTypes DEF Failed, RecordKinds
  <2>2. QED
    BY <1>0, <2>1 DEF TypeOK, Failed, Answer
<1>2. \A d \in Calls \ {c} : Untouched(d)
  BY <1>0 DEF TypeOK, Untouched, Failed, Answer, Appended, RecordKinds
<1>3. engine' = engine /\ (auditDegraded => auditDegraded') /\ (faulty => faulty')
  BY <1>0 DEF TypeOK, Failed, Answer, Appended, RecordKinds
<1>4. CallInv(c)'
  BY <1>0 DEF TypeOK, CallInv, GateInv, RequestInv, ReceiptInv, ChargeInv, Explained, PendingInv,
     StreamInv, Streaming, Failed, Answer, Appended, RecordKinds
<1>5. /\ Moves(InCall(c), InCall(c)', inFlightCount, inFlightCount')
      /\ Moves(InStream(c), InStream(c)', inFlightStreamCount, inFlightStreamCount')
  BY <1>0 DEF TypeOK, CallInv, GateInv, StreamInv, RequestInv, Moves, InCall, InStream, Streaming,
     Failed, Answer, Appended, RecordKinds
<1>6. SweepStep(c)
  BY <1>0 DEF TypeOK, CallInv, GateInv, RequestInv, StreamInv, SweepStep, Drained, InCall,
     InStream, Streaming, Destroyed, admissionsRevoked, Failed, Answer, Appended, RecordKinds
<1>7. QED
  BY <1>1, <1>2, <1>3, <1>4, <1>5, <1>6 DEF Kept

LEMMA LedgerAnswersKeeps ==
  ASSUME IInv, NEW c \in Calls, LedgerAnswers(c)
  PROVE  Kept(c)
<1>0. TypeOK /\ CallInv(c)
  BY DEF IInv
<1>8. /\ op[c] # "none" /\ (Applies(c) \/ UNCHANGED tbVars)
      /\ tb' \in [Calls -> {"none", "pending", "posted", "voided", "expired"}]
      /\ posted' \in [Calls -> Nat]
      /\ \A d \in Calls \ {c} : tb'[d] = tb[d]
  BY <1>0, AppliesFacts DEF CallInv, RequestInv, LedgerAnswers, TypeOK
<1>1. TypeOK'
  BY <1>0, <1>8 DEF TypeOK, LedgerAnswers
<1>2. \A d \in Calls \ {c} : Untouched(d)
  BY <1>0, <1>8 DEF TypeOK, Untouched, LedgerAnswers
<1>3. engine' = engine /\ (auditDegraded => auditDegraded') /\ (faulty => faulty')
  BY <1>0 DEF TypeOK, LedgerAnswers, Applies
<1>9. /\ tb'[c] = tb[c] \/ (op[c] = "hold" /\ tb'[c] = "pending") \/ (op[c] = "post" /\ tb'[c] = "posted")
         \/ (op[c] = "void" /\ tb'[c] = "voided" /\ tb[c] # "posted")
      /\ ans'[c] = "ok" => Applies(c)
  BY <1>0, <1>8, AppliesFacts DEF LedgerAnswers, TypeOK
<1>4. CallInv(c)'
  <2>1. GateInv(c)' /\ ReceiptInv(c)' /\ StreamInv(c)'
    BY <1>0 DEF CallInv, GateInv, ReceiptInv, StreamInv, Streaming, LedgerAnswers
  <2>2. RequestInv(c)'
    BY <1>0, <1>8, <1>9, AppliesFacts DEF TypeOK, CallInv, GateInv, RequestInv, LedgerAnswers
  <2>3. ChargeInv(c)'
    BY <1>0, <1>8, <1>9 DEF TypeOK, CallInv, ChargeInv, Explained, RequestInv, LedgerAnswers
  <2>4. PendingInv(c)'
    <3>1. CASE Applies(c) /\ ans' = [ans EXCEPT ![c] = "ok"]
      BY <1>0, <1>9, <3>1 DEF TypeOK, CallInv, PendingInv, LedgerAnswers
    <3>2. CASE UNCHANGED tbVars
      BY <1>0, <3>2 DEF CallInv, PendingInv, LedgerAnswers
    <3>3. QED
      BY <3>1, <3>2 DEF LedgerAnswers
  <2>5. QED
    BY <2>1, <2>2, <2>3, <2>4 DEF CallInv
<1>5. /\ Moves(InCall(c), InCall(c)', inFlightCount, inFlightCount')
      /\ Moves(InStream(c), InStream(c)', inFlightStreamCount, inFlightStreamCount')
  BY <1>0 DEF TypeOK, CallInv, GateInv, StreamInv, RequestInv, Moves, InCall, InStream, Streaming,
     LedgerAnswers, Applies
<1>6. SweepStep(c)
  BY <1>0 DEF TypeOK, CallInv, GateInv, RequestInv, StreamInv, SweepStep, Drained, InCall,
     InStream, Streaming, Destroyed, admissionsRevoked, LedgerAnswers, Applies
<1>7. QED
  BY <1>1, <1>2, <1>3, <1>4, <1>5, <1>6 DEF Kept

LEMMA LedgerFailsKeeps ==
  ASSUME IInv, NEW c \in Calls, LedgerFails(c)
  PROVE  Kept(c)
<1>0. TypeOK /\ CallInv(c)
  BY DEF IInv
<1>8. /\ op[c] # "none" /\ (Applies(c) \/ UNCHANGED tbVars)
      /\ tb' \in [Calls -> {"none", "pending", "posted", "voided", "expired"}]
      /\ posted' \in [Calls -> Nat]
      /\ \A d \in Calls \ {c} : tb'[d] = tb[d]
  BY <1>0, AppliesFacts DEF CallInv, RequestInv, LedgerFails, TypeOK
<1>1. TypeOK'
  BY <1>0, <1>8 DEF TypeOK, LedgerFails
<1>2. \A d \in Calls \ {c} : Untouched(d)
  BY <1>0, <1>8 DEF TypeOK, Untouched, LedgerFails
<1>3. engine' = engine /\ (auditDegraded => auditDegraded') /\ (faulty => faulty')
  BY <1>0 DEF TypeOK, LedgerFails, Applies
<1>9. /\ tb'[c] = tb[c] \/ (op[c] = "hold" /\ tb'[c] = "pending") \/ (op[c] = "post" /\ tb'[c] = "posted")
         \/ (op[c] = "void" /\ tb'[c] = "voided" /\ tb[c] # "posted")
      /\ ans'[c] = "ok" => Applies(c)
  BY <1>0, <1>8, AppliesFacts DEF LedgerFails, TypeOK
<1>4. CallInv(c)'
  BY <1>0, <1>8, <1>9, AppliesFacts DEF TypeOK, CallInv, GateInv, RequestInv, ReceiptInv,
     ChargeInv, Explained, PendingInv, StreamInv, Streaming, LedgerFails
<1>5. /\ Moves(InCall(c), InCall(c)', inFlightCount, inFlightCount')
      /\ Moves(InStream(c), InStream(c)', inFlightStreamCount, inFlightStreamCount')
  BY <1>0 DEF TypeOK, CallInv, GateInv, StreamInv, RequestInv, Moves, InCall, InStream, Streaming,
     LedgerFails, Applies
<1>6. SweepStep(c)
  BY <1>0 DEF TypeOK, CallInv, GateInv, RequestInv, StreamInv, SweepStep, Drained, InCall,
     InStream, Streaming, Destroyed, admissionsRevoked, LedgerFails, Applies
<1>7. QED
  BY <1>1, <1>2, <1>3, <1>4, <1>5, <1>6 DEF Kept

LEMMA HoldExpiresKeeps ==
  ASSUME IInv, NEW c \in Calls, HoldExpires(c)
  PROVE  Kept(c)
<1>0. TypeOK /\ CallInv(c)
  BY DEF IInv
<1>1. TypeOK'
  BY <1>0 DEF TypeOK, HoldExpires
<1>2. \A d \in Calls \ {c} : Untouched(d)
  BY <1>0 DEF TypeOK, Untouched, HoldExpires
<1>3. engine' = engine /\ (auditDegraded => auditDegraded') /\ (faulty => faulty')
  BY <1>0 DEF TypeOK, HoldExpires
<1>4. CallInv(c)'
  BY <1>0 DEF TypeOK, CallInv, GateInv, RequestInv, ReceiptInv, ChargeInv, Explained, PendingInv,
     StreamInv, Streaming, HoldExpires
<1>5. /\ Moves(InCall(c), InCall(c)', inFlightCount, inFlightCount')
      /\ Moves(InStream(c), InStream(c)', inFlightStreamCount, inFlightStreamCount')
  BY <1>0 DEF TypeOK, CallInv, GateInv, StreamInv, RequestInv, Moves, InCall, InStream, Streaming,
     HoldExpires
<1>6. SweepStep(c)
  BY <1>0 DEF TypeOK, CallInv, GateInv, RequestInv, StreamInv, SweepStep, Drained, InCall,
     InStream, Streaming, Destroyed, admissionsRevoked, HoldExpires
<1>7. QED
  BY <1>1, <1>2, <1>3, <1>4, <1>5, <1>6 DEF Kept

LEMMA SweepKeeps ==
  ASSUME IInv, NEW c \in Calls, Sweep(c)
  PROVE  Kept(c)
<1>0. TypeOK /\ CallInv(c)
  BY DEF IInv
<1>1. TypeOK'
  <2>1. tb' \in [Calls -> {"none", "pending", "posted", "voided", "expired"}]
    BY <1>0 DEF TypeOK, Sweep
  <2>2. QED
    BY <1>0, <2>1 DEF TypeOK, Sweep, callVars
<1>2. \A d \in Calls \ {c} : Untouched(d)
  BY <1>0 DEF TypeOK, Untouched, Sweep, callVars
<1>3. engine' = engine /\ (auditDegraded => auditDegraded') /\ (faulty => faulty')
  BY <1>0 DEF TypeOK, Sweep, callVars
<1>4. CallInv(c)'
  BY <1>0 DEF TypeOK, CallInv, GateInv, RequestInv, ReceiptInv, ChargeInv, Explained, PendingInv,
     StreamInv, Streaming, Sweep, callVars
<1>5. /\ Moves(InCall(c), InCall(c)', inFlightCount, inFlightCount')
      /\ Moves(InStream(c), InStream(c)', inFlightStreamCount, inFlightStreamCount')
  BY <1>0 DEF TypeOK, CallInv, GateInv, StreamInv, RequestInv, Moves, InCall, InStream, Streaming,
     Sweep, callVars
<1>6. SweepStep(c)
  BY <1>0 DEF TypeOK, CallInv, GateInv, RequestInv, StreamInv, SweepStep, Drained, InCall,
     InStream, Streaming, Destroyed, admissionsRevoked, Sweep, callVars
<1>7. QED
  BY <1>1, <1>2, <1>3, <1>4, <1>5, <1>6 DEF Kept

-----------------------------------------------------------------------------
(* destroy()'s own steps touch no call. *)
LEMMA DestroyFrame ==
  ASSUME IInv, UNCHANGED <<callVars, pendingMap, tb, faulty>>
  PROVE  (\A d \in Calls : CallInv(d)') /\ CountInv' /\ InCalls' = InCalls /\ InStreams' = InStreams
<1>1. engine' = engine /\ auditDegraded' = auditDegraded /\ \A d \in Calls : Untouched(d)
  BY DEF callVars, Untouched
<1>2. \A d \in Calls : CallInv(d)' /\ InCall(d)' = InCall(d) /\ InStream(d)' = InStream(d)
  BY <1>1, Frame DEF IInv
<1>3. InCalls' = InCalls /\ InStreams' = InStreams
  BY <1>2 DEF InCalls, InStreams
<1>4. CountInv'
  BY <1>3 DEF IInv, CountInv, callVars
<1>5. QED
  BY <1>2, <1>3, <1>4

(* The drain ends with nothing in flight, or gives up (missed). *)
LEMMA DestroyKeeps ==
  ASSUME IInv, DestroyStarts \/ DrainEnds \/ Close
  PROVE  IInv'
<1>1. UNCHANGED <<callVars, pendingMap, tb, faulty>>
  BY DEF DestroyStarts, DrainEnds, Close
<1>2. /\ \A d \in Calls : CallInv(d)'
      /\ CountInv' /\ InCalls' = InCalls /\ InStreams' = InStreams
  BY <1>1, DestroyFrame
<1>3. TypeOK'
  BY <1>1 DEF IInv, TypeOK, DestroyStarts, DrainEnds, Close, callVars
<1>4. SweepInv'
  <2>1. CASE DestroyStarts
    BY <2>1 DEF DestroyStarts, SweepInv, Drained
  <2>2. CASE DrainEnds /\ ~missed'
    <3>1. inFlightCount <= 0 /\ inFlightStreamCount <= 0 /\ entries' = pendingMap /\ dpc' = "sweep"
      BY <2>2 DEF DrainEnds
    <3>2. InCalls = {} /\ InStreams = {}
      BY <3>1, FS_CardinalityType, FS_EmptySet DEF IInv, CountInv
    <3>3. QED
      BY <1>1, <1>2, <3>1, <3>2 DEF SweepInv, InCalls, InStreams
  <2>3. CASE DrainEnds /\ missed'
    BY <2>3 DEF SweepInv, Drained
  <2>4. CASE Close
    <3>1. Drained' => Drained
      BY <2>4 DEF Close, Drained
    <3>2. QED
      BY <1>1, <1>2, <2>4, <3>1 DEF IInv, SweepInv, Close, InCalls, InStreams
  <2>5. QED
    BY <2>1, <2>2, <2>3, <2>4
<1>5. QED
  BY <1>2, <1>3, <1>4 DEF IInv

(* The invariant holds initially. *)
LEMMA InitIInv == Init => IInv
<1> SUFFICES ASSUME Init PROVE IInv
  OBVIOUS
<1>1. TypeOK
  <2>1. engine \in BOOLEAN /\ kind \in [Calls -> {"none", "plain", "google", "iter", "helper"}]
    BY DEF Init
  <2>2. /\ signals \in [Calls -> SUBSET {"finalMessage", "error", "abort", "end"}]
        /\ rec \in [Calls -> SUBSET RecordKinds]
    BY DEF Init
  <2>3. /\ holdActive \in [Calls -> BOOLEAN] /\ settled \in [Calls -> BOOLEAN]
        /\ late \in [Calls -> BOOLEAN] /\ counted \in [Calls -> BOOLEAN]
        /\ callAuditDegraded \in [Calls -> BOOLEAN]
    BY DEF Init
  <2>4. /\ {inFlightCount, inFlightStreamCount, inFlightHoldTotal, budgetSpent} \subseteq Int
        /\ est \in [Calls -> Nat] /\ cost \in [Calls -> Nat] /\ posted \in [Calls -> Nat]
    BY DEF Init
  <2>5. /\ pc \in [Calls -> {"idle", "admitted", "gate", "hold", "provider", "live",
                          "returning", "throwing", "record", "commit", "post",
                          "posting", "check", "release", "voiding", "failed", "over"}]
        /\ finalizeState \in [Calls -> {"pending", "settled", "voided"}]
        /\ receipt \in [Calls -> {"none", "refused", "rejected", "settled", "unsettled"}]
        /\ gen \in [Calls -> {"start", "body", "done"}]
        /\ op \in [Calls -> {"none", "hold", "post", "void"}]
        /\ ans \in [Calls -> {"none", "wait", "ok", "no", "err"}]
        /\ tb \in [Calls -> {"none", "pending", "posted", "voided", "expired"}]
    BY DEF Init
  <2>6. /\ lock \in Calls \cup {"free"} /\ pendingMap \subseteq Calls /\ entries \subseteq Calls
        /\ dpc \in {"up", "drain", "sweep", "closed"}
        /\ auditDegraded \in BOOLEAN /\ missed \in BOOLEAN /\ faulty \in BOOLEAN
    BY DEF Init
  <2>7. QED
    BY <2>1, <2>2, <2>3, <2>4, <2>5, <2>6 DEF TypeOK
<1>2. \A c \in Calls : CallInv(c)
  BY DEF Init, CallInv, GateInv, RequestInv, ReceiptInv, ChargeInv, PendingInv, StreamInv,
     Streaming
<1>3. InCalls = {} /\ InStreams = {}
  BY DEF Init, InCalls, InStreams, InCall, InStream, Streaming
<1>4. CountInv
  BY <1>3, FS_EmptySet DEF Init, CountInv
<1>5. SweepInv
  BY DEF Init, SweepInv, Drained
<1>6. QED
  BY <1>1, <1>2, <1>4, <1>5 DEF IInv

(* Every step keeps it. *)
LEMMA NextIInv == IInv /\ [Next]_vars => IInv'
<1> SUFFICES ASSUME IInv, [Next]_vars PROVE IInv'
  OBVIOUS
<1>1. CASE UNCHANGED vars
  <2>1. UNCHANGED <<callVars, pendingMap, tb, faulty>> /\ UNCHANGED <<dpc, entries, missed>>
    BY <1>1 DEF vars, callVars
  <2>2. CountInv' /\ (\A d \in Calls : CallInv(d)') /\ InCalls' = InCalls /\ InStreams' = InStreams
    BY <2>1, DestroyFrame
  <2>3. TypeOK'
    BY <2>1 DEF IInv, TypeOK, callVars
  <2>4. SweepInv'
    BY <2>1, <2>2 DEF IInv, SweepInv, Drained, InCalls, InStreams
  <2>5. QED
    BY <2>2, <2>3, <2>4 DEF IInv
<1>2. ASSUME NEW c \in Calls,
             \/ AdmitGoogleCall(c) \/ Enter(c) \/ RefusedAtEntry(c)
             \/ Gate(c) \/ Denied(c) \/ HoldPlaced(c) \/ HoldRefused(c)
             \/ ProviderFails(c) \/ ProviderReplies(c) \/ StreamReturned(c)
             \/ IterNext(c) \/ IterUnstarted(c) \/ IterTerminal(c)
             \/ HelperTerminal(c) \/ HelperLate(c)
             \/ Record(c) \/ Commit(c) \/ Post(c) \/ Posted(c) \/ Check(c)
             \/ VoidCall(c) \/ VoidStream(c) \/ Voided(c) \/ Failed(c)
             \/ LedgerAnswers(c) \/ LedgerFails(c) \/ HoldExpires(c)
             \/ Sweep(c)
      PROVE  IInv'
  <2>1. Kept(c)
    BY <1>2, AdmitGoogleCallKeeps, EnterKeeps, RefusedAtEntryKeeps, GateKeeps, DeniedKeeps,
       HoldPlacedKeeps, HoldRefusedKeeps, ProviderFailsKeeps, ProviderRepliesKeeps,
       StreamReturnedKeeps, IterNextKeeps, IterUnstartedKeeps, IterTerminalKeeps,
       HelperTerminalKeeps, HelperLateKeeps, RecordKeeps, CommitKeeps, PostKeeps, PostedKeeps,
       CheckKeeps, VoidCallKeeps, VoidStreamKeeps, VoidedKeeps, FailedKeeps, LedgerAnswersKeeps,
       LedgerFailsKeeps, HoldExpiresKeeps, SweepKeeps
  <2>2. QED
    BY <2>1, KeptSuffices
<1>3. CASE DestroyStarts \/ DrainEnds \/ Close
  BY <1>3, DestroyKeeps
<1>4. QED
  BY <1>1, <1>2, <1>3 DEF Next

(* So every reachable state satisfies it. *)
LEMMA Invariant == Spec => []IInv
  BY InitIInv, NextIInv, PTL DEF Spec

-----------------------------------------------------------------------------
(* The variables have their types, whatever requests, appends and emitters *)
(* do.                                                                     *)
THEOREM TypeCorrect == Spec => []TypeOK
<1>1. IInv => TypeOK
  BY DEF IInv
<1>2. QED
  BY <1>1, Invariant, PTL

(* finalizeOnce(): a hold whose void was claimed, or whose .receipt        *)
(* rejected, is never posted and never answered as settled.                *)
THEOREM NoChargeAfterVoid == Spec => []VoidedNeverCharged
<1>1. IInv => VoidedNeverCharged
  BY DEF IInv, CallInv, RequestInv, ReceiptInv, VoidedNeverCharged
<1>2. QED
  BY <1>1, Invariant, PTL

(* A call that charged the session is charged in the ledger, or its record *)
(* says the settlement is ambiguous, or the audit writer is degraded.      *)
THEOREM ChargesExplained == Spec => []ChargeExplained
<1>1. IInv => ChargeExplained
  BY DEF IInv, CallInv, ChargeInv, Explained, ChargeExplained
<1>2. QED
  BY <1>1, Invariant, PTL

(* After a drain that did not run into its deadline, the sweep finds no    *)
(* call and no stream at work: whoever has not come to its end was never   *)
(* made, or is a helper a late signal stopped counting (streaming.ts,      *)
(* releaseStreamCount).                                                    *)
DrainWaits == Drained => \A c \in Calls : pc[c] \in {"idle", "over"} \/ late[c]

THEOREM SweepFindsNobody == Spec => []DrainWaits
<1>1. ASSUME IInv, Drained, NEW c \in Calls PROVE pc[c] \in {"idle", "over"} \/ late[c]
  BY <1>1 DEF IInv, TypeOK, SweepInv, CallInv, GateInv, StreamInv, InCall, InStream, Streaming
<1>2. IInv => DrainWaits
  BY <1>1 DEF DrainWaits
<1>3. QED
  BY <1>2, Invariant, PTL

(* destroy() closes the ledger client with nothing left pending, if its    *)
(* drain did not give up and the ledger failed no request.                 *)
THEOREM ClosedLeavesNothing == Spec => []NothingLeftPending
<1>1. ASSUME IInv, Closed, ~missed, ~faulty, NEW c \in Calls PROVE tb[c] # "pending"
  <2>1. pendingMap = {} /\ ~InCall(c)
    BY <1>1 DEF IInv, SweepInv, Drained, Closed
  <2>2. op[c] # "hold"
    BY <1>1, <2>1 DEF IInv, CallInv, RequestInv, InCall
  <2>3. QED
    BY <1>1, <2>1, <2>2 DEF IInv, CallInv, PendingInv
<1>2. IInv => NothingLeftPending
  BY <1>1 DEF NothingLeftPending
<1>3. QED
  BY <1>2, Invariant, PTL
=============================================================================
