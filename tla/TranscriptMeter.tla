--------------------------- MODULE TranscriptMeter ----------------------------
(***************************************************************************)
(* The Claude Code plugin's transcript mode                                *)
(* (packages/claude-code-plugin/hooks/transcript.mjs, with its callers in  *)
(* pre-tool-use.mjs, post-tool-use.mjs and stop.mjs).                      *)
(*                                                                         *)
(* Every agent of a session has a transcript, to which the host adds       *)
(* messages, and a cursor: what the hooks know of those messages. A fork's *)
(* transcript begins with a copy of its ancestor's. A message is charged   *)
(* by one authorize and settle that carries it:                            *)
(*   PreToolUse   binds an agent's new messages to the hold it authorizes  *)
(*                (the window) and records them in the hold's file;        *)
(*   PostToolUse  settles that hold and journals how it ended;             *)
(*   Stop         settles the holds left over, retries each vehicle whose  *)
(*                outcome is unknown, and posts what no hold carried (the  *)
(*                remainder).                                              *)
(* A hold's file is renamed as it goes: live (.json), settling, done with  *)
(* the outcome. A hook works on a copy of the cursor, under the agent's    *)
(* lock, and may be killed at any step; a request may be refused, or its   *)
(* answer lost, and a lost settle may still land.                          *)
(*                                                                         *)
(* Messages of one class have one model and one job. A vehicle's key is    *)
(* the agent and the set of its messages. An answered request is one step. *)
(* A hook ends (at the latest, is killed) well before its lock or its      *)
(* settle is judged stale: the time limits of a hook are 10 s, those of a  *)
(* lock 60 s and of a settle 10 min.                                       *)
(*                                                                         *)
(* Definitions named Mutant... are the mutated forms PROJECT.json lists.   *)
(***************************************************************************)
EXTENDS Integers, Sequences

CONSTANTS
  Messages,    \* responses: a set of integers, in the order the host writes them
  Main, Fork,  \* the agents: Fork's transcript begins with a copy of Main's
  Pres, Posts, Stops,   \* the hooks
  Transfers,   \* holds the server may grant
  Sessions,    \* [keys, agents, class, hooks, faults]: whether the server honours
               \* idempotency keys, the agents in the order Stop takes them, the
               \* model and job of a message, the hooks that run, and a bound on
               \* the faults: kills, failed requests and file operations
  None

Hooks == Pres \cup Posts \cup Stops
Owners == {Main, Fork}

VARIABLES
  session,
  transcript,   \* an agent's complete messages
  cursor,       \* an agent's cursor, as saved
  claims,       \* the agent a message's claim file names
  lock,         \* the hook in an agent's lock
  file,         \* a hold's file: its name, and what its body says
  srv,          \* the server's holds
  late,         \* settles nobody waits for that may still land
  pc, job,      \* a hook: its place and its memory
  excused,      \* history: messages that may go unrecorded (AtRisk, Excuse)
  faults

disk   == <<cursor, claims, file>>
server == <<srv, late>>
vars   == <<session, transcript, disk, lock, server, pc, job, excused, faults>>

-----------------------------------------------------------------------------
(* The cursor. *)

emptyCursor ==
  [partial |-> {}, claimed |-> {}, accounted |-> {}, posted |-> {}, denied |-> {},
   assigned |-> {}, unresolved |-> {}]

accountIds(c, ids) ==
  [c EXCEPT !.assigned = @ \ ids, !.partial = @ \ ids, !.claimed = @ \ ids,
            !.accounted = @ \cup ids]
postIds(c, ids) == [accountIds(c, ids) EXCEPT !.posted = @ \cup ids]
releaseIds(c, ids) == [c EXCEPT !.assigned = @ \ ids]
denyIds(c, ids) ==
  [c EXCEPT !.assigned = @ \ ids, !.partial = @ \ ids, !.claimed = @ \ ids,
            !.denied = @ \cup ids]
keepUnresolved(c, vehicles) ==
  [releaseIds(c, UNION vehicles) EXCEPT !.unresolved = @ \cup vehicles]

(* selectNew(): complete messages that nothing carries or has carried. *)
selectNew(c, live) == c.partial \ (c.assigned \cup live \cup UNION c.unresolved)

-----------------------------------------------------------------------------
NoFile == [kind |-> "none", agent |-> None, ids |-> {}, keyed |-> FALSE, outcome |-> None, by |-> None]
NoHold == [st |-> "free", agent |-> None, ids |-> {}, keyed |-> FALSE]
NoJob ==
  [agent |-> None, task |-> None, keyed |-> FALSE, mem |-> emptyCursor, listed |-> {},
   live |-> {}, finished |-> {}, own |-> {}, aside |-> {}, vehicles |-> {}, group |-> {},
   hold |-> None, retry |-> FALSE, result |-> None, down |-> FALSE, next |-> None,
   left |-> {}, agents |-> <<>>]

Init ==
  /\ session \in Sessions
  /\ transcript = [a \in Owners |-> {}]
  /\ cursor = [a \in Owners |-> emptyCursor]
  /\ claims = [m \in Messages |-> None] /\ lock = [a \in Owners |-> None]
  /\ file = [h \in Transfers |-> NoFile] /\ srv = [h \in Transfers |-> NoHold]
  /\ late = {} /\ excused = {} /\ faults = 0
  /\ pc = [k \in Hooks |-> "idle"] /\ job = [k \in Hooks |-> NoJob]

Fault == faults < session.faults /\ faults' = faults + 1
NoFault == UNCHANGED faults

Goes(k, to) == pc' = [pc EXCEPT ![k] = to]
Knows(k, j) == job' = [job EXCEPT ![k] = j]
Excuse(S) == excused' = excused \cup S

Dead(k) == pc[k] = "dead"
Named(kinds) == {h \in Transfers : file[h].kind \in kinds}
IdsOf(H) == UNION {file[h].ids : h \in H}

(* Messages only hook k's memory accounts for: claimed, and its cursor not *)
(* saved; or bound in the saved cursor to a call no file or vehicle names; *)
(* or on a hold without a key whose settle only k can tell of.             *)
AtRisk(k) ==
  LET j == job[k]
      c == cursor[j.agent]
      bound == (j.group \cap c.assigned) \ IdsOf(Named({"live"}))
      claimed == {m \in Messages : claims[m] = j.agent} \cap j.mem.claimed
      settling == {h \in Named({"settling", "both"}) : file[h].by = k /\ ~file[h].keyed}
  IN IF j.agent = None THEN {} ELSE bound \cup (claimed \ c.claimed) \cup IdsOf(settling)

-----------------------------------------------------------------------------
(* The host, the server and time. *)

(* The host completes Main's next message; and starts a fork of Main.      *)
HostWrites ==
  \E m \in Messages :
    /\ m \notin transcript[Main] /\ \A n \in Messages : n < m => n \in transcript[Main]
    /\ transcript' = [transcript EXCEPT ![Main] = @ \cup {m}]
    /\ UNCHANGED <<session, disk, lock, server, pc, job, excused, faults>>

HostForks ==
  /\ Len(session.agents) > 1 /\ transcript[Fork] = {} /\ transcript[Main] # {}
  /\ transcript' = [transcript EXCEPT ![Fork] = transcript[Main]]
  /\ UNCHANGED <<session, disk, lock, server, pc, job, excused, faults>>

(* A key is charged once: every keyed charge is posted under its anchor. *)
KeyCharged(agent, ids) ==
  \E h \in Transfers : /\ srv[h].st = "settled" /\ srv[h].keyed
                       /\ srv[h].agent = agent /\ srv[h].ids = ids

Chargeable(h) == srv[h].st = "pending" /\ ~(srv[h].keyed /\ KeyCharged(srv[h].agent, srv[h].ids))
Becomes(h, st) == srv' = [srv EXCEPT ![h].st = st]

(* A settle whose answer nobody waits for lands. *)
LateSettle ==
  \E h \in late :
    /\ late' = late \ {h} /\ Becomes(h, IF Chargeable(h) THEN "settled" ELSE srv[h].st)
    /\ UNCHANGED <<session, transcript, disk, lock, pc, job, excused, faults>>

(* The server's sweep ends a hold at the end of its life. *)
Expires ==
  \E h \in Transfers :
    /\ srv[h].st = "pending" /\ Becomes(h, "gone")
    /\ UNCHANGED <<session, transcript, disk, lock, late, pc, job, excused, faults>>

(* A hook is killed. *)
Kill(k) ==
  /\ pc[k] \notin {"idle", "over", "dead"} /\ Fault
  /\ Excuse(AtRisk(k)) /\ Goes(k, "dead") /\ Knows(k, NoJob)
  /\ UNCHANGED <<session, transcript, disk, lock, server>>

(* An agent's cursor file is removed. *)
LoseCursor(a) ==
  /\ cursor[a] # emptyCursor /\ lock[a] = None /\ Fault
  /\ cursor' = [cursor EXCEPT ![a] = emptyCursor]
  /\ Excuse({m \in Messages : claims[m] = a})
  /\ UNCHANGED <<session, transcript, claims, file, lock, server, pc, job>>

-----------------------------------------------------------------------------
(* The agent's lock and its journal. *)

(* Where a hook goes on once it is done with an agent. *)
Onward(j) ==
  CASE j.task = "window" -> "over"
    [] j.task = "journal" -> IF j.agents = <<>> THEN "over" ELSE "leftovers"
    [] OTHER -> IF j.down THEN "over" ELSE "agents"

(* openAgent(), reconcileAgent(): the lock is taken, if nobody has it or   *)
(* who had it died, and the cursor and the journal's names are read.       *)
Open(k) ==
  LET a == job[k].agent
  IN /\ pc[k] = "open" /\ (lock[a] # None => Dead(lock[a]))
     /\ lock' = [lock EXCEPT ![a] = k]
     /\ Knows(k, [job[k] EXCEPT !.mem = cursor[a],
          !.listed = {<<h, file[h].kind>> : h \in {g \in Named({"live", "settling", "done", "both"}) :
                                                    file[g].agent = a}}])
     /\ Goes(k, "reconcile")
     /\ UNCHANGED <<session, transcript, disk, server, excused, faults>>

(* What a hook knows of an agent ends with its turn there. *)
Leaves(k) ==
  LET j == job[k]
  IN /\ Goes(k, Onward(j))
     /\ Knows(k, [NoJob EXCEPT !.keyed = j.keyed, !.left = j.left, !.agents = j.agents])

Busy(k) ==
  /\ pc[k] = "open" /\ lock[job[k].agent] # None /\ Leaves(k)
  /\ UNCHANGED <<session, transcript, disk, lock, server, excused, faults>>

(* holdJournal(): a listed file is read if it still has that name. A hold  *)
(* whose outcome is being journalled has two names.                        *)
Reads(k, as) ==
  {h \in Named({as, "both"} \ (IF as = "live" THEN {"both"} ELSE {})) :
     <<h, as>> \in job[k].listed \/ (as # "live" /\ <<h, "both">> \in job[k].listed)}

(* An unknown outcome is never tried again, even under a key. *)
MutantReconcile(c, D, S, live) ==
  LET with(o) == {h \in D : file[h].outcome = o}
      read == accountIds(postIds(releaseIds(c, IdsOf(with("released"))), IdsOf(with("settled"))),
                         IdsOf(with("claimed") \cup with("unresolved") \cup S))
  IN accountIds(read, read.assigned \ live)

(* reconcile(): what the journal says becomes the cursor's. S are the      *)
(* settles left so long that they read as a dead hook's. A binding that    *)
(* nothing recorded the outcome of is never posted again.                  *)
reconcile(c, D, S, live) ==
  LET with(o) == {h \in D : file[h].outcome = o}
      unknown == with("unresolved") \cup S
      keyed   == {h \in unknown : file[h].keyed}
      read    == accountIds(postIds(releaseIds(c, IdsOf(with("released"))), IdsOf(with("settled"))),
                            IdsOf(with("claimed") \cup (unknown \ keyed)))
      kept    == keepUnresolved(read, {file[h].ids : h \in keyed})
  IN accountIds(kept, kept.assigned \ live)

(* ingest(): the transcript's complete messages, unless done with. *)
ingest(c, a) == [c EXCEPT !.partial = @ \cup (transcript[a] \ (c.accounted \cup c.denied))]

(* Bound messages whose hold's file was renamed between its listing and    *)
(* its reading: this reconcile sees no hold, and does not wait for its end *)
(* (a settle that then ends without a charge leaves them unrecorded).      *)
Missed(k, c, live) == (c.assigned \ live) \cap IdsOf(Named({"settling", "done", "both"}))

Reconcile(k) ==
  LET j    == job[k]
      done == Reads(k, "done")
      busy == Reads(k, "settling")
  IN /\ pc[k] = "reconcile"
     /\ \E S \in SUBSET {h \in busy : Dead(file[h].by)} :
          LET live == IdsOf(Reads(k, "live") \cup (busy \ S))
              c    == reconcile(j.mem, done, S, live)
          IN /\ Excuse(Missed(k, j.mem, live \cup IdsOf(done \cup S)))
             /\ Knows(k, [j EXCEPT !.listed = {}, !.live = live,
                 !.finished = {<<h, "done">> : h \in done} \cup {<<h, "settling">> : h \in S},
                 !.mem = IF j.task = "journal" THEN c ELSE ingest(c, j.agent),
                 !.next = "unlock"])
     /\ Goes(k, IF j.task = "journal" THEN "save" ELSE "claim")
     /\ UNCHANGED <<session, transcript, disk, lock, server, faults>>

(* writeCursor(), and then removeFiles(). *)
Save(k) ==
  /\ pc[k] = "save" /\ cursor' = [cursor EXCEPT ![job[k].agent] = job[k].mem]
  /\ Goes(k, IF job[k].finished = {} THEN job[k].next ELSE "sweep")
  /\ UNCHANGED <<session, transcript, claims, file, lock, server, job, excused, faults>>

(* The write fails: the hook says so and goes no further with this agent. *)
SaveFails(k) ==
  /\ pc[k] = "save" /\ Fault /\ Excuse(AtRisk(k)) /\ Goes(k, "unlock")
  /\ UNCHANGED <<session, transcript, disk, lock, server, job>>

Without(f, as) ==
  IF f.kind = "both" THEN [f EXCEPT !.kind = IF as = "done" THEN "settling" ELSE "done"]
  ELSE IF f.kind = as THEN NoFile ELSE f

RemoveFiles(k) ==
  LET gone(f, h, as) == IF <<h, as>> \in job[k].finished THEN Without(f, as) ELSE f
  IN /\ pc[k] = "sweep" /\ Goes(k, job[k].next)
     /\ file' = [h \in Transfers |-> gone(gone(file[h], h, "done"), h, "settling")]
     /\ Knows(k, [job[k] EXCEPT !.finished = {}])
     /\ UNCHANGED <<session, transcript, cursor, claims, lock, server, excused, faults>>

(* The lock is released. *)
Unlock(k) ==
  /\ pc[k] = "unlock" /\ lock' = [lock EXCEPT ![job[k].agent] = None] /\ Leaves(k)
  /\ UNCHANGED <<session, transcript, disk, server, excused, faults>>

-----------------------------------------------------------------------------
(* selectOwn(): a message is posted only under a claim this cursor made. *)

Unclaimed(k) == (selectNew(job[k].mem, job[k].live) \ job[k].mem.claimed) \ job[k].aside

(* claimHolder(): the claim is made, or its holder read. *)
Claimed(c, m) ==
  IF claims[m] = None THEN [c EXCEPT !.claimed = @ \cup {m}] ELSE accountIds(c, {m})

Claim(k) ==
  LET j == job[k]
  IN \E m \in Unclaimed(k) :
       /\ pc[k] = "claim" /\ \A n \in Unclaimed(k) : m <= n
       /\ claims' = [claims EXCEPT ![m] = IF @ = None THEN j.agent ELSE @]
       /\ Knows(k, [j EXCEPT !.mem = Claimed(j.mem, m)])
       /\ UNCHANGED <<session, transcript, cursor, file, lock, server, pc, excused, faults>>

(* The claim can be neither made nor read, or the hook's time is short: it *)
(* is left to a later hook.                                                *)
ClaimLeft(k) ==
  \E m \in Unclaimed(k) :
    /\ pc[k] = "claim" /\ \A n \in Unclaimed(k) : m <= n
    /\ Fault /\ Knows(k, [job[k] EXCEPT !.aside = @ \cup {m}])
    /\ UNCHANGED <<session, transcript, disk, lock, server, pc, excused>>

(* prepareWindow(): one class of the agent's own messages is bound before  *)
(* the authorize; none, when none is of the call's job.                    *)
Own(k) == selectNew(job[k].mem, job[k].live) \cap job[k].mem.claimed

Window(k) ==
  LET j == job[k]
  IN /\ pc[k] = "claim" /\ j.task = "window" /\ Unclaimed(k) = {}
     /\ \E ids \in {{}} \cup {{m \in Own(k) : session.class[m] = session.class[n]} : n \in Own(k)} :
          Knows(k, [j EXCEPT !.group = ids, !.mem.assigned = @ \cup ids,
                             !.next = IF ids = {} THEN "unlock" ELSE "authorize"])
     /\ Goes(k, "save")
     /\ UNCHANGED <<session, transcript, disk, lock, server, excused, faults>>

(* remainderOf(): the agent's own messages, and its unresolved vehicles if *)
(* the server is known to honour keys.                                     *)
Selected(k) ==
  LET j == job[k]
  IN /\ pc[k] = "claim" /\ j.task = "remainder" /\ Unclaimed(k) = {}
     /\ Knows(k, [j EXCEPT !.own = Own(k), !.next = "post",
                           !.vehicles = IF j.keyed THEN j.mem.unresolved ELSE {}])
     /\ Goes(k, "save")
     /\ UNCHANGED <<session, transcript, disk, lock, server, excused, faults>>

-----------------------------------------------------------------------------
(* Requests. *)

(* What /v1/authorize answers for ids: granted (a new hold), that the key  *)
(* is charged, a refusal, or nothing usable. A hold granted unheard is     *)
(* never settled: only its end of life is left to it.                      *)
AuthorizeAnswer(k, keyed, r, h) ==
  LET j == job[k]
  IN \/ /\ r = "granted" /\ h \in Transfers /\ srv[h].st = "free"
        /\ h = CHOOSE g \in Transfers : srv[g].st = "free"
        /\ ~(keyed /\ KeyCharged(j.agent, j.group))
        /\ srv' = [srv EXCEPT ![h] = [st |-> "pending", agent |-> j.agent, ids |-> j.group, keyed |-> keyed]]
        /\ NoFault
     \/ /\ r = "already" /\ h = None /\ keyed /\ KeyCharged(j.agent, j.group)
        /\ UNCHANGED srv /\ NoFault
     \/ r \in {"denied", "failed"} /\ h = None /\ Fault /\ UNCHANGED srv

(* What /v1/settle does and answers: "lost" is no answer, a 5xx, or an     *)
(* ambiguous one, the charge made, still under way, or never; "unsent"     *)
(* never left; "expired" is a hold past its life, given back with the      *)
(* server's word instead of being settled. A hold that was not settled is  *)
(* given back.                                                             *)
SettleAnswer(h, r) ==
  \/ r = "ok" /\ Chargeable(h) /\ Becomes(h, "settled") /\ UNCHANGED late /\ NoFault
  \/ /\ r = "already" /\ srv[h].st = "pending" /\ ~Chargeable(h)
     /\ Becomes(h, "gone") /\ UNCHANGED late /\ NoFault
  \/ r \in {"gone", "expired"} /\ srv[h].st = "gone" /\ UNCHANGED <<srv, late>> /\ NoFault
  \/ r \in {"refused", "unsent"} /\ srv[h].st = "pending" /\ Becomes(h, "gone") /\ UNCHANGED late /\ Fault
  \/ r = "lost" /\ Chargeable(h) /\ Becomes(h, "settled") /\ UNCHANGED late /\ Fault
  \/ r = "lost" /\ UNCHANGED srv /\ late' = late \cup {h} /\ Fault

(* A settle whose outcome is unknown counts as one that never was. *)
MutantSettleOutcome(r, keyed) == IF r \in {"ok", "already"} THEN "settled" ELSE "released"

(* settleAt(), settleOutcome(). *)
settleOutcome(r, keyed) ==
  IF r \in {"ok", "already"} THEN "settled"
  ELSE IF r \in {"refused", "expired"} \/ (~keyed /\ r \in {"gone", "unsent"}) THEN "released"
  ELSE IF keyed THEN "unresolved" ELSE "claimed"

Results == {"ok", "already", "gone", "expired", "refused", "unsent", "lost"}

(* Without a key, a settle that may have posted is never tried again. *)
GivenUp(k, outcome) == IF outcome = "claimed" THEN job[k].group ELSE {}

-----------------------------------------------------------------------------
(* PreToolUse. *)

(* Unknown capabilities (a failed probe) read as none: no key is sent. *)
Probe(keyed) == \/ keyed = session.keys /\ NoFault
                \/ keyed = FALSE /\ session.keys /\ Fault

PreStarts(k) ==
  \E a \in Owners, keyed \in BOOLEAN :
    /\ pc[k] = "idle" /\ transcript[a] # {} /\ Probe(keyed) /\ Goes(k, "open")
    /\ Knows(k, [NoJob EXCEPT !.agent = a, !.task = "window", !.keyed = keyed])
    /\ UNCHANGED <<session, transcript, disk, lock, server, excused>>

(* reserve(): the window's ids are the hold's; the key's charge stands     *)
(* (settledElsewhere); or nothing was posted, and they are let go          *)
(* (abandon).                                                              *)
PreAuthorizes(k) ==
  LET j == job[k]
  IN /\ pc[k] = "authorize" /\ j.task = "window"
     /\ \E r \in {"granted", "already", "denied", "failed"}, h \in Transfers \cup {None} :
          /\ AuthorizeAnswer(k, j.keyed, r, h)
          /\ Goes(k, IF r = "granted" THEN "record" ELSE "save")
          /\ Knows(k, [j EXCEPT !.hold = h, !.next = "unlock",
               !.mem = CASE r = "granted" -> j.mem
                         [] r = "already" -> postIds(j.mem, j.group)
                         [] OTHER -> releaseIds(j.mem, j.group)])
     /\ UNCHANGED <<session, transcript, disk, lock, late, excused>>

(* recordPending(), commit(). *)
Record(k) ==
  LET j == job[k]
  IN /\ pc[k] = "record" /\ Goes(k, "unlock")
     /\ file' = [file EXCEPT ![j.hold] = [NoFile EXCEPT !.kind = "live", !.agent = j.agent,
                                            !.ids = j.group, !.keyed = j.keyed]]
     /\ UNCHANGED <<session, transcript, cursor, claims, lock, server, job, excused, faults>>

(* The hold cannot be recorded: it is given back, and its messages let go. *)
RecordFails(k) ==
  LET j == job[k]
  IN /\ pc[k] = "record" /\ Fault /\ Goes(k, "save")
     /\ Knows(k, [j EXCEPT !.mem = releaseIds(j.mem, j.group)])
     /\ Becomes(j.hold, "gone")
     /\ UNCHANGED <<session, transcript, disk, lock, late, excused>>

-----------------------------------------------------------------------------
(* settleTranscriptHold(): at PostToolUse and, for what is left, at Stop.  *)

(* The hold's file is claimed by its rename: another hook finds none. *)
Takes(k, h, j) ==
  /\ file[h].kind = "live" /\ Goes(k, "settle")
  /\ file' = [file EXCEPT ![h].kind = "settling", ![h].by = k]
  /\ Knows(k, [j EXCEPT !.agent = file[h].agent, !.task = "journal", !.hold = h,
                        !.group = file[h].ids])
  /\ UNCHANGED <<session, transcript, cursor, claims, lock, server, excused, faults>>

PostStarts(k) == pc[k] = "idle" /\ \E h \in Transfers : Takes(k, h, NoJob)

HoldSettles(k) ==
  LET j == job[k]
      h == j.hold
  IN /\ pc[k] = "settle" /\ j.task = "journal" /\ Goes(k, "journal")
     /\ \E r \in Results :
          /\ SettleAnswer(h, r)
          /\ Knows(k, [j EXCEPT !.result = settleOutcome(r, file[h].keyed)])
          /\ Excuse(GivenUp(k, settleOutcome(r, file[h].keyed)))
     /\ UNCHANGED <<session, transcript, disk, lock>>

(* publishExclusive(.done), and the unlink of .settling. *)
Journal(k) ==
  /\ pc[k] = "journal" /\ Goes(k, "unlink")
  /\ file' = [file EXCEPT ![job[k].hold].kind = "both", ![job[k].hold].outcome = job[k].result]
  /\ UNCHANGED <<session, transcript, cursor, claims, lock, server, job, excused, faults>>

(* The outcome cannot be journalled: .settling stays. It is not stale      *)
(* before its hook is gone.                                                *)
JournalFails(k) ==
  /\ pc[k] = "journal" /\ Fault /\ Excuse(AtRisk(k)) /\ Goes(k, "open")
  /\ UNCHANGED <<session, transcript, disk, lock, server, job>>

Unlink(k) ==
  /\ pc[k] = "unlink" /\ Goes(k, "open")
  /\ file' = [file EXCEPT ![job[k].hold] = Without(@, "settling")]
  /\ UNCHANGED <<session, transcript, cursor, claims, lock, server, job, excused, faults>>

-----------------------------------------------------------------------------
(* settleSession(): Stop. *)

StopStarts(k) ==
  \E keyed \in BOOLEAN :
    /\ pc[k] = "idle" /\ Probe(keyed) /\ Goes(k, "leftovers")
    /\ Knows(k, [NoJob EXCEPT !.keyed = keyed, !.agents = session.agents, !.left = Named({"live"})])
    /\ UNCHANGED <<session, transcript, disk, lock, server, excused>>

(* settleAssignedHolds(). *)
SettleLeftover(k) ==
  /\ pc[k] = "leftovers"
  /\ \E h \in job[k].left :
       \/ Takes(k, h, [job[k] EXCEPT !.left = @ \ {h}])
       \/ /\ file[h].kind # "live" /\ Knows(k, [job[k] EXCEPT !.left = @ \ {h}])
          /\ UNCHANGED <<session, transcript, disk, lock, server, pc, excused, faults>>

NoLeftovers(k) ==
  /\ pc[k] = "leftovers" /\ job[k].left = {} /\ Goes(k, "agents")
  /\ UNCHANGED <<session, transcript, disk, lock, server, job, excused, faults>>

NextAgent(k) ==
  LET j == job[k]
  IN /\ pc[k] = "agents"
     /\ \/ /\ j.agents # <<>> /\ Goes(k, "open")
           /\ Knows(k, [j EXCEPT !.agent = Head(j.agents), !.agents = Tail(j.agents),
                                 !.task = "remainder"])
        \/ j.agents = <<>> /\ Goes(k, "over") /\ Knows(k, NoJob)
     /\ UNCHANGED <<session, transcript, disk, lock, server, excused, faults>>

(* A vehicle is retried as itself. *)
RetryVehicle(k) ==
  LET j == job[k]
  IN /\ pc[k] = "post" /\ Goes(k, "authorize")
     /\ \E v \in j.vehicles :
          Knows(k, [j EXCEPT !.vehicles = @ \ {v}, !.group = v, !.retry = TRUE])
     /\ UNCHANGED <<session, transcript, disk, lock, server, excused, faults>>

(* A group is bound before anything could post it: under a key it is       *)
(* parked as an unresolved vehicle.                                        *)
Bound(c, ids, keyed) ==
  IF keyed THEN [c EXCEPT !.unresolved = @ \cup {ids}] ELSE [c EXCEPT !.assigned = @ \cup ids]

PostGroup(k) ==
  LET j == job[k]
  IN /\ pc[k] = "post" /\ j.vehicles = {} /\ Goes(k, "save")
     /\ \E n \in j.own :
          LET ids == {m \in j.own : session.class[m] = session.class[n]}
          IN Knows(k, [j EXCEPT !.own = @ \ ids, !.group = ids, !.retry = FALSE,
                                !.next = "authorize", !.mem = Bound(j.mem, ids, j.keyed)])
     /\ UNCHANGED <<session, transcript, disk, lock, server, excused, faults>>

(* Nothing is left to post, or no time to. *)
Posted(k) ==
  /\ pc[k] = "post" /\ Goes(k, "unlock")
  /\ \/ job[k].vehicles = {} /\ job[k].own = {} /\ NoFault
     \/ (job[k].vehicles # {} \/ job[k].own # {}) /\ Fault
  /\ UNCHANGED <<session, transcript, disk, lock, server, job, excused>>

(* How an authorize and settle ends for the messages it carried. *)
Outcome(c, ids, outcome) ==
  LET closed == IF outcome = "unresolved" THEN c ELSE [c EXCEPT !.unresolved = @ \ {ids}]
  IN CASE outcome = "settled" -> postIds(closed, ids)
       [] outcome = "claimed" -> accountIds(closed, ids)
       [] outcome = "denied" -> denyIds(closed, ids)
       [] outcome = "released" -> releaseIds(closed, ids)
       [] OTHER -> closed

(* postGroup(): what is not posted for certain is released, but on a retry *)
(* (whose earlier settle may have posted) stays unresolved.                *)
Unsettled(retry) == IF retry THEN "unresolved" ELSE "released"

Ended(k, outcome, down) ==
  LET j == job[k]
  IN /\ Goes(k, "save")
     /\ Knows(k, [j EXCEPT !.mem = Outcome(j.mem, j.group, outcome), !.down = down,
                           !.next = IF down THEN "unlock" ELSE "post"])
     /\ Excuse(GivenUp(k, outcome))

GroupAuthorizes(k) ==
  LET j == job[k]
  IN /\ pc[k] = "authorize" /\ j.task = "remainder"
     /\ \E r \in {"granted", "already", "denied", "failed"}, h \in Transfers \cup {None} :
          /\ AuthorizeAnswer(k, j.keyed, r, h)
          /\ \/ /\ r = "granted" /\ Goes(k, "settle") /\ Knows(k, [j EXCEPT !.hold = h])
                /\ UNCHANGED excused
             \/ r = "already" /\ Ended(k, "settled", FALSE)
             \/ r = "denied" /\ Ended(k, "denied", FALSE)
             \/ r = "failed" /\ \E down \in BOOLEAN : Ended(k, Unsettled(j.retry), down)
     /\ UNCHANGED <<session, transcript, disk, lock, late>>

GroupSettles(k) ==
  LET j == job[k]
  IN /\ pc[k] = "settle" /\ j.task = "remainder"
     /\ \E r \in Results :
          LET o == settleOutcome(r, j.keyed)
          IN /\ SettleAnswer(j.hold, r)
             /\ Ended(k, IF o = "released" THEN Unsettled(j.retry) ELSE o, FALSE)
     /\ UNCHANGED <<session, transcript, disk, lock>>

-----------------------------------------------------------------------------
Step(k) ==
  \/ Open(k) \/ Busy(k) \/ Reconcile(k) \/ Save(k) \/ SaveFails(k) \/ RemoveFiles(k) \/ Unlock(k)
  \/ Claim(k) \/ ClaimLeft(k) \/ Window(k) \/ Selected(k)
  \/ PreAuthorizes(k) \/ Record(k) \/ RecordFails(k)
  \/ HoldSettles(k) \/ Journal(k) \/ JournalFails(k) \/ Unlink(k)
  \/ SettleLeftover(k) \/ NoLeftovers(k) \/ NextAgent(k)
  \/ RetryVehicle(k) \/ PostGroup(k) \/ Posted(k) \/ GroupAuthorizes(k) \/ GroupSettles(k)

Next ==
  \/ HostWrites \/ HostForks \/ LateSettle \/ Expires
  \/ \E a \in Owners : LoseCursor(a)
  \/ \E k \in Pres \cap session.hooks : PreStarts(k)
  \/ \E k \in Posts \cap session.hooks : PostStarts(k)
  \/ \E k \in Stops \cap session.hooks : StopStarts(k)
  \/ \E k \in session.hooks : Kill(k) \/ Step(k)

Spec == Init /\ [][Next]_vars

-----------------------------------------------------------------------------
Charges(m) == {h \in Transfers : srv[h].st = "settled" /\ m \in srv[h].ids}

(* Every transcript message is posted at most once, whatever dies or is    *)
(* lost: by one agent, on one hold (transcript.mjs, selectOwn and the      *)
(* bindings written before every authorize).                               *)
PostedOnce == \A m \in Messages : \A g, h \in Charges(m) : g = h

(* What a cursor says the server confirmed, the server charged; and usage  *)
(* an agent is done with was charged, unless a hook died or could not      *)
(* write while only it knew of the usage, or a settle without a key was    *)
(* left in doubt (transcript.mjs, reconcile and settleOutcome).            *)
DoneIsCharged ==
  \A a \in Owners :
    /\ \A m \in cursor[a].posted : Charges(m) # {}
    /\ \A m \in cursor[a].accounted : claims[m] = a /\ m \notin excused => Charges(m) # {}
=============================================================================
