----------------------------- MODULE PluginHolds ------------------------------
(***************************************************************************)
(* The Claude Code plugin's holds (packages/claude-code-plugin/hooks:      *)
(* lib.mjs, pre-tool-use.mjs, post-tool-use.mjs, stop.mjs, session-end.mjs *)
(* and session-start.mjs), in estimate mode.                               *)
(*                                                                         *)
(* Every hook is a process of its own. What they share is the state        *)
(* directory, where a hold is one file that is renamed as it goes:         *)
(*   json       pending: made by PreToolUse, its call's PostToolUse to     *)
(*              settle                                                     *)
(*   settling   its one settle was attempted                               *)
(*   releasing  claimed by a resumed PreToolUse, only to be given back     *)
(* and the gap log (watch.jsonl). A hook may be killed at any step; a      *)
(* request may be refused, or its answer lost, and a lost request may      *)
(* still land later.                                                       *)
(*                                                                         *)
(* An answered request is one step: what the server does and the hook's    *)
(* hearing of it. The hook shows nothing of it before its next step.       *)
(*                                                                         *)
(* Definitions named Mutant... are the mutated forms PROJECT.json lists.   *)
(***************************************************************************)
EXTENDS Integers, Sequences

CONSTANTS
  Calls,       \* tool calls
  Transfers,   \* holds the server may grant
  Stops,       \* hooks at a settle point: Stop, SubagentStop, SessionEnd
  Hosts,       \* [mode, ids, legacy, calls, stops, faults]: the guard mode, whether
               \* the host sends tool_use_id, what an earlier release left (Legacy),
               \* the calls and settle points there are, and a bound on the faults:
               \* kills, failed file operations, open breakers, requests without a
               \* usable answer, settle points out of time
  MaxFires,    \* bound: PreToolUse hooks of one call
  None

VARIABLES
  host,
  file, gated, ran, told,   \* a hold's file: its name, and its body's gate, ran, gapWritten
  queue,                    \* the holds in the order their files were made
  srv,                      \* the server's holds
  late,                     \* requests nobody waits for that may still land
  call, fires,              \* what the host does with a call; its PreToolUse hooks so far
  pc, hold, fresh, after, todo,   \* a hook: its place, holds, next place and listing
  of,                       \* history: the call a hold was made for
  charged,                  \* history: the holds that were posted for a call's usage
  gap,                      \* calls with a record in watch.jsonl
  excused,                  \* history: calls whose record may be missing (Excuse)
  forgotten,                \* history: holds no file names any more (Forget)
  faults

Pre(c)  == <<"pre", c>>
Post(c) == <<"post", c>>
Procs   == ({"pre", "post"} \X Calls) \cup Stops

files   == <<file, gated, ran, told, queue>>
server  == <<srv, late, charged>>
hands   == <<hold, fresh, after, todo>>
history == <<of, gap, excused, forgotten>>
vars    == <<host, files, server, call, fires, pc, hands, history, faults>>

(* A hold of an earlier release: a pending file without the gate's mark.   *)
(* Its call is still to run, or ran and was charged, its answer lost (that *)
(* release kept such a hold pending).                                      *)
Legacy(c, t) ==
  /\ file = [s \in Transfers |-> IF s = t THEN "json" ELSE "none"] /\ queue = <<t>>
  /\ of = [s \in Transfers |-> IF s = t THEN c ELSE None]
  /\ \/ /\ host.legacy = "pending" /\ charged = [d \in Calls |-> {}]
        /\ srv = [s \in Transfers |-> IF s = t THEN "live" ELSE "free"]
        /\ call = [d \in Calls |-> IF d = c THEN "allowed" ELSE "idle"]
     \/ /\ host.legacy = "charged" /\ charged = [d \in Calls |-> IF d = c THEN {t} ELSE {}]
        /\ srv = [s \in Transfers |-> IF s = t THEN "posted" ELSE "free"]
        /\ call = [d \in Calls |-> IF d = c THEN "over" ELSE "idle"]

Init ==
  /\ host \in Hosts
  /\ \/ /\ host.legacy = "none"
        /\ file = [t \in Transfers |-> "none"] /\ queue = <<>>
        /\ srv = [t \in Transfers |-> "free"] /\ of = [t \in Transfers |-> None]
        /\ call = [c \in Calls |-> "idle"] /\ charged = [c \in Calls |-> {}]
     \/ \E c \in host.calls : Legacy(c, CHOOSE t \in Transfers : TRUE)
  /\ gated = {} /\ ran = {} /\ told = {} /\ late = {}
  /\ fires = [c \in Calls |-> 0]
  /\ pc = [p \in Procs |-> "idle"]
  /\ hold = [p \in Procs |-> None] /\ fresh = [p \in Procs |-> None]
  /\ after = [p \in Procs |-> None] /\ todo = [p \in Procs |-> {}]
  /\ gap = {} /\ excused = {} /\ forgotten = {} /\ faults = 0

Fault == faults < host.faults /\ faults' = faults + 1
Watch == host.mode = "watch"

Goes(p, to) == pc' = [pc EXCEPT ![p] = to]
Has(p, t)   == hold' = [hold EXCEPT ![p] = t]
Ends(p) ==
  /\ Goes(p, "idle") /\ Has(p, None)
  /\ fresh' = [fresh EXCEPT ![p] = None] /\ after' = [after EXCEPT ![p] = None]
  /\ todo' = [todo EXCEPT ![p] = {}]

Named(t, name) == file' = [file EXCEPT ![t] = name]

(* Holds the server may still have although no file names them: the answer *)
(* to their authorize was lost, or their record dropped or never written;  *)
(* or whose record retire() is about to drop unasked.                      *)
Forget(S) == forgotten' = forgotten \cup S

(* Calls whose gap record may be missing for a reason the code states: the *)
(* record could not be appended, the hook was killed before its decision   *)
(* (the host then runs the tool ungoverned), or the hold's record could    *)
(* neither be renamed nor rewritten and was removed.                       *)
Excuse(c) == excused' = excused \cup {c}

(* recordWatchEvent(): appends a record about a call, or fails to. *)
GapAbout(c) ==
  \/ gap' = gap \cup {c} /\ UNCHANGED <<excused, faults>>
  \/ Fault /\ Excuse(c) /\ UNCHANGED gap

-----------------------------------------------------------------------------
(* The server. *)

(* What it does for a request, and the answer. A settle may be answered    *)
(* "settled: false": the hold is spent, whether or not it was charged.     *)
Served(op, t, c, res) ==
  \/ /\ srv[t] # "live" /\ res = "gone" /\ UNCHANGED <<srv, charged>>
  \/ /\ srv[t] = "live" /\ op = "release" /\ res = "ok"
     /\ srv' = [srv EXCEPT ![t] = "gone"] /\ UNCHANGED charged
  \/ /\ srv[t] = "live" /\ op = "settle" /\ res \in {"ok", "ambiguous"}
     /\ srv' = [srv EXCEPT ![t] = "posted"]
     /\ charged' = [charged EXCEPT ![c] = @ \cup {t}]
  \/ /\ srv[t] = "live" /\ op = "settle" /\ res = "ambiguous"
     /\ srv' = [srv EXCEPT ![t] = "gone"] /\ UNCHANGED charged

(* serverRequest(): answered, or without a usable answer: refused, or lost *)
(* and perhaps still under way.                                            *)
Asks(op, t, c, res) ==
  \/ Served(op, t, c, res) /\ UNCHANGED <<late, faults>>
  \/ /\ res = "failed" /\ Fault
     /\ late' \in {late, late \cup {<<op, t, c>>}} /\ UNCHANGED <<srv, charged>>

Free == CHOOSE t \in Transfers : srv[t] = "free"

Grants(c) ==
  /\ \E s \in Transfers : srv[s] = "free"
  /\ srv' = [srv EXCEPT ![Free] = "live"] /\ of' = [of EXCEPT ![Free] = c]

(* A hold whose authorize nobody heard the answer of. *)
Orphan(c) == Grants(c) /\ Forget({Free})

(* /v1/authorize: a fresh hold, a refusal, or no usable answer. *)
Authorizes(c, t, res) ==
  /\ UNCHANGED <<late, charged>>
  /\ \/ Grants(c) /\ t = Free /\ res = "ok" /\ UNCHANGED <<forgotten, faults>>
     \/ Orphan(c) /\ t = None /\ res = "failed" /\ Fault
     \/ t = None /\ res = "refused" /\ UNCHANGED <<srv, of, forgotten, faults>>
     \/ t = None /\ res = "failed" /\ Fault /\ UNCHANGED <<srv, of, forgotten>>

(* The ledger's pending timeout, or the server's sweep. *)
Expires(t) ==
  /\ srv[t] = "live"
  /\ srv' = [srv EXCEPT ![t] = "gone"]
  /\ UNCHANGED <<host, files, late, charged, call, fires, pc, hands, history, faults>>

LateLands(r) ==
  /\ \E res \in {"ok", "ambiguous", "gone"} : Served(r[1], r[2], r[3], res)
  /\ late' = late \ {r}
  /\ UNCHANGED <<host, files, call, fires, pc, hands, history, faults>>

LateLost(r) ==
  /\ late' = late \ {r}
  /\ UNCHANGED <<host, files, srv, charged, call, fires, pc, hands, history, faults>>

-----------------------------------------------------------------------------
(* What the host does with a call it may run. *)

HostActs(c, from, to) ==
  /\ call[c] = from /\ call' = [call EXCEPT ![c] = to]
  /\ UNCHANGED <<host, files, server, fires, pc, hands, history, faults>>

Runs(c)        == HostActs(c, "allowed", "ran")
Interrupted(c) == HostActs(c, "allowed", "over")   \* no PostToolUse comes
Defers(c)      == fires[c] < MaxFires /\ HostActs(c, "allowed", "deferred")

-----------------------------------------------------------------------------
(* PreToolUse. *)

(* takePendingEntry(): the call's oldest pending hold; without ids, the    *)
(* oldest one that has the gate's mark.                                    *)
Pairs(t, c) == file[t] = "json" /\ IF host.ids THEN of[t] = c ELSE t \in gated
Pending(c)  == {t \in Transfers : Pairs(t, c)}
Oldest(t, S) ==
  /\ t \in S
  /\ \E i \in DOMAIN queue : queue[i] = t /\ \A j \in 1 .. i - 1 : queue[j] \notin S

(* The records of the call whose settle or give-back was begun. *)
Attempted(c) == {t \in Transfers : file[t] \in {"settling", "releasing"} /\ of[t] = c}

(* The call is refused or its authorization fails: enforce mode blocks it, *)
(* watch mode lets it through unmetered and says so.                       *)
Refuses(c) ==
  /\ Goes(Pre(c), IF Watch THEN "unmetered" ELSE "idle") /\ Has(Pre(c), None)
  /\ call' = IF Watch THEN call ELSE [call EXCEPT ![c] = "denied"]
  /\ UNCHANGED <<fresh, after, todo>>

(* governCall(), by the hold the call already has (holdOfCall), or         *)
(* skipWhileOpen().                                                        *)
PreFires(c) ==
  /\ c \in host.calls /\ pc[Pre(c)] = "idle" /\ call[c] \in {"idle", "deferred"}
  /\ fires[c] < MaxFires
  /\ fires' = [fires EXCEPT ![c] = @ + 1]
  /\ call' = [call EXCEPT ![c] = "asked"]
  /\ \/ Watch /\ Fault /\ Goes(Pre(c), "unmetered") /\ UNCHANGED hold
     \/ /\ UNCHANGED faults
        /\ IF host.ids /\ Pending(c) # {}
             THEN /\ Goes(Pre(c), "retire")
                  /\ \E t \in Transfers : Oldest(t, Pending(c)) /\ Has(Pre(c), t)
             ELSE /\ Goes(Pre(c), IF host.ids /\ Attempted(c) # {} THEN "refuse" ELSE "authorize")
                  /\ UNCHANGED hold
  /\ UNCHANGED <<host, files, server, fresh, after, todo, history>>

(* unsettled(): the call's hold is being settled or ended. *)
PreRefuses(c) ==
  /\ pc[Pre(c)] = "refuse" /\ Refuses(c)
  /\ UNCHANGED <<host, files, server, fires, history, faults>>

PreUnmetered(c) ==
  /\ pc[Pre(c)] = "unmetered" /\ GapAbout(c)
  /\ call' = [call EXCEPT ![c] = "allowed"] /\ Goes(Pre(c), "idle")
  /\ UNCHANGED <<host, files, server, fires, hands, of, forgotten>>

(* retire(): claimForRelease(), by rename. *)
PreClaims(c) == LET t == hold[Pre(c)] IN
  /\ pc[Pre(c)] = "retire"
  /\ \/ /\ file[t] = "json" /\ Named(t, "releasing")
        /\ Goes(Pre(c), IF t \in ran THEN "retireGap" ELSE "release")
        /\ UNCHANGED <<call, hands, faults>>
     \/ file[t] # "json" /\ Refuses(c) /\ UNCHANGED <<file, faults>>
     \/ Fault /\ Refuses(c) /\ UNCHANGED file
  /\ UNCHANGED <<host, gated, ran, told, queue, server, fires, history>>

(* Its call ran: PostToolUse found the breaker open (quarantineHold). *)
PreTells(c) ==
  /\ pc[Pre(c)] = "retireGap" /\ GapAbout(c) /\ Goes(Pre(c), "release")
  /\ UNCHANGED <<host, files, server, call, fires, hands, of, forgotten>>

(* The server is asked to release the hold, and no fresh one is made until *)
(* it says this one is gone. It is not asked where serverCapabilities()    *)
(* got no answer: the hold is then left to the server's sweep.             *)
PreReleases(c) == LET t == hold[Pre(c)] IN
  /\ pc[Pre(c)] = "release"
  /\ \/ /\ \E res \in {"ok", "gone", "failed"} :
            /\ Asks("release", t, c, res)
            /\ IF res = "failed" THEN Refuses(c)
                                 ELSE Goes(Pre(c), "drop") /\ UNCHANGED <<call, hands>>
        /\ UNCHANGED forgotten
     \/ /\ Fault /\ Forget({t}) /\ Goes(Pre(c), "drop")
        /\ UNCHANGED <<server, call, hands>>
  /\ UNCHANGED <<host, files, fires, of, gap, excused>>

PreDrops(c) == LET t == hold[Pre(c)] IN
  /\ pc[Pre(c)] = "drop"
  /\ Named(t, "none") /\ Has(Pre(c), None) /\ Goes(Pre(c), "authorize")
  /\ UNCHANGED <<host, gated, ran, told, queue, server, call, fires, fresh, after, todo,
                 history, faults>>

(* reserve() *)
PreAuthorizes(c) ==
  /\ pc[Pre(c)] = "authorize"
  /\ \E t \in Transfers \cup {None}, res \in {"ok", "refused", "failed"} :
       /\ Authorizes(c, t, res)
       /\ IF res = "ok"
            THEN Has(Pre(c), t) /\ Goes(Pre(c), "record") /\ UNCHANGED <<call, fresh, after, todo>>
            ELSE Refuses(c)
  /\ UNCHANGED <<host, files, fires, gap, excused>>

(* recordPending(): the file appears whole, or not at all. *)
PreRecords(c) == LET t == hold[Pre(c)] IN
  /\ pc[Pre(c)] = "record"
  /\ \/ /\ Named(t, "json") /\ gated' = gated \cup {t} /\ queue' = Append(queue, t)
        /\ call' = [call EXCEPT ![c] = "allowed"]
        /\ Goes(Pre(c), "idle") /\ Has(Pre(c), None) /\ UNCHANGED faults
     \/ Fault /\ Goes(Pre(c), "unrecorded") /\ UNCHANGED <<file, gated, queue, call, hold>>
  /\ UNCHANGED <<host, ran, told, server, fires, fresh, after, todo, history>>

PreGivesBack(c) ==
  /\ pc[Pre(c)] = "unrecorded"
  /\ \E res \in {"ok", "gone", "failed"} :
       /\ Asks("release", hold[Pre(c)], c, res)
       /\ Forget(IF res = "failed" THEN {hold[Pre(c)]} ELSE {})
  /\ Refuses(c)
  /\ UNCHANGED <<host, files, fires, of, gap, excused>>

(* The hook is killed by its timeout, and the tool runs ungoverned; or     *)
(* with its session, which is resumed. Its request may be under way.       *)
PreKilled(c) ==
  /\ pc[Pre(c)] # "idle" /\ Fault
  /\ \/ call' = [call EXCEPT ![c] = "allowed"] /\ Excuse(c)
     \/ call' = [call EXCEPT ![c] = "deferred"] /\ UNCHANGED excused
  /\ late' \in IF pc[Pre(c)] \in {"release", "unrecorded"}
                 THEN {late, late \cup {<<"release", hold[Pre(c)], c>>}} ELSE {late}
  /\ \/ /\ Forget(IF pc[Pre(c)] \in {"record", "unrecorded"} THEN {hold[Pre(c)]} ELSE {})
        /\ UNCHANGED <<srv, of>>
     \/ pc[Pre(c)] = "authorize" /\ Orphan(c)
  /\ Ends(Pre(c))
  /\ UNCHANGED <<host, files, charged, fires, gap>>

PreStep(c) ==
  \/ PreFires(c) \/ PreRefuses(c) \/ PreUnmetered(c) \/ PreClaims(c) \/ PreTells(c)
  \/ PreReleases(c) \/ PreDrops(c) \/ PreAuthorizes(c) \/ PreRecords(c) \/ PreGivesBack(c)

-----------------------------------------------------------------------------
(* PostToolUse. *)

(* With the breaker open nothing is sent. *)
PostFires(c) ==
  /\ call[c] = "ran" /\ call' = [call EXCEPT ![c] = "over"]
  /\ \/ Pending(c) = {} /\ UNCHANGED <<pc, hold, faults>>
     \/ /\ \E t \in Transfers : Oldest(t, Pending(c)) /\ Has(Post(c), t)
        /\ \/ Goes(Post(c), "claim") /\ UNCHANGED faults
           \/ Watch /\ Fault /\ Goes(Post(c), "skip")
  /\ UNCHANGED <<host, files, server, fires, fresh, after, todo, history>>

(* A gap is written only where the record is kept. *)
MutantTells(c, then) ==
  /\ Goes(Post(c), IF then = "end" THEN "gap" ELSE then)
  /\ after' = [after EXCEPT ![Post(c)] = then]

(* A gap record first, then the step that makes it needed. *)
Tells(c, then) == Goes(Post(c), "gap") /\ after' = [after EXCEPT ![Post(c)] = then]

PostTells(c) ==
  /\ pc[Post(c)] = "gap" /\ GapAbout(c)
  /\ IF after[Post(c)] = "end" THEN Ends(Post(c))
                               ELSE Goes(Post(c), after[Post(c)]) /\ UNCHANGED hands
  /\ UNCHANGED <<host, files, server, call, fires, of, forgotten>>

(* The breaker is open: the hold is marked settle-attempted, or else       *)
(* quarantineHold() takes it out of other calls' reach in place.           *)
PostSkips(c) == LET t == hold[Post(c)] IN
  /\ pc[Post(c)] = "skip" /\ Tells(c, "end")
  /\ \/ /\ file' = [file EXCEPT ![t] = IF @ = "json" THEN "settling" ELSE @]
        /\ UNCHANGED <<gated, ran, excused, forgotten, faults>>
     \/ /\ file[t] = "json" /\ Fault
        /\ \/ /\ gated' = gated \ {t} /\ ran' = ran \cup {t}
              /\ UNCHANGED <<file, excused, forgotten>>
           \/ Named(t, "none") /\ Forget({t}) /\ Excuse(c) /\ UNCHANGED <<gated, ran>>
           \/ UNCHANGED <<file, gated, ran, excused, forgotten>>
  /\ UNCHANGED <<host, told, queue, server, call, fires, hold, fresh, todo, of, gap>>

(* settleEstimateHold(): claimForSettle(), by rename. A hold past its      *)
(* recorded life is given back instead of settled.                         *)
PostClaims(c) == LET t == hold[Post(c)] IN
  /\ pc[Post(c)] = "claim"
  /\ \/ /\ file[t] = "json" /\ Named(t, "settling")
        /\ \E next \in {"settle", "expired"} : Goes(Post(c), next)
        /\ UNCHANGED <<hands, faults>>
     \/ file[t] # "json" /\ Ends(Post(c)) /\ UNCHANGED <<file, faults>>
     \/ Fault /\ Ends(Post(c)) /\ UNCHANGED file
  /\ UNCHANGED <<host, gated, ran, told, queue, server, call, fires, history>>

PostEndsExpired(c) ==
  /\ pc[Post(c)] = "expired"
  /\ \E res \in {"ok", "gone", "failed"} :
       /\ Asks("release", hold[Post(c)], c, res)
       /\ Goes(Post(c), IF res = "failed" THEN "settle" ELSE "gone")
  /\ UNCHANGED <<host, files, call, fires, hands, history>>

(* A settle that failed is charged again, too. *)
MutantSettleAnswered(c, res) ==
  CASE res = "ok"        -> Goes(Post(c), "unlink") /\ UNCHANGED after
    [] res = "ambiguous" -> Tells(c, "unlink")
    [] res \in {"gone", "failed"} /\ fresh[Post(c)] = None ->
         Goes(Post(c), "gone") /\ UNCHANGED after
    [] OTHER -> Tells(c, "end")

(* Where a settle's answer leads. Only one that says the hold is gone, and *)
(* not the replacement's, is charged again on a fresh hold.                *)
SettleAnswered(c, res) ==
  CASE res = "ok"        -> Goes(Post(c), "unlink") /\ UNCHANGED after
    [] res = "ambiguous" -> Tells(c, "unlink")
    [] res = "gone" /\ fresh[Post(c)] = None -> Goes(Post(c), "gone") /\ UNCHANGED after
    [] OTHER -> Tells(c, "end")

PostSettles(c) ==
  /\ pc[Post(c)] = "settle"
  /\ \E res \in {"ok", "ambiguous", "gone", "failed"} :
       Asks("settle", hold[Post(c)], c, res) /\ SettleAnswered(c, res)
  /\ UNCHANGED <<host, files, call, fires, hold, fresh, todo, history>>

(* The hold is gone unposted, if it was made under the gate; then the call *)
(* is charged on a fresh hold, if there is time.                           *)
PostGone(c) ==
  /\ pc[Post(c)] = "gone"
  /\ \/ hold[Post(c)] \notin gated /\ Tells(c, "end") /\ UNCHANGED faults
     \/ /\ hold[Post(c)] \in gated
        /\ \/ Goes(Post(c), "reauthorize") /\ UNCHANGED <<after, faults>>
           \/ Fault /\ Tells(c, "unlink")
  /\ UNCHANGED <<host, files, server, call, fires, hold, fresh, todo, history>>

PostAuthorizes(c) ==
  /\ pc[Post(c)] = "reauthorize"
  /\ \E t \in Transfers \cup {None}, res \in {"ok", "refused", "failed"} :
       /\ Authorizes(c, t, res)
       /\ IF res = "ok"
            THEN /\ fresh' = [fresh EXCEPT ![Post(c)] = t]
                 /\ Goes(Post(c), "record") /\ UNCHANGED after
            ELSE Tells(c, "unlink") /\ UNCHANGED fresh
  /\ UNCHANGED <<host, files, call, fires, hold, todo, gap, excused>>

(* The fresh hold's file is settle-attempted from birth. One that cannot   *)
(* be recorded, or whose life is too short, is given back.                 *)
PostRecords(c) == LET u == fresh[Post(c)] IN
  /\ pc[Post(c)] = "record"
  /\ \/ /\ Named(u, "settling") /\ gated' = gated \cup {u}
        /\ Goes(Post(c), "replace") /\ UNCHANGED <<after, faults>>
     \/ Fault /\ Tells(c, "giveBack") /\ UNCHANGED <<file, gated>>
  /\ UNCHANGED <<host, ran, told, queue, server, call, fires, hold, fresh, todo, history>>

PostReplaces(c) ==
  /\ pc[Post(c)] = "replace"
  /\ Named(hold[Post(c)], "none") /\ Has(Post(c), fresh[Post(c)]) /\ Goes(Post(c), "settle")
  /\ UNCHANGED <<host, gated, ran, told, queue, server, call, fires, fresh, after, todo,
                 history, faults>>

PostGivesBack(c) ==
  /\ pc[Post(c)] = "giveBack" /\ Goes(Post(c), "unlink")
  /\ \E res \in {"ok", "gone", "failed"} :
       /\ Asks("release", fresh[Post(c)], c, res)
       /\ Forget(IF res = "failed" THEN {fresh[Post(c)]} ELSE {})
  /\ UNCHANGED <<host, files, call, fires, hands, of, gap, excused>>

PostUnlinks(c) ==
  /\ pc[Post(c)] = "unlink" /\ Named(hold[Post(c)], "none") /\ Ends(Post(c))
  /\ UNCHANGED <<host, gated, ran, told, queue, server, call, fires, history, faults>>

(* The request a PostToolUse hook may have under way. *)
PostRequest(c) ==
  CASE pc[Post(c)] = "settle"   -> {<<"settle", hold[Post(c)], c>>}
    [] pc[Post(c)] = "expired"  -> {<<"release", hold[Post(c)], c>>}
    [] pc[Post(c)] = "giveBack" -> {<<"release", fresh[Post(c)], c>>}
    [] OTHER -> {}

PostKilled(c) ==
  /\ pc[Post(c)] # "idle" /\ Fault /\ Ends(Post(c))
  /\ late' \in {late, late \cup PostRequest(c)}
  /\ \/ /\ Forget(IF pc[Post(c)] \in {"record", "gap", "giveBack"}
                    THEN {fresh[Post(c)]} \ {None, hold[Post(c)]} ELSE {})
        /\ UNCHANGED <<srv, of>>
     \/ pc[Post(c)] = "reauthorize" /\ Orphan(c)
  /\ UNCHANGED <<host, files, charged, call, fires, gap, excused>>

PostStep(c) ==
  \/ PostTells(c) \/ PostSkips(c) \/ PostClaims(c) \/ PostEndsExpired(c) \/ PostSettles(c)
  \/ PostGone(c) \/ PostAuthorizes(c) \/ PostRecords(c) \/ PostReplaces(c)
  \/ PostGivesBack(c) \/ PostUnlinks(c)

-----------------------------------------------------------------------------
(* The settle points: cleanup(), over a listing of the pending holds and   *)
(* then over one of the settle-attempted ones.                             *)

Listing(names) == {<<t, file[t]>> : t \in {u \in Transfers : file[u] \in names}}
NoCallRan(t, name) == name = "releasing" /\ t \notin ran

StopStarts(s) ==
  /\ s \in host.stops /\ pc[s] = "idle" /\ \E t \in Transfers : file[t] # "none"
  /\ Goes(s, "pending") /\ todo' = [todo EXCEPT ![s] = Listing({"json"})]
  /\ UNCHANGED <<host, files, server, call, fires, hold, fresh, after, history, faults>>

StopLists(s) ==
  /\ pc[s] = "pending" /\ todo[s] = {}
  /\ Goes(s, "settling") /\ todo' = [todo EXCEPT ![s] = Listing({"settling", "releasing"})]
  /\ UNCHANGED <<host, files, server, call, fires, hold, fresh, after, history, faults>>

StopTakes(s) ==
  /\ pc[s] \in {"pending", "settling"}
  /\ \E e \in todo[s] :
       /\ Has(s, e[1]) /\ after' = [after EXCEPT ![s] = e[2]]
       /\ todo' = [todo EXCEPT ![s] = @ \ {e}]
       /\ Goes(s, IF NoCallRan(e[1], e[2]) \/ e[1] \in told THEN "release" ELSE "tell")
  /\ UNCHANGED <<host, files, server, call, fires, fresh, history, faults>>

StopTells(s) ==
  /\ pc[s] = "tell" /\ GapAbout(of[hold[s]]) /\ Goes(s, "release")
  /\ UNCHANGED <<host, files, server, call, fires, hands, of, forgotten>>

StopReleases(s) ==
  /\ pc[s] = "release"
  /\ \E res \in {"ok", "gone", "failed"} :
       /\ Asks("release", hold[s], of[hold[s]], res)
       /\ Goes(s, IF res = "failed" THEN "unconfirmed" ELSE "clear")
  /\ UNCHANGED <<host, files, call, fires, hands, history>>

(* Every record is dropped. *)
MutantKeeps(s) == FALSE

(* The give-back failed: a record that is only to be given back is kept    *)
(* for the next Stop, and marked once its gaps are written; any other is   *)
(* dropped all the same.                                                   *)
Keeps(s) == after[s] = "releasing"

StopUnconfirmed(s) == LET t == hold[s] IN
  /\ pc[s] = "unconfirmed"
  /\ IF t \in told THEN UNCHANGED <<gap, excused, faults>> ELSE GapAbout(of[t])
  /\ told' \in IF Keeps(s) /\ file[t] = "releasing" /\ of[t] \in gap'
                 THEN {told, told \cup {t}} ELSE {told}
  /\ Goes(s, IF Keeps(s) THEN "settling" ELSE "clear")
  /\ Forget(IF after[s] = "releasing" THEN {} ELSE {t})
  /\ UNCHANGED <<host, file, gated, ran, queue, server, call, fires, hands, of>>

StopClears(s) ==
  /\ pc[s] = "clear"
  /\ file' = [file EXCEPT ![hold[s]] = IF @ = after[s] THEN "none" ELSE @]
  /\ Goes(s, IF after[s] = "json" THEN "pending" ELSE "settling")
  /\ UNCHANGED <<host, gated, ran, told, queue, server, call, fires, hands, history, faults>>

StopEnds(s) ==
  /\ pc[s] = "settling" /\ todo[s] = {} /\ Ends(s)
  /\ UNCHANGED <<host, files, server, call, fires, history, faults>>

(* Out of time, or an open breaker: what is left waits for the next Stop;  *)
(* SessionEnd also writes its gaps.                                        *)
StopGivesUp(s) == LET left == todo[s] \cup Listing({"settling", "releasing"}) IN
  /\ pc[s] \in {"pending", "settling"} /\ todo[s] # {} /\ Fault /\ Ends(s)
  /\ gap' \in {gap, gap \cup {of[e[1]] : e \in {e \in left : ~NoCallRan(e[1], e[2])}}}
  /\ UNCHANGED <<host, files, server, call, fires, of, excused, forgotten>>

StopKilled(s) ==
  /\ pc[s] # "idle" /\ Fault /\ Ends(s)
  /\ late' \in IF pc[s] = "release"
                 THEN {late, late \cup {<<"release", hold[s], of[hold[s]]>>}} ELSE {late}
  /\ UNCHANGED <<host, files, srv, charged, call, fires, history>>

StopStep(s) ==
  \/ StopStarts(s) \/ StopLists(s) \/ StopTakes(s) \/ StopTells(s) \/ StopReleases(s)
  \/ StopUnconfirmed(s) \/ StopClears(s) \/ StopEnds(s)

(* sweepReleasing(), at SessionStart: a record far older than the ledger's *)
(* pending timeout.                                                        *)
SweepReleasing(t) ==
  /\ file[t] = "releasing" /\ srv[t] # "live"
  /\ IF t \in told \/ t \notin ran THEN UNCHANGED <<gap, excused, faults>> ELSE GapAbout(of[t])
  /\ Named(t, "none")
  /\ UNCHANGED <<host, gated, ran, told, queue, server, call, fires, pc, hands, of, forgotten>>

-----------------------------------------------------------------------------
Next ==
  \/ \E c \in Calls : \/ Runs(c) \/ Interrupted(c) \/ Defers(c)
                      \/ PreStep(c) \/ PreKilled(c)
                      \/ PostFires(c) \/ PostStep(c) \/ PostKilled(c)
  \/ \E s \in Stops : StopStep(s) \/ StopGivesUp(s) \/ StopKilled(s)
  \/ \E t \in Transfers : Expires(t) \/ SweepReleasing(t)
  \/ \E r \in late : LateLands(r) \/ LateLost(r)

Spec == Init /\ [][Next]_vars

-----------------------------------------------------------------------------
(* A call is charged at most once: whatever answers are lost and hooks     *)
(* killed, its usage is posted on one hold, the replacement of an expired  *)
(* one included (post-tool-use.mjs settleEstimateHold).                    *)
ChargedOnce == \A c \in Calls : \A t, u \in charged[c] : t = u

(* A call that ran and is not charged is told of: its gap is written, or   *)
(* a file still names its hold for the next Stop to write it from. At no   *)
(* moment would a killed hook leave it without either.                     *)
UnchargedIsTold ==
  \A c \in Calls :
    host.ids /\ call[c] \in {"ran", "over"} /\ pc[Post(c)] = "idle" =>
      \/ charged[c] # {} \/ c \in gap \/ c \in excused
      \/ \E t \in Transfers : of[t] = c /\ file[t] # "none" /\ ~NoCallRan(t, file[t])

(* A resumed call makes no fresh hold beside one that may be live, except  *)
(* one no file names any more: because an answer was lost or a hook        *)
(* killed, or because retire() could not learn what the server is capable  *)
(* of (pre-tool-use.mjs governCall, retire, unsettled).                    *)
NoFreshBeside ==
  \A c \in Calls :
    host.ids /\ pc[Pre(c)] = "authorize" =>
      \A t \in Transfers : of[t] = c /\ srv[t] = "live" => t \in forgotten
=============================================================================
