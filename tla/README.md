# usertrust in TLA+

A verification development for usertrust: TLA+ modules that model its
components, TLC runs that check them on small instances, and TLAPS proofs of
the properties that matter most for every value of the constants. Paths below
are relative to the repository (`packages/...`); the lines each definition
models are in `PROJECT.json` under `map`.

## 1. The system

usertrust governs calls to language models. Before a call it *authorizes*: it
checks a policy and reserves the estimated cost; after it, it *settles* the
actual cost, or gives the hold back. Every decision is a line of a
hash-chained audit log in the *vault* (`.usertrust/`), and the money is kept
in TigerBeetle as two-phase transfers.

| Part | State it keeps | Operations | Interacts with | What is hard | What makes it correct |
|---|---|---|---|---|---|
| Headless governor (`core/src/headless.ts`) | active, unposted, settling and in-flight holds; `budgetSpent`, `inFlightHoldTotal`; two teardown flags | authorize, settle, abort, release, destroy | TigerBeetle, audit writer, spend ledger, breaker | every `await` is a point where any other call may run; replies are lost, transfers expire; teardown races all of it; caller objects call back in | one winner and one terminal record per hold; the record agrees with the ledger; totals exact |
| Spend ledger file | one number on disk; per instance the total and the last total tried | load, persist | governor and `trust()` | concurrent settles, failed writes, crashes, rival instances | spend never falls; a governor at rest has it on disk |
| Circuit breaker (`resilience/circuit.ts`) | state, two counters, last failure time | allowRequest, recordSuccess, recordFailure, reset | governor, `trust()` | outcomes that arrive in another state than the request was admitted in | open is left only after a quiet timeout; recovery |
| Audit writer (`audit/chain.ts`) | the lock file, registered locks, cached tail, the log, its sidecar | append, acquire, reclaim, release, scoped lock, restore | everything that records | processes interleave at system calls; crashes; torn lines; PID reuse | one writer; an unforked chain; dead locks reclaimed, live ones never |
| Writer lease (`audit/chain.ts`) | renewal times, lapsed marks, the observer's watch | renew, lapse, judge, reclaim | audit writers of other PID namespaces | two clocks, pauses, failing renewals | no takeover under a write |
| OpenShell hold engine (`openshell/src`) | SQLite rows: hold state, late charge, incident; debts | reserve, settle, release, sweep | TigerBeetle | crash between journal and ledger; late placement; replays | journal and ledger agree on each hold's one end; each cost charged once; admission within the budget |
| `trust()` client (`core/src/govern.ts`, `streaming.ts`) | per call the finalize gate, its share of the holds, its receipt; counts of calls and streams in flight | intercepted calls, streams, destroy | TigerBeetle, audit writer | streams abandoned or failing while settling; events after a terminal; teardown beside all of it | settle or void exactly once; nothing left pending; every stream answers |
| TigerBeetle client (`ledger/client.ts`) | native client, generation, evicted set, the reconnect in flight | transfers with reconnect, health check, close | TigerBeetle | eviction under concurrent requests; replays; a native destroy that aborts the process | a retry is applied once; no abort; close ends what waits |
| Ledger observer (`server/src/ledger-health.ts`) | child, probe, timers | start, probe, stop | a child process | messages of replaced children | what it reports is so |
| Server (`server/src/server.ts`) | pending, claimed, settled and owed holds | authorize, settle, abort, release, sweep, close | governor, HTTP clients | a ledger that never answers; late grants; terminals that fail and are retried | a hold called gone was not charged; nobody waits for ever |
| Claude Code plugin (`claude-code-plugin/hooks`) | one file per hold, the gap log | PreToolUse, PostToolUse, Stop, SessionEnd, SessionStart | server | a process per hook, killed at any step; answers lost; calls deferred and resumed | a call is charged once or told of; no hold beside a live one |
| Plugin, transcript mode (`hooks/transcript.mjs`) | per agent a cursor and a lock; claim files; the holds' files as a journal | binding windows, settling, reconciling, retrying, posting the remainder | the host's transcripts, server | forks share messages; a hook dies between binding, posting and journalling; settles land late | a message is charged once; what is written off was charged |
| Quarantine (`audit/quarantine.ts`) | evidence files, the log, the anchor | repair | audit writer | crashes and power losses between any two steps | evidence before the cut; the repair converges |
| Anchoring (`audit/anchor.ts`, `cli/anchor.ts`) | mirror, outbox, high-water mark, lock, store | emit, publish, redeliver, resume | audit log, sink | crashes between three files; two emitters; restored files | one chain in the store, no gap, delivered in the end |
| Snapshots, scope leases, allocation | files and transfers | restore, lease, allocate | audit writer, ledger | lost updates | |
| Verification, policy rules, Merkle proofs | none | pure functions | the chain | boundaries | agreement with a reference definition |

`PROJECT.json` lists every component with what is and is not modelled, and
every hazard at the line where it bites.

## 2. Modules

| Module | Models |
|---|---|
| `BreakerOps` | the state changes of one breaker object, as operators on a record |
| `BreakerContract` | what a breaker promises: the abstract specification |
| `CircuitBreaker` | a breaker with a clock and late outcomes; shown to implement the contract |
| `Governor` | the headless governor, its TigerBeetle engine, the ledger, the breaker (through `BreakerOps`) |
| `SpendLedger` | the spend file under concurrent persists, crashes and rivals |
| `AuditWriter` | the lock file and the append, one action per system call, in one PID namespace |
| `AuditLease` | the lease across PID namespaces, in time |
| `HoldEngine` | the OpenShell hold journal and engine against TigerBeetle |
| `TrustClient` | the calls and streams of a client wrapped by `trust()`, and its `destroy()` |
| `LedgerClient` | the TigerBeetle client: generations, eviction, reconnect, retry, close |
| `LedgerHealth` | the server's ledger observer and its child processes |
| `HoldServer` | the HTTP server's holds |
| `PluginHolds` | the Claude Code plugin's holds in estimate mode |
| `TranscriptMeter` | the plugin's transcript mode: which messages are charged, on which hold |
| `Quarantine` | the torn-tail repair, and the appends that make it necessary |
| `Anchoring` | the anchor emitters: mirror, outbox, store |
| `Resilience` | breaker, TigerBeetle client, ledger observer and torn-tail repair, which touch nothing of each other, side by side |
| `SharedFiles` | the spend ledger and the plugin's holds, side by side |
| `Metering` | the `trust()` client and the plugin's transcript mode, side by side |
| `...Proofs` | the theorems about the module they extend, and about those it puts side by side |
| `MC...` | constants for TLC |

### Circuit breaker

`cb` is the object's `state`, `consecutiveFailures` and `halfOpenSuccesses`;
`sinceFailure` is `now() - lastFailureTime`. A request admitted by
`AllowRequest` reports later, in any order, by `SuccessReported`,
`FailureReported` or not at all (`GivenBack`: `release()` tells the breaker
nothing). `resets` is history: a bit that flips at `reset()`. The failure counter stops at the
threshold, the only value the code compares it with.

### Governor

JavaScript runs a handler without interruption to its next `await`; an action
is one such stretch, and the value of `pc` says what a call awaits. `lockQ` is
`budgetMutex`, first come first served. A ledger request is sent, applied or
refused by TigerBeetle, and answered, each a step of its own; a request that
was applied may still fail for its caller (a lost reply, a closed client).
`SettleMetered` stands for the synchronous reading of the caller's objects,
whose getters may call the governor again: while a settle is there
(`LoopFree` is false), calls may start but nothing else of the event loop
runs. `rec[h]` is the sequence of audit records that name a hold; an append
fails when `AppendFaults` says it may. The estimate and the cost are chosen
from small sets where the code prices tokens. The policy gate may deny
anything, and lets through only what the default budget rules leave.
Left out: receipts, patterns and `usage_implausible` records, which nothing
reads back; the proxy branch, which is dead in the source.
`recordUnheldSettlement` is in `HoldServer`, its only caller.

### Spend ledger

A persist is three steps (read, stage, rename), each awaited. `Serialized` is
the set of instances that are governors, whose persists wait for
`persistSpend()`'s mutex; the others are `trust()` clients, which have none.
Nothing keeps instances of one vault apart: any of them may be live beside
another, as in two processes, and the history `beside` says which were.

### Audit writer

Appends, acquires and releases are synchronous, so writers of one process take
turns, and processes interleave at every system call: link, read, probe,
unlink, write. A line is the number of the line it was chained from, so a fork
and a line glued onto a torn one are both visible in the log. The two steps of
a write let a crash leave part of a line. `ScopeRestore` is
`restoreSnapshot()` under `withAuditWriterLock()`. A process gets its PID when
it starts, and may get that of a dead one.

### Audit lease

A holder and one observer in another PID namespace read one monotonic clock;
the model keeps ages, saturated at the largest value the code compares them
with, which leaves every comparison as it was. Pauses between two system calls
and late timers are bounded by `SpanMax`. A step of the wall clock makes the
lock's age arbitrary. A writer's second, lost acquisition is merged with its
current one.

### Hold engine

`row` is the journal's row of a hold: its state, the intent stored with the
claim, the late settlement and the incident with what was written onto it.
`applied` and `debt` are the other two tables; `lock` is SQLite's write lock,
which `reserve()` alone keeps across ledger calls. `led`, `posted`, `retired`
and `charged` are TigerBeetle's side. Each call is a process `<<h, k>>` whose
`pc` names the transaction or ledger call that comes next. A ledger call that
misses its deadline (`within()`, `bounded()`) or loses its process is not
cancelled: it stays in `stray` until it lands or is lost. An `unknown` answer
leaves everything as a missed deadline does, and is not a step of its own. The
clock of a hold has the four values that the code's comparisons tell apart:
before `admitBy`, after it, after `ttlAt` with the sweeper's grace, and after
the placement horizon, by which an abandoned placement has landed or is lost
(what `placementGraceMs` is documented to give). The sweeper goes through its
rows in turn; the model has one sweeper per hold, which allows all of that.

### `trust()` client

As in `Governor`, an action is one stretch of a handler up to its next await.
A call is plain, behind the Google request gate, an iterated stream or an
Anthropic MessageStream; `finalizeState` is the gate all of its terminals go
through, `gen` and `signals` are what its consumer or its emitter did. A
request to TigerBeetle (`op`) is applied, refused or lost before it is
answered (`ans`). `destroy()` is its drain, its deadline, the sweep of what is
left and the close. A late `error` or `abort` of a MessageStream that has had
its terminal drops the stream from the count that `destroy()` drains (`late`).
The sweep may then meet that stream at work, but not its hold: the entry stays
in the engine's map until its request is over, and the sweep takes every entry
that is left, so `NothingLeftPending` needs no exception for it.

### TigerBeetle client

A native client is the generation under which it was installed. A request that
fails for an eviction or a lost connection joins or starts the one reconnect
of its generation and is made once more. The native library is external and
has a thread of its own: it may learn of its eviction at any moment, also
between an answer it gave and the `destroy()` that the wrapper calls on it,
which are steps apart here (`Probed` and `Closes`, `Fails` and `Attempt`). It
fails requests from then on, may throw in `destroy()`, and aborts the process
when a client that knows of its eviction is destroyed. `DestroyCalled` is
`destroy()` by a program that does not ask first.

So the process can still abort, and `NeverAborts` says when: the client that
went down is never one a request failed on since it learned (`told`), and it
learned after the last answer the wrapper acted on (`unheard`, the window that
`close()`'s comment and LIMITATIONS.md describe, and that a reconnect after a
lost connection has too), or went in a `destroy()` that asked nobody
(`direct`), or replaced, meanwhile, the client `close()` had asked. A client
whose `destroy()` threw is released and open at once, and out of the claim.
`applied` keeps the ids under which the ledger took a transfer, so that a retry
under another id would show in `TransferOnce`.

### Ledger observer

One target. Children are numbered by their spawn; their messages and exits
arrive later than they happen, also after the child was replaced. `given` and
`answer` are history, which `StateHonest` compares the reported state with.

### Server

One tenant on a ledger. An action is one synchronous span between two awaits;
`claim()` is the one place that takes a hold out of `pending`. The governor is
seen from outside: its calls end when they end, or never. Left out: the dry
run, the event stream, health routes, redaction, several tenants.

### Plugin

Every hook is a process; the state directory is a function from holds to the
name of their file. `late` is what a killed or timed-out hook left under way.
`Hosts` says which guard mode runs, whether the host sends `tool_use_id`, what
an earlier release left, and how many faults there are. `excused` and
`forgotten` are histories of the exceptions the code states: a gap record
that could not be appended, a hook killed before its decision, a hold whose
answer was lost. One exception is not stated by the code: a health probe that
fails (a fault) while a resumed call retires its earlier hold, whose record is
then dropped with nothing asked of the server (`PreReleases`, and section 4);
the hold is `forgotten`, and `NoFreshBeside` excepts it. Left out: holds of
another server or key, `failOpen`, shadow mode, a server that is known not to
have `release`, two PreToolUse hooks of one call at once, and the instant in
which `markGapWritten()` may put a record back (declared in its comment).

### Plugin, transcript mode

A message is its place in the transcript; a cursor has the sets the code keeps
of message ids, and its `unresolved` vehicles, each the set of ids it carries
(its key is derived from the agent and those ids). A hook opens an agent under
its lock, works on a copy of the cursor (`job.mem`) and saves it, one action
per file operation or request; `Reconcile` applies the journal of `.json`,
`.settling` and `.done` files as it was listed (`Open`) and as it can still be
read. `Takes` is the rename that decides which hook settles a hold. A settle
may be refused, not leave, or stay without an answer and land at any later
time; a hook may be killed at every step, and any write or claim may fail.
`excused` is a history of the usage the code gives up by design ("a crash can
only lose it, never repeat it"): messages whose binding or claim only a dead
hook knew of, a settle without a key in doubt, a removed cursor file, and one
case the comments do not name: a hold's file renamed between the journal's
listing and its reading is skipped, so its messages are written off while its
settle is under way (`Missed`). They may go uncharged; none of them may be
charged twice.

A hook is assumed to end within its lock's 60 s: its own limit is 10 s of
running. A machine suspended in between is not modelled. Also left out: token
counts and the file format, estimate mode and holds that await a transcript,
holds without usage, messages from before the metering, holds of another
server or key, a settle handed back because the server's capabilities became
unknown, the gap records.

### Quarantine

The log is its lines and the bytes after the last newline; `synced` is what a
power loss must leave. Repair and appends hold the writer lock, so one runs at
a time, and a fault ends it between any two system calls.

### Anchoring

An anchor record is the sequence of tree sizes it was chained over, so two
records that claim one `anchorSeq` differ visibly. Processes interleave at
every file operation; the mirror, the log and an outbox entry may be lost, cut
short or restored. `breach` is a history of three states that the properties
except, each of which the code leaves open: a live owner's lock reclaimed
(`robbed`: the reclaim renames whatever is at the path, and a lock whose owner
has not yet written its pid reads as corrupt), a record delivered that the
mirror never had (`leaked`, the third finding), and a mirror that lost a
record the mark lagged behind (`unmarked`).

## 3. Runs

Components that do not touch each other share a run: a variable `part` says
which one runs in a behaviour, and the others stand still. Every component is
an instance of its own module with its own fairness.

| Run | Shows | Bounds, and why they are enough |
|---|---|---|
| `resilience` | the breaker's contract; the observer's honesty; the TigerBeetle client's single application, its aborts and its close; the repair's evidence and convergence | breaker: thresholds 3 and 2, timeout 3, 4 late outcomes, one more than a threshold. Observer: three children, so that one is replaced and replaced again, and four probes. Client: one transfer beside the health check, two native clients, two attempts per reconnect, one `destroy()` that throws, where the transfer is under a minted id. Repair: three lines, two different torn beginnings, five faults |
| `governor` | one record; record, answer and ledger agree; a dry run over-commits nothing and its disk covers the chain | with a ledger: one hold and three calls, so settle, abort and release all meet, with `destroy()` and its deadline and failing appends. Dry run: two holds, two callers each, failing writes, costs below and above the estimate |
| `governor_shutdown` | totals exact, answers true of the ledger, teardown ends and records every hold | a session hold and a cost-center hold, one caller each, of which `destroy()`'s deadline overtakes none; or one hold alone whose terminal it may overtake. Appends do not fail here (`governor` has that): a hold whose terminal record could not be appended has none |
| `writer` | intact chain, no live lock stolen, a dead one's reclaimed | two processes that may both crash, one with two writers; PIDs fresh or reused; a log of two lines, one to chain from and one to glue onto |
| `writer_stale_race` | two reclaimers of one dead lock (a finding) | the dead process and two more |
| `audit_trail` | the lease: no takeover under a write, no live lock removed, a dead one's taken; anchoring delivers in the end | the wall clock is not stepped here: `DeadReclaimed` would be false of a clock that is set back for ever, and what holds however it is stepped is proved. Times scaled down that keep the order and the margin of the code's, unlinks that fail; two emitters, two tree sizes and one fault |
| `shared_files` | the spend falls only by an overtaken rename of a client, or of an instance that ran beside another; a governor alone has it on disk at rest; the plugin charges once or tells, and makes no hold beside a live one that a file names; the anchor store is one chain without a gap | spend: a governor and a client, one after the other or at once, two concurrent calls each, failing writes, crashes, a total that exceeds what may be written. Plugin: one call that is deferred and resumed beside a Stop with two faults, alone or with a hold an earlier release left pending (that with one fault in watch mode); two calls without ids beside a legacy hold with one; two settle points at once. Anchoring: two emitters, two tree sizes, two faults |
| `spend_client` | two calls of one client lower the total (a finding) | one client, two calls |
| `hold_engine` | journal and ledger agree, each call paid for once, debt agrees with the charges, admission within the budget, every hold resolved | one hold with settle, release and sweep at once and all faults, intents of nothing, a part and more than the hold; or a second reservation beside it that just fits, without faults |
| `metering` | `trust()`: settle or void once; the chain explains a missing charge; nothing left pending; streams answer. Transcript mode: a message is charged once, and what is done with was charged | `trust()`: one call of each kind alone with every fault, one in a cost center, a Google call beside an iterated stream, that pair again as a dry run. Transcript mode: two messages, enough for a vehicle to be joined by a newer message; a call's two hooks beside a Stop with two faults (a settle lost and a hook killed), two Stops over two models, a server without keys, and a fork that shares the messages; four holds, as many as these hooks can place |
| `hold_server` | a hold called gone was not charged; no request waits for ever | a hold with two settles and a release, and a second one whose settle overflows a memory of one settled hold; governor calls that throw |
| `anchoring_store_rule` | an unaccepted record reaches the store (a finding) | two emitters, one fault |

The interesting cases do happen in these bounds: each property has a mutant,
the model with a plausible bug in one definition, that TLC finds to violate
it (`PROJECT.json`, `mutants`). Deadlock is not checked: every model has quiet
states in which nobody calls anything. An anchoring behaviour is followed up
to its first `breach`.

**Fairness.** `governor_shutdown`: the event loop runs what is ready, timers
fire, and every ledger request is answered or fails. The native TigerBeetle
client has no request timeout (`ledger/client.ts`, the health check says so),
so that last assumption is the ledger's; `CloseEndsRequests` and
`OutageAnswered` are about the case where it does not hold. `metering`:
one weak fairness for everything the client itself does, the ledger's answers
included; nothing of the provider, of a stream's consumer or of who calls
`destroy()`. `hold_server`: timers fire and the server's own steps are taken;
nothing of the ledger. `resilience`: the client's awaited steps, and that a
repair or append that runs goes on and the operator runs the repair again
after a fault, which is what `quarantineTornTail` is for. `writer` and the
lease: processes that run, run, time passes, and the writer that wants the
lock keeps being asked to append (each append tries once). Anchoring: the
timer starts an emitter again and again, what is started goes on, and a torn
mirror is repaired. `hold_engine`: time passes, the sweeper runs on its timer,
and calls fail at will until there is at last a time without crashes, missed
deadlines and a busy journal; nobody has to settle or release.

## 4. Findings

Disagreements between the code and what a comment or a document says of it,
each with a run that shows it; `PROJECT.json` quotes both sides.

- *Two reclaimers of one stale lock.* The unlink is by path, so the slower
  process removes the faster one's fresh lock; `createLock()`'s comment says
  that cannot happen.
- *`trust()` can lower the spend on disk.* Its persists are not serialized;
  the governor's are, for this very reason.
- *An anchor record the emitter never accepted can reach the store.* `emit`
  writes the outbox entry before the mirror line; if the process dies between
  the two, the next publish of another process delivers the entry, and the
  next emit gives its number to another record. `redeliverPending()` states
  the rule and keeps it; `publishRecord()` does not check it.

Limits that the models show and no property claims:

- The lease's margin is one of time. With pauses that exceed `Margin` (below)
  an observer's unlink may hit a later lock of a live holder.
- Two governors of one vault, in two processes, lower each other's spend, as
  two calls of a client do: the guard's read and its rename are steps apart
  (`headless.ts:955-994`) and the mutex is of one governor. The guard's comment
  names "another process" among the writers it holds off, and the one on the
  mutex calls the guard the cross-instance defence (`:1487`). `FallsOnlyInARace`
  excepts an instance that ran beside another, and `QuietIsOnDisk` is about one
  that did not.
- A resumed call may be given a fresh hold beside a live one when the server's
  capabilities are unknown. `retire()` then asks nothing, drops the earlier
  hold's record and goes on to reserve (`pre-tool-use.mjs:522-535`), although
  `serverCapabilities()` says that unknown is not absent (`lib.mjs:1789`) and
  `retire()` that a hold which is not confirmed gone throws. `releaseHold()`
  alone would have tried the release. `NoFreshBeside` excepts that hold, which
  no file names any more.
- An emitter's lock may be taken while it is at work (`robbed`): a contender
  that judged a lock when it was old, or created and not yet written, renames
  the fresh one. The comment at `anchor.ts:684` says that only a bare
  check-then-unlink admits two emitters.
- The process may abort in the cases `NeverAborts` lists.
- Two appends in a row whose anchor update failed leave the anchor two behind,
  and a torn tail is then refused for good (`skipped` in `Quarantine`); so may
  a power loss that undoes an anchor rename not yet durable.
- A torn outbox entry stops emit and publish until it is removed by hand, and
  a resume refuses the store's newest record while older ones are undelivered.
- A Stop that cannot give back a pending or settle-attempted hold drops its
  record all the same; the gap log is then all that names it.
- A hold's file that is renamed while another hook reads the journal is missed
  by it (`Missed` in `TranscriptMeter`): a settle that then ends without a
  charge leaves its messages unrecorded.
- A void that found no transfer is made final when the placement horizon has
  passed at the *transition*. If the abandoned placement lands between the
  ledger's answer and the transition, and the horizon passes in between too,
  the row is `voided` over a pending transfer that only the ledger's timeout
  releases. It is never posted (`TerminalAgrees`).

## 5. Proofs

All theorems hold for every value of the constants that satisfies the modules'
assumptions. Each rests on an inductive invariant that TLC checked first.

- **`ResilienceProofs`**, of the breaker: type correctness with
  `ThresholdsActedOn` and `OpenHasFailure` is inductive as it stands (a
  half-open breaker must be known to have cooled for the step to the
  contract's `Probe`). `BreakerImplementsContract` maps every step to a step
  of the contract or a stutter. Of the ledger observer: a child that was
  replaced can no longer speak for its observer, and every message of the
  present one that is on its way or answered belongs to the probe it was asked
  (`HealthInv`); that gives `StateHonest`. Of the TigerBeetle client: what the
  ledger applied for a transfer, what a request was told of it and what the
  retry may therefore still do (`Once`) give `TransferOnce`. While every native
  `destroy()` returned, a released client is a destroyed one, so that `send()`
  marks each client that a request told of its eviction, and a reconnect that
  backs off has dropped or destroyed its client; and whenever the wrapper is
  about to act on what the current client last said, that one is marked, or
  knew of nothing, or has learned since (`Spared`, `Vouched`): `NeverAborts`.
  `PartsAssumption` bounds nothing but the sizes: naturals, at
  least one retry, and a health check's transfer that no caller uses. Of the
  torn-tail repair: what a power loss may take back is an end of the log and
  the evidence of the present torn tail at most (`DurableInv`); a record, also
  one that lacks its newline, names durable evidence of an earlier place and is
  the only one of its cut (`LogInv`), and so will be the records a repair has
  still to append (`TodoInv`); and the anchor, with whatever a power loss may
  make of it, is at the head or one line behind for every length the log may
  be left with, unless `skipped` (`AnchorInv`). Together they give
  `EvidenceKept`, for any number of faults and any length of log.
  `RepairAssumption` says that a torn beginning of a line is not a line and not
  empty.
- **`AuditWriterProofs`**: the writers of one process take turns (`Turns`),
  the lock file names the writer that holds it or is about to (`Owned`), what
  a writer read of a lock it wants to reclaim stays true while it judges
  (`Judged`), and a holder's cached tail is the log's (`KnowsLog`). From them
  `ExclusiveWriter`, `NeverStolen` and `ChainIntact`. They hold under
  `AtMostOneSurvivor`: a process that may crash leaves at most one other, so
  any number of processes none of which crashes, or two of which either may.
  That hypothesis cannot go: when two processes survive a crash and judge its
  lock at once, the slower one's unlink takes the faster one's new lock, which
  the run `writer_stale_race` shows and the finding about it quotes.
- **`GovernorProofs`**: `OneTerminalRecord`, `OneWinner` and
  `ReleasedNeverCharged` say little about the state that keeps them true, so
  `IInv` adds, per hold, who owns it: at most one of active, unposted,
  settling, in flight or taken by the teardown (`OwnerInv`, `SweepInv`), what
  each call's place implies for that (`CallInv`), which records may be there
  (`RecordInv`), and that a POST was sent only by the settle that owns the
  hold (`ChargeInv`). One step per action, one per part of the invariant the
  action can disturb. On top of it stand two more. `LedgerSide` ties each
  request to what the ledger did with it: an applied POST found the transfer
  pending and posted the cost capped at the hold, an applied void found it
  pending or expired, and no transfer leaves such a state; that gives
  `AnswersBacked`. `SessionSide` (only a session hold ever waits for the lock
  to give back) with the one owner gives `HoldTotalFollowsTheHolds`: a step
  moves `inFlightHoldTotal` by the change of one hold's share, or leaves the
  total and all shares alone. That is the induction step of `HoldTotalExact`.
- **`AuditLeaseProofs`**: the argument of the comment on
  `LEASE_HOLDER_BOUND_MS`, with the pauses it leaves out. `Margin` is
  `HolderBound + RenewEvery + 3 * SpanMax < Confirm`: a renewal timer late by
  a pause, a pause while giving the lock up, a pause in the middle of a
  judgement. With the code's times every pause below 5/3 s is safe. The
  invariant bounds the age of a watch by the age of the last renewal.
- **`SpendLedgerProofs`**: `Ordered` (disk <= last tried <= spent),
  `Exclusive` (the one persist of a governor under way has the mutex and
  carries the last total), `Guarded` (what a persist has read) and `Accounted`
  (what is not on disk is being written or has a settle queued for it) are
  inductive, the first and the last for instances that have been live beside
  no other, whichever others overlap. From them: only the overtaken rename of
  a client, or of an instance that ran beside another, lowers the spend
  (`FallsOnlyInARaceHolds`); where all instances are governors nothing does
  before two of them have been live at once (`GovernorsNeverRegress`); a governor at rest that
  was alone has its spend on disk. Of the plugin's holds: where each hook stands says what it knows of
  the hold in its hands (`PreInv`, `PostInv`, `StopInv`), and a file's name,
  the server's hold and a request still on its way agree (`GrantInv`). A call
  is charged only for the hold whose file its one settle renamed, and a second
  hold of a call exists only once the first is gone or was never settled
  (`ChargeInv`, `OneHold`): `ChargedOnce` and `NoFreshBeside`. A call that ran
  has a hold that will be settled, a hook that still has to answer for it, a
  gap record, or an excuse the code states (`ToldInv`): `UnchargedIsTold`.
  `HooksAssumption` says only that hosts make the calls there are and that the
  names of hooks differ.
- **`TrustClientProofs`**: of the transcript mode, that a message is posted
  at most once (`MessagePostedOnce`). A hold bears its messages while the
  server may still charge it or a file names it (`Bears`). Two holds bear one
  message only as two tries of one keyed vehicle, of which the server charges
  one (`UnitInv`); a borne message has its claim file at the hold's agent and
  is bound or unresolved in that agent's cursor, or stays in a released file
  that a reconcile has yet to read (`OwedInv`); and a cursor's vehicles and
  bound messages are borne by no other holds (`SoundInv`). The rest says what a
  hook at each place may assume (`HookInv`). A hook works on a copy of the
  cursor and on a list of files, and the list goes stale: hooks that settle a
  hold do so without the agent's lock. The proof needs only that what it lets
  go is in a released file it has read, and that such a file changes no more.
  Nothing is assumed of the server's keys, of the number of hooks, or of which
  of them are killed; `MeterAssumption` says that `None` is no agent, hook,
  hold or outcome, and that a session has the hooks and agents there are.

  Of the client: the gate (`finalizeState`) and the place of a call
  determine each other (`GateInv`), a request on its way is one that the place
  makes (`RequestInv`), and the receipt follows the gate (`ReceiptInv`). That
  gives `VoidedNeverCharged`, and with `ChargeInv` (once its POST is over a
  charge is in the ledger or explained) `ChargeExplained`. For `destroy()` the
  two counters are the cardinalities of the calls that are in flight and of
  the streams still counted (`CountInv`), so a drain that reached zero found
  nobody who could still place a hold (`SweepFindsNobody`), and what is
  pending in the ledger is an entry of the engine's map (`PendingInv`), which
  the sweep empties (`ClosedLeavesNothing`).
- **`HoldServerProofs`**: the invariant follows a hold through the places it
  can be in: with the governor that has not answered, in `pending`, with the
  one terminal that claimed it (`HolderInv`, `RequestInv`), and once charged
  in `recentlySettled` or dropped from it (`ChargeInv`). A settle that finds
  the hold in none of them, while the governor does not have it either, has
  found one that was given back: `UncollectableIsUncharged`. That `claim()`
  excludes every other terminal is `ClaimIsExclusive`. The module assumes
  that the names of settles, and of aborts and releases, are not hold ids.
- **`HoldEngineProofs`**: for each hold the invariant ties how far its row
  got, what the ledger has applied and what is still on its way, in a call or
  in an abandoned one (`CallInv`, `StrayInv`). It holds because the row only
  goes forward and an answered transfer never changes again (`Grows`), so
  that what a call was told stays true until it writes it down, however late.
  From it: `BilledOnce`, `TerminalAgrees`, and of `DebtAgrees` what each hold
  at rest owes (`DebtIsCharged`). `DebtFollowsTheHolds` says that every step
  moves the debt row by the change in what one hold owes, which is the
  induction step of the sum in `DebtAgrees`; the induction over the set of
  holds that would add them up is beyond the prover.

The lease's theorems assume `Margin` and that a lapsed holder's own unlink
succeeds (`~RemoveFaults`): one that cannot remove its lapsed lock leaves it to
the observer, and `LiveLockKept` is not about that lock.

Only model-checked: liveness; the sums (`HoldTotalExact`, `MoneyAccounted` of
the dry run, `AdmittedWithinBudget`, the sum of `DebtAgrees` and with it that
the debt row is never negative), which fold over sets and would need induction
over data; `StoreIsOneChain`, for its `SelectSeq` and `SetToSortSeq`; and so far
`TranscriptMeter`'s `DoneIsCharged` and all of `Anchoring`. `OneWinner`, the
code's "first terminal wins", `SweepFindsNobody` and `ClaimIsExclusive` are
proved and not checked by a run of their own.

## 6. Not modelled, and the plan

Worth modelling next: the OpenClaw stream governor, the shared audit
writer's join and leave and the rotation of its segments, key rotation in
anchoring, scope leases (one JSON file that processes rewrite without a lock)
and allocation against concurrent holds (the ledger refuses the overdraft);
Merkle proofs and policy evaluation as functions against a reference
definition. Worth proving next: `TranscriptMeter`'s `DoneIsCharged`, on top of
the invariant of `MessagePostedOnce`.

Left out for good: pattern detectors (PII, injection, canary), pricing tables,
cryptography, canonical JSON, rendering, CLI parsing, the UI and the site:
data transformations or I/O whose correctness is not one of state. They are
most of the repository's lines.
