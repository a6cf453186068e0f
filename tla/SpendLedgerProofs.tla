-------------------------- MODULE SpendLedgerProofs ---------------------------
(***************************************************************************)
(* The parts of SharedFiles, for every value of their constants.           *)
(*                                                                         *)
(* The spend ledger: a governor live beside no other instance never lowers *)
(* it, and such a governor at rest has its spend on disk.                  *)
(* FallsOnlyInARace is about one rename; what makes it hold is             *)
(* that the total a governor's persist carries is the last one it tried,   *)
(* that the mutex lets one persist at a time be under way, and that the    *)
(* last total tried is never below what is on disk (Ordered, Exclusive);   *)
(* of any other writer only that the guard read no more than it writes     *)
(* (Guarded).                                                              *)
(* QuietIsOnDisk needs Accounted: every settle that found nothing to       *)
(* write was covered by one that had.                                      *)
(*                                                                         *)
(* The Claude Code plugin's holds, of any number of calls, hooks, settle   *)
(* points and faults (HookInv): proved about in the behaviours of their    *)
(* own module, Hooks!Spec.                                                 *)
(***************************************************************************)
EXTENDS SharedFiles, TLAPS

-----------------------------------------------------------------------------
(* The spend ledger. *)


(* The call is between its load and its rename. *)
Persisting(c) == pc[c] \in {"load", "write"}

(* Instances live at once are in beside, and the unborn have done nothing. *)
OneLive ==
  /\ \A i, j \in Instances : live[i] = "live" /\ live[j] = "live" /\ i # j => i \in beside
  /\ \A i \in Instances : live[i] = "unborn" => mutex[i] = None
  /\ \A c \in Calls : live[Of[c]] = "unborn" => pc[c] = "idle"

(* The last total tried is never ahead of the spend, nor the disk of that, *)
(* for a governor live beside no other instance.                           *)
Ordered ==
  \A i \in Serialized : live[i] = "live" =>
    last[i] <= spent[i] /\ (i \notin beside => disk <= last[i])

(* A governor's one persist under way has the mutex, and carries the last total. *)
Exclusive ==
  \A c \in Calls : Of[c] \in Serialized =>
    /\ live[Of[c]] = "live" /\ Persisting(c) => mutex[Of[c]] = c /\ value[c] = last[Of[c]]
    /\ mutex[Of[c]] = c => Persisting(c)

(* What is not on disk is being written, or has a settle queued for it. *)
Accounted ==
  \A i \in Serialized \ beside : live[i] = "live" /\ i \notin lost =>
    /\ mutex[i] = None => disk = last[i]
    /\ spent[i] > last[i] => \E c \in Calls : Of[c] = i /\ pc[c] = "queued"

(* The guard has read no more than the total about to be written, and only *)
(* governors queue for a mutex.                                            *)
Guarded ==
  \A c \in Calls :
    /\ pc[c] = "write" => existing[c] <= value[c]
    /\ pc[c] = "queued" => Of[c] \in Serialized

IInv == TypeOK /\ OneLive /\ Ordered /\ Exclusive /\ Accounted /\ Guarded

(* The step of FallsOnlyInARace. *)
NoUnspend ==
  disk' < disk => \E c \in Calls : /\ pc[c] = "write" /\ pc'[c] = "done"
                                   /\ existing[c] # disk
                                   /\ Of[c] \notin Serialized \/ Of[c] \in beside

LEMMA InitInv == Init => IInv
  <1> SUFFICES ASSUME Init PROVE IInv
    OBVIOUS
  <1> USE SpendLedgerAssumption DEF Init
  <1>1. TypeOK BY DEF TypeOK
  <1>2. OneLive BY DEF OneLive
  <1>3. Ordered BY DEF Ordered
  <1>4. Exclusive BY DEF Exclusive, Persisting
  <1>5. Accounted BY DEF Accounted
  <1>6. Guarded BY DEF Guarded
  <1> QED BY <1>1, <1>2, <1>3, <1>4, <1>5, <1>6 DEF IInv

(* Every step keeps the invariant, and none lowers the total on disk but   *)
(* the overtaken rename of a client, or of an instance beside another.     *)
LEMMA StepInv ==
  ASSUME IInv, [Next]_vars
  PROVE  IInv' /\ NoUnspend
  <1> USE SpendLedgerAssumption
  <1>0. /\ TypeOK /\ OneLive /\ Ordered /\ Exclusive /\ Accounted /\ Guarded
    BY DEF IInv
  <1>1. CASE UNCHANGED vars
    BY <1>0, <1>1 DEF vars, IInv, TypeOK, OneLive, Ordered, Exclusive, Accounted, Guarded,
                      Persisting, NoUnspend
  <1>2. ASSUME NEW i \in Instances, Create(i) PROVE IInv' /\ NoUnspend
    <2> USE <1>0, <1>2 DEF Create
    <2>1. TypeOK' BY DEF TypeOK
    <2>2. OneLive' BY DEF TypeOK, OneLive
    <2>3. Ordered' BY DEF TypeOK, OneLive, Ordered
    <2>4. Exclusive' BY DEF TypeOK, OneLive, Exclusive, Persisting
    <2>5. Accounted' BY DEF TypeOK, OneLive, Accounted
    <2>6. Guarded' BY DEF TypeOK, Guarded
    <2>7. NoUnspend BY DEF TypeOK, NoUnspend
    <2> QED BY <2>1, <2>2, <2>3, <2>4, <2>5, <2>6, <2>7 DEF IInv
  <1>3. ASSUME NEW i \in Instances, Crash(i) PROVE IInv' /\ NoUnspend
    <2> USE <1>0, <1>3 DEF Crash
    <2>1. TypeOK' BY DEF TypeOK
    <2>2. OneLive' BY DEF TypeOK, OneLive
    <2>3. Ordered' BY DEF TypeOK, OneLive, Ordered
    <2>4. Exclusive' BY DEF TypeOK, OneLive, Exclusive, Persisting
    <2>5. Accounted' BY DEF TypeOK, OneLive, Accounted
    <2>6. Guarded' BY DEF TypeOK, Guarded
    <2>7. NoUnspend BY DEF TypeOK, NoUnspend
    <2> QED BY <2>1, <2>2, <2>3, <2>4, <2>5, <2>6, <2>7 DEF IInv
  <1>4. ASSUME NEW c \in Calls, Settle(c) PROVE IInv' /\ NoUnspend
    <2> DEFINE i == Of[c]
    <2>a. PICK cost \in Costs : spent' = [spent EXCEPT ![i] = @ + cost]
      BY <1>4 DEF Settle
    <2>b. /\ i \in Instances /\ cost \in Nat
          /\ live[i] = "live" /\ pc[c] = "idle"
          /\ value' = [value EXCEPT ![c] = spent'[i]]
          /\ UNCHANGED <<disk, live, last, mutex, existing, beside>>
      BY <1>4 DEF Settle
    <2>1. CASE i \in Serialized /\ pc' = [pc EXCEPT ![c] = "queued"] /\ UNCHANGED lost
      <3> USE <1>0, <2>a, <2>b, <2>1
      <3>1. TypeOK' BY DEF TypeOK
      <3>2. OneLive' BY DEF TypeOK, OneLive
      <3>3. Ordered' BY DEF TypeOK, OneLive, Ordered
      <3>4. Exclusive' BY DEF TypeOK, OneLive, Exclusive, Persisting
      <3>5. Accounted' BY DEF TypeOK, OneLive, Accounted
      <3>6. Guarded' BY DEF TypeOK, Guarded
      <3>7. NoUnspend BY DEF TypeOK, NoUnspend
      <3> QED BY <3>1, <3>2, <3>3, <3>4, <3>5, <3>6, <3>7 DEF IInv
    <2>2. CASE /\ i \notin Serialized
               /\ \E p \in {"load", "done"} : pc' = [pc EXCEPT ![c] = p]
               /\ lost' \in {lost, lost \cup {i}}
      <3> USE <1>0, <2>a, <2>b, <2>2
      <3>1. TypeOK' BY DEF TypeOK
      <3>2. OneLive' BY DEF TypeOK, OneLive
      <3>3. Ordered' BY DEF TypeOK, OneLive, Ordered
      <3>4. Exclusive' BY DEF TypeOK, OneLive, Exclusive, Persisting
      <3>5. Accounted' BY DEF TypeOK, OneLive, Accounted
      <3>6. Guarded' BY DEF TypeOK, Guarded
      <3>7. NoUnspend BY DEF TypeOK, NoUnspend
      <3> QED BY <3>1, <3>2, <3>3, <3>4, <3>5, <3>6, <3>7 DEF IInv
    <2> QED BY <1>4, <2>1, <2>2 DEF Settle
  <1>5. ASSUME NEW c \in Calls, PersistLocked(c) PROVE IInv' /\ NoUnspend
    <2> DEFINE i == Of[c]
    <2>a. /\ i \in Serialized
          /\ live[i] = "live" /\ pc[c] = "queued" /\ mutex[i] = None
          /\ UNCHANGED <<disk, live, spent, existing, beside>>
      BY <1>0, <1>5 DEF PersistLocked, Guarded
    <2> USE <1>0, <2>a DEF PersistDue
    <2>1. CASE /\ ~PersistDue(i)
               /\ pc' = [pc EXCEPT ![c] = "done"]
               /\ UNCHANGED <<last, mutex, value, lost>>
      <3> USE <2>1
      <3>1. TypeOK' BY DEF TypeOK
      <3>2. OneLive' BY DEF TypeOK, OneLive
      <3>3. Ordered' BY DEF TypeOK, OneLive, Ordered
      <3>4. Exclusive' BY DEF TypeOK, OneLive, Exclusive, Persisting
      <3>5. Accounted' BY DEF TypeOK, OneLive, Accounted
      <3>6. Guarded' BY DEF TypeOK, Guarded
      <3>7. NoUnspend BY DEF TypeOK, NoUnspend
      <3> QED BY <3>1, <3>2, <3>3, <3>4, <3>5, <3>6, <3>7 DEF IInv
    <2>2. CASE /\ PersistDue(i)
               /\ last' = [last EXCEPT ![i] = spent[i]]
               /\ value' = [value EXCEPT ![c] = spent[i]]
               /\ pc' = [pc EXCEPT ![c] = "load"]
               /\ MutexTaken(c)
               /\ UNCHANGED lost
      <3> USE <2>2 DEF MutexTaken
      <3>1. TypeOK' BY DEF TypeOK
      <3>2. OneLive' BY DEF TypeOK, OneLive
      <3>3. Ordered' BY DEF TypeOK, OneLive, Ordered
      <3>4. Exclusive' BY DEF TypeOK, OneLive, Exclusive, Persisting
      <3>5. Accounted' BY DEF TypeOK, OneLive, Accounted
      <3>6. Guarded' BY DEF TypeOK, Guarded
      <3>7. NoUnspend BY DEF TypeOK, NoUnspend
      <3> QED BY <3>1, <3>2, <3>3, <3>4, <3>5, <3>6, <3>7 DEF IInv
    <2>3. CASE /\ PersistDue(i)
               /\ last' = [last EXCEPT ![i] = spent[i]]
               /\ value' = [value EXCEPT ![c] = spent[i]]
               /\ pc' = [pc EXCEPT ![c] = "done"]
               /\ lost' = lost \cup {i}
               /\ UNCHANGED mutex
      <3> USE <2>3
      <3>1. TypeOK' BY DEF TypeOK
      <3>2. OneLive' BY DEF TypeOK, OneLive
      <3>3. Ordered' BY DEF TypeOK, OneLive, Ordered
      <3>4. Exclusive' BY DEF TypeOK, OneLive, Exclusive, Persisting
      <3>5. Accounted' BY DEF TypeOK, OneLive, Accounted
      <3>6. Guarded' BY DEF TypeOK, Guarded
      <3>7. NoUnspend BY DEF TypeOK, NoUnspend
      <3> QED BY <3>1, <3>2, <3>3, <3>4, <3>5, <3>6, <3>7 DEF IInv
    <2> QED BY <1>5, <2>1, <2>2, <2>3 DEF PersistLocked
  <1>6. ASSUME NEW c \in Calls, Load(c) PROVE IInv' /\ NoUnspend
    <2>a. /\ Of[c] \in Instances
          /\ live[Of[c]] = "live" /\ pc[c] = "load"
          /\ existing' = [existing EXCEPT ![c] = disk]
          /\ UNCHANGED <<disk, live, spent, last, value, lost, beside>>
      BY <1>6 DEF Load
    <2>1. CASE /\ disk <= value[c]
               /\ pc' = [pc EXCEPT ![c] = "write"]
               /\ UNCHANGED mutex
      <3> USE <1>0, <2>a, <2>1
      <3>1. TypeOK' BY DEF TypeOK
      <3>2. OneLive' BY DEF TypeOK, OneLive
      <3>3. Ordered' BY DEF TypeOK, OneLive, Ordered
      <3>4. Exclusive' BY DEF TypeOK, OneLive, Exclusive, Persisting
      <3>5. Accounted' BY DEF TypeOK, OneLive, Accounted
      <3>6. Guarded' BY DEF TypeOK, Guarded
      <3>7. NoUnspend BY DEF TypeOK, NoUnspend
      <3> QED BY <3>1, <3>2, <3>3, <3>4, <3>5, <3>6, <3>7 DEF IInv
    <2>2. CASE disk > value[c] /\ Returned(c)
      <3>a. Of[c] \notin Serialized \/ Of[c] \in beside
        BY <1>0, <2>a, <2>2 DEF TypeOK, Ordered, Exclusive, Persisting
      <3> USE <1>0, <2>a, <2>2, <3>a DEF Returned
      <3>1. TypeOK' BY DEF TypeOK
      <3>2. OneLive' BY DEF TypeOK, OneLive
      <3>3. Ordered' BY DEF TypeOK, OneLive, Ordered
      <3>4. Exclusive' BY DEF TypeOK, OneLive, Exclusive, Persisting
      <3>5. Accounted' BY DEF TypeOK, OneLive, Accounted
      <3>6. Guarded' BY DEF TypeOK, Guarded
      <3>7. NoUnspend BY DEF TypeOK, NoUnspend
      <3> QED BY <3>1, <3>2, <3>3, <3>4, <3>5, <3>6, <3>7 DEF IInv
    <2> QED BY <1>6, <2>1, <2>2 DEF Load
  <1>7. ASSUME NEW c \in Calls, Rename(c) PROVE IInv' /\ NoUnspend
    <2>a. /\ Of[c] \in Instances
          /\ live[Of[c]] = "live" /\ pc[c] = "write"
          /\ disk' = value[c] /\ pc' = [pc EXCEPT ![c] = "done"]
          /\ UNCHANGED <<live, spent, last, value, existing, lost, beside>>
          /\ existing[c] <= value[c]
      BY <1>0, <1>7 DEF Rename, Returned, Guarded
    <2>b. mutex' = IF mutex[Of[c]] = c THEN [mutex EXCEPT ![Of[c]] = None] ELSE mutex
      BY <1>7 DEF Rename, Returned
    <2>c. Of[c] \in Serialized =>
            mutex[Of[c]] = c /\ value[c] = last[Of[c]] /\ (Of[c] \notin beside => disk <= last[Of[c]])
      BY <1>0, <2>a DEF Ordered, Exclusive, Persisting
    <2> USE <1>0, <2>a, <2>b, <2>c
    <2>1. TypeOK' BY DEF TypeOK
    <2>2. OneLive' BY DEF TypeOK, OneLive
    <2>3. Ordered' BY DEF TypeOK, OneLive, Ordered
    <2>4. Exclusive' BY DEF TypeOK, OneLive, Exclusive, Persisting
    <2>5. Accounted' BY DEF TypeOK, OneLive, Accounted
    <2>6. Guarded' BY DEF TypeOK, Guarded
    <2>7. NoUnspend BY DEF TypeOK, NoUnspend
    <2> QED BY <2>1, <2>2, <2>3, <2>4, <2>5, <2>6, <2>7 DEF IInv
  <1>8. ASSUME NEW c \in Calls, PersistFailed(c) PROVE IInv' /\ NoUnspend
    <2>a. /\ Of[c] \in Instances
          /\ live[Of[c]] = "live" /\ Persisting(c)
          /\ lost' = lost \cup {Of[c]} /\ pc' = [pc EXCEPT ![c] = "done"]
          /\ UNCHANGED <<disk, live, spent, last, value, existing, beside>>
      BY <1>8 DEF PersistFailed, Returned, Persisting
    <2>b. mutex' = IF mutex[Of[c]] = c THEN [mutex EXCEPT ![Of[c]] = None] ELSE mutex
      BY <1>8 DEF PersistFailed, Returned
    <2> USE <1>0, <2>a, <2>b
    <2>1. TypeOK' BY DEF TypeOK
    <2>2. OneLive' BY DEF TypeOK, OneLive
    <2>3. Ordered' BY DEF TypeOK, OneLive, Ordered
    <2>4. Exclusive' BY DEF TypeOK, OneLive, Exclusive, Persisting
    <2>5. Accounted' BY DEF TypeOK, OneLive, Accounted
    <2>6. Guarded' BY DEF TypeOK, Guarded
    <2>7. NoUnspend BY DEF TypeOK, NoUnspend
    <2> QED BY <2>1, <2>2, <2>3, <2>4, <2>5, <2>6, <2>7 DEF IInv
  <1> QED BY <1>1, <1>2, <1>3, <1>4, <1>5, <1>6, <1>7, <1>8 DEF Next

(* Every reachable state satisfies the invariant. *)
THEOREM SpendInvariant == Spec => []IInv
  <1>1. Init => IInv BY InitInv
  <1>2. IInv /\ [Next]_vars => IInv' BY StepInv
  <1> QED BY <1>1, <1>2, PTL DEF Spec

(* persistSpend() and its guard: only the overtaken rename of a trust()    *)
(* client, or of an instance live beside another, lowers the total on disk. *)
THEOREM FallsOnlyInARaceHolds == Spec => FallsOnlyInARace
  <1>1. IInv /\ [Next]_vars =>
          [disk' < disk => \E c \in Calls : /\ pc[c] = "write" /\ pc'[c] = "done"
                                            /\ existing[c] # disk
                                            /\ Of[c] \notin Serialized \/ Of[c] \in beside]_vars
    BY StepInv DEF NoUnspend
  <1> QED BY <1>1, SpendInvariant, PTL DEF Spec, FallsOnlyInARace

(* persistSpend(): where every instance is a governor, cumulative spend    *)
(* does not regress on disk before two of them have been live at once,     *)
(* whatever the settles, failures and restarts. Once two have, the guard   *)
(* against another process's total does not keep it from regressing.       *)
THEOREM GovernorsNeverRegress ==
  ASSUME Serialized = Instances
  PROVE  Spec => [][beside = {} => disk' >= disk]_vars
  <1>1. IInv /\ [Next]_vars => [beside = {} => disk' >= disk]_vars
    <2> SUFFICES ASSUME IInv, [Next]_vars, beside = {} PROVE disk' >= disk
      OBVIOUS
    <2>1. ~ disk' < disk
      BY StepInv, SpendLedgerAssumption DEF NoUnspend
    <2> QED BY <2>1, StepInv DEF IInv, TypeOK
  <1> QED BY <1>1, SpendInvariant, PTL DEF Spec

(* A governor live beside no other instance, whose settles have returned   *)
(* and no write of which failed, has all of its spend on disk.             *)
THEOREM QuietIsOnDiskHolds == Spec => []QuietIsOnDisk
  <1>1. IInv => QuietIsOnDisk
    <2> SUFFICES ASSUME IInv, NEW i \in Serialized \ beside, live[i] = "live", Quiet(i), i \notin lost
                 PROVE  disk >= spent[i]
      BY DEF QuietIsOnDisk
    <2>1. mutex[i] = None
      BY SpendLedgerAssumption DEF IInv, TypeOK, Exclusive, Persisting, Quiet
    <2>2. ~ \E c \in Calls : Of[c] = i /\ pc[c] = "queued"
      BY DEF Quiet
    <2> QED BY <2>1, <2>2, SpendLedgerAssumption DEF IInv, Accounted, TypeOK
  <1> QED BY <1>1, SpendInvariant, PTL

-----------------------------------------------------------------------------
(* The plugin's holds. *)

(* The variables have their types. *)
HookTypes ==
  /\ host.ids \in BOOLEAN /\ host.calls \subseteq HookCalls /\ host.stops \subseteq Stops
  /\ file \in [Transfers -> {"none", "json", "settling", "releasing"}]
  /\ srv \in [Transfers -> {"free", "live", "gone", "posted"}]
  /\ call \in [HookCalls -> {"idle", "asked", "allowed", "denied", "deferred", "ran", "over"}]
  /\ of \in [Transfers -> HookCalls \cup {None}]
  /\ HookCalls = DOMAIN charged /\ \A c \in HookCalls : charged[c] \subseteq Transfers
  /\ DOMAIN at = Hooks!Procs /\ DOMAIN hold = Hooks!Procs /\ DOMAIN fresh = Hooks!Procs
  /\ DOMAIN after = Hooks!Procs /\ DOMAIN todo = Hooks!Procs
  /\ \A r \in late : r[2] \in Transfers /\ (r[1] = "settle" => r[3] \in HookCalls)

(* A PreToolUse hook runs while its call waits for it, and has a hold of   *)
(* that call: one it is to give back, or a new one without a file.         *)
Holding(c) ==
  at[Hooks!Pre(c)] \in {"retire", "retireGap", "release", "drop", "record", "unrecorded"}
PreInv ==
  \A c \in HookCalls :
    /\ at[Hooks!Pre(c)] # "idle" <=> call[c] = "asked"
    /\ Holding(c) => hold[Hooks!Pre(c)] \in Transfers /\ of[hold[Hooks!Pre(c)]] = c
    /\ at[Hooks!Pre(c)] \in {"record", "unrecorded"} => file[hold[Hooks!Pre(c)]] = "none"
    /\ at[Hooks!Pre(c)] = "drop" =>
         srv[hold[Hooks!Pre(c)]] # "live" \/ hold[Hooks!Pre(c)] \in forgotten

(* A PostToolUse hook runs once its call is over; a fresh hold is made     *)
(* once at most, and for that call.                                        *)
Unreplaced(c) == at[Hooks!Post(c)] \in {"idle", "skip", "claim", "expired", "gone", "reauthorize"}
Replacing(c) ==
  \/ at[Hooks!Post(c)] \in {"record", "replace", "giveBack"}
  \/ at[Hooks!Post(c)] = "gap" /\ after[Hooks!Post(c)] = "giveBack"
PostInv ==
  \A c \in HookCalls :
    /\ at[Hooks!Post(c)] \in {"idle", "skip", "claim", "gap", "expired", "settle", "gone",
                        "reauthorize", "record", "replace", "giveBack", "unlink"}
    /\ at[Hooks!Post(c)] = "gap" => after[Hooks!Post(c)] \in {"end", "unlink", "giveBack"}
    /\ at[Hooks!Post(c)] # "idle" =>
         /\ call[c] = "over" /\ hold[Hooks!Post(c)] \in Transfers
         /\ of[hold[Hooks!Post(c)]] # None /\ (host.ids => of[hold[Hooks!Post(c)]] = c)
    /\ Unreplaced(c) => fresh[Hooks!Post(c)] = None
    /\ Replacing(c) => /\ fresh[Hooks!Post(c)] \in Transfers \ {hold[Hooks!Post(c)]}
                       /\ of[fresh[Hooks!Post(c)]] = c

(* A settle point acts on holds that were granted. *)
StopInv ==
  \A s \in Stops :
    /\ \A e \in todo[s] : /\ e[1] \in Transfers /\ of[e[1]] # None
                           /\ e[2] \in {"json", "settling", "releasing"}
    /\ at[s] \in {"tell", "release", "unconfirmed", "clear"} =>
         /\ hold[s] \in Transfers /\ of[hold[s]] # None
         /\ after[s] \in {"json", "settling", "releasing"}
    /\ at[s] = "clear" => srv[hold[s]] # "live" \/ hold[s] \in forgotten

(* A hold that was not granted has no call, and no file. *)
GrantInv ==
  \A t \in Transfers : /\ of[t] = None <=> srv[t] = "free"
                       /\ of[t] = None => file[t] = "none"

(* Until the settle that is not answered "gone" nothing is charged or on   *)
(* its way, and from then on only that settle's hold.                      *)
Uncharged(c) == charged[c] = {} /\ \A r \in late : ~(r[1] = "settle" /\ r[3] = c)
ToCharge(c) ==
  \/ call[c] # "over"
  \/ at[Hooks!Post(c)] \in {"skip", "claim", "expired", "settle", "gone", "reauthorize", "record",
                       "replace"}
ChargeInv ==
  \A c \in HookCalls :
    /\ ToCharge(c) => Uncharged(c)
    /\ \A r \in late : r[1] = "settle" /\ r[3] = c => charged[c] = {}
    /\ \A r, q \in late : r[1] = "settle" /\ q[1] = "settle" /\ r[3] = c /\ q[3] = c => r = q
    /\ \A t, u \in charged[c] : t = u

(* A call that has not run yet has one hold at most that has a file or     *)
(* that the server may still have. None while a fresh one is asked for.    *)
Maybe(t) == file[t] # "none" \/ (srv[t] = "live" /\ t \notin forgotten)
OneHold ==
  host.ids => \A c \in HookCalls : call[c] \in {"idle", "asked", "allowed", "deferred"} =>
    /\ \A t, u \in Transfers : of[t] = c /\ of[u] = c /\ Maybe(t) /\ Maybe(u) => t = u
    /\ \A t \in Transfers : of[t] = c /\ Maybe(t) =>
         /\ at[Hooks!Pre(c)] # "authorize"
         /\ Holding(c) => t = hold[Hooks!Pre(c)]
         /\ at[Hooks!Pre(c)] \notin {"record", "unrecorded"} => file[t] # "none"

(* Before a hold's file is removed, its call is told of; until then the    *)
(* file is there to tell of it from.                                       *)
InLog(c) == c \in gap \/ c \in excused
Told(c)  == charged[c] # {} \/ InLog(c)
Names(t) == file[t] \in {"json", "settling"}
ToldInv ==
  /\ \A t \in told : t \in Transfers /\ of[t] # None /\ InLog(of[t])
  /\ \A s \in Stops :
       at[s] \in {"release", "unconfirmed",
         "clear"} /\ after[s] # "releasing" => InLog(of[hold[s]])
  /\ \A c \in HookCalls : at[Hooks!Post(c)] \in {"giveBack", "unlink"} => Told(c)
  /\ host.ids => \A c \in HookCalls :
       /\ at[Hooks!Post(c)] = "replace" => Told(c) \/ Names(fresh[Hooks!Post(c)])
       /\ call[c] \in {"allowed", "ran", "over"} =>
            Told(c) \/ \E t \in Transfers : of[t] = c /\ Names(t)

HookInv ==
  /\ HookTypes /\ PreInv /\ PostInv /\ StopInv /\ GrantInv /\ ChargeInv /\ OneHold /\ ToldInv

(* The hooks' names are different. *)
LEMMA HookNames ==
  /\ \A c \in HookCalls : {Hooks!Pre(c), Hooks!Post(c)} \subseteq Hooks!Procs \ Stops
  /\ \A c, d \in HookCalls :
       /\ Hooks!Pre(c) # Hooks!Post(d)
       /\ (Hooks!Pre(c) = Hooks!Pre(d) => c = d) /\ (Hooks!Post(c) = Hooks!Post(d) => c = d)
  /\ Stops \subseteq Hooks!Procs
BY HooksAssumption DEF Hooks!Pre, Hooks!Post, Hooks!Procs, HooksAssumption

LEMMA FreeIsFree ==
  ASSUME \E s \in Transfers : srv[s] = "free"
  PROVE  Hooks!Free \in Transfers /\ srv[Hooks!Free] = "free"
BY DEF Hooks!Free

USE HookNames, HooksAssumption
DEF HooksAssumption, HookInv, HookTypes, Holding, Unreplaced, Replacing, Uncharged, ToCharge, Maybe,
    InLog, Told, Names, Hooks!vars, Hooks!files, Hooks!server, Hooks!hands, Hooks!history,
    Hooks!Goes, Hooks!Has, Hooks!Ends, Hooks!Named, Hooks!Forget, Hooks!Excuse,
    Hooks!GapAbout, Hooks!Fault, Hooks!Refuses, Hooks!Tells, Hooks!HostActs

-----------------------------------------------------------------------------
(* What the host does with a call. *)
LEMMA RunsKeeps ==
  ASSUME HookInv, NEW c \in HookCalls, Hooks!Runs(c) PROVE HookInv'
<1> USE DEF Hooks!Runs
<1>1. HookTypes' OBVIOUS
<1>2. PreInv'    BY DEF PreInv
<1>3. PostInv'   BY DEF PostInv
<1>4. StopInv'   BY DEF StopInv
<1>5. GrantInv'  BY DEF GrantInv
<1>6. ChargeInv' BY DEF ChargeInv
<1>7. OneHold'   BY DEF OneHold
<1>8. ToldInv'   BY DEF ToldInv
<1>q. QED         BY <1>1, <1>2, <1>3, <1>4, <1>5, <1>6, <1>7, <1>8

LEMMA InterruptedKeeps ==
  ASSUME HookInv, NEW c \in HookCalls, Hooks!Interrupted(c) PROVE HookInv'
<1> USE DEF Hooks!Interrupted
<1>1. HookTypes' OBVIOUS
<1>2. PreInv'    BY DEF PreInv
<1>3. PostInv'   BY DEF PostInv
<1>4. StopInv'   BY DEF StopInv
<1>5. GrantInv'  BY DEF GrantInv
<1>6. ChargeInv' BY DEF ChargeInv
<1>7. OneHold'   BY DEF OneHold
<1>8. ToldInv'   BY DEF ToldInv
<1>q. QED         BY <1>1, <1>2, <1>3, <1>4, <1>5, <1>6, <1>7, <1>8

LEMMA DefersKeeps ==
  ASSUME HookInv, NEW c \in HookCalls, Hooks!Defers(c) PROVE HookInv'
<1> USE DEF Hooks!Defers
<1>1. HookTypes' OBVIOUS
<1>2. PreInv'    BY DEF PreInv
<1>3. PostInv'   BY DEF PostInv
<1>4. StopInv'   BY DEF StopInv
<1>5. GrantInv'  BY DEF GrantInv
<1>6. ChargeInv' BY DEF ChargeInv
<1>7. OneHold'   BY DEF OneHold
<1>8. ToldInv'   BY DEF ToldInv
<1>q. QED         BY <1>1, <1>2, <1>3, <1>4, <1>5, <1>6, <1>7, <1>8

(* PreToolUse: a fresh hold is asked for where OneHold finds none. *)
LEMMA PreFiresKeeps ==
  ASSUME HookInv, NEW c \in HookCalls, Hooks!PreFires(c) PROVE HookInv'
<1> USE DEF Hooks!PreFires, Hooks!Watch, Hooks!Pending, Hooks!Pairs, Hooks!Oldest,
  Hooks!Attempted
<1>1. HookTypes' OBVIOUS
<1>2. PreInv'    BY DEF PreInv
<1>3. PostInv'   BY DEF PostInv
<1>4. StopInv'   BY DEF StopInv
<1>5. GrantInv'  BY DEF GrantInv
<1>6. ChargeInv' BY DEF ChargeInv
<1>7. OneHold'   BY DEF OneHold
<1>8. ToldInv'   BY DEF ToldInv
<1>q. QED         BY <1>1, <1>2, <1>3, <1>4, <1>5, <1>6, <1>7, <1>8

LEMMA PreRefusesKeeps ==
  ASSUME HookInv, NEW c \in HookCalls, Hooks!PreRefuses(c) PROVE HookInv'
<1> USE DEF Hooks!PreRefuses, Hooks!Watch
<1>1. HookTypes' OBVIOUS
<1>2. PreInv'    BY DEF PreInv
<1>3. PostInv'   BY DEF PreInv, PostInv, StopInv, GrantInv
<1>4. StopInv'   BY DEF StopInv
<1>5. GrantInv'  BY DEF GrantInv
<1>6. ChargeInv' BY DEF PreInv, PostInv, StopInv, GrantInv, ChargeInv
<1>7. OneHold'   BY DEF OneHold
<1>8. ToldInv'   BY DEF ToldInv
<1>q. QED         BY <1>1, <1>2, <1>3, <1>4, <1>5, <1>6, <1>7, <1>8

LEMMA PreUnmeteredKeeps ==
  ASSUME HookInv, NEW c \in HookCalls, Hooks!PreUnmetered(c) PROVE HookInv'
<1> USE DEF Hooks!PreUnmetered
<1>1. HookTypes' OBVIOUS
<1>2. PreInv'    BY DEF PreInv
<1>3. PostInv'   BY DEF PreInv, PostInv, StopInv, GrantInv
<1>4. StopInv'   BY DEF StopInv
<1>5. GrantInv'  BY DEF GrantInv
<1>6. ChargeInv' BY DEF PreInv, PostInv, StopInv, GrantInv, ChargeInv
<1>7. OneHold'   BY DEF PreInv, OneHold
<1>8. ToldInv'   BY DEF ToldInv
<1>q. QED         BY <1>1, <1>2, <1>3, <1>4, <1>5, <1>6, <1>7, <1>8

LEMMA PreClaimsKeeps ==
  ASSUME HookInv, NEW c \in HookCalls, Hooks!PreClaims(c) PROVE HookInv'
<1> USE DEF Hooks!PreClaims, Hooks!Watch
<1>1. HookTypes' OBVIOUS
<1>2. PreInv'    BY DEF PreInv
<1>3. PostInv'   BY DEF PreInv, PostInv, StopInv, GrantInv
<1>4. StopInv'   BY DEF StopInv
<1>5. GrantInv'  BY DEF GrantInv
<1>6. ChargeInv' BY DEF PreInv, PostInv, StopInv, GrantInv, ChargeInv
<1>7. OneHold'   BY DEF OneHold
<1>8. ToldInv'   BY DEF PreInv, PostInv, StopInv, GrantInv, ToldInv
<1>q. QED         BY <1>1, <1>2, <1>3, <1>4, <1>5, <1>6, <1>7, <1>8

LEMMA PreTellsKeeps ==
  ASSUME HookInv, NEW c \in HookCalls, Hooks!PreTells(c) PROVE HookInv'
<1> USE DEF Hooks!PreTells
<1>1. HookTypes' OBVIOUS
<1>2. PreInv'    BY DEF PreInv
<1>3. PostInv'   BY DEF PostInv
<1>4. StopInv'   BY DEF StopInv
<1>5. GrantInv'  BY DEF GrantInv
<1>6. ChargeInv' BY DEF ChargeInv
<1>7. OneHold'   BY DEF OneHold
<1>8. ToldInv'   BY DEF ToldInv
<1>q. QED         BY <1>1, <1>2, <1>3, <1>4, <1>5, <1>6, <1>7, <1>8

LEMMA PreReleasesKeeps ==
  ASSUME HookInv, NEW c \in HookCalls, Hooks!PreReleases(c) PROVE HookInv'
<1> USE DEF Hooks!PreReleases, Hooks!Asks, Hooks!Served, Hooks!Watch
<1>1. HookTypes' BY DEF PreInv, PostInv, StopInv, GrantInv
<1>2. PreInv'    BY DEF PreInv
<1>3. PostInv'   BY DEF PreInv, PostInv, StopInv, GrantInv
<1>4. StopInv'   BY DEF StopInv
<1>5. GrantInv'  BY DEF GrantInv
<1>6. ChargeInv' BY DEF PreInv, PostInv, StopInv, GrantInv, ChargeInv
<1>7. OneHold'   BY DEF OneHold
<1>8. ToldInv'   BY DEF ToldInv
<1>q. QED         BY <1>1, <1>2, <1>3, <1>4, <1>5, <1>6, <1>7, <1>8

LEMMA PreDropsKeeps ==
  ASSUME HookInv, NEW c \in HookCalls, Hooks!PreDrops(c) PROVE HookInv'
<1> USE DEF Hooks!PreDrops
<1>1. HookTypes' OBVIOUS
<1>2. PreInv'    BY DEF PreInv
<1>3. PostInv'   BY DEF PostInv
<1>4. StopInv'   BY DEF StopInv
<1>5. GrantInv'  BY DEF GrantInv
<1>6. ChargeInv' BY DEF ChargeInv
<1>7. OneHold'   BY DEF PreInv, OneHold
<1>8. ToldInv'   BY DEF PreInv, PostInv, StopInv, GrantInv, ToldInv
<1>q. QED         BY <1>1, <1>2, <1>3, <1>4, <1>5, <1>6, <1>7, <1>8

LEMMA PreAuthorizesKeeps ==
  ASSUME HookInv, NEW c \in HookCalls, Hooks!PreAuthorizes(c) PROVE HookInv'
<1> USE FreeIsFree DEF Hooks!PreAuthorizes, Hooks!Authorizes, Hooks!Grants, Hooks!Orphan,
  Hooks!Watch
<1>1. HookTypes' OBVIOUS
<1>2. PreInv'    BY DEF GrantInv, PreInv
<1>3. PostInv'   BY DEF PreInv, PostInv, StopInv, GrantInv
<1>4. StopInv'   BY DEF GrantInv, StopInv
<1>5. GrantInv'  BY DEF GrantInv
<1>6. ChargeInv' BY DEF PreInv, PostInv, StopInv, GrantInv, ChargeInv
<1>7. OneHold'   BY DEF OneHold
<1>8. ToldInv'   BY DEF PreInv, PostInv, StopInv, GrantInv, ToldInv
<1>q. QED         BY <1>1, <1>2, <1>3, <1>4, <1>5, <1>6, <1>7, <1>8

LEMMA PreRecordsKeeps ==
  ASSUME HookInv, NEW c \in HookCalls, Hooks!PreRecords(c) PROVE HookInv'
<1> USE DEF Hooks!PreRecords
<1>1. HookTypes' OBVIOUS
<1>2. PreInv'    BY DEF PreInv
<1>3. PostInv'   BY DEF PreInv, PostInv, StopInv, GrantInv
<1>4. StopInv'   BY DEF StopInv
<1>5. GrantInv'  BY DEF PreInv, PostInv, StopInv, GrantInv
<1>6. ChargeInv' BY DEF PreInv, PostInv, StopInv, GrantInv, ChargeInv
<1>7. OneHold'   BY DEF PreInv, OneHold
<1>8. ToldInv'   BY DEF PreInv, PostInv, StopInv, GrantInv, ToldInv
<1>q. QED         BY <1>1, <1>2, <1>3, <1>4, <1>5, <1>6, <1>7, <1>8

LEMMA PreGivesBackKeeps ==
  ASSUME HookInv, NEW c \in HookCalls, Hooks!PreGivesBack(c) PROVE HookInv'
<1> USE DEF Hooks!PreGivesBack, Hooks!Asks, Hooks!Served, Hooks!Watch
<1>1. HookTypes' BY DEF PreInv, PostInv, StopInv, GrantInv
<1>2. PreInv'    BY DEF PreInv
<1>3. PostInv'   BY DEF PreInv, PostInv, StopInv, GrantInv
<1>4. StopInv'   BY DEF StopInv
<1>5. GrantInv'  BY DEF GrantInv
<1>6. ChargeInv' BY DEF PreInv, PostInv, StopInv, GrantInv, ChargeInv
<1>7. OneHold'   BY DEF OneHold
<1>8. ToldInv'   BY DEF ToldInv
<1>q. QED         BY <1>1, <1>2, <1>3, <1>4, <1>5, <1>6, <1>7, <1>8

LEMMA PreKilledKeeps ==
  ASSUME HookInv, NEW c \in HookCalls, Hooks!PreKilled(c) PROVE HookInv'
<1> USE FreeIsFree DEF Hooks!PreKilled, Hooks!Orphan, Hooks!Grants
<1>1. HookTypes' BY DEF PreInv, PostInv, StopInv, GrantInv
<1>2. PreInv'    BY DEF GrantInv, PreInv
<1>3. PostInv'   BY DEF PreInv, PostInv, StopInv, GrantInv
<1>4. StopInv'   BY DEF StopInv
<1>5. GrantInv'  BY DEF GrantInv
<1>6. ChargeInv' BY DEF PreInv, PostInv, StopInv, GrantInv, ChargeInv
<1>7. OneHold'   BY DEF PreInv, OneHold
<1>8. ToldInv'
  <2>1. \A t \in Transfers : of[t] # None => of'[t] = of[t]
    BY DEF GrantInv
  <2>2. /\ \A d \in HookCalls \ {c} : call'[d] = call[d]
        /\ InLog(c)' \/ call'[c] = "deferred"
        /\ excused \subseteq excused' /\ UNCHANGED gap
    OBVIOUS
  <2>3. \A p \in Hooks!Procs \ {Hooks!Pre(c)} : UNCHANGED <<at[p], after[p], hold[p], fresh[p]>>
    OBVIOUS
  <2>q. QED
    BY <2>1, <2>2, <2>3 DEF PostInv, StopInv, GrantInv, ToldInv
<1>q. QED         BY <1>1, <1>2, <1>3, <1>4, <1>5, <1>6, <1>7, <1>8

(* PostToolUse: fires once, and settles again only after an answer that    *)
(* left the call uncharged.                                                *)
LEMMA PostFiresKeeps ==
  ASSUME HookInv, NEW c \in HookCalls, Hooks!PostFires(c) PROVE HookInv'
<1> USE DEF Hooks!PostFires, Hooks!Pending, Hooks!Pairs, Hooks!Oldest, Hooks!Watch
<1>1. HookTypes' OBVIOUS
<1>2. PreInv'    BY DEF PreInv
<1>3. PostInv'   BY DEF PreInv, PostInv, StopInv, GrantInv
<1>4. StopInv'   BY DEF StopInv
<1>5. GrantInv'  BY DEF GrantInv
<1>6. ChargeInv' BY DEF ChargeInv
<1>7. OneHold'   BY DEF OneHold
<1>8. ToldInv'   BY DEF ToldInv
<1>q. QED         BY <1>1, <1>2, <1>3, <1>4, <1>5, <1>6, <1>7, <1>8

LEMMA PostTellsKeeps ==
  ASSUME HookInv, NEW c \in HookCalls, Hooks!PostTells(c) PROVE HookInv'
<1> USE DEF Hooks!PostTells
<1>1. HookTypes' OBVIOUS
<1>2. PreInv'    BY DEF PreInv
<1>3. PostInv'   BY DEF PostInv
<1>4. StopInv'   BY DEF StopInv
<1>5. GrantInv'  BY DEF GrantInv
<1>6. ChargeInv' BY DEF PostInv, ChargeInv
<1>7. OneHold'   BY DEF OneHold
<1>8. ToldInv'   BY DEF ToldInv
<1>q. QED         BY <1>1, <1>2, <1>3, <1>4, <1>5, <1>6, <1>7, <1>8

LEMMA PostSkipsKeeps ==
  ASSUME HookInv, NEW c \in HookCalls, Hooks!PostSkips(c) PROVE HookInv'
<1> USE DEF Hooks!PostSkips
<1>1. HookTypes' OBVIOUS
<1>2. PreInv'    BY DEF PreInv
<1>3. PostInv'   BY DEF PostInv
<1>4. StopInv'   BY DEF StopInv
<1>5. GrantInv'  BY DEF GrantInv
<1>6. ChargeInv' BY DEF ChargeInv
<1>7. OneHold'   BY DEF OneHold
<1>8. ToldInv'   BY DEF PostInv, ToldInv
<1>q. QED         BY <1>1, <1>2, <1>3, <1>4, <1>5, <1>6, <1>7, <1>8

LEMMA PostClaimsKeeps ==
  ASSUME HookInv, NEW c \in HookCalls, Hooks!PostClaims(c) PROVE HookInv'
<1> USE DEF Hooks!PostClaims
<1>1. HookTypes' OBVIOUS
<1>2. PreInv'    BY DEF PreInv
<1>3. PostInv'   BY DEF PostInv
<1>4. StopInv'   BY DEF StopInv
<1>5. GrantInv'  BY DEF GrantInv
<1>6. ChargeInv' BY DEF ChargeInv
<1>7. OneHold'   BY DEF OneHold
<1>8. ToldInv'   BY DEF PreInv, PostInv, StopInv, GrantInv, ToldInv
<1>q. QED         BY <1>1, <1>2, <1>3, <1>4, <1>5, <1>6, <1>7, <1>8

LEMMA PostEndsExpiredKeeps ==
  ASSUME HookInv, NEW c \in HookCalls, Hooks!PostEndsExpired(c) PROVE HookInv'
<1> USE DEF Hooks!PostEndsExpired, Hooks!Asks, Hooks!Served
<1>1. HookTypes' BY DEF PreInv, PostInv, StopInv, GrantInv
<1>2. PreInv'    BY DEF PreInv
<1>3. PostInv'   BY DEF PostInv
<1>4. StopInv'   BY DEF StopInv
<1>5. GrantInv'  BY DEF GrantInv
<1>6. ChargeInv' BY DEF ChargeInv
<1>7. OneHold'   BY DEF OneHold
<1>8. ToldInv'   BY DEF PostInv, ToldInv
<1>q. QED         BY <1>1, <1>2, <1>3, <1>4, <1>5, <1>6, <1>7, <1>8

LEMMA PostSettlesKeeps ==
  ASSUME HookInv, NEW c \in HookCalls, Hooks!PostSettles(c) PROVE HookInv'
<1> USE DEF Hooks!PostSettles, Hooks!Asks, Hooks!Served, Hooks!SettleAnswered
<1>1. HookTypes' BY DEF PreInv, PostInv, StopInv, GrantInv
<1>2. PreInv'    BY DEF PreInv
<1>3. PostInv'   BY DEF PostInv
<1>4. StopInv'   BY DEF StopInv
<1>5. GrantInv'  BY DEF GrantInv
<1>6. ChargeInv' BY DEF PostInv, ChargeInv
<1>7. OneHold'   BY DEF OneHold
<1>8. ToldInv'
  <2>1. PICK res \in {"ok", "ambiguous", "gone", "failed"} :
          Hooks!Asks("settle", hold[Hooks!Post(c)], c, res) /\ Hooks!SettleAnswered(c, res)
    OBVIOUS
  <2>2. \/ charged' = charged /\ res # "ok"
        \/ charged' = [charged EXCEPT ![c] = @ \cup {hold[Hooks!Post(c)]}]
    BY <2>1
  <2>3. at'[Hooks!Post(c)] \in {"gone", "gap"} \/ (at'[Hooks!Post(c)] = "unlink" /\ res = "ok")
    BY <2>1
  <2>4. \A p \in Hooks!Procs \ {Hooks!Post(c)} : UNCHANGED <<at[p], after[p]>>
    BY <2>1
  <2>5. UNCHANGED <<told, gap, excused, of, hold, file, fresh, call, host>>
    OBVIOUS
  <2> HIDE DEF Hooks!PostSettles, Hooks!Asks, Hooks!Served, Hooks!SettleAnswered, Hooks!Tells
  <2>6. \A d \in HookCalls : Told(d) => Told(d)'
    BY <2>2, <2>5
  <2>7. at'[Hooks!Post(c)] = "unlink" => hold[Hooks!Post(c)] \in charged'[c]
    BY <2>2, <2>3
  <2>8. \A d \in HookCalls : at'[Hooks!Post(d)] \in {"giveBack", "unlink"} => Told(d)'
    BY <2>3, <2>4, <2>6, <2>7 DEF ToldInv
  <2> HIDE DEF Told
  <2>q. QED
    BY <2>3, <2>4, <2>5, <2>6, <2>8 DEF ToldInv
<1>q. QED         BY <1>1, <1>2, <1>3, <1>4, <1>5, <1>6, <1>7, <1>8

LEMMA PostGoneKeeps ==
  ASSUME HookInv, NEW c \in HookCalls, Hooks!PostGone(c) PROVE HookInv'
<1> USE DEF Hooks!PostGone
<1>1. HookTypes' OBVIOUS
<1>2. PreInv'    BY DEF PreInv
<1>3. PostInv'   BY DEF PostInv
<1>4. StopInv'   BY DEF StopInv
<1>5. GrantInv'  BY DEF GrantInv
<1>6. ChargeInv' BY DEF ChargeInv
<1>7. OneHold'   BY DEF OneHold
<1>8. ToldInv'   BY DEF ToldInv
<1>q. QED         BY <1>1, <1>2, <1>3, <1>4, <1>5, <1>6, <1>7, <1>8

LEMMA PostAuthorizesKeeps ==
  ASSUME HookInv, NEW c \in HookCalls, Hooks!PostAuthorizes(c) PROVE HookInv'
<1> USE FreeIsFree DEF Hooks!PostAuthorizes, Hooks!Authorizes, Hooks!Grants, Hooks!Orphan
<1>1. HookTypes' OBVIOUS
<1>2. PreInv'    BY DEF GrantInv, PreInv
<1>3. PostInv'   BY DEF PreInv, PostInv, StopInv, GrantInv
<1>4. StopInv'   BY DEF GrantInv, StopInv
<1>5. GrantInv'  BY DEF GrantInv
<1>6. ChargeInv' BY DEF ChargeInv
<1>7. OneHold'   BY DEF PreInv, PostInv, StopInv, GrantInv, OneHold
<1>8. ToldInv'   BY DEF PreInv, PostInv, StopInv, GrantInv, ToldInv
<1>q. QED         BY <1>1, <1>2, <1>3, <1>4, <1>5, <1>6, <1>7, <1>8

LEMMA PostRecordsKeeps ==
  ASSUME HookInv, NEW c \in HookCalls, Hooks!PostRecords(c) PROVE HookInv'
<1> USE DEF Hooks!PostRecords
<1>1. HookTypes' OBVIOUS
<1>2. PreInv'    BY DEF PreInv, PostInv, StopInv, GrantInv
<1>3. PostInv'   BY DEF PostInv
<1>4. StopInv'   BY DEF StopInv
<1>5. GrantInv'  BY DEF PostInv, GrantInv
<1>6. ChargeInv' BY DEF ChargeInv
<1>7. OneHold'   BY DEF PreInv, PostInv, StopInv, GrantInv, OneHold
<1>8. ToldInv'   BY DEF PostInv, ToldInv
<1>q. QED         BY <1>1, <1>2, <1>3, <1>4, <1>5, <1>6, <1>7, <1>8

LEMMA PostReplacesKeeps ==
  ASSUME HookInv, NEW c \in HookCalls, Hooks!PostReplaces(c) PROVE HookInv'
<1> USE DEF Hooks!PostReplaces
<1>1. HookTypes' OBVIOUS
<1>2. PreInv'    BY DEF PreInv
<1>3. PostInv'   BY DEF PostInv
<1>4. StopInv'   BY DEF StopInv
<1>5. GrantInv'  BY DEF GrantInv
<1>6. ChargeInv' BY DEF ChargeInv
<1>7. OneHold'   BY DEF PreInv, PostInv, StopInv, GrantInv, OneHold
<1>8. ToldInv'   BY DEF PreInv, PostInv, StopInv, GrantInv, ToldInv
<1>q. QED         BY <1>1, <1>2, <1>3, <1>4, <1>5, <1>6, <1>7, <1>8

LEMMA PostGivesBackKeeps ==
  ASSUME HookInv, NEW c \in HookCalls, Hooks!PostGivesBack(c) PROVE HookInv'
<1> USE DEF Hooks!PostGivesBack, Hooks!Asks, Hooks!Served
<1>1. HookTypes' BY DEF PreInv, PostInv, StopInv, GrantInv
<1>2. PreInv'    BY DEF PreInv
<1>3. PostInv'   BY DEF PostInv
<1>4. StopInv'   BY DEF StopInv
<1>5. GrantInv'  BY DEF GrantInv
<1>6. ChargeInv' BY DEF ChargeInv
<1>7. OneHold'   BY DEF OneHold
<1>8. ToldInv'   BY DEF ToldInv
<1>q. QED         BY <1>1, <1>2, <1>3, <1>4, <1>5, <1>6, <1>7, <1>8

LEMMA PostUnlinksKeeps ==
  ASSUME HookInv, NEW c \in HookCalls, Hooks!PostUnlinks(c) PROVE HookInv'
<1> USE DEF Hooks!PostUnlinks
<1>1. HookTypes' OBVIOUS
<1>2. PreInv'    BY DEF PreInv
<1>3. PostInv'   BY DEF PostInv
<1>4. StopInv'   BY DEF StopInv
<1>5. GrantInv'  BY DEF GrantInv
<1>6. ChargeInv' BY DEF ChargeInv
<1>7. OneHold'   BY DEF PreInv, PostInv, StopInv, GrantInv, OneHold
<1>8. ToldInv'   BY DEF PostInv, ToldInv
<1>q. QED         BY <1>1, <1>2, <1>3, <1>4, <1>5, <1>6, <1>7, <1>8

LEMMA PostKilledKeeps ==
  ASSUME HookInv, NEW c \in HookCalls, Hooks!PostKilled(c) PROVE HookInv'
<1> USE FreeIsFree DEF Hooks!PostKilled, Hooks!PostRequest, Hooks!Orphan, Hooks!Grants
<1>1. HookTypes' BY DEF PreInv, PostInv, StopInv, GrantInv
<1>2. PreInv'    BY DEF GrantInv, PreInv
<1>3. PostInv'   BY DEF GrantInv, PostInv
<1>4. StopInv'   BY DEF StopInv
<1>5. GrantInv'  BY DEF GrantInv
<1>6. ChargeInv' BY DEF PostInv, ChargeInv
<1>7. OneHold'   BY DEF PreInv, PostInv, StopInv, GrantInv, OneHold
<1>8. ToldInv'   BY DEF PreInv, PostInv, StopInv, GrantInv, ToldInv
<1>q. QED         BY <1>1, <1>2, <1>3, <1>4, <1>5, <1>6, <1>7, <1>8

(* The settle points: they tell of a call before they drop its hold's file. *)
LEMMA StopStartsKeeps ==
  ASSUME HookInv, NEW s \in Stops, Hooks!StopStarts(s) PROVE HookInv'
<1> USE DEF Hooks!StopStarts, Hooks!Listing
<1>1. HookTypes' OBVIOUS
<1>2. PreInv'    BY DEF PreInv
<1>3. PostInv'   BY DEF PostInv
<1>4. StopInv'   BY DEF GrantInv, StopInv
<1>5. GrantInv'  BY DEF GrantInv
<1>6. ChargeInv' BY DEF ChargeInv
<1>7. OneHold'   BY DEF OneHold
<1>8. ToldInv'   BY DEF ToldInv
<1>q. QED         BY <1>1, <1>2, <1>3, <1>4, <1>5, <1>6, <1>7, <1>8

LEMMA StopListsKeeps ==
  ASSUME HookInv, NEW s \in Stops, Hooks!StopLists(s) PROVE HookInv'
<1> USE DEF Hooks!StopLists, Hooks!Listing
<1>1. HookTypes' OBVIOUS
<1>2. PreInv'    BY DEF PreInv
<1>3. PostInv'   BY DEF PostInv
<1>4. StopInv'   BY DEF GrantInv, StopInv
<1>5. GrantInv'  BY DEF GrantInv
<1>6. ChargeInv' BY DEF ChargeInv
<1>7. OneHold'   BY DEF OneHold
<1>8. ToldInv'   BY DEF ToldInv
<1>q. QED         BY <1>1, <1>2, <1>3, <1>4, <1>5, <1>6, <1>7, <1>8

LEMMA StopTakesKeeps ==
  ASSUME HookInv, NEW s \in Stops, Hooks!StopTakes(s) PROVE HookInv'
<1> USE DEF Hooks!StopTakes, Hooks!NoCallRan
<1>1. HookTypes' OBVIOUS
<1>2. PreInv'    BY DEF PreInv
<1>3. PostInv'   BY DEF PostInv
<1>4. StopInv'   BY DEF StopInv
<1>5. GrantInv'  BY DEF GrantInv
<1>6. ChargeInv' BY DEF ChargeInv
<1>7. OneHold'   BY DEF OneHold
<1>8. ToldInv'   BY DEF ToldInv
<1>q. QED         BY <1>1, <1>2, <1>3, <1>4, <1>5, <1>6, <1>7, <1>8

LEMMA StopTellsKeeps ==
  ASSUME HookInv, NEW s \in Stops, Hooks!StopTells(s) PROVE HookInv'
<1> USE DEF Hooks!StopTells
<1>1. HookTypes' OBVIOUS
<1>2. PreInv'    BY DEF PreInv
<1>3. PostInv'   BY DEF PostInv
<1>4. StopInv'   BY DEF StopInv
<1>5. GrantInv'  BY DEF GrantInv
<1>6. ChargeInv' BY DEF ChargeInv
<1>7. OneHold'   BY DEF OneHold
<1>8. ToldInv'   BY DEF ToldInv
<1>q. QED         BY <1>1, <1>2, <1>3, <1>4, <1>5, <1>6, <1>7, <1>8

LEMMA StopReleasesKeeps ==
  ASSUME HookInv, NEW s \in Stops, Hooks!StopReleases(s) PROVE HookInv'
<1> USE DEF Hooks!StopReleases, Hooks!Asks, Hooks!Served
<1>1. HookTypes' BY DEF StopInv
<1>2. PreInv'    BY DEF PreInv
<1>3. PostInv'   BY DEF PostInv
<1>4. StopInv'   BY DEF StopInv
<1>5. GrantInv'  BY DEF GrantInv
<1>6. ChargeInv' BY DEF ChargeInv
<1>7. OneHold'   BY DEF OneHold
<1>8. ToldInv'   BY DEF ToldInv
<1>q. QED         BY <1>1, <1>2, <1>3, <1>4, <1>5, <1>6, <1>7, <1>8

LEMMA StopUnconfirmedKeeps ==
  ASSUME HookInv, NEW s \in Stops, Hooks!StopUnconfirmed(s) PROVE HookInv'
<1> USE DEF Hooks!StopUnconfirmed, Hooks!Keeps
<1>1. HookTypes' OBVIOUS
<1>2. PreInv'    BY DEF PreInv
<1>3. PostInv'   BY DEF PostInv
<1>4. StopInv'   BY DEF StopInv
<1>5. GrantInv'  BY DEF GrantInv
<1>6. ChargeInv' BY DEF ChargeInv
<1>7. OneHold'   BY DEF OneHold
<1>8. ToldInv'   BY DEF PreInv, PostInv, StopInv, GrantInv, ToldInv
<1>q. QED         BY <1>1, <1>2, <1>3, <1>4, <1>5, <1>6, <1>7, <1>8

LEMMA StopClearsKeeps ==
  ASSUME HookInv, NEW s \in Stops, Hooks!StopClears(s) PROVE HookInv'
<1> USE DEF Hooks!StopClears
<1>1. HookTypes' OBVIOUS
<1>2. PreInv'    BY DEF PreInv
<1>3. PostInv'   BY DEF PostInv
<1>4. StopInv'   BY DEF StopInv
<1>5. GrantInv'  BY DEF GrantInv
<1>6. ChargeInv' BY DEF ChargeInv
<1>7. OneHold'   BY DEF PreInv, PostInv, StopInv, GrantInv, OneHold
<1>8. ToldInv'   BY DEF PostInv, ToldInv
<1>q. QED         BY <1>1, <1>2, <1>3, <1>4, <1>5, <1>6, <1>7, <1>8

LEMMA StopEndsKeeps ==
  ASSUME HookInv, NEW s \in Stops, Hooks!StopEnds(s) PROVE HookInv'
<1> USE DEF Hooks!StopEnds
<1>1. HookTypes' OBVIOUS
<1>2. PreInv'    BY DEF PreInv
<1>3. PostInv'   BY DEF PostInv
<1>4. StopInv'   BY DEF StopInv
<1>5. GrantInv'  BY DEF GrantInv
<1>6. ChargeInv' BY DEF ChargeInv
<1>7. OneHold'   BY DEF OneHold
<1>8. ToldInv'   BY DEF ToldInv
<1>q. QED         BY <1>1, <1>2, <1>3, <1>4, <1>5, <1>6, <1>7, <1>8

LEMMA StopGivesUpKeeps ==
  ASSUME HookInv, NEW s \in Stops, Hooks!StopGivesUp(s) PROVE HookInv'
<1> USE DEF Hooks!StopGivesUp, Hooks!Listing, Hooks!NoCallRan
<1>1. HookTypes' OBVIOUS
<1>2. PreInv'    BY DEF PreInv
<1>3. PostInv'   BY DEF PostInv
<1>4. StopInv'   BY DEF StopInv
<1>5. GrantInv'  BY DEF GrantInv
<1>6. ChargeInv' BY DEF ChargeInv
<1>7. OneHold'   BY DEF OneHold
<1>8. ToldInv'   BY DEF ToldInv
<1>q. QED         BY <1>1, <1>2, <1>3, <1>4, <1>5, <1>6, <1>7, <1>8

LEMMA StopKilledKeeps ==
  ASSUME HookInv, NEW s \in Stops, Hooks!StopKilled(s) PROVE HookInv'
<1> USE DEF Hooks!StopKilled
<1>1. HookTypes' BY DEF StopInv
<1>2. PreInv'    BY DEF PreInv
<1>3. PostInv'   BY DEF PostInv
<1>4. StopInv'   BY DEF StopInv
<1>5. GrantInv'  BY DEF GrantInv
<1>6. ChargeInv' BY DEF ChargeInv
<1>7. OneHold'   BY DEF OneHold
<1>8. ToldInv'   BY DEF ToldInv
<1>q. QED         BY <1>1, <1>2, <1>3, <1>4, <1>5, <1>6, <1>7, <1>8

(* The server, and the sweep of old records. *)
LEMMA ExpiresKeeps ==
  ASSUME HookInv, NEW t \in Transfers, Hooks!Expires(t) PROVE HookInv'
<1> USE DEF Hooks!Expires
<1>1. HookTypes' OBVIOUS
<1>2. PreInv'    BY DEF PreInv
<1>3. PostInv'   BY DEF PostInv
<1>4. StopInv'   BY DEF StopInv
<1>5. GrantInv'  BY DEF GrantInv
<1>6. ChargeInv' BY DEF ChargeInv
<1>7. OneHold'   BY DEF OneHold
<1>8. ToldInv'   BY DEF ToldInv
<1>q. QED         BY <1>1, <1>2, <1>3, <1>4, <1>5, <1>6, <1>7, <1>8

LEMMA SweepReleasingKeeps ==
  ASSUME HookInv, NEW t \in Transfers, Hooks!SweepReleasing(t) PROVE HookInv'
<1> USE DEF Hooks!SweepReleasing
<1>1. HookTypes' OBVIOUS
<1>2. PreInv'    BY DEF PreInv
<1>3. PostInv'   BY DEF PostInv
<1>4. StopInv'   BY DEF StopInv
<1>5. GrantInv'  BY DEF GrantInv
<1>6. ChargeInv' BY DEF ChargeInv
<1>7. OneHold'   BY DEF OneHold
<1>8. ToldInv'   BY DEF ToldInv
<1>q. QED         BY <1>1, <1>2, <1>3, <1>4, <1>5, <1>6, <1>7, <1>8

LEMMA LateLandsKeeps ==
  ASSUME HookInv, NEW r \in late, Hooks!LateLands(r) PROVE HookInv'
<1> USE DEF Hooks!LateLands, Hooks!Served
<1>1. HookTypes' OBVIOUS
<1>2. PreInv'    BY DEF PreInv
<1>3. PostInv'   BY DEF PostInv
<1>4. StopInv'   BY DEF StopInv
<1>5. GrantInv'  BY DEF GrantInv
<1>6. ChargeInv' BY DEF ChargeInv
<1>7. OneHold'   BY DEF OneHold
<1>8. ToldInv'   BY DEF ToldInv
<1>q. QED         BY <1>1, <1>2, <1>3, <1>4, <1>5, <1>6, <1>7, <1>8

LEMMA LateLostKeeps ==
  ASSUME HookInv, NEW r \in late, Hooks!LateLost(r) PROVE HookInv'
<1> USE DEF Hooks!LateLost
<1>1. HookTypes' OBVIOUS
<1>2. PreInv'    BY DEF PreInv
<1>3. PostInv'   BY DEF PostInv
<1>4. StopInv'   BY DEF StopInv
<1>5. GrantInv'  BY DEF GrantInv
<1>6. ChargeInv' BY DEF ChargeInv
<1>7. OneHold'   BY DEF OneHold
<1>8. ToldInv'   BY DEF ToldInv
<1>q. QED         BY <1>1, <1>2, <1>3, <1>4, <1>5, <1>6, <1>7, <1>8

-----------------------------------------------------------------------------
(* It holds in the initial states.                                         *)
LEMMA HookInitial == Hooks!Init => HookInv
<1> SUFFICES ASSUME Hooks!Init PROVE HookInv
  OBVIOUS
<1>1. \/ /\ file = [t \in Transfers |-> "none"] /\ srv = [t \in Transfers |-> "free"]
         /\ of = [t \in Transfers |-> None] /\ call = [c \in HookCalls |-> "idle"]
         /\ charged = [c \in HookCalls |-> {}]
      \/ \E c \in host.calls, t \in Transfers : Hooks!Legacy(c, t)
  <2>1. (CHOOSE t \in Transfers : TRUE) \in Transfers
    OBVIOUS
  <2>q. QED  BY <2>1 DEF Hooks!Init
<1>2. HookTypes  BY <1>1 DEF Hooks!Init, Hooks!Legacy
<1>3. PreInv     BY <1>1 DEF Hooks!Init, Hooks!Legacy, PreInv
<1>4. PostInv    BY <1>1 DEF Hooks!Init, Hooks!Legacy, PostInv
<1>5. StopInv    BY <1>1 DEF Hooks!Init, Hooks!Legacy, StopInv
<1>6. GrantInv   BY <1>1 DEF Hooks!Init, Hooks!Legacy, GrantInv
<1>7. ChargeInv  BY <1>1 DEF Hooks!Init, Hooks!Legacy, ChargeInv
<1>8. OneHold    BY <1>1 DEF Hooks!Init, Hooks!Legacy, OneHold
<1>9. ToldInv    BY <1>1 DEF Hooks!Init, Hooks!Legacy, ToldInv
<1>q. QED  BY <1>2, <1>3, <1>4, <1>5, <1>6, <1>7, <1>8, <1>9

(* It is preserved by the steps.                                           *)
LEMMA HookInductive == HookInv /\ [Hooks!Next]_Hooks!vars => HookInv'
<1> SUFFICES ASSUME HookInv, [Hooks!Next]_Hooks!vars PROVE HookInv'
  OBVIOUS
<1>1. CASE UNCHANGED Hooks!vars
  BY <1>1 DEF PreInv, PostInv, StopInv, GrantInv, ChargeInv, OneHold, ToldInv
<1>2. CASE \E c \in HookCalls : Hooks!Runs(c) \/ Hooks!Interrupted(c) \/ Hooks!Defers(c)
  BY <1>2, RunsKeeps, InterruptedKeeps, DefersKeeps
<1>3. CASE \E c \in HookCalls : Hooks!PreStep(c) \/ Hooks!PreKilled(c)
  BY <1>3, PreFiresKeeps, PreRefusesKeeps, PreUnmeteredKeeps, PreClaimsKeeps, PreTellsKeeps,
     PreReleasesKeeps, PreDropsKeeps, PreAuthorizesKeeps, PreRecordsKeeps, PreGivesBackKeeps,
     PreKilledKeeps
  DEF Hooks!PreStep
<1>4. CASE \E c \in HookCalls : Hooks!PostFires(c) \/ Hooks!PostStep(c) \/ Hooks!PostKilled(c)
  BY <1>4, PostFiresKeeps, PostTellsKeeps, PostSkipsKeeps, PostClaimsKeeps,
     PostEndsExpiredKeeps, PostSettlesKeeps, PostGoneKeeps, PostAuthorizesKeeps,
       PostRecordsKeeps,
     PostReplacesKeeps, PostGivesBackKeeps, PostUnlinksKeeps, PostKilledKeeps
  DEF Hooks!PostStep
<1>5. CASE \E s \in Stops : Hooks!StopStep(s) \/ Hooks!StopGivesUp(s) \/ Hooks!StopKilled(s)
  BY <1>5, StopStartsKeeps, StopListsKeeps, StopTakesKeeps, StopTellsKeeps, StopReleasesKeeps,
     StopUnconfirmedKeeps, StopClearsKeeps, StopEndsKeeps, StopGivesUpKeeps, StopKilledKeeps
  DEF Hooks!StopStep
<1>6. CASE \E t \in Transfers : Hooks!Expires(t) \/ Hooks!SweepReleasing(t)
  BY <1>6, ExpiresKeeps, SweepReleasingKeeps
<1>7. CASE \E r \in late : Hooks!LateLands(r) \/ Hooks!LateLost(r)
  BY <1>7, LateLandsKeeps, LateLostKeeps
<1>q. QED
  BY <1>1, <1>2, <1>3, <1>4, <1>5, <1>6, <1>7 DEF Hooks!Next

LEMMA HookInvariant == Hooks!Spec => []HookInv
BY HookInitial, HookInductive, PTL DEF Hooks!Spec

(* A call's usage is charged on one hold at most, whatever answers are     *)
(* lost and hooks killed, and however often the call is resumed            *)
(* (post-tool-use.mjs settleEstimateHold).                                 *)
THEOREM ChargedOnceHolds == Hooks!Spec => []ChargedOnce
<1>1. HookInv => ChargedOnce
  BY DEF ChargeInv, ChargedOnce, Hooks!ChargedOnce
<1>q. QED
  BY <1>1, HookInvariant, PTL

(* A call that ran and is not charged is in the gap log, or a file still   *)
(* names its hold, or its record is missing for a reason the code states   *)
(* (post-tool-use.mjs, stop.mjs cleanup).                                  *)
THEOREM UnchargedIsToldHolds == Hooks!Spec => []UnchargedIsTold
<1>1. HookInv => UnchargedIsTold
  BY DEF ToldInv, UnchargedIsTold, Hooks!UnchargedIsTold, Hooks!NoCallRan
<1>q. QED
  BY <1>1, HookInvariant, PTL

(* A resumed call asks for a fresh hold only when the server has none for  *)
(* it but what no file names (pre-tool-use.mjs governCall, retire).        *)
THEOREM NoFreshBesideHolds == Hooks!Spec => []NoFreshBeside
<1>1. HookInv => NoFreshBeside
  BY DEF PreInv, OneHold, NoFreshBeside, Hooks!NoFreshBeside
<1>q. QED
  BY <1>1, HookInvariant, PTL
=============================================================================
