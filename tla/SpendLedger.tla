----------------------------- MODULE SpendLedger -----------------------------
(***************************************************************************)
(* The vault's cumulative spend on disk, .usertrust/spend-ledger.json:     *)
(* loadSpendLedger() and persistSpendLedger(), as createGovernor() uses    *)
(* them (packages/core/src/headless.ts, behind persistSpend()'s mutex) and *)
(* as trust() does (packages/core/src/govern.ts, with none).               *)
(*                                                                         *)
(* A call is one settle of one instance (a governor or a client). Its      *)
(* persist reads the file, stages a temp file and renames it: an action    *)
(* for each, since every one is awaited. The rename is atomic, so the file *)
(* is always a whole number.                                               *)
(*                                                                         *)
(* Definitions named Mutant... are the mutated forms PROJECT.json lists.   *)
(***************************************************************************)
EXTENDS Naturals

CONSTANTS
  Instances,       \* lives of governors or clients of one vault
  Calls,           \* settles
  Of,              \* the instance each settle belongs to
  Costs,           \* what a settle may add
  Serialized,      \* the governors among them; the others are trust() clients
  MaxPersistable,  \* isPersistableSpend()'s bound
  None             \* nobody has persistSpend()'s mutex

ASSUME SpendLedgerAssumption ==
  /\ Of \in [Calls -> Instances]
  /\ Costs \subseteq Nat
  /\ Serialized \subseteq Instances
  /\ MaxPersistable \in Nat
  /\ None \notin Calls

VARIABLES
  disk,      \* what the file says; 0 when there is none
  live,      \* of an instance: "unborn", "live" or "dead"
  spent,     \* budgetSpent
  last,      \* lastPersistedSpent
  mutex,     \* persistMutex: the call that has it, or None
  pc, value, \* where a call stands; the total its persist carries
  existing,  \* the total its persist read from the file
  lost,      \* the instances of which some persist wrote nothing
  beside     \* history: those that were live at once with another

vars == <<disk, live, spent, last, mutex, pc, value, existing, lost, beside>>

Init ==
  /\ disk = 0
  /\ live = [i \in Instances |-> "unborn"]
  /\ spent = [i \in Instances |-> 0]
  /\ last = [i \in Instances |-> 0]
  /\ mutex = [i \in Instances |-> None]
  /\ pc = [c \in Calls |-> "idle"]
  /\ value = [c \in Calls |-> 0]
  /\ existing = [c \in Calls |-> 0]
  /\ lost = {} /\ beside = {}

(* An instance starts from the spend the vault has recorded, whether or    *)
(* not another one, of another process, is live.                           *)
Create(i) == LET others == {j \in Instances : live[j] = "live"} IN
  /\ live[i] = "unborn"
  /\ beside' = IF others = {} THEN beside ELSE beside \cup others \cup {i}
  /\ live' = [live EXCEPT ![i] = "live"]
  /\ spent' = [spent EXCEPT ![i] = disk]
  /\ last' = [last EXCEPT ![i] = disk]
  /\ UNCHANGED <<disk, mutex, pc, value, existing, lost>>

(* The process dies, its persists where they stand. *)
Crash(i) ==
  /\ live[i] = "live"
  /\ live' = [live EXCEPT ![i] = "dead"]
  /\ UNCHANGED <<disk, spent, last, mutex, pc, value, existing, lost, beside>>

(* isPersistableSpend() *)
Persistable(n) == n <= MaxPersistable

(* The settle commits its cost under the budget lock. trust() hands the    *)
(* total of that moment to persistSpendLedger(); a governor queues for     *)
(* persistSpend()'s mutex.                                                 *)
Settle(c) ==
  LET i == Of[c] IN
  /\ live[i] = "live" /\ pc[c] = "idle"
  /\ \E cost \in Costs : spent' = [spent EXCEPT ![i] = @ + cost]
  /\ value' = [value EXCEPT ![c] = spent'[i]]
  /\ \/ i \in Serialized /\ pc' = [pc EXCEPT ![c] = "queued"] /\ UNCHANGED lost
     \/ /\ i \notin Serialized /\ Persistable(spent'[i])
        /\ pc' = [pc EXCEPT ![c] = "load"]
        /\ UNCHANGED lost
     \/ /\ i \notin Serialized /\ ~Persistable(spent'[i])
        /\ pc' = [pc EXCEPT ![c] = "done"]
        /\ lost' = lost \cup {i}
  /\ UNCHANGED <<disk, live, last, mutex, existing, beside>>

MutantPersistDue(i) == spent[i] > last[i] + 1

(* persistSpend() writes only a total above the last one it tried. *)
PersistDue(i) == spent[i] > last[i]

(* runExclusive() of the instance's own persistMutex. *)
MutexTaken(c) == mutex' = [mutex EXCEPT ![Of[c]] = c]

(* persistSpend() gets its mutex, and reads budgetSpent only now. *)
PersistLocked(c) ==
  LET i == Of[c] IN
  /\ live[i] = "live" /\ pc[c] = "queued" /\ mutex[i] = None
  /\ \/ /\ ~PersistDue(i)
        /\ pc' = [pc EXCEPT ![c] = "done"]
        /\ UNCHANGED <<last, mutex, value, lost>>
     \/ /\ PersistDue(i)
        /\ last' = [last EXCEPT ![i] = spent[i]]
        /\ value' = [value EXCEPT ![c] = spent[i]]
        /\ \/ /\ Persistable(spent[i])
              /\ pc' = [pc EXCEPT ![c] = "load"]
              /\ MutexTaken(c)
              /\ UNCHANGED lost
           \/ /\ ~Persistable(spent[i])
              /\ pc' = [pc EXCEPT ![c] = "done"]
              /\ lost' = lost \cup {i}
              /\ UNCHANGED mutex
  /\ UNCHANGED <<disk, live, spent, existing, beside>>

(* The call's persist is over, and its mutex free. *)
Returned(c) ==
  /\ pc' = [pc EXCEPT ![c] = "done"]
  /\ mutex' = IF mutex[Of[c]] = c THEN [mutex EXCEPT ![Of[c]] = None] ELSE mutex

MutantLoad(c) ==
  /\ live[Of[c]] = "live" /\ pc[c] = "load"
  /\ existing' = [existing EXCEPT ![c] = disk]
  /\ pc' = [pc EXCEPT ![c] = "write"]
  /\ UNCHANGED <<disk, live, spent, last, mutex, value, lost, beside>>

(* "MONOTONIC guard": loadSpendLedger() before the write. A higher total   *)
(* on disk stays.                                                          *)
Load(c) ==
  /\ live[Of[c]] = "live" /\ pc[c] = "load"
  /\ existing' = [existing EXCEPT ![c] = disk]
  /\ \/ /\ disk > value[c]
        /\ Returned(c)
     \/ /\ disk <= value[c]
        /\ pc' = [pc EXCEPT ![c] = "write"]
        /\ UNCHANGED mutex
  /\ UNCHANGED <<disk, live, spent, last, value, lost, beside>>

(* The staged file is renamed over the ledger. *)
Rename(c) ==
  /\ live[Of[c]] = "live" /\ pc[c] = "write"
  /\ disk' = value[c]
  /\ Returned(c)
  /\ UNCHANGED <<live, spent, last, value, existing, lost, beside>>

(* The read, the write or the rename fails: reported on stderr only. *)
PersistFailed(c) ==
  /\ live[Of[c]] = "live" /\ pc[c] \in {"load", "write"}
  /\ lost' = lost \cup {Of[c]}
  /\ Returned(c)
  /\ UNCHANGED <<disk, live, spent, last, value, existing, beside>>

Next == \/ \E i \in Instances : Create(i) \/ Crash(i)
        \/ \E c \in Calls : \/ Settle(c) \/ PersistLocked(c) \/ Load(c)
                            \/ Rename(c) \/ PersistFailed(c)

Spec == Init /\ [][Next]_vars

-----------------------------------------------------------------------------
(* Type correctness; the mutex of an instance is one of its calls'. *)
TypeOK ==
  /\ disk \in Nat
  /\ live \in [Instances -> {"unborn", "live", "dead"}]
  /\ spent \in [Instances -> Nat] /\ last \in [Instances -> Nat]
  /\ mutex \in [Instances -> Calls \cup {None}]
  /\ \A c \in Calls : \A i \in Instances : mutex[i] = c => Of[c] = i
  /\ pc \in [Calls -> {"idle", "queued", "load", "write", "done"}]
  /\ value \in [Calls -> Nat] /\ existing \in [Calls -> Nat]
  /\ lost \subseteq Instances /\ beside \subseteq Instances

(* "Cumulative spend must never regress on disk. A stale/racing writer     *)
(* carrying a lower budgetSpent must not un-spend money that another       *)
(* writer (a concurrent settle, another process, or a prior run) already   *)
(* recorded."                                                              *)
NeverRegresses == [][disk' >= disk]_vars

(* What the guard and the mutex do give: the total on disk falls only when *)
(* an overtaken total is renamed, one whose own reading of the file is no  *)
(* longer what it says, by a trust() client or by an instance that has     *)
(* been live beside another. A governor alone never lowers it.             *)
FallsOnlyInARace ==
  [][disk' < disk => \E c \in Calls : /\ pc[c] = "write" /\ pc'[c] = "done"
                                      /\ existing[c] # disk
                                      /\ Of[c] \notin Serialized \/ Of[c] \in beside]_vars

(* Every call of i that settled has returned from its persist. *)
Quiet(i) == \A c \in Calls : Of[c] = i => pc[c] \in {"idle", "done"}

(* A governor that has been live beside no other instance, whose settles   *)
(* have returned and whose writes all succeeded, can be restarted without  *)
(* forgetting any of its spend: what concurrent settles skipped, an        *)
(* earlier one has written.                                                *)
QuietIsOnDisk ==
  \A i \in Serialized \ beside : live[i] = "live" /\ Quiet(i) /\ i \notin lost => disk >= spent[i]
=============================================================================
