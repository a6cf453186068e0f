----------------------------- MODULE SharedFiles ------------------------------
(***************************************************************************)
(* Two parts that processes share through files and that do not touch each *)
(* other, side by side: the spend ledger and the Claude Code plugin's      *)
(* holds. The calls and the place of a hook are renamed: the spend ledger  *)
(* has a Calls and a pc of its own.                                        *)
(***************************************************************************)
EXTENDS SpendLedger

CONSTANTS HookCalls, Transfers, Stops, Hosts, MaxFires   \* PluginHolds

(* A hold's place may be empty, a settle point is not a call's hook, and a *)
(* host makes only calls and settle points there are.                      *)
ASSUME HooksAssumption ==
  /\ Transfers # {} /\ None \notin Transfers \cup HookCalls
  /\ Stops \cap ({"pre", "post"} \X HookCalls) = {}
  /\ \A h \in Hosts : h.ids \in BOOLEAN /\ h.calls \subseteq HookCalls /\ h.stops \subseteq Stops
  /\ MaxFires \in Nat

VARIABLES
  host, file, gated, ran, told, queue, srv, late, call, fires, at, hold, fresh, after, todo,
  of, charged, gap, excused, forgotten, faults

Hooks == INSTANCE PluginHolds WITH Calls <- HookCalls, pc <- at

(* A call's usage is posted on one hold at most (PluginHolds). *)
ChargedOnce == Hooks!ChargedOnce

(* A call that ran uncharged is told of (PluginHolds). *)
UnchargedIsTold == Hooks!UnchargedIsTold

(* No fresh hold beside one that may be live (PluginHolds). *)
NoFreshBeside == Hooks!NoFreshBeside
=============================================================================
