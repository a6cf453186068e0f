------------------------------- MODULE Metering -------------------------------
(***************************************************************************)
(* Two parts that meter what a model was asked, each on its own and side   *)
(* by side: the trust() client, which wraps a call, and the transcript     *)
(* mode of the Claude Code plugin, which reads what the host wrote. The    *)
(* locks, the late settles and the place of a hook are renamed: the client *)
(* has a lock, a late and a pc of its own.                                 *)
(***************************************************************************)
EXTENDS TrustClient, Sequences

CONSTANTS Messages, Main, Fork, Pres, Posts, Stops, Transfers, Sessions, None   \* TranscriptMeter

VARIABLES
  session, transcript, cursor, claims, locks, file, srv, landing, at, job, excused, faults

Meter == INSTANCE TranscriptMeter WITH lock <- locks, late <- landing, pc <- at

(* Nothing is no agent, hook, hold or outcome, and a session has only hooks *)
(* and agents there are.                                                    *)
ASSUME MeterAssumption ==
  /\ None \notin Meter!Owners \cup Meter!Hooks \cup Transfers
                   \cup {"settled", "released", "claimed", "unresolved"}
  /\ \A s \in Sessions : s.hooks \subseteq Meter!Hooks /\ s.agents \in Seq(Meter!Owners)

(* A transcript message is posted at most once (TranscriptMeter). *)
PostedOnce == Meter!PostedOnce

(* What a cursor is done with was charged (TranscriptMeter). *)
DoneIsCharged == Meter!DoneIsCharged
=============================================================================
