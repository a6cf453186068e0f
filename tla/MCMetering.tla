------------------------------ MODULE MCMetering ------------------------------
(* The parts of Metering on small instances in one state space: a          *)
(* behaviour is one of the trust() client or one of the transcript mode.   *)
EXTENDS Metering

CONSTANTS c1, c2, c3, c4, p1, q1, s1, s2, h1, h2, h3, h4

VARIABLE part   \* which of the two runs

(* Sessions of one agent or of a main agent and its fork; with or without  *)
(* keys at the server; messages of one class or of two; a call's hooks and *)
(* a Stop, or two Stops; and what may fail on the way.                     *)
Session(keys, agents, classes, hooks, bound) ==
  [keys |-> keys, agents |-> agents, class |-> [m \in {1, 2} |-> IF classes = 1 THEN 1 ELSE m],
   hooks |-> hooks, faults |-> bound]
AllSessions ==
  {Session(TRUE, <<Main>>, 1, {p1, q1, s1}, 2),
   Session(FALSE, <<Main>>, 2, {p1, q1, s1}, 1),
   Session(TRUE, <<Main>>, 2, {s1, s2}, 1),
   Session(TRUE, <<Main, Fork>>, 1, {p1, s1}, 1)}

meterVars == <<session, transcript, cursor, claims, locks, file, srv, landing, at, job, excused,
               faults>>

(* The trust() client: one call of any kind with every fault, one inside a *)
(* cost center, two calls side by side, and the dry run.                   *)
Alone      == {<<k, "none", "none", "none">> : k \in Kinds}
InEnvelope == {<<"none", "none", "none", k>> : k \in {"plain", "iter"}}
Beside     == {<<"none", "google", "iter", "none">>}

(* A part that does not run stands still in one state. *)
PartsInit ==
  /\ part \in {"client", "transcript"} /\ Init /\ Meter!Init
  /\ <<kind[c1], kind[c2], kind[c3], kind[c4]>> \in
        IF engine THEN Alone \cup InEnvelope \cup Beside ELSE Beside
  /\ part = "client" => session = Session(TRUE, <<Main>>, 2, {s1, s2}, 1)
  /\ part = "transcript" => ~engine

ClientNext     == part = "client" /\ Next /\ UNCHANGED <<part, meterVars>>
TranscriptNext == part = "transcript" /\ Meter!Next /\ UNCHANGED <<part, vars>>

PartsSpec ==
  /\ PartsInit /\ [][ClientNext \/ TranscriptNext]_<<part, vars, meterVars>>
  /\ WF_vars(part = "client" /\ (DestroyStep \/ \E c \in Calls : Proceeds(c)))
=============================================================================
