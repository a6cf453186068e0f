---------------------------- MODULE MCAuditWriter ----------------------------
(* AuditWriter on small instances: process p1 has the writers a1 and a2,   *)
(* p2 has b1, p3 has c1.                                                   *)
EXTENDS AuditWriter

CONSTANTS a1, a2, b1, c1, p1, p2, p3

ProcOf == [w \in Writers |-> IF w = b1 THEN p2 ELSE IF w = c1 THEN p3 ELSE p1]
=============================================================================
