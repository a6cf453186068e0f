---------------------------- MODULE MCSpendLedger -----------------------------
(* SpendLedger on small instances: i1 makes the calls c1 and c2, i2 the    *)
(* calls d1 and d2, before it, after it or beside it.                      *)
EXTENDS SpendLedger

CONSTANTS i1, i2, c1, c2, d1, d2

CallsOf == [c \in Calls |-> IF c \in {d1, d2} THEN i2 ELSE i1]
=============================================================================
