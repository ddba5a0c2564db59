---------------------------- MODULE MCReadLedger ----------------------------
(* Constants for the TLC runs of ReadLedger.                               *)
EXTENDS ReadLedger

CONSTANTS f1, p1, p2, t1, t2

\* p1 turns t1 into t2; p2 fits nothing.
MCPatched == [d \in {<<p1, t1>>} |-> t2]

\* Both texts are longer than one read may be, and of different length.
MCLength == [d \in {f1} \X {t1, t2} |-> IF d[2] = t1 THEN 5 ELSE 4]

NoEdits == {}
EditsWhileReading == {"model", "apply"}
=============================================================================
