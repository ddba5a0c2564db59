----------------------------- MODULE MCSession -----------------------------
(* Constants for the TLC runs of Session.                                  *)
EXTENDS Session

CONSTANTS p1, p2, t1, t2, t3

\* p1 fits two trees, p2 one of them, and nothing fits t3: after an edit or an
\* apply a patch that was applicable may no longer be.
MCPatched ==
  [d \in {<<p1, t1>>, <<p1, t2>>, <<p2, t1>>} |-> IF d = <<p1, t1>> THEN t2 ELSE t3]

NoEdits == {}
EditsUntilRecheck == Waits \ {"apply"}
EditsAnytime == Waits
=============================================================================
