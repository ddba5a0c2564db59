----------------------------- MODULE MCAblation -----------------------------
(* Constants for the TLC runs of Ablation.                                 *)
EXTENDS Ablation

\* A slot takes a part of one limit, a failed one of both.
MCSpendings(o) == {[time |-> 1, cost |-> IF o \in {"failed", "unlogged"} THEN 1 ELSE 0]}

\* The first lets the whole schedule through, unless three slots failed; the
\* second stops on its time.
MCLimits == {[time |-> 5, cost |-> 3], [time |-> 3, cost |-> 3]}
=============================================================================
