---------------------------- MODULE MCHiddenEval ----------------------------
(* Constants for the TLC runs of HiddenEval.                               *)
EXTENDS HiddenEval

CONSTANTS buggy, fixed, hbuggy, hfixed

MCWithHidden == [t \in {buggy, fixed} |-> IF t = buggy THEN hbuggy ELSE hfixed]

\* The buggy tree fails its tests, or hangs; the fixed one may run out of time.
MCSuite ==
  [t \in {buggy, fixed, hbuggy, hfixed, Absent, Scribbled} |->
     CASE t = buggy -> {"failed", "hangs"}
       [] t = fixed -> {"passed", "hangs"}
       [] t = hbuggy -> {"failed"}
       [] t = hfixed -> {"passed", "failed", "pytest_missing"}
       [] OTHER -> Outcomes]
=============================================================================
