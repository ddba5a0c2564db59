---------------------------- MODULE MCPatchApply ----------------------------
(* Constants for the TLC runs of PatchApply.                               *)
EXTENDS PatchApply

CONSTANTS a, b, t, c1, c2, both, added, bound1, twice, garbled

Sec(path, new, revision) == [path |-> path, new |-> new, revision |-> revision]

\* both modifies two files, added modifies one and creates a test, bound1
\* carries the revision it was made from, twice names one file two times, and
\* garbled creates a test from a section that also deletes lines.
MCSections ==
  [p \in {both, added, bound1, twice, garbled} |->
     CASE p = both -> <<Sec(a, FALSE, Absent), Sec(b, FALSE, Absent)>>
       [] p = added -> <<Sec(a, FALSE, Absent), Sec(t, TRUE, Absent)>>
       [] p = bound1 -> <<Sec(t, TRUE, Absent), Sec(b, FALSE, c1)>>
       [] p = twice -> <<Sec(a, FALSE, Absent), Sec(a, FALSE, Absent),
                         Sec(b, FALSE, Absent)>>
       [] p = garbled -> <<Sec(a, FALSE, Absent), Sec(t, TRUE, Absent)>>]

Keys(p, j) == IF MCSections[p][j].new THEN {<<p, j, Absent>>} ELSE {<<p, j, c1>>}
MCEdited ==
  [k \in UNION {Keys(p, j) : p \in {both, added, bound1}, j \in 1..2} \cup
         {<<garbled, 1, c1>>, <<bound1, 2, c2>>, <<twice, 1, c1>>, <<twice, 2, c2>>, <<twice, 3, c1>>}
     |-> IF k[3] = c2 THEN c1 ELSE c2]

BeforeRecheck == {"preflight", "approval"}
UnderReview == {"approval"}
BeforeWrites == {"preflight", "approval", "validate", "revisions"}
=============================================================================
