----------------------------- MODULE PatchApply -----------------------------
(***************************************************************************)
(* The life of proposed patches in working_copy, one file at a time:       *)
(* policy, preflight, approval, recheck, and apply_proposal with its       *)
(* revision check, writes and rollback (patching/preflight.py,             *)
(* patching/applier.py, and the calls in controller.py).  Session takes    *)
(* an apply for one step; here every file is a step of its own, any read   *)
(* or write may fail, and others may edit files in between.                *)
(***************************************************************************)
EXTENDS Naturals, Sequences

CONSTANTS
  Paths,
  Contents,          \* texts of files
  Absent, Torn,      \* no file; a text that a failed write left behind
  Unsaved,           \* no backup was taken
  Patches, NoPatch,
  Sections,          \* patch |-> the file sections of its diff, in order
  Edited,            \* <<patch, section, old text>> |-> new text, where it fits
  MaxAttempts,
  PreflightEnabled,  \* FALSE only in the benchmark ablation
  EditPoints,        \* the control points at which others may edit files
  RollbackMayFail,   \* restoring or unlinking a file may fail
  TornCreates        \* writing a new file may fail after it was created

Texts == Contents \cup {Absent, Torn}
Disks == [Paths -> Texts]

\* A section creates its file or modifies it, and may carry the revision of
\* the text it was made from (Absent: none).
SectionRecords ==
  [path : Paths, new : BOOLEAN, revision : Contents \cup {Absent}]

ASSUME TextAssumption ==
  /\ Absent # Torn /\ Contents \cap {Absent, Torn} = {}
  /\ Unsaved \notin Texts /\ NoPatch \notin Patches

ASSUME PatchAssumption ==
  /\ Sections \in [Patches -> Seq(SectionRecords)]
  /\ \A d \in DOMAIN Edited : Edited[d] \in Contents
  /\ MaxAttempts \in Nat \ {0}
  /\ PreflightEnabled \in BOOLEAN
  /\ RollbackMayFail \in BOOLEAN /\ TornCreates \in BOOLEAN

VARIABLES
  pc,
  disk,      \* working_copy
  patch,     \* the current proposal
  bound,     \* the tree hash taken when the preflight began
  section,   \* index of the file at hand
  backups,   \* path |-> the text before the patch, or Unsaved
  created,   \* the files written anew
  result,    \* the ApplyResult
  attempts_used

progress == <<section, backups, created>>
vars == <<pc, disk, patch, bound, progress, result, attempts_used>>

Kinds == {"none", "internal_error", "context_mismatch", "stale_file_revision",
          "io_error", "raised"}
Results == [ok : BOOLEAN, kind : Kinds, rollback : BOOLEAN]
Pending == [ok |-> FALSE, kind |-> "none", rollback |-> TRUE]
RecoverableKinds == {"context_mismatch", "stale_file_revision"}
NothingSaved == [x \in Paths |-> Unsaved]

Init ==
  /\ pc = "idle" /\ disk \in [Paths -> Contents \cup {Absent}]
  /\ patch = NoPatch /\ bound = disk
  /\ section = 1 /\ backups = NothingSaved /\ created = {}
  /\ result = Pending /\ attempts_used = 0

----------------------------------------------------------------------------
(* Pieces shared by the steps.                                             *)

Indices(p) == DOMAIN Sections[p]
At(p) == Sections[p][section]
LastDone == section > Len(Sections[patch])
NextSection == section' = section + 1

OneSectionAFile(p) ==
  \A j, k \in Indices(p) : Sections[p][j].path = Sections[p][k].path => j = k

\* Fault: one file may have two sections.
DuplicatesAllowed(p) ==
  /\ Indices(p) # {}
  /\ \A j \in Indices(p) :
       Sections[p][j].new <=> disk[Sections[p][j].path] = Absent

\* validate_proposal: one section a file, new files are new, others exist.
Allowed(p) ==
  /\ Indices(p) # {} /\ OneSectionAFile(p)
  /\ \A j \in Indices(p) :
       Sections[p][j].new <=> disk[Sections[p][j].path] = Absent

\* The exact matcher accepts section j on a file with this text.
Fits(p, j, text) == <<p, j, text>> \in DOMAIN Edited

\* Fault: the text may have changed since it was read.
RevisionUnchecked(s) == TRUE

Fresh(s) == s.revision \in {Absent, disk[s.path]}

Matches(p) ==
  LET s == At(p)
  IN /\ s.new <=> disk[s.path] = Absent
     /\ Fresh(s) /\ Fits(p, section, disk[s.path])

Done(r) ==
  /\ pc' = "done" /\ result' = r
  /\ backups' = NothingSaved /\ created' = {} /\ section' = 1

Refuse(kind) == Done([ok |-> FALSE, kind |-> kind, rollback |-> TRUE])

\* The exception handler of apply_proposal.
Fail(kind) ==
  /\ pc' = "rollback" /\ result' = [ok |-> FALSE, kind |-> kind, rollback |-> TRUE]

----------------------------------------------------------------------------
(* From the proposal to the apply.                                         *)

\* Fault: the attempts are not counted against their limit.
ProposeAnytime(p) ==
  /\ pc = "idle" /\ Allowed(p)
  /\ pc' = "preflight" /\ patch' = p /\ bound' = disk /\ section' = 1
  /\ UNCHANGED <<disk, backups, created, result, attempts_used>>

\* Refused proposals change nothing.  The tree hash is taken first.
Propose(p) ==
  /\ pc = "idle" /\ attempts_used < MaxAttempts /\ Allowed(p)
  /\ pc' = "preflight" /\ patch' = p /\ bound' = disk /\ section' = 1
  /\ UNCHANGED <<disk, backups, created, result, attempts_used>>

PreflightSection ==
  /\ pc = "preflight" /\ ~LastDone /\ (PreflightEnabled => Matches(patch))
  /\ NextSection
  /\ UNCHANGED <<pc, disk, patch, bound, backups, created, result, attempts_used>>

\* A mismatch, a stale revision or an unreadable file: another patch is asked for.
PreflightFails ==
  /\ pc = "preflight" /\ ~LastDone /\ PreflightEnabled
  /\ pc' = "idle" /\ patch' = NoPatch
  /\ UNCHANGED <<disk, bound, progress, result, attempts_used>>

PreflightAccepts ==
  /\ pc = "preflight" /\ LastDone /\ pc' = "approval"
  /\ UNCHANGED <<disk, patch, bound, progress, result, attempts_used>>

\* The human rejects, or the recheck finds another tree: the session ends.
Reject ==
  /\ pc = "approval" /\ pc' = "ended"
  /\ UNCHANGED <<disk, patch, bound, progress, result, attempts_used>>

\* Fault: the tree hash is not taken again.
ApproveUnchecked ==
  /\ pc = "approval" /\ pc' = "validate"
  /\ UNCHANGED <<disk, patch, bound, progress, result, attempts_used>>

Approve ==
  /\ pc = "approval" /\ disk = bound /\ pc' = "validate"
  /\ UNCHANGED <<disk, patch, bound, progress, result, attempts_used>>

----------------------------------------------------------------------------
(* apply_proposal.                                                         *)

\* The policy is asked again.  It reads the tests, outside the try block.
Validate ==
  /\ pc = "validate"
  /\ \/ /\ Allowed(patch) /\ pc' = "revisions"
        /\ section' = 1 /\ UNCHANGED <<backups, created, result>>
     \/ ~Allowed(patch) /\ Refuse("internal_error")
     \/ Refuse("raised")
  /\ UNCHANGED <<disk, patch, bound, attempts_used>>

\* Every revision is compared before the first write.  Files that have gone
\* are passed over.
RevisionsHold ==
  \A j \in Indices(patch) :
    LET s == Sections[patch][j] IN s.new \/ disk[s.path] = Absent \/ Fresh(s)

CheckRevisions ==
  /\ pc = "revisions"
  /\ \/ /\ RevisionsHold /\ pc' = "section"
        /\ UNCHANGED <<progress, result>>
     \/ ~RevisionsHold /\ Refuse("stale_file_revision")
     \/ Refuse("io_error")
  /\ UNCHANGED <<disk, patch, bound, attempts_used>>

Writing == pc = "section" /\ ~LastDone

ModifyFile ==
  LET s == At(patch)
      old == disk[s.path]
  IN /\ Writing /\ ~s.new /\ old # Absent
     /\ \/ Fail("io_error") /\ UNCHANGED <<disk, progress>>           \* not read
        \/ /\ backups' = [backups EXCEPT ![s.path] = old]
           /\ UNCHANGED created
           /\ \/ /\ ~Fits(patch, section, old) /\ Fail("context_mismatch")
                 /\ UNCHANGED <<disk, section>>
              \/ /\ Fits(patch, section, old)
                 /\ disk' = [disk EXCEPT ![s.path] = Edited[<<patch, section, old>>]]
                 /\ NextSection /\ UNCHANGED <<pc, result>>
              \/ /\ Fits(patch, section, old) /\ Fail("io_error")     \* not written
                 /\ disk' \in {disk, [disk EXCEPT ![s.path] = Torn]}
                 /\ UNCHANGED section
     /\ UNCHANGED <<patch, bound, attempts_used>>

\* A new file is remembered only once it is written.
CreateFile ==
  LET s == At(patch)
  IN /\ Writing /\ s.new /\ disk[s.path] = Absent
     /\ \/ /\ Fits(patch, section, Absent)
           /\ disk' = [disk EXCEPT ![s.path] = Edited[<<patch, section, Absent>>]]
           /\ created' = created \cup {s.path}
           /\ NextSection /\ UNCHANGED <<pc, backups, result>>
        \/ /\ ~Fits(patch, section, Absent) /\ Fail("internal_error")
           /\ UNCHANGED <<disk, progress>>
        \/ /\ Fail("io_error")
           /\ \/ UNCHANGED disk
              \/ TornCreates /\ disk' = [disk EXCEPT ![s.path] = Torn]
           /\ UNCHANGED progress
     /\ UNCHANGED <<patch, bound, attempts_used>>

\* A file to create exists, or one to modify has gone.
FileUnexpected ==
  /\ Writing /\ (At(patch).new <=> disk[At(patch).path] # Absent)
  /\ Fail("internal_error")
  /\ UNCHANGED <<disk, patch, bound, progress, attempts_used>>

\* The attempt is charged by the controller.
Commit ==
  /\ pc = "section" /\ LastDone
  /\ Done([ok |-> TRUE, kind |-> "none", rollback |-> TRUE])
  /\ attempts_used' = attempts_used + 1
  /\ UNCHANGED <<disk, patch, bound>>

----------------------------------------------------------------------------
(* Rollback: the backups are written back, then the new files unlinked,    *)
(* each in the order of the diff; the first failure ends it.               *)

Saved == {x \in Paths : backups[x] # Unsaved}
Earliest(x, S) ==
  x \in S /\ \E j \in Indices(patch) :
    /\ Sections[patch][j].path = x
    /\ \A k \in Indices(patch) : Sections[patch][k].path \in S => j <= k

Restore(x) ==
  /\ pc = "rollback" /\ Earliest(x, Saved)
  /\ disk' = [disk EXCEPT ![x] = backups[x]]
  /\ backups' = [backups EXCEPT ![x] = Unsaved]
  /\ UNCHANGED <<pc, patch, bound, section, created, result, attempts_used>>

\* Fault: only modified files are put back.
UnlinkSkipped(x) ==
  /\ pc = "rollback" /\ Saved = {} /\ Earliest(x, created)
  /\ created' = created \ {x}
  /\ UNCHANGED <<pc, disk, patch, bound, section, backups, result, attempts_used>>

Unlink(x) ==
  /\ pc = "rollback" /\ Saved = {} /\ Earliest(x, created)
  /\ disk' = [disk EXCEPT ![x] = Absent]
  /\ created' = created \ {x}
  /\ UNCHANGED <<pc, patch, bound, section, backups, result, attempts_used>>

RollbackFails(x) ==
  /\ pc = "rollback" /\ RollbackMayFail
  /\ Earliest(x, Saved) \/ (Saved = {} /\ Earliest(x, created))
  /\ disk' \in {disk, [disk EXCEPT ![x] = IF x \in Saved THEN Torn ELSE @]}
  /\ Done([result EXCEPT !.rollback = FALSE])
  /\ UNCHANGED <<patch, bound, attempts_used>>

RolledBack ==
  /\ pc = "rollback" /\ Saved = {} /\ created = {} /\ Done(result)
  /\ UNCHANGED <<disk, patch, bound, attempts_used>>

----------------------------------------------------------------------------
\* After a tested patch or a recoverable failure another proposal may come;
\* the rollback flag is not looked at.
Resume ==
  /\ pc = "done" /\ (result.ok \/ result.kind \in RecoverableKinds)
  /\ pc' = "idle" /\ patch' = NoPatch /\ result' = Pending
  /\ UNCHANGED <<disk, bound, progress, attempts_used>>

EndSession ==
  /\ pc \in {"idle", "done"} /\ pc' = "ended"
  /\ UNCHANGED <<disk, patch, bound, progress, result, attempts_used>>

Terminated == pc = "ended" /\ UNCHANGED vars

Controller ==
  \/ \E p \in Patches : Propose(p)
  \/ PreflightSection \/ PreflightFails \/ PreflightAccepts \/ Reject \/ Approve
  \/ Validate \/ CheckRevisions \/ ModifyFile \/ CreateFile \/ FileUnexpected \/ Commit
  \/ \E x \in Paths : Restore(x) \/ Unlink(x) \/ RollbackFails(x)
  \/ RolledBack \/ Resume \/ EndSession

\* Somebody else writes, creates or removes a file.
ExternalEdit ==
  /\ pc \in EditPoints
  /\ \E x \in Paths, t \in Contents \cup {Absent} : disk' = [disk EXCEPT ![x] = t]
  /\ UNCHANGED <<pc, patch, bound, progress, result, attempts_used>>

Next == Controller \/ ExternalEdit \/ Terminated

Spec == Init /\ [][Next]_vars /\ WF_vars(Controller)

----------------------------------------------------------------------------
(* Properties.                                                             *)

ControlPoints == {"idle", "preflight", "approval", "validate", "revisions", "section",
                  "rollback", "done", "ended"}

\* Every variable has its type, and a patch is at hand wherever one is used.
TypeOK ==
  /\ pc \in ControlPoints /\ disk \in Disks /\ bound \in Disks
  /\ patch \in Patches \cup {NoPatch}
  /\ pc \in ControlPoints \ {"idle", "ended"} => patch \in Patches
  /\ section \in Nat \ {0} /\ backups \in [Paths -> Texts \cup {Unsaved}]
  /\ created \in SUBSET Paths
  /\ result \in Results /\ attempts_used \in 0..MaxAttempts

\* The tree that a rollback of this moment would bring back.
Original ==
  [x \in Paths |-> IF backups[x] # Unsaved THEN backups[x]
                   ELSE IF x \in created THEN Absent ELSE disk[x]]

\* The tree a whole patch makes of tree d.
SectionOf(p, x) == CHOOSE j \in Indices(p) : Sections[p][j].path = x
Touched(p) == {Sections[p][j].path : j \in Indices(p)}
Whole(p, d) ==
  [x \in Paths |-> IF x \in Touched(p) THEN Edited[<<p, SectionOf(p, x), d[x]>>]
                   ELSE d[x]]
Applicable == {w \in Patches \X Disks :
  /\ OneSectionAFile(w[1])
  /\ \A j \in Indices(w[1]) : Fits(w[1], j, w[2][Sections[w[1]][j].path])}

\* Seen from outside, the apply of a patch to several files is one write of
\* the whole approved patch to the approved tree, or nothing at all.
Repair == INSTANCE ApprovedRepair WITH
  Trees <- Disks, Patched <- [w \in Applicable |-> Whole(w[1], w[2])],
  MaxWrites <- MaxAttempts,
  tree <- Original, writes <- attempts_used, over <- (pc = "ended"),
  approved <- IF pc \in {"validate", "revisions", "section", "rollback"}
                THEN {[patch |-> patch, tree |-> bound]} ELSE {}

\* apply_proposal is transactional whatever read or write fails, provided that
\* nobody edits files after the recheck, that rollbacks succeed and that the
\* write of a new file leaves no torn file.
ImplementsApprovedRepair == Repair!Spec

\* ApplyResult.rollback_succeeded tells the truth but for one file: with it, a
\* failed apply leaves the tree that was under review, except perhaps a new file
\* whose write failed after it was created, which no list of _safe_rollback
\* holds.  Nobody is to edit files after the recheck.
TornCreate(x) == TornCreates /\ bound[x] = Absent /\ disk[x] = Torn
RollbackReportHonest ==
  pc = "done" /\ ~result.ok /\ result.rollback =>
    \A x \in Paths : disk[x] # bound[x] =>
      TornCreate(x) /\ \A y \in Paths \ {x} : disk[y] = bound[y]

\* A patch that passed preflight, approval and recheck can no longer fail to
\* fit: only I/O stops it, if nobody edits files while preflight reads them or
\* after the recheck.  So no new patch is ever asked for on a tree that a failed
\* rollback damaged or that holds a torn file.
ReviewedPatchFits == result.kind \in {"none", "io_error", "raised"}

\* Where a section names the revision it was made from, that revision is what
\* it is applied to, even if the file was edited after the recheck, as long as
\* that was before the loop that compares the revisions (applier.py:142-152).
\* Nothing guards a file between that loop and its own read and write (:180).
RevisionGuardsText ==
  [][attempts_used' > attempts_used =>
       \A j \in Indices(patch) :
         LET s == Sections[patch][j]
         IN s.revision # Absent /\ ~s.new => Original[s.path] = s.revision]_vars
=============================================================================
