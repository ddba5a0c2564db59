-------------------------- MODULE PatchApplyProofs --------------------------
(***************************************************************************)
(* Proofs about PatchApply, for every value of its constants.              *)
(*                                                                         *)
(* TypeOK is inductive with NothingHeld, which says where no backup can be *)
(* pending.  For the rest the point is InFlight: while a patch is being    *)
(* applied or rolled back, a rollback would bring back the tree that was   *)
(* bound, but for a torn new file, and the files of the sections done so   *)
(* far, and only they, hold the patched texts.                             *)
(***************************************************************************)
EXTENDS PatchApply, SequenceTheorems, TLAPS

Applying == {"validate", "revisions", "section", "rollback"}
HasProposal == {"preflight", "approval"} \cup Applying

NothingHeld ==
  /\ pc \notin {"section", "rollback"} => backups = NothingSaved /\ created = {}
  /\ pc \in HasProposal => attempts_used < MaxAttempts

Inv == TypeOK /\ NothingHeld

----------------------------------------------------------------------------
\* The sections of a patch are records of the declared type.
LEMMA SectionType ==
  ASSUME NEW p \in Patches, NEW j \in Indices(p)
  PROVE  /\ Sections[p][j] \in SectionRecords
         /\ Sections[p][j].path \in Paths
         /\ j \in 1..Len(Sections[p]) /\ Len(Sections[p]) \in Nat /\ j \in Nat
<1>1. Sections[p] \in Seq(SectionRecords)
  BY PatchAssumption
<1>2. /\ j \in 1..Len(Sections[p]) /\ Len(Sections[p]) \in Nat
      /\ Sections[p][j] \in SectionRecords
  BY <1>1 DEF Indices
<1> QED BY <1>2 DEF SectionRecords

\* The section at hand belongs to the patch.
LEMMA AtType ==
  ASSUME TypeOK, ~LastDone, patch \in Patches
  PROVE  section \in Indices(patch) /\ At(patch).path \in Paths
<1>1. Sections[patch] \in Seq(SectionRecords) /\ section \in Nat \ {0}
  BY PatchAssumption DEF TypeOK
<1>2. section \in Indices(patch)
  BY <1>1 DEF LastDone, Indices
<1> QED BY <1>2, SectionType DEF At

\* What a patched file holds is a text.
LEMMA EditedType ==
  ASSUME NEW p, NEW j, NEW old, Fits(p, j, old)
  PROVE  Edited[<<p, j, old>>] \in Texts
BY PatchAssumption DEF Fits, Texts

\* Ending an apply leaves nothing held.
LEMMA DoneType ==
  ASSUME NEW r \in Results, Done(r)
  PROVE  /\ pc' = "done" /\ result' \in Results /\ section' \in Nat \ {0}
         /\ backups' \in [Paths -> Texts \cup {Unsaved}] /\ backups' = NothingSaved
         /\ created' = {}
BY DEF Done, NothingSaved

\* The invariant holds before the first proposal.
LEMMA InitInv == Init => Inv
<1> SUFFICES ASSUME Init PROVE Inv
  OBVIOUS
<1>1. disk \in Disks /\ bound \in Disks
  BY DEF Init, Disks, Texts
<1>2. backups \in [Paths -> Texts \cup {Unsaved}]
  BY DEF Init, NothingSaved
<1>3. result \in Results
  BY DEF Init, Pending, Results, Kinds
<1>4. attempts_used \in 0..MaxAttempts
  BY PatchAssumption DEF Init
<1> QED BY <1>1, <1>2, <1>3, <1>4 DEF Init, Inv, TypeOK, NothingHeld, ControlPoints,
           HasProposal, Applying

\* Every step of the controller and every edit by others preserves it.
LEMMA NextInv == Inv /\ [Next]_vars => Inv'
<1> SUFFICES ASSUME Inv, [Next]_vars PROVE Inv'
  OBVIOUS
<1> USE DEF Inv
<1>1. ASSUME UNCHANGED vars PROVE Inv'
  BY <1>1 DEF vars, progress, TypeOK, NothingHeld
<1>2. ASSUME NEW p \in Patches, Propose(p) PROVE Inv'
  BY <1>2 DEF Propose, TypeOK, NothingHeld, ControlPoints, HasProposal, Applying
<1>3. CASE PreflightSection
  BY <1>3 DEF PreflightSection, NextSection, TypeOK, NothingHeld, ControlPoints,
     HasProposal, Applying
<1>4. CASE PreflightFails
  BY <1>4 DEF PreflightFails, progress, TypeOK, NothingHeld, ControlPoints,
     HasProposal, Applying
<1>5. CASE PreflightAccepts
  BY <1>5 DEF PreflightAccepts, progress, TypeOK, NothingHeld, ControlPoints,
     HasProposal, Applying
<1>6. CASE Reject
  BY <1>6 DEF Reject, progress, TypeOK, NothingHeld, ControlPoints, HasProposal, Applying
<1>7. CASE Approve
  BY <1>7 DEF Approve, progress, TypeOK, NothingHeld, ControlPoints, HasProposal, Applying
<1>refuse. ASSUME NEW kind \in Kinds, Refuse(kind), pc \in Applying,
                  UNCHANGED <<disk, patch, bound, attempts_used>>
           PROVE  Inv'
  <2>1. [ok |-> FALSE, kind |-> kind, rollback |-> TRUE] \in Results
    BY DEF Results
  <2> QED BY <2>1, <1>refuse, DoneType DEF Refuse, TypeOK, NothingHeld, ControlPoints,
             HasProposal, Applying
<1>fail. ASSUME NEW kind \in Kinds, Fail(kind)
         PROVE  pc' = "rollback" /\ result' \in Results
  BY <1>fail DEF Fail, Results
<1>8. CASE Validate
  <2>1. CASE Refuse("internal_error") \/ Refuse("raised")
    BY <2>1, <1>8, <1>refuse DEF Validate, Kinds, Applying
  <2>2. CASE pc' = "revisions" /\ section' = 1 /\ UNCHANGED <<backups, created, result>>
    BY <2>2, <1>8 DEF Validate, TypeOK, NothingHeld, ControlPoints, HasProposal, Applying
  <2> QED BY <2>1, <2>2, <1>8 DEF Validate
<1>9. CASE CheckRevisions
  <2>1. CASE Refuse("stale_file_revision") \/ Refuse("io_error")
    BY <2>1, <1>9, <1>refuse DEF CheckRevisions, Kinds, Applying
  <2>2. CASE pc' = "section" /\ UNCHANGED <<progress, result>>
    BY <2>2, <1>9 DEF CheckRevisions, progress, TypeOK, NothingHeld, ControlPoints,
       HasProposal, Applying
  <2> QED BY <2>1, <2>2, <1>9 DEF CheckRevisions
<1>10. CASE ModifyFile
  <2> DEFINE x == At(patch).path
             old == disk[x]
  <2>1. x \in Paths /\ pc = "section" /\ patch \in Patches
    BY <1>10, AtType DEF ModifyFile, Writing, TypeOK, ControlPoints
  <2>2. old \in Texts
    BY <2>1 DEF TypeOK, Disks
  <2>3. backups' \in [Paths -> Texts \cup {Unsaved}]
    BY <1>10, <2>2 DEF ModifyFile, progress, TypeOK
  <2>4. disk' \in Disks
    BY <1>10, <2>1, EditedType DEF ModifyFile, TypeOK, Disks, Texts
  <2>5. /\ pc' \in {"section", "rollback"} /\ result' \in Results
        /\ section' \in Nat \ {0} /\ UNCHANGED <<patch, bound, created, attempts_used>>
    BY <1>10, <2>1, <1>fail DEF ModifyFile, NextSection, progress, TypeOK, Kinds
  <2> QED BY <2>1, <2>3, <2>4, <2>5 DEF TypeOK, NothingHeld, ControlPoints, HasProposal,
             Applying
<1>11. CASE CreateFile
  <2> DEFINE x == At(patch).path
  <2>1. x \in Paths /\ pc = "section" /\ patch \in Patches
    BY <1>11, AtType DEF CreateFile, Writing, TypeOK, ControlPoints
  <2>2. disk' \in Disks
    BY <1>11, <2>1, EditedType DEF CreateFile, TypeOK, Disks, Texts
  <2>3. created' \in SUBSET Paths
    BY <1>11, <2>1 DEF CreateFile, progress, TypeOK
  <2>4. /\ pc' \in {"section", "rollback"} /\ result' \in Results
        /\ section' \in Nat \ {0} /\ UNCHANGED <<patch, bound, backups, attempts_used>>
    BY <1>11, <2>1, <1>fail DEF CreateFile, NextSection, progress, TypeOK, Kinds
  <2> QED BY <2>1, <2>2, <2>3, <2>4 DEF TypeOK, NothingHeld, ControlPoints, HasProposal,
             Applying
<1>12. CASE FileUnexpected
  BY <1>12, <1>fail DEF FileUnexpected, Writing, progress, TypeOK, NothingHeld,
     ControlPoints, HasProposal, Applying, Kinds
<1>13. CASE Commit
  <2>1. [ok |-> TRUE, kind |-> "none", rollback |-> TRUE] \in Results
    BY DEF Results, Kinds
  <2>2. attempts_used' \in 0..MaxAttempts
    BY <1>13, PatchAssumption DEF Commit, TypeOK, NothingHeld, HasProposal, Applying
  <2> QED BY <2>1, <2>2, <1>13, DoneType DEF Commit, TypeOK, NothingHeld, ControlPoints,
             HasProposal, Applying
<1>14. ASSUME NEW x \in Paths, Restore(x) PROVE Inv'
  <2>1. disk' \in Disks
    BY <1>14 DEF Restore, Earliest, Saved, TypeOK, Disks
  <2>2. backups' \in [Paths -> Texts \cup {Unsaved}]
    BY <1>14 DEF Restore, TypeOK
  <2> QED BY <2>1, <2>2, <1>14 DEF Restore, TypeOK, NothingHeld, ControlPoints,
             HasProposal, Applying
<1>15. ASSUME NEW x \in Paths, Unlink(x) PROVE Inv'
  <2>1. disk' \in Disks
    BY <1>15 DEF Unlink, TypeOK, Disks, Texts
  <2> QED BY <2>1, <1>15 DEF Unlink, TypeOK, NothingHeld, ControlPoints, HasProposal,
             Applying
<1>16. ASSUME NEW x \in Paths, RollbackFails(x) PROVE Inv'
  <2>1. disk' \in Disks
    BY <1>16 DEF RollbackFails, TypeOK, Disks, Texts
  <2>2. [result EXCEPT !.rollback = FALSE] \in Results
    BY DEF TypeOK, Results
  <2> QED BY <2>1, <2>2, <1>16, DoneType DEF RollbackFails, TypeOK, NothingHeld,
             ControlPoints, HasProposal, Applying
<1>17. CASE RolledBack
  BY <1>17, DoneType DEF RolledBack, TypeOK, NothingHeld, ControlPoints, HasProposal,
     Applying
<1>18. CASE Resume
  <2>1. Pending \in Results
    BY DEF Pending, Results, Kinds
  <2> QED BY <2>1, <1>18 DEF Resume, progress, TypeOK, NothingHeld, ControlPoints,
             HasProposal, Applying
<1>19. CASE EndSession
  BY <1>19 DEF EndSession, progress, TypeOK, NothingHeld, ControlPoints, HasProposal,
     Applying
<1>20. CASE ExternalEdit
  <2>1. disk' \in Disks
    BY <1>20 DEF ExternalEdit, TypeOK, Disks, Texts
  <2> QED BY <2>1, <1>20 DEF ExternalEdit, progress, TypeOK, NothingHeld
<1>21. CASE Terminated
  BY <1>21, <1>1 DEF Terminated
<1> QED BY <1>1, <1>2, <1>3, <1>4, <1>5, <1>6, <1>7, <1>8, <1>9, <1>10, <1>11, <1>12,
           <1>13, <1>14, <1>15, <1>16, <1>17, <1>18, <1>19, <1>20, <1>21
        DEF Next, Controller

\* The invariant holds throughout.
LEMMA InvAlways == Spec => []Inv
  BY InitInv, NextInv, PTL DEF Spec

\* Every variable keeps its type, and no proposal is taken up once the attempts
\* are spent, whatever reads and writes fail and whatever others edit.
THEOREM TypeCorrect == Spec => []TypeOK
<1>1. Inv => TypeOK
  BY DEF Inv
<1> QED BY <1>1, InvAlways, PTL

----------------------------------------------------------------------------
(* Transactionality.                                                       *)

\* Section j of the patch is applied, or its file is as it was bound.
Applied(j) ==
  LET x == Sections[patch][j].path
  IN Fits(patch, j, bound[x]) /\ disk[x] = Edited[<<patch, j, bound[x]>>]
Untouched(x) == disk[x] = bound[x] /\ backups[x] = Unsaved /\ x \notin created

\* The new file whose write has just failed; no list of the rollback holds it.
Litter(x) ==
  TornCreate(x) /\ x = At(patch).path /\ backups[x] = Unsaved /\ x \notin created
Kept == \A x \in Paths : Original[x] = bound[x] \/ Litter(x)

InFlight ==
  /\ pc \in Applying \ {"rollback"} => Original = bound
  /\ pc = "rollback" => Kept
  /\ pc \in {"revisions", "section", "rollback"} => OneSectionAFile(patch)
  /\ pc = "revisions" => section = 1
  /\ pc \in {"section", "rollback"} => \A x \in created : backups[x] = Unsaved
  /\ pc = "section" =>
       /\ \A j \in Indices(patch) :
            IF j < section THEN Applied(j) ELSE Untouched(Sections[patch][j].path)
       /\ \A x \in Paths \ Touched(patch) : disk[x] = bound[x]

\* With nothing held, a rollback would change nothing.
LEMMA OriginalIsDisk ==
  ASSUME TypeOK, backups = NothingSaved, created = {}
  PROVE  Original = disk
BY DEF TypeOK, Disks, NothingSaved, Original

\* The same after a step.
LEMMA OriginalIsDiskNext ==
  ASSUME TypeOK', backups' = NothingSaved, created' = {}
  PROVE  Original' = disk'
BY DEF TypeOK, Disks, NothingSaved, Original

\* Original differs from bound in no file.
LEMMA OriginalIs ==
  ASSUME TypeOK, Original = bound, NEW x \in Paths
  PROVE  bound[x] = IF backups[x] # Unsaved THEN backups[x]
                    ELSE IF x \in created THEN Absent ELSE disk[x]
BY DEF Original

\* No text is the mark of a missing backup.
LEMMA TextIsNoMark == Texts \cap {Unsaved} = {}
BY TextAssumption

\* A step that leaves the rollback tree alone enters the rollback with it.
LEMMA KeptAtFailure ==
  ASSUME Original = bound, UNCHANGED bound, Original' = Original
  PROVE  Kept'
BY DEF Kept

\* Without torn files a rollback would bring back the bound tree itself.
LEMMA OriginalIsBound ==
  ASSUME TypeOK, InFlight, pc \in Applying, ~TornCreates
  PROVE  Original = bound
<1>1. CASE pc = "rollback"
  <2>1. \A x \in Paths : Original[x] = bound[x]
    BY <1>1 DEF InFlight, Kept, Litter, TornCreate
  <2>2. Original = [x \in Paths |-> Original[x]] /\ bound = [x \in Paths |-> bound[x]]
    BY DEF Original, TypeOK, Disks
  <2> QED BY <2>1, <2>2
<1> QED BY <1>1 DEF InFlight

\* The same after a step.
LEMMA OriginalIsBoundNext ==
  ASSUME TypeOK', InFlight', pc' \in Applying, ~TornCreates
  PROVE  Original' = bound'
<1>1. CASE pc' = "rollback"
  <2>1. \A x \in Paths : Original'[x] = bound'[x]
    BY <1>1 DEF InFlight, Kept, Litter, TornCreate
  <2>2. Original' = [x \in Paths |-> Original'[x]] /\ bound' = [x \in Paths |-> bound'[x]]
    BY DEF Original, TypeOK, Disks
  <2> QED BY <2>1, <2>2
<1> QED BY <1>1 DEF InFlight

\* If nobody edits files after the recheck, every step keeps InFlight.
LEMMA InFlightStep ==
  ASSUME Inv, Inv', InFlight, [Next]_vars, EditPoints \cap Applying = {}
  PROVE  InFlight'
<1> USE DEF Inv
<1>held. TypeOK /\ NothingHeld /\ TypeOK' /\ NothingHeld'
  OBVIOUS
<1>idle. ASSUME pc' \notin Applying PROVE InFlight'
  BY <1>idle DEF InFlight, Applying
<1>1. CASE UNCHANGED vars
  BY <1>1 DEF vars, progress, InFlight, Kept, Litter, TornCreate, At, Original,
     OneSectionAFile, Indices, Applied, Untouched, Touched, Fits
<1>2. CASE Approve
  <2>1. backups' = NothingSaved /\ created' = {} /\ disk' = bound' /\ pc' = "validate"
    BY <1>2, <1>held DEF Approve, NothingHeld, progress
  <2>2. Original' = bound'
    BY <2>1, <1>held, OriginalIsDiskNext
  <2> QED BY <2>1, <2>2 DEF InFlight
<1>3. CASE Validate
  <2>1. CASE pc' = "done"
    BY <2>1, <1>idle DEF Applying
  <2>2. CASE /\ pc' = "revisions" /\ Allowed(patch) /\ section' = 1
             /\ UNCHANGED <<backups, created, result>>
    <3>1. OneSectionAFile(patch)'
      BY <2>2, <1>3 DEF Validate, Allowed, OneSectionAFile, Indices
    <3>2. Original' = bound'
      BY <2>2, <1>3 DEF Validate, InFlight, Original, Applying
    <3> QED BY <2>2, <3>1, <3>2 DEF InFlight
  <2> QED BY <1>3, <2>1, <2>2 DEF Validate, Refuse, Done
<1>4. CASE CheckRevisions
  <2>1. CASE pc' = "done"
    BY <2>1, <1>idle DEF Applying
  <2>2. CASE pc' = "section" /\ UNCHANGED <<progress, result>>
    <3>1. /\ backups' = NothingSaved /\ created' = {} /\ section' = 1
          /\ disk' = bound' /\ UNCHANGED <<patch, bound>>
      BY <2>2, <1>4, <1>held, OriginalIsDisk
         DEF CheckRevisions, progress, InFlight, NothingHeld, Applying
    <3>2. OneSectionAFile(patch)' /\ patch \in Patches
      BY <2>2, <1>4, <1>held DEF CheckRevisions, InFlight, OneSectionAFile, Indices,
         TypeOK, ControlPoints
    <3>3. Original' = bound'
      BY <3>1, <1>held, OriginalIsDiskNext
    <3>4. \A x \in Paths : Untouched(x)'
      BY <3>1 DEF Untouched, NothingSaved
    <3>5. \A j \in Indices(patch') : ~(j < section') /\ Sections[patch'][j].path \in Paths
      BY <3>1, <3>2, SectionType
    <3>6. \A x \in Paths : disk'[x] = bound'[x]
      BY <3>1
    <3>7. \A j \in Indices(patch)' :
            IF j < section' THEN Applied(j)' ELSE Untouched(Sections[patch][j].path)'
      BY <3>1, <3>4, <3>5 DEF Indices
    <3> QED BY <3>1, <3>2, <3>3, <3>6, <3>7, <2>2 DEF InFlight
  <2> QED BY <1>4, <2>1, <2>2 DEF CheckRevisions, Refuse, Done
<1>5. CASE ModifyFile
  <2> DEFINE f == At(patch).path
  <2>1. /\ f \in Paths /\ pc = "section" /\ patch \in Patches /\ section \in Indices(patch)
        /\ section \in Nat
    BY <1>5, <1>held, AtType DEF ModifyFile, Writing, TypeOK, ControlPoints
  <2>2. Untouched(f)
    BY <2>1 DEF InFlight, At
  <2>3. disk[f] \in Texts /\ disk[f] # Unsaved
    BY <2>1, <1>held, TextIsNoMark DEF TypeOK, Disks
  <2>4. UNCHANGED <<patch, bound, created>> /\ OneSectionAFile(patch)
    BY <1>5, <2>1 DEF ModifyFile, progress, InFlight
  <2>5. CASE UNCHANGED <<disk, progress>> /\ pc' = "rollback"
    <3>1. Original = bound /\ Original' = Original
      BY <2>5, <2>1 DEF progress, InFlight, Original, Applying
    <3>2. Kept'
      BY <3>1, <2>4, KeptAtFailure
    <3> QED BY <3>2, <2>5, <2>4, <2>1 DEF progress, InFlight, Applying, OneSectionAFile, Indices
  <2>6. CASE backups' = [backups EXCEPT ![f] = disk[f]]
    <3>1. disk' \in Disks /\ \A x \in Paths \ {f} : disk'[x] = disk[x]
      BY <1>5, <1>held DEF ModifyFile, TypeOK, Disks
    <3>2. Original' = Original
      BY <3>1, <2>6, <2>4, <2>3, <2>2, <2>1, <1>held DEF Original, Untouched, TypeOK
    <3>3. \A x \in created' : backups'[x] = Unsaved
      BY <2>6, <2>4, <2>2, <2>1, <1>held DEF InFlight, Untouched, TypeOK
    <3>4. CASE pc' = "rollback"
      <4>1. Kept'
        BY <3>2, <2>4, <2>1, KeptAtFailure DEF InFlight, Applying
      <4> QED BY <4>1, <3>3, <3>4, <2>4, <2>1 DEF InFlight, Applying, OneSectionAFile, Indices
    <3>5. CASE pc' # "rollback"
      <4>1. /\ pc' = pc /\ section' = section + 1 /\ Fits(patch, section, disk[f])
            /\ disk' = [disk EXCEPT ![f] = Edited[<<patch, section, disk[f]>>]]
        BY <1>5, <3>5 DEF ModifyFile, Fail, NextSection
      <4>2. ASSUME NEW j \in Indices(patch)
            PROVE  IF j < section' THEN Applied(j)' ELSE Untouched(Sections[patch][j].path)'
        <5> DEFINE x == Sections[patch][j].path
        <5>1. x \in Paths /\ j \in Nat /\ (j # section => x # f)
          <6>1. x \in Paths /\ j \in Nat
            BY <2>1, SectionType
          <6>2. j # section => x # f
            BY <2>1, <2>4 DEF OneSectionAFile, At
          <6> QED BY <6>1, <6>2
        <5>2. CASE j = section
          BY <5>2, <4>1, <2>2, <2>4, <2>1, <1>held
             DEF Applied, Untouched, At, Fits, TypeOK, Disks
        <5>3. CASE j < section
          <6>1. Applied(j)
            BY <5>3, <2>1 DEF InFlight
          <6>2. disk'[x] = disk[x]
            BY <3>1, <5>1, <5>3, <2>1
          <6> QED BY <6>1, <6>2, <5>3, <5>1, <4>1, <2>4, <2>1 DEF Applied, Fits
        <5>4. CASE j > section
          <6>1. Untouched(x)
            BY <5>4, <5>1, <2>1 DEF InFlight
          <6>2. disk'[x] = disk[x] /\ backups'[x] = backups[x]
            BY <3>1, <5>1, <5>4, <2>1, <2>6, <1>held DEF TypeOK
          <6> QED BY <6>1, <6>2, <5>4, <5>1, <4>1, <2>4, <2>1 DEF Untouched
        <5> QED BY <5>1, <5>2, <5>3, <5>4, <2>1
      <4>3. \A x \in Paths \ Touched(patch) : disk'[x] = bound[x]
        <5>1. f \in Touched(patch)
          BY <2>1 DEF Touched, At
        <5> QED BY <5>1, <3>1, <2>1 DEF InFlight
      <4> QED BY <4>1, <4>2, <4>3, <3>2, <3>3, <2>4, <2>1
              DEF InFlight, Applying, OneSectionAFile, Indices, Touched
    <3> QED BY <3>4, <3>5
  <2> QED BY <1>5, <2>5, <2>6 DEF ModifyFile, Fail
<1>6. CASE CreateFile
  <2> DEFINE f == At(patch).path
  <2>1. /\ f \in Paths /\ pc = "section" /\ patch \in Patches /\ section \in Indices(patch)
        /\ section \in Nat
    BY <1>6, <1>held, AtType DEF CreateFile, Writing, TypeOK, ControlPoints
  <2>2. Untouched(f) /\ disk[f] = Absent
    BY <1>6, <2>1 DEF InFlight, At, CreateFile
  <2>4. UNCHANGED <<patch, bound, backups>> /\ OneSectionAFile(patch)
    BY <1>6, <2>1 DEF CreateFile, progress, InFlight
  <2>5. CASE UNCHANGED <<disk, progress>> /\ pc' = "rollback"
    <3>1. Original = bound /\ Original' = Original
      BY <2>5, <2>1 DEF progress, InFlight, Original, Applying
    <3>2. Kept'
      BY <3>1, <2>4, KeptAtFailure
    <3> QED BY <3>2, <2>5, <2>4, <2>1 DEF progress, InFlight, Applying, OneSectionAFile, Indices
  <2>6. CASE created' = created \cup {f} /\ pc' = pc
    <3>1. /\ section' = section + 1 /\ Fits(patch, section, Absent)
          /\ disk' = [disk EXCEPT ![f] = Edited[<<patch, section, Absent>>]]
      BY <1>6, <2>6, <2>1 DEF CreateFile, Fail, NextSection
    <3>2. \A x \in Paths \ {f} : disk'[x] = disk[x]
      BY <3>1, <1>held DEF TypeOK, Disks
    <3>3. Original' = Original
      BY <3>2, <2>6, <2>4, <2>2, <2>1 DEF Original, Untouched
    <3>4. \A x \in created' : backups'[x] = Unsaved
      BY <2>6, <2>4, <2>2, <2>1 DEF InFlight, Untouched
    <3>5. ASSUME NEW j \in Indices(patch)
          PROVE  IF j < section' THEN Applied(j)' ELSE Untouched(Sections[patch][j].path)'
      <4> DEFINE x == Sections[patch][j].path
      <4>1. x \in Paths /\ j \in Nat /\ (j # section => x # f)
        <5>1. x \in Paths /\ j \in Nat
          BY <2>1, SectionType
        <5>2. j # section => x # f
          BY <2>1, <2>4 DEF OneSectionAFile, At
        <5> QED BY <5>1, <5>2
      <4>2. CASE j = section
        <5>1. x = f /\ bound[f] = Absent
          BY <4>2, <2>2 DEF Untouched, At
        <5>2. disk'[f] = Edited[<<patch, section, Absent>>]
          BY <3>1, <2>1, <1>held DEF TypeOK, Disks
        <5>3. Applied(j)'
          BY <5>1, <5>2, <4>2, <3>1, <2>4 DEF Applied, Fits
        <5> QED BY <5>3, <4>2, <3>1, <2>1
      <4>3. CASE j < section
        <5>1. Applied(j)
          BY <4>3, <2>1 DEF InFlight
        <5>2. disk'[x] = disk[x]
          BY <3>2, <4>1, <4>3, <2>1
        <5> QED BY <5>1, <5>2, <4>3, <4>1, <3>1, <2>4, <2>1 DEF Applied, Fits
      <4>4. CASE j > section
        <5>1. Untouched(x)
          BY <4>4, <4>1, <2>1 DEF InFlight
        <5>2. disk'[x] = disk[x] /\ x \notin created'
          BY <3>2, <4>1, <4>4, <5>1, <2>1, <2>6 DEF Untouched
        <5> QED BY <5>1, <5>2, <4>4, <4>1, <3>1, <2>4, <2>1 DEF Untouched
      <4> QED BY <4>1, <4>2, <4>3, <4>4, <2>1
    <3>6. \A x \in Paths \ Touched(patch) : disk'[x] = bound[x]
      <4>1. f \in Touched(patch)
        BY <2>1 DEF Touched, At
      <4> QED BY <4>1, <3>2, <2>1 DEF InFlight
    <3> QED BY <3>3, <3>4, <3>5, <3>6, <2>4, <2>6, <2>1
            DEF InFlight, Applying, OneSectionAFile, Indices, Touched
  <2>7. CASE /\ TornCreates /\ disk' = [disk EXCEPT ![f] = Torn] /\ UNCHANGED progress
             /\ pc' = "rollback"
    <3>1. Original = bound /\ bound' = bound /\ bound[f] = Absent
      BY <2>1, <2>2, <2>4 DEF InFlight, Applying, Untouched
    <3>2. \A x \in Paths \ {f} : Original'[x] = Original[x]
      BY <2>7, <1>held DEF progress, Original, TypeOK, Disks
    <3>3. At(patch)' = At(patch) /\ disk'[f] = Torn
      BY <2>7, <2>4, <2>1, <1>held DEF progress, At, TypeOK, Disks
    <3>4. backups'[f] = Unsaved /\ f \notin created'
      BY <2>7, <2>2 DEF Untouched, progress
    <3>5. ASSUME NEW x \in Paths PROVE (Original[x] = bound[x] \/ Litter(x))'
      <4>1. CASE x = f
        BY <4>1, <3>1, <3>3, <3>4, <2>7 DEF Litter, TornCreate
      <4>2. CASE x # f
        BY <4>2, <3>1, <3>2
      <4> QED BY <4>1, <4>2
    <3>6. Kept'
      BY <3>5 DEF Kept
    <3>7. \A x \in created' : backups'[x] = Unsaved
      BY <2>7, <2>1 DEF progress, InFlight
    <3>8. OneSectionAFile(patch)' /\ pc' = "rollback"
      BY <2>7, <2>4 DEF OneSectionAFile, Indices
    <3> QED BY <3>6, <3>8, <3>7 DEF InFlight, Applying
  <2> QED BY <1>6, <2>5, <2>6, <2>7 DEF CreateFile, Fail
<1>7. CASE FileUnexpected
  <2>1. pc = "section" /\ pc' = "rollback" /\ UNCHANGED <<disk, patch, bound, progress>>
    BY <1>7 DEF FileUnexpected, Fail, Writing
  <2>2. Original = bound /\ Original' = Original
    BY <2>1 DEF progress, InFlight, Original, Applying
  <2>3. Kept'
    BY <2>1, <2>2, KeptAtFailure
  <2> QED BY <2>1, <2>3 DEF progress, InFlight, Applying, OneSectionAFile, Indices
<1>8. ASSUME NEW f \in Paths, Restore(f) PROVE InFlight'
  <2>1. /\ backups[f] # Unsaved /\ f \notin created /\ pc = "rollback"
        /\ disk' = [disk EXCEPT ![f] = backups[f]]
        /\ backups' = [backups EXCEPT ![f] = Unsaved]
        /\ UNCHANGED <<pc, patch, bound, section, created>>
    BY <1>8 DEF Restore, Earliest, Saved, InFlight
  <2>2. Original' = Original
    BY <2>1, <1>held DEF Original, TypeOK, Disks
  <2>3. \A x \in created' : backups'[x] = Unsaved
    BY <2>1, <1>held DEF InFlight, TypeOK
  <2>4. ASSUME NEW x \in Paths, Litter(x) PROVE Litter(x)'
    BY <2>1, <2>4, <1>held DEF Litter, TornCreate, At, TypeOK, Disks
  <2>5. Kept'
    BY <2>1, <2>2, <2>4 DEF InFlight, Kept
  <2> QED BY <2>1, <2>3, <2>5 DEF InFlight, Applying, OneSectionAFile, Indices
<1>9. ASSUME NEW f \in Paths, Unlink(f) PROVE InFlight'
  <2>1. /\ f \in created /\ backups[f] = Unsaved /\ pc = "rollback"
        /\ disk' = [disk EXCEPT ![f] = Absent] /\ created' = created \ {f}
        /\ UNCHANGED <<pc, patch, bound, section, backups>>
    BY <1>9 DEF Unlink, Earliest, InFlight
  <2>2. Original' = Original
    BY <2>1, <1>held DEF Original, TypeOK, Disks
  <2>3. ASSUME NEW x \in Paths, Litter(x) PROVE Litter(x)'
    BY <2>1, <2>3, <1>held DEF Litter, TornCreate, At, TypeOK, Disks
  <2>4. Kept'
    BY <2>1, <2>2, <2>3 DEF InFlight, Kept
  <2> QED BY <2>1, <2>4 DEF InFlight, Applying, OneSectionAFile, Indices
<1>10. CASE ExternalEdit
  BY <1>10, <1>idle DEF ExternalEdit
<1>11. ASSUME NEW x \in Paths, RollbackFails(x) PROVE InFlight'
  BY <1>11, <1>idle DEF RollbackFails, Done, Applying
<1>12. CASE \/ \E p \in Patches : Propose(p)
            \/ PreflightSection \/ PreflightFails \/ PreflightAccepts \/ Reject
            \/ Commit \/ RolledBack \/ Resume \/ EndSession \/ Terminated
  BY <1>12, <1>idle, <1>1 DEF Propose, PreflightSection, PreflightFails, PreflightAccepts,
     Reject, Commit, RolledBack, Resume, EndSession, Terminated, Done, Applying
<1> QED BY <1>1, <1>2, <1>3, <1>4, <1>5, <1>6, <1>7, <1>8, <1>9, <1>10, <1>11, <1>12
        DEF Next, Controller

\* Hence it holds throughout.
LEMMA InFlightAlways ==
  ASSUME EditPoints \cap Applying = {}
  PROVE  Spec => []InFlight
<1>1. Init => InFlight
  BY DEF Init, InFlight, Applying
<1>2. Inv /\ Inv' /\ InFlight /\ [Next]_vars => InFlight'
  BY InFlightStep
<1> QED BY <1>1, <1>2, InvAlways, PTL DEF Spec

----------------------------------------------------------------------------
\* What a failed apply reports: done without damage means the bound tree, but
\* for one torn new file.
Nearly == \A x \in Paths : disk[x] # bound[x] =>
            TornCreate(x) /\ \A y \in Paths \ {x} : disk[y] = bound[y]
Reported == pc = "done" /\ ~result.ok /\ result.rollback => Nearly

\* Where an apply ends without a write of its own, the bound tree is back.
LEMMA RefusalIsClean ==
  ASSUME TypeOK, InFlight, pc \in Applying \ {"rollback"}, backups = NothingSaved, created = {}
  PROVE  disk = bound
BY OriginalIsDisk DEF InFlight

\* A rollback that has put everything back leaves at most the torn file.
LEMMA RolledBackIsClean ==
  ASSUME TypeOK, InFlight, pc = "rollback", Saved = {}, created = {}
  PROVE  Nearly /\ Original = disk
<1>1. backups = NothingSaved
  BY DEF TypeOK, Saved, NothingSaved
<1>2. Original = disk
  BY <1>1, OriginalIsDisk
<1>3. \A x \in Paths : disk[x] = bound[x] \/ Litter(x)
  BY <1>2 DEF InFlight, Kept
<1>4. \A x \in Paths : disk[x] # bound[x] => TornCreate(x) /\ x = At(patch).path
  BY <1>3 DEF Litter
<1> QED BY <1>2, <1>4 DEF Nearly

\* A step keeps Reported: each way out of apply_proposal sets the flag right.
LEMMA ReportedStep ==
  ASSUME Inv, InFlight, Reported, [Next]_vars,
         EditPoints \cap (Applying \cup {"done"}) = {}
  PROVE  Reported'
<1> USE DEF Inv
<1>1. ASSUME pc' # "done" PROVE Reported'
  BY <1>1 DEF Reported
<1>2. CASE UNCHANGED vars
  BY <1>2 DEF vars, Reported, Nearly, TornCreate
<1>3. CASE Validate \/ CheckRevisions
  <2>1. pc \in Applying \ {"rollback"} /\ backups = NothingSaved /\ created = {}
    BY <1>3 DEF Validate, CheckRevisions, Applying, NothingHeld
  <2>2. disk' = bound'
    BY <1>3, <2>1, RefusalIsClean DEF Validate, CheckRevisions
  <2> QED BY <2>2 DEF Reported, Nearly
<1>4. CASE RolledBack
  <2>1. Nearly /\ UNCHANGED <<disk, bound>>
    BY <1>4, RolledBackIsClean DEF RolledBack
  <2> QED BY <2>1 DEF Nearly, Reported, TornCreate
<1>5. ASSUME NEW x \in Paths, RollbackFails(x) PROVE Reported'
  <2>1. result'.rollback = FALSE
    BY <1>5 DEF RollbackFails, Done, TypeOK, Results
  <2> QED BY <2>1 DEF Reported
<1>6. CASE Commit
  <2>1. result'.ok = TRUE
    BY <1>6 DEF Commit, Done
  <2> QED BY <2>1 DEF Reported
<1>7. CASE ExternalEdit
  BY <1>7, <1>1 DEF ExternalEdit
<1>8. CASE \/ \E p \in Patches : Propose(p)
           \/ PreflightSection \/ PreflightFails \/ PreflightAccepts \/ Reject \/ Approve
           \/ ModifyFile \/ CreateFile \/ FileUnexpected
           \/ \E x \in Paths : Restore(x) \/ Unlink(x)
           \/ Resume \/ EndSession \/ Terminated
  BY <1>8, <1>1 DEF Propose, PreflightSection, PreflightFails, PreflightAccepts, Reject,
     Approve, ModifyFile, CreateFile, FileUnexpected, Writing, Fail, Restore, Unlink,
     Resume, EndSession, Terminated, vars
<1> QED BY <1>2, <1>3, <1>4, <1>5, <1>6, <1>7, <1>8 DEF Next, Controller

\* rollback_succeeded is honest but for one torn new file, whatever read, write,
\* restore or unlink fails, as long as nobody edits files between the recheck
\* and the report.
THEOREM HonestTheorem ==
  ASSUME EditPoints \cap (Applying \cup {"done"}) = {}
  PROVE  Spec => []RollbackReportHonest
<1>1. Init => Reported
  BY DEF Init, Reported
<1>2. Inv /\ InFlight /\ Reported /\ [Next]_vars => Reported'
  BY ReportedStep
<1>3. EditPoints \cap Applying = {}
  OBVIOUS
<1>4. Spec => []InFlight
  BY <1>3, InFlightAlways
<1>5. Reported => RollbackReportHonest
  BY DEF Reported, Nearly, RollbackReportHonest
<1> QED BY <1>1, <1>2, <1>4, <1>5, InvAlways, PTL DEF Spec

----------------------------------------------------------------------------
\* After the last section the tree holds the whole patch.
LEMMA WholeIsWritten ==
  ASSUME TypeOK, InFlight, pc = "section", LastDone
  PROVE  <<patch, bound>> \in Applicable /\ disk = Whole(patch, bound)
<1>1. patch \in Patches /\ OneSectionAFile(patch)
  BY DEF TypeOK, ControlPoints, InFlight
<1>2. ASSUME NEW j \in Indices(patch) PROVE Applied(j) /\ Sections[patch][j].path \in Paths
  <2>1. j < section /\ Sections[patch][j].path \in Paths
    BY <1>1, SectionType DEF LastDone, TypeOK
  <2> QED BY <2>1 DEF InFlight
<1>3. <<patch, bound>> \in Applicable
  <2>1. <<patch, bound>> \in Patches \X Disks
    BY <1>1 DEF TypeOK
  <2>2. \A j \in Indices(patch) : Fits(patch, j, bound[Sections[patch][j].path])
    BY <1>2 DEF Applied
  <2> QED BY <1>1, <2>1, <2>2 DEF Applicable
<1>4. ASSUME NEW x \in Touched(patch)
      PROVE  disk[x] = Edited[<<patch, SectionOf(patch, x), bound[x]>>]
  <2>1. \E j \in Indices(patch) : Sections[patch][j].path = x
    BY DEF Touched
  <2>2. /\ SectionOf(patch, x) \in Indices(patch)
        /\ Sections[patch][SectionOf(patch, x)].path = x
    BY <2>1 DEF SectionOf
  <2> QED BY <2>2, <1>2 DEF Applied
<1>5. \A x \in Paths \ Touched(patch) : disk[x] = bound[x]
  BY DEF InFlight
<1>6. disk = [x \in Paths |-> disk[x]]
  BY DEF TypeOK, Disks
<1> QED BY <1>3, <1>4, <1>5, <1>6 DEF Whole

\* Each step is a step of ApprovedRepair or leaves its state alone.
LEMMA RepairStep ==
  ASSUME EditPoints \cap (Applying \cup {"ended"}) = {}, ~RollbackMayFail, ~TornCreates,
         Inv, Inv', InFlight, InFlight', [Next]_vars
  PROVE  [Repair!Next]_(Repair!vars)
<1> USE DEF Inv, Repair!vars, progress
<1>1. ASSUME pc \notin Applying \cup {"ended"}, pc' \notin Applying \cup {"ended"},
             UNCHANGED <<disk, backups, created, attempts_used>>
      PROVE  UNCHANGED Repair!vars
  BY <1>1 DEF Applying, Original
<1>2. ASSUME pc \in Applying, pc' \in Applying, UNCHANGED <<patch, bound, attempts_used>>
      PROVE  UNCHANGED Repair!vars
  <2>1. Original = bound /\ Original' = bound'
    BY <1>2, OriginalIsBound, OriginalIsBoundNext
  <2> QED BY <1>2, <2>1 DEF Applying
<1>3. ASSUME pc \in Applying, pc' = "done", backups' = NothingSaved, created' = {},
             disk = bound, UNCHANGED <<disk, patch, bound, attempts_used>>
      PROVE  Repair!Withdraw
  <2>1. Original' = disk' /\ Original = bound
    BY <1>3, OriginalIsDiskNext, OriginalIsBound
  <2> QED BY <1>3, <2>1 DEF Applying, Repair!Withdraw
<1>4. CASE \/ \E p \in Patches : Propose(p)
           \/ PreflightSection \/ PreflightFails \/ PreflightAccepts \/ Resume
  BY <1>4, <1>1 DEF Propose, PreflightSection, PreflightFails, PreflightAccepts, Resume,
     Applying
<1>5. CASE Reject \/ EndSession
  <2>1. Repair!Close
    BY <1>5 DEF Reject, EndSession, Repair!Close, Original
  <2> QED BY <2>1 DEF Repair!Next
<1>6. CASE Approve
  <2>1. patch \in Patches /\ attempts_used < MaxAttempts /\ Original = bound
    BY <1>6, OriginalIsDisk
       DEF Approve, TypeOK, ControlPoints, NothingHeld, HasProposal, Applying
  <2>2. Original' = Original
    BY <1>6 DEF Approve, Original
  <2>3. Repair!Approve(patch)
    BY <1>6, <2>1, <2>2 DEF Approve, Repair!Approve
  <2> QED BY <2>1, <2>3 DEF Repair!Next
<1>7. CASE Validate \/ CheckRevisions
  <2>1. CASE pc' = "done"
    <3>1. pc \in Applying \ {"rollback"} /\ backups = NothingSaved /\ created = {}
      BY <1>7 DEF Validate, CheckRevisions, Applying, NothingHeld
    <3>2. disk = bound
      BY <3>1, RefusalIsClean
    <3>3. Repair!Withdraw
      BY <1>3, <1>7, <2>1, <3>1, <3>2 DEF Validate, CheckRevisions, Refuse, Done
    <3> QED BY <3>3 DEF Repair!Next
  <2>2. CASE pc' # "done"
    BY <1>2, <1>7, <2>2 DEF Validate, CheckRevisions, Refuse, Done, Applying
  <2> QED BY <2>1, <2>2
<1>8. CASE ModifyFile \/ CreateFile \/ FileUnexpected
  BY <1>2, <1>8 DEF ModifyFile, CreateFile, FileUnexpected, Writing, Fail, Applying
<1>9. CASE Commit
  <2>1. <<patch, bound>> \in Applicable /\ disk = Whole(patch, bound)
    BY <1>9, WholeIsWritten DEF Commit
  <2>2. Original = bound /\ Original' = disk' /\ disk' = disk
    BY <1>9, OriginalIsDiskNext DEF Commit, Done, InFlight, Applying
  <2>3. Repair!Write([patch |-> patch, tree |-> bound])
    BY <1>9, <2>1, <2>2 DEF Commit, Done, Repair!Write
  <2> QED BY <1>9, <2>3 DEF Commit, Repair!Next
<1>10. CASE \E x \in Paths : Restore(x) \/ Unlink(x)
  BY <1>2, <1>10 DEF Restore, Unlink, Applying
<1>11. ASSUME NEW x \in Paths, RollbackFails(x) PROVE FALSE
  BY <1>11 DEF RollbackFails
<1>12. CASE RolledBack
  <2>1. disk = bound
    BY <1>12, RolledBackIsClean, OriginalIsBound DEF RolledBack, Applying
  <2>2. Repair!Withdraw
    BY <1>3, <1>12, <2>1 DEF RolledBack, Done, Applying
  <2> QED BY <2>2 DEF Repair!Next
<1>13. CASE ExternalEdit
  <2>1. pc \notin Applying \cup {"ended"} /\ UNCHANGED <<pc, backups, created, attempts_used>>
    BY <1>13 DEF ExternalEdit
  <2>2. backups' = NothingSaved /\ created' = {}
    BY <2>1 DEF NothingHeld, Applying
  <2>3. Original' = disk'
    BY <2>2, OriginalIsDiskNext
  <2>4. Repair!Interfere
    BY <2>1, <2>3 DEF Applying, TypeOK, Repair!Interfere
  <2> QED BY <2>4 DEF Repair!Next
<1>14. CASE Terminated \/ UNCHANGED vars
  BY <1>14 DEF Terminated, vars, Original
<1> QED BY <1>4, <1>5, <1>6, <1>7, <1>8, <1>9, <1>10, <1>11, <1>12, <1>13, <1>14
        DEF Next, Controller

\* The apply of a patch to several files implements the single write of
\* ApprovedRepair, if nobody edits files after the recheck, rollbacks succeed
\* and the write of a new file leaves no torn file.
THEOREM RepairTheorem ==
  ASSUME EditPoints \cap (Applying \cup {"ended"}) = {}, ~RollbackMayFail, ~TornCreates
  PROVE  Spec => ImplementsApprovedRepair
<1>1. Init => Repair!Init
  <2> SUFFICES ASSUME Init PROVE Repair!Init
    OBVIOUS
  <2>1. Original = disk
    BY InitInv, OriginalIsDisk DEF Init, Inv
  <2> QED BY <2>1, InitInv DEF Init, Inv, TypeOK, Repair!Init
<1>2. Inv /\ Inv' /\ InFlight /\ InFlight' /\ [Next]_vars => [Repair!Next]_(Repair!vars)
  BY RepairStep
<1>3. EditPoints \cap Applying = {}
  OBVIOUS
<1>4. Spec => []InFlight
  BY <1>3, InFlightAlways
<1> QED BY <1>1, <1>2, <1>4, InvAlways, PTL DEF Spec, ImplementsApprovedRepair, Repair!Spec

----------------------------------------------------------------------------
(***************************************************************************)
(* What preflight and the revisions are worth when the patch is applied.   *)
(*                                                                         *)
(* Seen carries what preflight saw of the bound tree through the review to *)
(* the last section; Named carries the comparison of the revisions through *)
(* the writes.                                                             *)
(***************************************************************************)

FitsBound(j) ==
  LET s == Sections[patch][j]
  IN s.revision \in {Absent, bound[s.path]} /\ Fits(patch, j, bound[s.path])

AllowedBound ==
  /\ Indices(patch) # {} /\ OneSectionAFile(patch)
  /\ \A j \in Indices(patch) : Sections[patch][j].new <=> bound[Sections[patch][j].path] = Absent

Seen ==
  /\ pc = "preflight" => disk = bound
  /\ pc \in HasProposal =>
       AllowedBound /\ \A j \in Indices(patch) : (pc = "preflight" => j < section) => FitsBound(j)

NoMisfit == result.kind \in {"none", "io_error", "raised"}

----------------------------------------------------------------------------
\* A step that keeps the proposal and goes nowhere near preflight.
LEMMA SeenKept ==
  ASSUME Seen, UNCHANGED <<patch, bound>>, pc \in HasProposal \ {"preflight"}, pc' # "preflight"
  PROVE  Seen'
BY DEF Seen, AllowedBound, FitsBound, Fits, OneSectionAFile, Indices

LEMMA SeenStep ==
  ASSUME Inv, Seen, [Next]_vars, PreflightEnabled, EditPoints \cap ({"preflight"} \cup Applying) = {}
  PROVE  Seen'
<1> USE DEF progress
<1>1. ASSUME pc' \notin HasProposal PROVE Seen'
  BY <1>1 DEF Seen, HasProposal
<1>2. ASSUME NEW p \in Patches, Propose(p) PROVE Seen'
  <2>1. /\ pc' = "preflight" /\ patch' = p /\ bound' = disk /\ disk' = disk /\ section' = 1
        /\ Allowed(p)
    BY <1>2 DEF Propose
  <2>2. \A j \in Indices(p) : ~(j < section')
    BY <2>1, SectionType
  <2> QED BY <2>1, <2>2 DEF Seen, AllowedBound, Allowed, OneSectionAFile, Indices
<1>3. CASE PreflightSection
  <2>1. /\ pc = "preflight" /\ ~LastDone /\ Matches(patch) /\ section' = section + 1
        /\ UNCHANGED <<pc, disk, patch, bound>>
    BY <1>3 DEF PreflightSection, NextSection
  <2>2. section \in Indices(patch) /\ patch \in Patches /\ section \in Nat
    BY <2>1, AtType DEF Inv, TypeOK, ControlPoints
  <2>3. FitsBound(section)
    BY <2>1 DEF Seen, Matches, FitsBound, Fresh, At
  <2>4. \A j \in Indices(patch) : j < section' => j < section \/ j = section
    <3>1. section' = section + 1
      BY <2>1
    <3>2. \A j \in Indices(patch) : j \in Nat
      BY <2>2, SectionType
    <3>3. \A j \in Nat : j < section + 1 => j < section \/ j = section
      BY <2>2
    <3> QED BY <3>1, <3>2, <3>3
  <2>5. \A j \in Indices(patch) : j < section' => FitsBound(j)
    BY <2>1, <2>3, <2>4 DEF Seen, HasProposal
  <2> QED BY <2>1, <2>5 DEF Seen, HasProposal, AllowedBound, FitsBound, Fits, OneSectionAFile, Indices
<1>4. CASE PreflightAccepts
  <2>1. /\ pc = "preflight" /\ pc' = "approval" /\ LastDone /\ UNCHANGED <<patch, bound, section>>
        /\ patch \in Patches /\ section \in Nat
    BY <1>4 DEF PreflightAccepts, Inv, TypeOK, ControlPoints
  <2>2. \A j \in Indices(patch) : j < section
    BY <2>1, SectionType DEF LastDone
  <2>3. AllowedBound /\ \A j \in Indices(patch) : FitsBound(j)
    BY <2>1, <2>2 DEF Seen, HasProposal
  <2> QED BY <2>1, <2>3 DEF Seen, AllowedBound, FitsBound, Fits, OneSectionAFile, Indices
<1>5. CASE Approve \/ Validate \/ CheckRevisions \/ ModifyFile \/ CreateFile \/ FileUnexpected
  <2>1. /\ UNCHANGED <<patch, bound>> /\ pc \in HasProposal \ {"preflight"} /\ pc' # "preflight"
    BY <1>5 DEF Approve, Validate, CheckRevisions, ModifyFile, CreateFile, FileUnexpected,
       Writing, Fail, Refuse, Done, HasProposal, Applying
  <2> QED BY <2>1, SeenKept
<1>6. CASE \E x \in Paths : Restore(x) \/ Unlink(x)
  <2>1. /\ UNCHANGED <<patch, bound>> /\ pc \in HasProposal \ {"preflight"} /\ pc' # "preflight"
    BY <1>6 DEF Restore, Unlink, HasProposal, Applying
  <2> QED BY <2>1, SeenKept
<1>7. CASE \/ PreflightFails \/ Reject \/ Commit \/ \E x \in Paths : RollbackFails(x)
           \/ RolledBack \/ Resume \/ EndSession \/ Terminated
  BY <1>7, <1>1 DEF PreflightFails, Reject, Commit, RollbackFails, RolledBack, Resume, EndSession,
     Terminated, vars, Done, HasProposal, Applying
<1>8. CASE ExternalEdit
  <2>1. pc # "preflight" /\ UNCHANGED <<pc, patch, bound>>
    BY <1>8 DEF ExternalEdit
  <2> QED BY <2>1, <1>1, SeenKept
<1>9. CASE UNCHANGED vars
  BY <1>9 DEF vars, Seen, AllowedBound, FitsBound, Fits, OneSectionAFile, Indices
<1> QED BY <1>2, <1>3, <1>4, <1>5, <1>6, <1>7, <1>8, <1>9 DEF Next, Controller

\* The file of the section at hand is as it was bound.
LEMMA AtBound ==
  ASSUME Inv, InFlight, Seen, Writing
  PROVE  LET s == At(patch)
         IN /\ s.path \in Paths /\ disk[s.path] = bound[s.path]
            /\ s.new <=> disk[s.path] = Absent
            /\ Fits(patch, section, disk[s.path])
<1>1. /\ pc = "section" /\ section \in Indices(patch) /\ section \in Nat /\ At(patch).path \in Paths
  BY AtType DEF Inv, Writing, TypeOK, ControlPoints
<1>2. disk[At(patch).path] = bound[At(patch).path]
  BY <1>1 DEF InFlight, Untouched, At
<1>3. FitsBound(section) /\ AllowedBound
  BY <1>1 DEF Seen, HasProposal, Applying
<1> QED BY <1>1, <1>2, <1>3 DEF FitsBound, AllowedBound, At

LEMMA MisfitStep ==
  ASSUME Inv, InFlight, Seen, NoMisfit, [Next]_vars
  PROVE  NoMisfit'
<1> USE DEF progress, NoMisfit
<1>1. CASE Validate
  <2>1. pc = "validate" /\ disk = bound
    BY <1>1, OriginalIsDisk DEF Validate, Inv, NothingHeld, InFlight, Applying
  <2>2. Allowed(patch)
    BY <2>1 DEF Seen, HasProposal, Applying, AllowedBound, Allowed
  <2> QED BY <1>1, <2>2 DEF Validate, Refuse, Done
<1>2. CASE CheckRevisions
  <2>1. pc = "revisions" /\ disk = bound
    BY <1>2, OriginalIsDisk DEF CheckRevisions, Inv, NothingHeld, InFlight, Applying
  <2>2. RevisionsHold
    BY <2>1 DEF Seen, HasProposal, Applying, FitsBound, RevisionsHold, Fresh
  <2> QED BY <1>2, <2>2 DEF CheckRevisions, Refuse, Done
<1>3. CASE ModifyFile
  <2>1. Fits(patch, section, disk[At(patch).path])
    BY <1>3, AtBound DEF ModifyFile
  <2> QED BY <1>3, <2>1 DEF ModifyFile, Fail
<1>4. CASE CreateFile
  <2>1. Fits(patch, section, Absent)
    BY <1>4, AtBound DEF CreateFile
  <2> QED BY <1>4, <2>1 DEF CreateFile, Fail
<1>5. CASE FileUnexpected
  BY <1>5, AtBound DEF FileUnexpected
<1>6. CASE Commit \/ RolledBack \/ Resume
  BY <1>6 DEF Commit, RolledBack, Resume, Done, Pending
<1>7. ASSUME NEW x \in Paths, RollbackFails(x) PROVE NoMisfit'
  <2>1. result' = [result EXCEPT !.rollback = FALSE] /\ result \in Results
    BY <1>7 DEF RollbackFails, Done, Inv, TypeOK
  <2> QED BY <2>1 DEF Results
<1>8. CASE \/ \E p \in Patches : Propose(p)
           \/ PreflightSection \/ PreflightFails \/ PreflightAccepts \/ Reject \/ Approve
           \/ \E x \in Paths : Restore(x) \/ Unlink(x)
           \/ EndSession \/ ExternalEdit \/ Terminated \/ UNCHANGED vars
  BY <1>8 DEF Propose, PreflightSection, PreflightFails, PreflightAccepts, Reject, Approve,
     Restore, Unlink, EndSession, ExternalEdit, Terminated, vars
<1> QED BY <1>1, <1>2, <1>3, <1>4, <1>5, <1>6, <1>7, <1>8 DEF Next, Controller

\* After preflight and approval only I/O stops a patch, whatever reads, writes
\* and rollbacks fail, if preflight is on and nobody edits files during it or
\* after the recheck.
THEOREM ReviewedTheorem ==
  ASSUME PreflightEnabled, EditPoints \cap ({"preflight"} \cup Applying) = {}
  PROVE  Spec => []ReviewedPatchFits
<1>1. Init => Seen /\ NoMisfit
  BY DEF Init, Seen, NoMisfit, HasProposal, Applying, Pending
<1>2. Inv /\ Seen /\ [Next]_vars => Seen'
  BY SeenStep
<1>3. Inv /\ InFlight /\ Seen /\ NoMisfit /\ [Next]_vars => NoMisfit'
  BY MisfitStep
<1>4. EditPoints \cap Applying = {}
  OBVIOUS
<1>5. Spec => []InFlight
  BY <1>4, InFlightAlways
<1>6. NoMisfit => ReviewedPatchFits
  BY DEF NoMisfit, ReviewedPatchFits
<1> QED BY <1>1, <1>2, <1>3, <1>5, <1>6, InvAlways, PTL DEF Spec

----------------------------------------------------------------------------
(* Revisions.                                                              *)

\* Of a section that names its revision, the file was that when the writes
\* began (for one still to be done: or it has gone).
IsNamed(j) ==
  LET s == Sections[patch][j]
  IN s.revision # Absent /\ ~s.new => Original[s.path] = s.revision
ToDo(j) ==
  LET s == Sections[patch][j]
  IN /\ backups[s.path] = Unsaved /\ s.path \notin created
     /\ s.revision # Absent /\ ~s.new => disk[s.path] \in {s.revision, Absent}

Named ==
  /\ pc \in {"revisions", "section"} => OneSectionAFile(patch)
  /\ pc = "revisions" => section = 1
  /\ pc = "section" => \A j \in Indices(patch) : IF j < section THEN IsNamed(j) ELSE ToDo(j)

\* What is not done yet is seen as it is by a rollback.
LEMMA ToDoIsDisk ==
  ASSUME NEW j, ToDo(j), Sections[patch][j].path \in Paths
  PROVE  Original[Sections[patch][j].path] = disk[Sections[patch][j].path]
BY DEF ToDo, Original

\* One section is written, and a rollback would still bring back the same.
LEMMA NamedWritten ==
  ASSUME Inv, Named, Writing, pc' = "section", section' = section + 1,
         UNCHANGED <<patch, bound>>, Original' = Original, IsNamed(section),
         \A x \in Paths \ {At(patch).path} :
            disk'[x] = disk[x] /\ backups'[x] = backups[x] /\ (x \in created' <=> x \in created)
  PROVE  Named'
<1>1. /\ pc = "section" /\ section \in Indices(patch) /\ section \in Nat /\ patch \in Patches
  BY AtType DEF Inv, Writing, TypeOK, ControlPoints
<1>2. OneSectionAFile(patch)
  BY <1>1 DEF Named
<1>3. ASSUME NEW j \in Indices(patch) PROVE IF j < section' THEN IsNamed(j)' ELSE ToDo(j)'
  <2>1. j \in Nat /\ Sections[patch][j].path \in Paths
    BY <1>1, SectionType
  <2>2. CASE j = section
    BY <1>1, <2>1, <2>2 DEF IsNamed
  <2>3. CASE j < section
    BY <1>1, <2>1, <2>3 DEF Named, IsNamed
  <2>4. CASE j > section
    <3>1. ToDo(j) /\ Sections[patch][j].path # At(patch).path
      BY <1>1, <1>2, <2>1, <2>4 DEF Named, OneSectionAFile, At
    <3>2. ToDo(j)'
      BY <2>1, <3>1 DEF ToDo
    <3> QED BY <1>1, <2>1, <2>4, <3>2
  <2> QED BY <1>1, <2>1, <2>2, <2>3, <2>4
<1> QED BY <1>2, <1>3 DEF Named, OneSectionAFile, Indices

LEMMA NamedStep ==
  ASSUME Inv, Named, [Next]_vars, EditPoints \cap {"section"} = {}
  PROVE  Named'
<1> USE DEF progress
<1>1. ASSUME pc' \notin {"revisions", "section"} PROVE Named'
  BY <1>1 DEF Named
<1>2. CASE Validate
  <2>1. CASE pc' = "revisions"
    BY <1>2, <2>1 DEF Validate, Refuse, Done, Named, Allowed, OneSectionAFile, Indices
  <2>2. CASE pc' # "revisions"
    BY <1>1, <1>2, <2>2 DEF Validate, Refuse, Done
  <2> QED BY <2>1, <2>2
<1>3. CASE CheckRevisions
  <2>1. CASE pc' = "section"
    <3>1. /\ RevisionsHold /\ section = 1 /\ backups = NothingSaved /\ created = {}
          /\ UNCHANGED <<disk, patch, bound, section, backups, created>> /\ patch \in Patches
          /\ OneSectionAFile(patch)
      BY <1>3, <2>1 DEF CheckRevisions, Refuse, Done, Named, Inv, NothingHeld, TypeOK, ControlPoints
    <3>2. ASSUME NEW j \in Indices(patch) PROVE ~(j < section) /\ ToDo(j)
      BY <3>1, SectionType DEF ToDo, NothingSaved, RevisionsHold, Fresh
    <3>3. \A j \in Indices(patch) : ~(j < section') /\ ToDo(j)'
      BY <3>1, <3>2 DEF ToDo
    <3> QED BY <2>1, <3>1, <3>3 DEF Named, OneSectionAFile, Indices
  <2>2. CASE pc' # "section"
    BY <1>1, <1>3, <2>2 DEF CheckRevisions, Refuse, Done
  <2> QED BY <2>1, <2>2
<1>4. CASE ModifyFile
  <2> DEFINE x == At(patch).path
  <2>1. CASE pc' = "rollback"
    BY <1>1, <2>1
  <2>2. CASE pc' # "rollback"
    <3>1. /\ Writing /\ disk[x] # Absent /\ ~At(patch).new /\ section' = section + 1 /\ pc' = pc
          /\ backups' = [backups EXCEPT ![x] = disk[x]] /\ UNCHANGED <<created, patch, bound>>
          /\ disk' = [disk EXCEPT ![x] = Edited[<<patch, section, disk[x]>>]]
      BY <1>4, <2>2 DEF ModifyFile, Fail, NextSection
    <3>2. x \in Paths /\ pc = "section" /\ section \in Indices(patch) /\ section \in Nat
      BY <3>1, AtType DEF Inv, Writing, TypeOK, ControlPoints
    <3>3. ToDo(section)
      BY <3>2 DEF Named
    <3>4. IsNamed(section)
      BY <3>1, <3>2, <3>3, ToDoIsDisk DEF ToDo, IsNamed, At
    <3>5. disk[x] # Unsaved /\ disk \in Disks /\ backups \in [Paths -> Texts \cup {Unsaved}]
      BY <3>2, TextIsNoMark DEF Inv, TypeOK, Disks
    <3>6. backups[x] = Unsaved /\ x \notin created
      BY <3>3 DEF ToDo, At
    <3>7. Original' = Original
      BY <3>1, <3>2, <3>5, <3>6 DEF Original, Disks
    <3>8. \A y \in Paths \ {x} : disk'[y] = disk[y] /\ backups'[y] = backups[y]
      BY <3>1, <3>5 DEF Disks
    <3> QED BY <3>1, <3>2, <3>4, <3>7, <3>8, NamedWritten
  <2> QED BY <2>1, <2>2
<1>5. CASE CreateFile
  <2> DEFINE x == At(patch).path
  <2>1. CASE pc' = "rollback"
    BY <1>1, <2>1
  <2>2. CASE pc' # "rollback"
    <3>1. /\ Writing /\ disk[x] = Absent /\ At(patch).new /\ section' = section + 1 /\ pc' = pc
          /\ created' = created \cup {x} /\ UNCHANGED <<backups, patch, bound>>
          /\ disk' = [disk EXCEPT ![x] = Edited[<<patch, section, Absent>>]]
      BY <1>5, <2>2 DEF CreateFile, Fail, NextSection
    <3>2. x \in Paths /\ pc = "section" /\ section \in Indices(patch) /\ section \in Nat
      BY <3>1, AtType DEF Inv, Writing, TypeOK, ControlPoints
    <3>3. ToDo(section)
      BY <3>2 DEF Named
    <3>4. IsNamed(section)
      BY <3>1 DEF IsNamed, At
    <3>5. backups[x] = Unsaved /\ x \notin created /\ disk \in Disks
      BY <3>3 DEF ToDo, At, Inv, TypeOK
    <3>6. Original' = Original
      BY <3>1, <3>2, <3>5 DEF Original, Disks
    <3>7. \A y \in Paths \ {x} : disk'[y] = disk[y] /\ (y \in created' <=> y \in created)
      BY <3>1, <3>5 DEF Disks
    <3> QED BY <3>1, <3>2, <3>4, <3>6, <3>7, NamedWritten
  <2> QED BY <2>1, <2>2
<1>6. CASE ExternalEdit
  <2>1. pc # "section" /\ UNCHANGED <<pc, patch, section>>
    BY <1>6 DEF ExternalEdit
  <2> QED BY <2>1 DEF Named, OneSectionAFile, Indices
<1>7. CASE UNCHANGED vars
  BY <1>7 DEF vars, Named, OneSectionAFile, Indices, IsNamed, ToDo, Original
<1>8. CASE \/ \E p \in Patches : Propose(p)
           \/ PreflightSection \/ PreflightFails \/ PreflightAccepts \/ Reject \/ Approve
           \/ FileUnexpected \/ Commit
           \/ \E y \in Paths : Restore(y) \/ Unlink(y) \/ RollbackFails(y)
           \/ RolledBack \/ Resume \/ EndSession
  BY <1>1, <1>8 DEF Propose, PreflightSection, PreflightFails, PreflightAccepts, Reject, Approve,
     FileUnexpected, Commit, Restore, Unlink, RollbackFails, RolledBack, Resume, EndSession,
     Fail, Done
<1> QED BY <1>2, <1>3, <1>4, <1>5, <1>6, <1>7, <1>8 DEF Next, Controller, Terminated

\* A section that names its revision is applied to that revision, if nobody
\* edits files once the revisions have been compared.
THEOREM RevisionTheorem ==
  ASSUME EditPoints \cap {"section"} = {}
  PROVE  Spec => RevisionGuardsText
<1>1. Init => Named
  BY DEF Init, Named
<1>2. Inv /\ Named /\ [Next]_vars => Named'
  BY NamedStep
<1>3. Inv /\ Named /\ [Next]_vars =>
        [attempts_used' > attempts_used =>
           \A j \in Indices(patch) :
             LET s == Sections[patch][j]
             IN s.revision # Absent /\ ~s.new => Original[s.path] = s.revision]_vars
  <2> SUFFICES ASSUME Inv, Named, [Next]_vars, attempts_used' > attempts_used
               PROVE  \A j \in Indices(patch) : IsNamed(j)
    BY DEF IsNamed
  <2>1. attempts_used \in Nat /\ attempts_used' # attempts_used
    BY DEF Inv, TypeOK
  <2>2. Commit
    BY <2>1 DEF Next, Controller, Terminated, vars, Propose, PreflightSection, PreflightFails,
       PreflightAccepts, Reject, Approve, Validate, CheckRevisions, ModifyFile, CreateFile,
       FileUnexpected, Restore, Unlink, RollbackFails, RolledBack, Resume, EndSession, ExternalEdit
  <2>3. pc = "section" /\ LastDone /\ patch \in Patches /\ section \in Nat
    BY <2>2 DEF Commit, Inv, TypeOK, ControlPoints
  <2>4. \A j \in Indices(patch) : j < section
    BY <2>3, SectionType DEF LastDone
  <2> QED BY <2>3, <2>4 DEF Named
<1> QED BY <1>1, <1>2, <1>3, InvAlways, PTL DEF Spec, RevisionGuardsText
=============================================================================
