---------------------------- MODULE SessionProofs ----------------------------
(***************************************************************************)
(* Proofs about Session, for every value of its constants.                 *)
(*                                                                         *)
(* Inv is the inductive invariant.  TypeOK alone is not inductive: a step  *)
(* keeps a counter within its bound only because of where the controller   *)
(* waits (WaitsOK), and a patch gets under review with no read outstanding *)
(* only because the gate was looked at in the right phase (GateOK).        *)
(***************************************************************************)
EXTENDS Session, FiniteSetTheorems, SequenceTheorems, TLAPS

Reviewing == {"approval", "apply", "test"}

WaitsOK ==
  /\ pc \in Waits => no_progress <= 1
  /\ pc \in {"import", "baseline"} => attempts_used = 0
  /\ pc \in {"model", "approval", "apply"} => attempts_used < MaxAttempts
  /\ pc = "test" => attempts_used > 0 /\ regen_retries = 0
  /\ pc \in {"approval", "apply"} => proposal \in Patches
  /\ pc = "apply" => handler

GateOK ==
  /\ pc \in Reviewing => required_reads = {} /\ analysis_phase = "PROPOSE"
  /\ required_reads = {} \/ \E f \in Files : required_reads = {f}
  /\ required_reads # {} => regen_retries > 0 /\ analysis_phase # "EXPLORE"

Inv == TypeOK /\ WaitsOK /\ GateOK

----------------------------------------------------------------------------
\* The invariant holds before the import.
LEMMA InitInv == Init => Inv
<1> SUFFICES ASSUME Init PROVE Inv
  OBVIOUS
<1>1. TypeOK
  <2>1. attempts \in Seq(AttemptRecords)
    BY EmptySeq DEF Init
  <2>2. binding \in Bindings
    BY DEF Init, Bindings
  <2>3. /\ step \in 0..(MaxSteps - 1) /\ format_retries \in 0..MaxFormatRetries
        /\ exploration_reads \in 0..MaxReads /\ evidence_used \in 0..MaxEvidence
        /\ corrections_used \in 0..MaxCorrections /\ no_progress \in 0..2
        /\ attempts_used \in 0..MaxAttempts
        /\ regen_retries \in 0..MaxRegenerations /\ total_regen \in Nat
    BY BudgetAssumption DEF Init
  <2>4. /\ pc \in Waits /\ status \in Statuses /\ stop_reason \in StopReasons
        /\ analysis_phase \in Phases
    BY DEF Init, Waits, Statuses, StopReasons, Phases
  <2>5. handler \in BOOLEAN
    BY ConfigAssumption DEF Init
  <2>6. /\ required_reads \in SUBSET Files /\ tree \in Trees
        /\ proposal \in Patches \cup {NoPatch}
        /\ baseline \in TestResults \cup {"none"}
        /\ summary \in Statuses \cup {"none"} /\ raised \in BOOLEAN
    BY DEF Init
  <2> QED BY <2>1, <2>2, <2>3, <2>4, <2>5, <2>6 DEF TypeOK
<1>2. WaitsOK
  BY BudgetAssumption DEF Init, WaitsOK
<1>3. GateOK
  BY DEF Init, GateOK, Reviewing
<1> QED BY <1>1, <1>2, <1>3 DEF Inv

\* Appending a record keeps session.attempts a sequence of records.
LEMMA RecordType ==
  ASSUME attempts \in Seq(AttemptRecords), NEW n \in 1..MaxAttempts,
         NEW outcome \in TestResults \cup {"rejected", "base_changed", "apply_failed"},
         Record(n, outcome)
  PROVE  attempts' \in Seq(AttemptRecords)
<1>1. [attempt |-> n, outcome |-> outcome] \in AttemptRecords
  BY DEF AttemptRecords
<1> QED BY <1>1 DEF Record

\* Every reply of the model, every answer of the human, the file system and
\* the test runner, and every edit by others preserves the invariant.
LEMMA NextInv == Inv /\ [Next]_vars => Inv'
<1> SUFFICES ASSUME Inv, [Next]_vars PROVE Inv'
  OBVIOUS
<1>0. handler' = handler
  BY DEF Next, Terminated, vars
<1> USE BudgetAssumption, DataAssumption, ConfigAssumption, <1>0
    DEF Inv, TypeOK, WaitsOK, GateOK, Reviewing, Waits, Statuses, TerminalStatuses,
        StopReasons, Phases, TestResults,
        control, loop, reading, repair, review, ending,
        Stop, Continue, ToolCall
<1>1. CASE Import
  BY <1>1 DEF Import
<1>2. ASSUME NEW r \in TestResults, BaselineFinished(r) PROVE Inv'
  BY <1>2 DEF BaselineFinished, InfrastructureStatus, EnterAnalysis, EntryPhase
<1>3. CASE MalformedReply
  BY <1>3 DEF MalformedReply, FormatError
<1>4. CASE ProviderError
  BY <1>4 DEF ProviderError
<1>5. ASSUME NEW ok \in BOOLEAN, GeneralRead(ok) PROVE Inv'
  BY <1>5 DEF GeneralRead, GeneralReadOpen
<1>6. CASE GeneralReadDenied
  BY <1>6 DEF GeneralReadDenied, NoProgress
<1>7. ASSUME NEW f \in Files, NEW covers \in BOOLEAN, RecoveryRead(f, covers) PROVE Inv'
  BY <1>7 DEF RecoveryRead
<1>8. CASE OtherTool
  BY <1>8 DEF OtherTool
<1>9. CASE EvidenceHardViolation
  BY <1>9 DEF EvidenceHardViolation
<1>10. CASE EvidenceAccepted
  BY <1>10 DEF EvidenceAccepted, EvidenceOpen
<1>11. CASE EvidenceCorrected
  BY <1>11 DEF EvidenceCorrected, EvidenceOpen
<1>12. CASE EvidenceNoProgress
  BY <1>12 DEF EvidenceNoProgress, EvidenceOpen, NoProgress
<1>13. CASE Finish
  BY <1>13 DEF Finish
<1>14. CASE ProposalBlocked
  BY <1>14 DEF ProposalBlocked, GateClear
<1>15. CASE ProposalMalformed
  BY <1>15 DEF ProposalMalformed, GateClear, FormatError
<1>16. CASE ProposalRefused
  BY <1>16 DEF ProposalRefused, GateClear
<1>17. ASSUME NEW p \in Patches, PreflightRejects(p) PROVE Inv'
  BY <1>17 DEF PreflightRejects, GateClear, RegenerationExhausted, RequireRead,
               ConsumeRegeneration
<1>18. ASSUME NEW p \in Patches, PreflightAccepts(p) PROVE Inv'
  BY <1>18 DEF PreflightAccepts, GateClear, Bindings
<1>19. CASE HandlerMissing
  BY <1>19 DEF HandlerMissing
<1>20. CASE Reject
  BY <1>20 DEF Reject, Record, AttemptRecords
<1>21. ASSUME NEW p \in Patches, Approve(p) PROVE Inv'
  <2>1. CASE Stale(p)
    <3>1. attempts' \in Seq(AttemptRecords)
      BY <1>21, <2>1, RecordType DEF Approve
    <3> QED BY <1>21, <2>1, <3>1 DEF Approve
  <2>2. CASE ~Stale(p)
    BY <1>21, <2>2 DEF Approve
  <2> QED BY <2>1, <2>2
<1>22. CASE ApplySucceeds
  <2>1. Patched[<<proposal, tree>>] \in Trees
    BY <1>22 DEF ApplySucceeds, Fits
  <2> QED BY <1>22, <2>1 DEF ApplySucceeds
<1>23. CASE ApplyFailsHard
  BY <1>23 DEF ApplyFailsHard, RolledBack, Record, AttemptRecords
<1>24. CASE ApplyMismatch
  <2>1. attempts' \in Seq(AttemptRecords)
    BY <1>24, RecordType DEF ApplyMismatch
  <2>2. CASE RegenerationExhausted
    BY <1>24, <2>1, <2>2 DEF ApplyMismatch, RolledBack
  <2>3. CASE ~RegenerationExhausted
    BY <1>24, <2>1, <2>3 DEF ApplyMismatch, RolledBack, RegenerationExhausted, RequireRead,
                             ConsumeRegeneration, EnterAnalysis, EntryPhase
  <2> QED BY <2>2, <2>3
<1>25. ASSUME NEW r \in TestResults, TestFinished(r) PROVE Inv'
  BY <1>25 DEF TestFinished, Record, AttemptRecords, InfrastructureStatus, PassingStatus,
               EnterAnalysis, EntryPhase
<1>26. CASE Finalize
  BY <1>26 DEF Finalize
<1>27. CASE FinalizeRaises
  BY <1>27 DEF FinalizeRaises
<1>28. CASE Unexpected
  BY <1>28 DEF Unexpected
<1>29. CASE ExternalEdit
  BY <1>29 DEF ExternalEdit
<1>30. CASE UNCHANGED vars
  BY <1>30 DEF vars
<1> QED BY <1>1, <1>2, <1>3, <1>4, <1>5, <1>6, <1>7, <1>8, <1>9, <1>10, <1>11, <1>12,
           <1>13, <1>14, <1>15, <1>16, <1>17, <1>18, <1>19, <1>20, <1>21, <1>22, <1>23,
           <1>24, <1>25, <1>26, <1>27, <1>28, <1>29, <1>30
        DEF Next, Controller, ModelReply, Terminated

\* The inductive invariant holds throughout a session.
LEMMA InvAlways == Spec => []Inv
  BY InitInv, NextInv, PTL DEF Spec

\* Every variable of a session keeps its type and every budget its bound.
THEOREM TypeCorrect == Spec => []TypeOK
<1>1. Inv => TypeOK
  BY DEF Inv
<1> QED BY <1>1, InvAlways, PTL

\* No patch is reviewed, applied or tested while a mandated read is missing.
THEOREM GateTheorem == Spec => []GateHeld
<1>1. Inv => GateHeld
  <2> SUFFICES ASSUME Inv PROVE GateHeld
    OBVIOUS
  <2>1. Cardinality(required_reads) <= 1
    <3>1. CASE required_reads = {}
      BY <3>1, FS_EmptySet
    <3>2. CASE \E f \in Files : required_reads = {f}
      BY <3>2, FS_Singleton
    <3> QED BY <3>1, <3>2 DEF Inv, GateOK
  <2> QED BY <2>1 DEF Inv, GateOK, GateHeld, Reviewing
<1> QED BY <1>1, InvAlways, PTL

----------------------------------------------------------------------------
\* A step changes the regeneration counters in one of four ways.
LEMMA RegenerationStep ==
  ASSUME Inv, [Next]_vars
  PROVE  \/ UNCHANGED <<attempts_used, regen_retries, total_regen>>
         \/ /\ total_regen' = total_regen + 1 /\ regen_retries' = regen_retries + 1
            /\ attempts_used' = attempts_used /\ pc \in {"model", "apply"}
         \/ /\ attempts_used' = attempts_used + 1 /\ regen_retries' = 0
            /\ total_regen' = total_regen
  BY DEF Inv, WaitsOK, Next, Controller, ModelReply, Terminated, vars,
         control, loop, reading, repair, review, ending, ToolCall, ConsumeRegeneration,
         Import, BaselineFinished, MalformedReply, ProviderError, GeneralRead,
         GeneralReadDenied, RecoveryRead, OtherTool, EvidenceHardViolation,
         EvidenceAccepted, EvidenceCorrected, EvidenceNoProgress, Finish,
         ProposalBlocked, ProposalMalformed, ProposalRefused, PreflightRejects,
         PreflightAccepts, HandlerMissing, Reject, Approve, ApplySucceeds,
         ApplyFailsHard, ApplyMismatch, TestFinished, Finalize, FinalizeRaises,
         Unexpected, ExternalEdit

\* Between two successful applies at most MaxRegenerations new patches are
\* requested, however preflight and apply failures alternate.
THEOREM RegenerationTheorem == Spec => []RegenerationWindow
<1>1. Init => RegenerationWindow
  BY BudgetAssumption DEF Init, RegenerationWindow
<1>2. Inv /\ RegenerationWindow /\ [Next]_vars => RegenerationWindow'
  <2> SUFFICES ASSUME Inv, RegenerationWindow, [Next]_vars PROVE RegenerationWindow'
    OBVIOUS
  <2> DEFINE M == MaxRegenerations
  <2>1. /\ M \in Nat /\ attempts_used \in Nat /\ regen_retries \in 0..M /\ total_regen \in Nat
    BY BudgetAssumption DEF Inv, TypeOK
  <2>2. M * (attempts_used + 1) = M * attempts_used + M
    BY <2>1
  <2>3. M * attempts_used \in Nat
    BY <2>1
  <2>4. CASE UNCHANGED <<attempts_used, regen_retries, total_regen>>
    BY <2>4 DEF RegenerationWindow
  <2>5. CASE /\ total_regen' = total_regen + 1 /\ regen_retries' = regen_retries + 1
             /\ attempts_used' = attempts_used
    BY <2>1, <2>3, <2>5 DEF RegenerationWindow
  <2>6. CASE /\ attempts_used' = attempts_used + 1 /\ regen_retries' = 0
             /\ total_regen' = total_regen
    BY <2>1, <2>2, <2>3, <2>6 DEF RegenerationWindow
  <2> QED BY <2>4, <2>5, <2>6, RegenerationStep
<1> QED BY <1>1, <1>2, InvAlways, PTL DEF Spec

----------------------------------------------------------------------------
(* The review.  Nobody else may write between the recheck and the apply.   *)

\* At the apply, the proposal and the tree are the ones under review.
BindingOK == pc = "apply" => proposal = binding.patch /\ tree = binding.tree

\* If nobody writes between recheck and apply, a step keeps BindingOK.
LEMMA BindingStep ==
  ASSUME "apply" \notin EditPoints, Inv, BindingOK, [Next]_vars
  PROVE  BindingOK'
<1> USE DEF BindingOK, control, loop, reading, repair, review, ending
<1>1. CASE ModelReply
  BY <1>1 DEF ModelReply, ToolCall, Continue, Stop, FormatError, NoProgress,
     MalformedReply, ProviderError, GeneralRead, GeneralReadDenied, RecoveryRead,
     OtherTool, EvidenceHardViolation, EvidenceAccepted, EvidenceCorrected,
     EvidenceNoProgress, Finish, ProposalBlocked, ProposalMalformed, ProposalRefused,
     PreflightRejects, PreflightAccepts
<1>2. ASSUME NEW p \in Patches, Approve(p) PROVE BindingOK'
  BY <1>2 DEF Approve, Stale, Stop
<1>3. CASE ExternalEdit
  BY <1>3 DEF ExternalEdit
<1>4. CASE Terminated \/ UNCHANGED vars
  BY <1>4 DEF Terminated, vars
<1>5. CASE \/ Import \/ \E r \in TestResults : BaselineFinished(r)
           \/ HandlerMissing \/ Reject \/ ApplySucceeds \/ ApplyFailsHard \/ ApplyMismatch
           \/ \E r \in TestResults : TestFinished(r)
           \/ Finalize \/ FinalizeRaises \/ Unexpected
  BY <1>5 DEF Import, BaselineFinished, HandlerMissing, Reject, ApplySucceeds,
     ApplyFailsHard, ApplyMismatch, TestFinished, Finalize, FinalizeRaises, Unexpected,
     Stop, EnterAnalysis, InfrastructureStatus, PassingStatus
<1> QED BY <1>1, <1>2, <1>3, <1>4, <1>5 DEF Next, Controller

\* Hence it holds throughout such a session.
LEMMA BindingAlways ==
  ASSUME "apply" \notin EditPoints
  PROVE  Spec => [](Inv /\ BindingOK)
<1>1. Init => BindingOK
  BY DEF Init, BindingOK
<1>2. Inv /\ BindingOK /\ [Next]_vars => BindingOK'
  BY BindingStep
<1> QED BY <1>1, <1>2, InvAlways, PTL DEF Spec

\* A patch is written only by ApplySucceeds.
LEMMA WriteStep ==
  ASSUME Inv, [Next]_vars, attempts_used' > attempts_used
  PROVE  pc = "apply"
  BY DEF Inv, TypeOK, Next, Controller, ModelReply, Terminated, vars,
         control, loop, reading, repair, review, ending, ToolCall,
         Import, BaselineFinished, MalformedReply, ProviderError, GeneralRead,
         GeneralReadDenied, RecoveryRead, OtherTool, EvidenceHardViolation,
         EvidenceAccepted, EvidenceCorrected, EvidenceNoProgress, Finish,
         ProposalBlocked, ProposalMalformed, ProposalRefused, PreflightRejects,
         PreflightAccepts, HandlerMissing, Reject, Approve, ApplySucceeds,
         ApplyFailsHard, ApplyMismatch, TestFinished, Finalize, FinalizeRaises,
         Unexpected, ExternalEdit

\* What is applied is the diff the human saw, on the tree it was shown for.
THEOREM ReviewTheorem ==
  ASSUME "apply" \notin EditPoints
  PROVE  Spec => AppliedIsReviewed
<1>1. Inv /\ BindingOK /\ [Next]_vars =>
        [attempts_used' > attempts_used =>
           handler /\ proposal = binding.patch /\ tree = binding.tree]_vars
  BY WriteStep DEF Inv, WaitsOK, BindingOK
<1> QED BY <1>1, BindingAlways, PTL DEF Spec, AppliedIsReviewed

\* Each step is a step of the abstract session or leaves its state alone.
LEMMA RepairStep ==
  ASSUME "apply" \notin EditPoints, ~RollbackMayFail, Inv, BindingOK, [Next]_vars
  PROVE  [Repair!Next]_(Repair!vars)
<1> USE DEF Repair!vars, control, loop, reading, repair, review, ending
<1>1. ASSUME pc \notin {"apply", "closed"}, pc' \notin {"apply", "closed"},
             UNCHANGED <<tree, attempts_used>>
      PROVE  UNCHANGED Repair!vars
  BY <1>1
<1>2. CASE ModelReply
  BY <1>1, <1>2 DEF ModelReply, ToolCall, Continue, Stop, FormatError, NoProgress,
     MalformedReply, ProviderError, GeneralRead, GeneralReadDenied, RecoveryRead,
     OtherTool, EvidenceHardViolation, EvidenceAccepted, EvidenceCorrected,
     EvidenceNoProgress, Finish, ProposalBlocked, ProposalMalformed, ProposalRefused,
     PreflightRejects, PreflightAccepts
<1>3. CASE \/ Import \/ \E r \in TestResults : BaselineFinished(r)
           \/ HandlerMissing \/ Reject \/ \E r \in TestResults : TestFinished(r)
  BY <1>1, <1>3 DEF Import, BaselineFinished, HandlerMissing, Reject, TestFinished,
     Stop, EnterAnalysis, InfrastructureStatus, PassingStatus
<1>4. ASSUME NEW p \in Patches, Approve(p) PROVE [Repair!Next]_(Repair!vars)
  <2>1. CASE Stale(p)
    BY <1>1, <1>4, <2>1 DEF Approve, Stop
  <2>2. CASE ~Stale(p)
    <3>1. binding = [patch |-> p, tree |-> tree] /\ attempts_used < MaxAttempts
      BY <1>4, <2>2 DEF Approve, Stale, Inv, TypeOK, Bindings, WaitsOK
    <3>2. Repair!Approve(p)
      BY <1>4, <2>2, <3>1 DEF Approve, Repair!Approve
    <3> QED BY <3>2 DEF Repair!Next
  <2> QED BY <2>1, <2>2
<1>5. CASE ApplySucceeds
  <2>1. Repair!Write(binding)
    BY <1>5 DEF ApplySucceeds, Fits, BindingOK, Repair!Write
  <2> QED BY <1>5, <2>1 DEF Repair!Next, ApplySucceeds
<1>6. CASE ApplyFailsHard \/ ApplyMismatch
  <2>1. Repair!Withdraw
    BY <1>6 DEF ApplyFailsHard, ApplyMismatch, RolledBack, Stop, EnterAnalysis,
                Repair!Withdraw
  <2> QED BY <2>1 DEF Repair!Next
<1>7. CASE Finalize \/ FinalizeRaises \/ Unexpected
  <2>1. Repair!Close
    BY <1>7 DEF Finalize, FinalizeRaises, Unexpected, Waits, Repair!Close
  <2> QED BY <2>1 DEF Repair!Next
<1>8. CASE ExternalEdit
  <2>1. Repair!Interfere
    BY <1>8, ConfigAssumption DEF ExternalEdit, Repair!Interfere
  <2> QED BY <2>1 DEF Repair!Next
<1>9. CASE Terminated \/ UNCHANGED vars
  BY <1>9 DEF Terminated, vars
<1> QED BY <1>2, <1>3, <1>4, <1>5, <1>6, <1>7, <1>8, <1>9 DEF Next, Controller

\* The session implements ApprovedRepair when nobody else writes between the
\* recheck and the apply and failed applies are rolled back.
THEOREM RepairTheorem ==
  ASSUME "apply" \notin EditPoints, ~RollbackMayFail
  PROVE  Spec => ImplementsApprovedRepair
<1>1. Init => Repair!Init
  BY DEF Init, Repair!Init
<1>2. Inv /\ BindingOK /\ [Next]_vars => [Repair!Next]_(Repair!vars)
  BY RepairStep
<1> QED BY <1>1, <1>2, BindingAlways, PTL DEF Spec, ImplementsApprovedRepair, Repair!Spec

----------------------------------------------------------------------------
\* Once left, EXPLORE is never entered again and no general read is charged.
THEOREM ExplorationTheorem == Spec => ExplorationStaysClosed
<1>1. Inv /\ [Next]_vars =>
        [analysis_phase # "EXPLORE" =>
           analysis_phase' # "EXPLORE" /\ exploration_reads' = exploration_reads]_vars
  <2> SUFFICES ASSUME Inv, [Next]_vars, analysis_phase # "EXPLORE"
               PROVE  analysis_phase' # "EXPLORE" /\ exploration_reads' = exploration_reads
    OBVIOUS
  <2> USE DEF control, loop, reading, repair, review, ending
  <2>1. CASE ModelReply
    BY <2>1 DEF ModelReply, ToolCall, Continue, Stop, FormatError, NoProgress,
       MalformedReply, ProviderError, GeneralRead, GeneralReadOpen, GeneralReadDenied,
       RecoveryRead, OtherTool, EvidenceHardViolation, EvidenceAccepted,
       EvidenceCorrected, EvidenceNoProgress, Finish, ProposalBlocked,
       ProposalMalformed, ProposalRefused, PreflightRejects, PreflightAccepts
  <2>2. CASE \/ Import \/ \E r \in TestResults : BaselineFinished(r)
             \/ HandlerMissing \/ Reject \/ \E p \in Patches : Approve(p)
             \/ ApplySucceeds \/ ApplyFailsHard \/ ApplyMismatch
             \/ \E r \in TestResults : TestFinished(r)
    BY <2>2 DEF Import, BaselineFinished, HandlerMissing, Reject, Approve,
       ApplySucceeds, ApplyFailsHard, ApplyMismatch, TestFinished, EnterAnalysis,
       EntryPhase
  <2>3. CASE \/ Finalize \/ FinalizeRaises \/ Unexpected \/ ExternalEdit
             \/ Terminated \/ UNCHANGED vars
    BY <2>3 DEF Finalize, FinalizeRaises, Unexpected, ExternalEdit, Terminated, vars
  <2> QED BY <2>1, <2>2, <2>3 DEF Next, Controller
<1> QED BY <1>1, InvAlways, PTL DEF Spec, ExplorationStaysClosed

----------------------------------------------------------------------------
(***************************************************************************)
(* Its records, its verdict and its summary.                               *)
(*                                                                         *)
(* LedgerOK says what each record in session.attempts can be, given the    *)
(* number of the attempt the controller is at: earlier attempts have one   *)
(* tested record each, which failed, and the present one has only records  *)
(* of applies that failed.  EndOK says what finalisation finds.            *)
(***************************************************************************)

Tested == {i \in DOMAIN attempts : attempts[i].outcome \in TestResults}
Numbers == {attempts[i].attempt : i \in Tested}
Outcomes == TestResults \cup {"rejected", "base_changed", "apply_failed"}
Verdicts == {"SUCCEEDED", "TESTS_PASSED_UNVERIFIED", "FAILED_MAX_ATTEMPTS"}

\* The attempt that the next record is about.
Present == IF pc = "test" THEN attempts_used ELSE attempts_used + 1

Ordered ==
  \A i, j \in DOMAIN attempts : i < j =>
    \/ attempts[i].attempt < attempts[j].attempt
    \/ attempts[i].attempt = attempts[j].attempt /\ attempts[i].outcome = "apply_failed"

LedgerOK ==
  /\ Ordered
  /\ pc \in Waits => Numbers = 1..(Present - 1)
  /\ pc \in Waits => \A i \in DOMAIN attempts :
       \/ attempts[i].attempt < Present /\ attempts[i].outcome \in {"failed", "apply_failed"}
       \/ attempts[i].attempt = Present /\ attempts[i].outcome = "apply_failed"
  /\ pc \notin Waits => Numbers = 1..attempts_used \/ (raised /\ Numbers = 1..(attempts_used - 1))
  /\ pc \in {"import", "baseline"} => attempts = << >>

EndOK ==
  /\ pc \in Waits => status \notin TerminalStatuses
  /\ pc # "closed" => summary = "none" /\ ~raised
  /\ pc = "import" => baseline = "none"
  /\ pc \in {"model", "approval", "apply", "test"} => baseline \in {"passed", "failed"}
  /\ pc = "finalize" /\ BaselineEndedSession =>
       attempts = << >> /\ status \in {"TEST_ENVIRONMENT_ERROR", "TEST_TIMEOUT"}
  /\ ~handler => pc \notin {"apply", "test"} /\ attempts_used = 0 /\ attempts = << >>

VInv == Inv /\ LedgerOK /\ EndOK /\ VerdictEarned /\ SummaryAgrees

----------------------------------------------------------------------------
(* Records.                                                                *)

\* What Record does to the ledger.
LEMMA RecordEffect ==
  ASSUME Inv, NEW n \in 1..MaxAttempts, NEW outcome \in Outcomes, Record(n, outcome)
  PROVE  /\ Len(attempts) \in Nat /\ DOMAIN attempts = 1..Len(attempts)
         /\ Len(attempts') = Len(attempts) + 1 /\ DOMAIN attempts' = 1..(Len(attempts) + 1)
         /\ attempts'[Len(attempts) + 1] = [attempt |-> n, outcome |-> outcome]
         /\ \A i \in DOMAIN attempts : /\ attempts'[i] = attempts[i] /\ i # Len(attempts) + 1
                                       /\ attempts[i] \in AttemptRecords
                                       /\ attempts[i].attempt \in Nat
<1>1. attempts \in Seq(AttemptRecords)
  BY DEF Inv, TypeOK
<1>2. \A r \in AttemptRecords : r.attempt \in Nat
  BY BudgetAssumption DEF AttemptRecords
<1> DEFINE r == [attempt |-> n, outcome |-> outcome]
<1>3. attempts' = Append(attempts, r) /\ r \in AttemptRecords
  BY DEF Record, AttemptRecords, Outcomes
<1> HIDE DEF r
<1>4. /\ Len(attempts) \in Nat /\ DOMAIN attempts = 1..Len(attempts)
      /\ Len(attempts') = Len(attempts) + 1 /\ DOMAIN attempts' = 1..(Len(attempts) + 1)
      /\ attempts'[Len(attempts) + 1] = r
  BY <1>1, <1>3
<1>5. \A i \in DOMAIN attempts : attempts'[i] = attempts[i] /\ i # Len(attempts) + 1
  BY <1>1, <1>3
<1>6. \A i \in DOMAIN attempts : attempts[i] \in AttemptRecords
  BY <1>1
<1> QED BY <1>2, <1>4, <1>5, <1>6 DEF r

\* A record of a failed apply, or of a refusal, is not a tested one.
LEMMA RecordNumbers ==
  ASSUME Inv, NEW n \in 1..MaxAttempts, NEW outcome \in Outcomes, Record(n, outcome)
  PROVE  Numbers' = IF outcome \in TestResults THEN Numbers \cup {n} ELSE Numbers
<1>1. Tested' = IF outcome \in TestResults THEN Tested \cup {Len(attempts) + 1} ELSE Tested
  BY RecordEffect DEF Tested, Record
<1>2. \A i \in Tested : attempts'[i] = attempts[i]
  BY RecordEffect DEF Tested, Record
<1>3. attempts'[Len(attempts) + 1].attempt = n
  BY RecordEffect DEF Record
<1>4. CASE outcome \in TestResults
  BY <1>1, <1>2, <1>3, <1>4 DEF Numbers
<1>5. CASE outcome \notin TestResults
  BY <1>1, <1>2, <1>5 DEF Numbers
<1> QED BY <1>4, <1>5

\* There is always an attempt that a record can be about.
LEMMA PresentType ==
  ASSUME Inv, pc \in {"model", "approval", "apply", "test"}
  PROVE  Present \in 1..MaxAttempts
BY BudgetAssumption DEF Inv, TypeOK, WaitsOK, Present

\* A record of the present attempt comes after all others.
LEMMA RecordOrder ==
  ASSUME Inv, LedgerOK, pc \in {"approval", "apply", "test"}, NEW outcome \in Outcomes,
         Record(Present, outcome)
  PROVE  Ordered'
<1> SUFFICES ASSUME NEW i \in DOMAIN attempts', NEW j \in DOMAIN attempts', i < j
             PROVE  \/ attempts'[i].attempt < attempts'[j].attempt
                    \/ /\ attempts'[i].attempt = attempts'[j].attempt
                       /\ attempts'[i].outcome = "apply_failed"
  BY DEF Ordered
<1>1. i \in DOMAIN attempts /\ attempts'[i] = attempts[i]
  BY PresentType, RecordEffect DEF Record
<1>2. CASE j \in DOMAIN attempts
  BY <1>1, <1>2, PresentType, RecordEffect DEF LedgerOK, Ordered, Record
<1>3. CASE j = Len(attempts) + 1
  <2>1. attempts'[j].attempt = Present
    BY <1>3, PresentType, RecordEffect DEF Record
  <2>2. pc \in Waits
    BY DEF Waits
  <2> QED BY <1>1, <2>1, <2>2 DEF LedgerOK
<1> QED BY <1>2, <1>3, PresentType, RecordEffect DEF Record

\* A record with which the analysis begins again.
LEMMA RecordGoesOn ==
  ASSUME Inv, LedgerOK, pc \in {"apply", "test"}, pc' = "model", UNCHANGED attempts_used,
         NEW outcome \in Outcomes, Record(Present, outcome),
         outcome = IF pc = "test" THEN "failed" ELSE "apply_failed"
  PROVE  LedgerOK'
<1> USE DEF Waits
<1>1. attempts_used \in Nat /\ (pc = "test" => attempts_used > 0)
  BY BudgetAssumption DEF Inv, TypeOK, WaitsOK
<1>2. Present' = attempts_used + 1 /\ Present = IF pc = "test" THEN attempts_used ELSE attempts_used + 1
  BY DEF Present
<1>3. Numbers' = 1..(Present' - 1)
  <2>1. CASE pc = "test"
    <3>1. Numbers' = (1..(attempts_used - 1)) \cup {attempts_used}
      BY <1>2, <2>1, PresentType, RecordNumbers DEF LedgerOK, TestResults, Record
    <3> QED BY <1>1, <1>2, <2>1, <3>1
  <2>2. CASE pc = "apply"
    BY <1>2, <2>2, PresentType, RecordNumbers DEF LedgerOK, TestResults, Record
  <2> QED BY <2>1, <2>2
<1>4. \A i \in DOMAIN attempts' :
        \/ attempts'[i].attempt < Present' /\ attempts'[i].outcome \in {"failed", "apply_failed"}
        \/ attempts'[i].attempt = Present' /\ attempts'[i].outcome = "apply_failed"
  <2> SUFFICES ASSUME NEW i \in DOMAIN attempts'
               PROVE  \/ attempts'[i].attempt < Present' /\ attempts'[i].outcome \in {"failed", "apply_failed"}
                      \/ attempts'[i].attempt = Present' /\ attempts'[i].outcome = "apply_failed"
    OBVIOUS
  <2>1. CASE i = Len(attempts) + 1
    BY <1>1, <1>2, <2>1, PresentType, RecordEffect DEF Record
  <2>2. CASE i \in DOMAIN attempts
    BY <1>1, <1>2, <2>2, PresentType, RecordEffect DEF LedgerOK, Record
  <2> QED BY <2>1, <2>2, PresentType, RecordEffect DEF Record
<1> QED BY <1>3, <1>4, RecordOrder DEF LedgerOK, Record

\* A record with which the session ends.
LEMMA RecordEnds ==
  ASSUME Inv, LedgerOK, pc \in {"approval", "apply", "test"}, pc' = "finalize",
         UNCHANGED attempts_used, NEW outcome \in Outcomes, Record(Present, outcome),
         outcome \in TestResults <=> pc = "test"
  PROVE  LedgerOK' /\ Numbers' = 1..attempts_used
<1> USE DEF Waits
<1>1. attempts_used \in Nat /\ (pc = "test" => attempts_used > 0)
  BY BudgetAssumption DEF Inv, TypeOK, WaitsOK
<1>2. Numbers' = 1..attempts_used
  <2>1. CASE pc = "test"
    <3>1. Numbers' = (1..(attempts_used - 1)) \cup {attempts_used}
      BY <2>1, PresentType, RecordNumbers DEF LedgerOK, Present, Record
    <3>2. (1..(attempts_used - 1)) \cup {attempts_used} = 1..attempts_used
      BY <1>1, <2>1
    <3> QED BY <3>1, <3>2
  <2>2. CASE pc # "test"
    <3>1. Present = attempts_used + 1 /\ pc \in Waits /\ outcome \notin TestResults
      BY <2>2 DEF Present
    <3>2. Numbers = 1..((attempts_used + 1) - 1)
      BY <3>1 DEF LedgerOK
    <3>3. Numbers' = Numbers
      BY <3>1, PresentType, RecordNumbers DEF Record
    <3> QED BY <1>1, <3>2, <3>3
  <2> QED BY <2>1, <2>2
<1> QED BY <1>2, RecordOrder DEF LedgerOK, Record

\* A step that records nothing and charges nothing.
LEMMA NoRecord ==
  ASSUME Inv, LedgerOK, UNCHANGED <<attempts, attempts_used>>, pc # "test", pc' # "test",
         pc' \in {"import", "baseline"} => pc \in {"import", "baseline"},
         pc' \in Waits => pc \in Waits, raised => raised'
  PROVE  LedgerOK'
<1>1. Numbers' = Numbers /\ Present' = Present /\ Present - 1 = attempts_used /\ Ordered' = Ordered
  BY BudgetAssumption DEF Numbers, Tested, Present, Ordered, Inv, TypeOK
<1> QED BY <1>1 DEF LedgerOK

----------------------------------------------------------------------------
(* The steps.                                                              *)

LEMMA VerdictInit == Init => VInv
<1> SUFFICES ASSUME Init PROVE VInv
  OBVIOUS
<1>1. attempts = << >> /\ Tested = {} /\ Numbers = {} /\ attempts_used = 0 /\ pc = "import"
      /\ status = "CREATED" /\ summary = "none" /\ ~raised /\ baseline = "none"
  BY DEF Init, Tested, Numbers
<1>2. LedgerOK
  BY <1>1 DEF LedgerOK, Ordered, Present, Waits
<1>3. EndOK /\ VerdictEarned /\ SummaryAgrees
  BY <1>1 DEF EndOK, VerdictEarned, SummaryAgrees, Waits, TerminalStatuses
<1> QED BY <1>2, <1>3, InitInv DEF VInv

\* A reply of the model records, charges and judges nothing.
LEMMA ReplyStep ==
  ASSUME ModelReply
  PROVE  /\ pc = "model" /\ pc' \in {"model", "approval", "finalize"}
         /\ UNCHANGED <<attempts_used, attempts, tree, baseline, summary, raised>>
         /\ pc' = "model" => status' = status
         /\ pc' = "approval" => status' = "AWAITING_APPROVAL"
         /\ pc' = "finalize" => status' \notin Verdicts
<1> USE DEF control, loop, reading, repair, review, ending, ToolCall, Continue, Stop, Verdicts
<1>1. CASE \/ MalformedReply \/ ProviderError \/ GeneralReadDenied \/ OtherTool
           \/ EvidenceHardViolation \/ EvidenceAccepted \/ EvidenceCorrected
           \/ EvidenceNoProgress \/ Finish
           \/ ProposalBlocked \/ ProposalMalformed \/ ProposalRefused
  BY <1>1 DEF FormatError, NoProgress, MalformedReply, ProviderError, GeneralReadDenied,
     OtherTool, EvidenceHardViolation, EvidenceAccepted, EvidenceCorrected,
     EvidenceNoProgress, Finish, ProposalBlocked, ProposalMalformed, ProposalRefused
<1>2. CASE \/ \E ok \in BOOLEAN : GeneralRead(ok)
           \/ \E f \in Files, covers \in BOOLEAN : RecoveryRead(f, covers)
  BY <1>2 DEF GeneralRead, RecoveryRead
<1>3. CASE \E p \in Patches : PreflightRejects(p) \/ PreflightAccepts(p)
  BY <1>3 DEF PreflightRejects, PreflightAccepts, ConsumeRegeneration
<1> QED BY <1>1, <1>2, <1>3 DEF ModelReply

\* While it waits the session has no verdict, and no summary to agree with.
LEMMA NoVerdict ==
  ASSUME status' \notin Verdicts, summary' = "none"
  PROVE  VerdictEarned' /\ SummaryAgrees'
BY DEF VerdictEarned, SummaryAgrees, Verdicts

LEMMA NextReply == VInv /\ ModelReply /\ handler' = handler => VInv'
<1> SUFFICES ASSUME VInv, ModelReply, handler' = handler PROVE VInv'
  OBVIOUS
<1> USE ReplyStep DEF VInv
<1>1. Inv'
  BY NextInv DEF Next, Controller
<1>2. LedgerOK'
  BY NoRecord DEF Waits
<1>3. EndOK'
  BY DEF EndOK, Waits, TerminalStatuses, BaselineEndedSession
<1>4. VerdictEarned' /\ SummaryAgrees'
  BY NoVerdict DEF EndOK, Waits, TerminalStatuses, Verdicts
<1> QED BY <1>1, <1>2, <1>3, <1>4

\* The session ends with a record, and with no success and no full count.
LEMMA EndsUnjudged ==
  ASSUME VInv, Inv', handler' = handler, pc \in {"approval", "apply", "test"}, pc' = "finalize",
         UNCHANGED <<attempts_used, baseline, summary, raised>>,
         NEW outcome \in Outcomes, Record(Present, outcome),
         outcome \in TestResults <=> pc = "test", status' \notin Verdicts, handler
  PROVE  VInv'
<1>1. LedgerOK'
  BY RecordEnds DEF VInv, Record
<1>2. EndOK'
  BY DEF VInv, EndOK, Waits, BaselineEndedSession
<1>3. VerdictEarned' /\ SummaryAgrees'
  BY NoVerdict DEF VInv, EndOK
<1> QED BY <1>1, <1>2, <1>3 DEF VInv

LEMMA NextReview ==
  ASSUME VInv, handler' = handler, Inv',
         HandlerMissing \/ Reject \/ \E p \in Patches : Approve(p)
  PROVE  VInv'
<1> USE DEF Stop
<1>1. CASE HandlerMissing
  <2>1. LedgerOK'
    BY <1>1, NoRecord DEF VInv, HandlerMissing, repair, ending, Waits
  <2>2. EndOK'
    BY <1>1 DEF VInv, EndOK, HandlerMissing, repair, ending, Waits, BaselineEndedSession
  <2>3. VerdictEarned' /\ SummaryAgrees'
    BY <1>1, NoVerdict DEF VInv, EndOK, HandlerMissing, ending, Verdicts
  <2> QED BY <2>1, <2>2, <2>3 DEF VInv
<1>2. CASE Reject
  <2>1. Record(Present, "rejected") /\ "rejected" \in Outcomes /\ "rejected" \notin TestResults
    BY <1>2 DEF Reject, Present, Outcomes, TestResults
  <2> QED BY <1>2, <2>1, EndsUnjudged DEF Reject, ending, Verdicts, Record
<1>3. ASSUME NEW p \in Patches, Approve(p) PROVE VInv'
  <2>1. CASE Stale(p)
    <3>1. Record(Present, "base_changed") /\ "base_changed" \in Outcomes
          /\ "base_changed" \notin TestResults
      BY <1>3, <2>1 DEF Approve, Present, Outcomes, TestResults
    <3> QED BY <1>3, <2>1, <3>1, EndsUnjudged DEF Approve, ending, Verdicts, Record
  <2>2. CASE ~Stale(p)
    <3>1. /\ pc = "approval" /\ pc' = "apply" /\ handler
          /\ UNCHANGED <<status, attempts, attempts_used, baseline, summary, raised>>
      BY <1>3, <2>2 DEF Approve, ending
    <3>2. LedgerOK'
      BY <3>1, NoRecord DEF VInv, Waits
    <3>3. EndOK'
      BY <3>1 DEF VInv, EndOK, Waits
    <3>4. VerdictEarned' /\ SummaryAgrees'
      BY <3>1, NoVerdict DEF VInv, EndOK, Waits, TerminalStatuses, Verdicts
    <3> QED BY <3>2, <3>3, <3>4 DEF VInv
  <2> QED BY <2>1, <2>2
<1> QED BY <1>1, <1>2, <1>3

\* The analysis begins again after a record.
LEMMA GoesOn ==
  ASSUME VInv, Inv', handler' = handler, handler, pc \in {"apply", "test"}, EnterAnalysis,
         UNCHANGED <<attempts_used, baseline, summary, raised>>,
         NEW outcome \in Outcomes, Record(Present, outcome),
         outcome = IF pc = "test" THEN "failed" ELSE "apply_failed"
  PROVE  VInv'
<1> USE DEF EnterAnalysis
<1>1. LedgerOK'
  BY RecordGoesOn DEF VInv, Record
<1>2. EndOK'
  BY DEF VInv, EndOK, Waits, TerminalStatuses
<1>3. VerdictEarned' /\ SummaryAgrees'
  BY NoVerdict DEF VInv, EndOK, Verdicts
<1> QED BY <1>1, <1>2, <1>3 DEF VInv

LEMMA NextApply ==
  ASSUME VInv, handler' = handler, Inv', ApplySucceeds \/ ApplyFailsHard \/ ApplyMismatch
  PROVE  VInv'
<1>1. pc = "apply" /\ handler
  BY DEF VInv, Inv, WaitsOK, ApplySucceeds, ApplyFailsHard, ApplyMismatch
<1>2. "apply_failed" \in Outcomes /\ "apply_failed" \notin TestResults
  BY DEF Outcomes, TestResults
<1>3. CASE ApplySucceeds
  <2>1. /\ pc' = "test" /\ status' = "TESTING" /\ attempts_used' = attempts_used + 1
        /\ UNCHANGED <<attempts, baseline, summary, raised>>
    BY <1>3 DEF ApplySucceeds, ending
  <2>2. Numbers' = Numbers /\ Present' = Present /\ Ordered' = Ordered
    BY <1>1, <2>1 DEF Numbers, Tested, Present, Ordered
  <2>3. LedgerOK'
    BY <1>1, <2>1, <2>2 DEF VInv, LedgerOK, Waits
  <2>4. EndOK'
    BY <1>1, <2>1 DEF VInv, EndOK, Waits, TerminalStatuses
  <2>5. VerdictEarned' /\ SummaryAgrees'
    BY <1>1, <2>1, NoVerdict DEF VInv, EndOK, Verdicts
  <2> QED BY <2>3, <2>4, <2>5 DEF VInv
<1>4. CASE ApplyFailsHard
  <2>1. Record(Present, "apply_failed")
    BY <1>1, <1>4 DEF ApplyFailsHard, Present
  <2> QED BY <1>1, <1>2, <1>4, <2>1, EndsUnjudged DEF ApplyFailsHard, Stop, ending, Verdicts, Record
<1>5. CASE ApplyMismatch
  <2>1. Record(Present, "apply_failed")
    BY <1>1, <1>5 DEF ApplyMismatch, Present
  <2>2. CASE RegenerationExhausted
    BY <1>1, <1>2, <1>5, <2>1, <2>2, EndsUnjudged
    DEF ApplyMismatch, Stop, ending, Verdicts, Record
  <2>3. CASE ~RegenerationExhausted
    <3>1. EnterAnalysis /\ UNCHANGED <<attempts_used, baseline, summary, raised>>
      BY <1>5, <2>3 DEF ApplyMismatch, ending
    <3> QED BY <1>1, <1>2, <2>1, <3>1, GoesOn DEF Record
  <2> QED BY <2>2, <2>3
<1> QED BY <1>3, <1>4, <1>5

\* What a verdict rests on, once the tests of the last attempt are recorded.
LEMMA JudgedStep ==
  ASSUME VInv, Inv', handler' = handler, handler, pc = "test", pc' = "finalize",
         UNCHANGED <<attempts_used, baseline, summary, raised>>,
         NEW outcome \in {"passed", "failed"}, Record(attempts_used, outcome),
         \/ /\ outcome = "passed"
            /\ status' = IF baseline = "passed" THEN "TESTS_PASSED_UNVERIFIED" ELSE "SUCCEEDED"
         \/ /\ outcome = "failed" /\ attempts_used >= MaxAttempts
            /\ status' = "FAILED_MAX_ATTEMPTS"
  PROVE  VInv'
<1>1. Record(Present, outcome) /\ outcome \in TestResults /\ outcome \in Outcomes
  BY DEF Present, TestResults, Outcomes
<1>2. LedgerOK' /\ Numbers' = 1..attempts_used
  BY <1>1, RecordEnds DEF VInv, Record
<1>3. EndOK' /\ summary' = "none"
  BY DEF VInv, EndOK, Waits, BaselineEndedSession
<1>4. attempts_used \in 1..MaxAttempts
  BY <1>1, PresentType DEF VInv, Present
<1>5. /\ Len(attempts') \in Tested' /\ DOMAIN attempts' = 1..Len(attempts')
      /\ attempts'[Len(attempts')] = [attempt |-> attempts_used, outcome |-> outcome]
  BY <1>1, <1>4, RecordEffect DEF VInv, Record, Tested
<1>6. \A i \in Tested' \ {Len(attempts')} : attempts'[i].outcome = "failed"
  <2> SUFFICES ASSUME NEW i \in Tested', i # Len(attempts') PROVE attempts'[i].outcome = "failed"
    OBVIOUS
  <2>1. i \in DOMAIN attempts /\ attempts'[i] = attempts[i] /\ attempts[i].outcome \in TestResults
    BY <1>1, <1>4, RecordEffect DEF VInv, Record, Tested
  <2>2. attempts[i].outcome \in {"failed", "apply_failed"}
    BY <2>1 DEF VInv, LedgerOK, Waits
  <2> QED BY <2>1, <2>2 DEF TestResults
<1>7. VerdictEarned'
  <2>1. CASE outcome = "passed"
    <3>1. baseline \in {"passed", "failed"}
      BY DEF VInv, EndOK
    <3> QED BY <1>2, <1>5, <1>6, <2>1, <3>1 DEF VerdictEarned, Tested, Numbers
  <2>2. CASE outcome = "failed"
    <3>1. attempts_used = MaxAttempts /\ status' = "FAILED_MAX_ATTEMPTS"
      BY <1>4, <2>2, BudgetAssumption
    <3>2. \A i \in Tested' : attempts'[i].outcome = "failed"
      BY <1>5, <1>6, <2>2
    <3> QED BY <1>2, <3>1, <3>2 DEF VerdictEarned, Tested, Numbers
  <2> QED BY <2>1, <2>2
<1>8. SummaryAgrees'
  BY <1>3 DEF SummaryAgrees
<1> QED BY <1>2, <1>3, <1>7, <1>8 DEF VInv

LEMMA NextTests ==
  ASSUME VInv, handler' = handler, Inv', NEW r \in TestResults, TestFinished(r)
  PROVE  VInv'
<1>1. /\ pc = "test" /\ Record(attempts_used, r) /\ Record(Present, r) /\ r \in Outcomes
      /\ UNCHANGED <<attempts_used, baseline, summary, raised>>
  BY DEF TestFinished, Present, Outcomes, ending
<1>2. handler
  BY <1>1 DEF VInv, EndOK
<1>3. CASE r \in {"environment", "timeout"}
  <2>1. pc' = "finalize" /\ status' \notin Verdicts
    BY <1>3 DEF TestFinished, InfrastructureStatus, Stop, Verdicts, EnterAnalysis
  <2> QED BY <1>1, <1>2, <2>1, EndsUnjudged DEF Record
<1>4. CASE r = "passed"
  <2>1. /\ pc' = "finalize"
        /\ status' = IF baseline = "passed" THEN "TESTS_PASSED_UNVERIFIED" ELSE "SUCCEEDED"
    BY <1>4 DEF TestFinished, PassingStatus, Stop
  <2> QED BY <1>1, <1>2, <1>4, <2>1, JudgedStep DEF Record
<1>5. CASE r = "failed" /\ attempts_used >= MaxAttempts
  <2>1. attempts_used \in Nat /\ MaxAttempts \in Nat
    BY BudgetAssumption DEF VInv, Inv, TypeOK
  <2>2. pc' = "finalize" /\ status' = "FAILED_MAX_ATTEMPTS"
    BY <1>5, <2>1 DEF TestFinished, Stop
  <2> QED BY <1>1, <1>2, <1>5, <2>2, JudgedStep DEF Record
<1>6. CASE r = "failed" /\ EnterAnalysis
  BY <1>1, <1>2, <1>6, GoesOn DEF Record
<1> QED BY <1>3, <1>4, <1>5, <1>6 DEF TestFinished, TestResults

LEMMA NextStart ==
  ASSUME VInv, handler' = handler, Inv', Import \/ \E r \in TestResults : BaselineFinished(r)
  PROVE  VInv'
<1>1. /\ pc \in {"import", "baseline"} /\ pc' \in {"baseline", "finalize", "model"}
      /\ UNCHANGED <<attempts, attempts_used, summary, raised>>
      /\ pc' = "baseline" => pc = "import" /\ status' = "IMPORTED" /\ baseline' = baseline
      /\ pc' = "finalize" => /\ status' \in {"TEST_ENVIRONMENT_ERROR", "TEST_TIMEOUT"}
                             /\ baseline' \in {"environment", "timeout"}
      /\ pc' = "model" => status' = "ANALYZING" /\ baseline' \in {"passed", "failed"}
  BY DEF Import, BaselineFinished, InfrastructureStatus, EnterAnalysis, Stop, repair, ending
<1>2. LedgerOK'
  BY <1>1, NoRecord DEF VInv, Waits
<1>3. attempts = << >> /\ summary = "none" /\ ~raised /\ (~handler => attempts_used = 0)
  BY <1>1 DEF VInv, EndOK, LedgerOK
<1>4. EndOK'
  BY <1>1, <1>3 DEF EndOK, Waits, TerminalStatuses
<1>5. VerdictEarned' /\ SummaryAgrees'
  BY <1>1, <1>3, NoVerdict DEF Verdicts
<1> QED BY <1>2, <1>4, <1>5 DEF VInv

LEMMA NextEnd ==
  ASSUME VInv, handler' = handler, Inv', Finalize \/ FinalizeRaises \/ Unexpected
  PROVE  VInv'
<1>1. pc' = "closed" /\ pc # "closed" /\ UNCHANGED <<attempts, attempts_used, baseline>>
  BY DEF Finalize, FinalizeRaises, Unexpected, repair, Waits
<1>2. summary = "none" /\ ~raised
  BY <1>1 DEF VInv, EndOK
<1>3. Numbers' = Numbers /\ Tested' = Tested /\ Ordered' = Ordered
  BY <1>1 DEF Numbers, Tested, Ordered
<1>4. LedgerOK'
  <2>1. CASE pc \in Waits
    <3>1. Unexpected /\ raised'
      BY <2>1 DEF Finalize, FinalizeRaises, Unexpected, Waits
    <3>2. Present - 1 = attempts_used \/ Present - 1 = attempts_used - 1
      BY BudgetAssumption DEF Present, VInv, Inv, TypeOK
    <3> QED BY <1>1, <1>3, <2>1, <3>1, <3>2 DEF VInv, LedgerOK, Waits
  <2>2. CASE pc \notin Waits
    BY <1>1, <1>2, <1>3, <2>2 DEF VInv, LedgerOK, Waits
  <2> QED BY <2>1, <2>2
<1>5. EndOK'
  BY <1>1 DEF VInv, EndOK, Waits
<1>6. status' = status \/ status' = "ERROR"
  BY DEF Finalize, FinalizeRaises, Unexpected
<1>7. VerdictEarned'
  BY <1>1, <1>6 DEF VInv, VerdictEarned
<1>8. SummaryAgrees'
  BY <1>1, <1>2 DEF VInv, EndOK, SummaryAgrees, Finalize, FinalizeRaises, Unexpected, repair,
                    BaselineEndedSession
<1> QED BY <1>4, <1>5, <1>7, <1>8 DEF VInv

\* Every step keeps the ledger, the verdict and the summary in order.
LEMMA VerdictNext == VInv /\ [Next]_vars => VInv'
<1> SUFFICES ASSUME VInv, [Next]_vars PROVE VInv'
  OBVIOUS
<1>1. Inv' /\ handler' = handler
  BY NextInv DEF VInv, Next, Terminated, vars
<1>2. CASE ModelReply
  BY <1>1, <1>2, NextReply
<1>3. CASE ExternalEdit \/ Terminated \/ UNCHANGED vars
  <2>1. UNCHANGED <<pc, status, attempts, attempts_used, baseline, summary, raised>>
    BY <1>3 DEF ExternalEdit, Terminated, vars, control, repair, ending
  <2> QED BY <1>1, <2>1 DEF VInv, LedgerOK, Ordered, Numbers, Tested, Present, EndOK,
      VerdictEarned, SummaryAgrees, BaselineEndedSession
<1> QED BY <1>1, <1>2, <1>3, NextStart, NextReview, NextApply, NextTests, NextEnd
        DEF Next, Controller

LEMMA VerdictAlways == Spec => []VInv
BY VerdictInit, VerdictNext, PTL DEF Spec

----------------------------------------------------------------------------
(* The theorems.                                                           *)

\* Success needs a failing baseline and a passing last attempt after failing
\* ones; FAILED_MAX_ATTEMPTS needs MaxAttempts failing ones.
THEOREM VerdictTheorem == Spec => []VerdictEarned
<1>1. VInv => VerdictEarned
  BY DEF VInv
<1> QED BY <1>1, VerdictAlways, PTL

\* Each applied patch has one tested record, in order.
THEOREM LedgerTheorem == Spec => []AttemptLedger
<1>1. VInv => AttemptLedger
  <2> SUFFICES ASSUME VInv PROVE AttemptLedger
    OBVIOUS
  <2>1. \/ Numbers = 1..attempts_used
        \/ (pc = "test" \/ raised) /\ Numbers = 1..(attempts_used - 1)
    <3>1. CASE pc \in Waits
      <4>1. pc # "test" => Present - 1 = attempts_used
        BY BudgetAssumption DEF Present, VInv, Inv, TypeOK
      <4> QED BY <3>1, <4>1 DEF VInv, LedgerOK, Present
    <3>2. CASE pc \notin Waits
      BY <3>2 DEF VInv, LedgerOK
    <3> QED BY <3>1, <3>2
  <2> QED BY <2>1 DEF VInv, LedgerOK, Ordered, Tested, Numbers, AttemptLedger
<1> QED BY <1>1, VerdictAlways, PTL

\* summary.json has the verdict of the session, with one exception.
THEOREM SummaryTheorem == Spec => []SummaryAgrees
<1>1. VInv => SummaryAgrees
  BY DEF VInv
<1> QED BY <1>1, VerdictAlways, PTL

\* Nothing is applied, recorded or judged again after a verdict.
THEOREM FinalTheorem == Spec => TerminalIsFinal
<1>1. VInv /\ [Next]_vars => [(status \in TerminalStatuses) => KeepsVerdict]_vars
  <2> SUFFICES ASSUME VInv, [Next]_vars, status \in TerminalStatuses PROVE KeepsVerdict
    OBVIOUS
  <2>1. pc \notin Waits
    BY DEF VInv, EndOK
  <2>2. Finalize \/ FinalizeRaises \/ ExternalEdit \/ Terminated \/ UNCHANGED vars
    BY <2>1 DEF Next, Controller, ModelReply, Waits, ToolCall,
       Import, BaselineFinished, MalformedReply, ProviderError, GeneralRead,
       GeneralReadDenied, RecoveryRead, OtherTool, EvidenceHardViolation,
       EvidenceAccepted, EvidenceCorrected, EvidenceNoProgress, Finish,
       ProposalBlocked, ProposalMalformed, ProposalRefused, PreflightRejects,
       PreflightAccepts, HandlerMissing, Reject, Approve, ApplySucceeds,
       ApplyFailsHard, ApplyMismatch, TestFinished, Unexpected
  <2> QED BY <2>2 DEF KeepsVerdict, Finalize, FinalizeRaises, ExternalEdit, Terminated, vars,
      control, reading, repair, review, BaselineEndedSession
<1> QED BY <1>1, VerdictAlways, PTL DEF Spec, TerminalIsFinal

\* Without an approval handler nothing is applied, recorded or written.
THEOREM FailClosedTheorem == Spec => FailClosed
<1>1. VInv /\ [Next]_vars =>
        [~handler => /\ attempts_used' = 0 /\ attempts' = << >>
                     /\ tree' = tree \/ ExternalEdit]_vars
  <2> SUFFICES ASSUME VInv, [Next]_vars, ~handler
               PROVE  attempts_used' = 0 /\ attempts' = << >> /\ (tree' = tree \/ ExternalEdit)
    OBVIOUS
  <2>1. VInv' /\ handler' = handler
    BY VerdictNext DEF Next, Terminated, vars
  <2>2. pc # "apply"
    BY DEF VInv, EndOK
  <2>3. tree' = tree \/ ExternalEdit
    <3>1. CASE ModelReply
      BY <3>1, ReplyStep
    <3> QED BY <2>2, <3>1 DEF Next, Controller, Terminated, vars, Import, BaselineFinished,
        HandlerMissing, Reject, Approve, ApplySucceeds, ApplyFailsHard, ApplyMismatch,
        TestFinished, Finalize, FinalizeRaises, Unexpected
  <2> QED BY <2>1, <2>3 DEF VInv, EndOK
<1> QED BY <1>1, VerdictAlways, PTL DEF Spec, FailClosed

----------------------------------------------------------------------------
(* With preflight on, what is under review fits the tree it is bound to.   *)

BoundFits ==
  pc \in {"approval", "apply"} => <<binding.patch, binding.tree>> \in DOMAIN Patched

LEMMA BoundFitsStep ==
  ASSUME PreflightEnabled, BoundFits, [Next]_vars
  PROVE  BoundFits'
<1> USE DEF BoundFits, control, loop, reading, repair, review, ending, Stop, Continue, ToolCall
<1>1. CASE \/ MalformedReply \/ ProviderError \/ GeneralReadDenied \/ OtherTool
           \/ EvidenceHardViolation \/ EvidenceAccepted \/ EvidenceCorrected
           \/ EvidenceNoProgress \/ Finish
           \/ ProposalBlocked \/ ProposalMalformed \/ ProposalRefused
           \/ \E ok \in BOOLEAN : GeneralRead(ok)
           \/ \E f \in Files, covers \in BOOLEAN : RecoveryRead(f, covers)
  BY <1>1 DEF FormatError, NoProgress, MalformedReply, ProviderError, GeneralReadDenied,
     OtherTool, EvidenceHardViolation, EvidenceAccepted, EvidenceCorrected, EvidenceNoProgress,
     Finish, ProposalBlocked, ProposalMalformed, ProposalRefused, GeneralRead, RecoveryRead
<1>2. CASE \E p \in Patches : PreflightRejects(p) \/ PreflightAccepts(p)
  BY <1>2 DEF PreflightRejects, PreflightAccepts, Fits
<1>3. CASE \/ Import \/ \E r \in TestResults : BaselineFinished(r)
           \/ HandlerMissing \/ Reject \/ \E p \in Patches : Approve(p)
           \/ ApplySucceeds \/ ApplyFailsHard \/ ApplyMismatch
           \/ \E r \in TestResults : TestFinished(r)
           \/ Finalize \/ FinalizeRaises \/ Unexpected \/ ExternalEdit
  BY <1>3 DEF Import, BaselineFinished, HandlerMissing, Reject, Approve, ApplySucceeds,
     ApplyFailsHard, ApplyMismatch, TestFinished, Finalize, FinalizeRaises, Unexpected,
     ExternalEdit, EnterAnalysis, InfrastructureStatus, PassingStatus
<1>4. CASE Terminated \/ UNCHANGED vars
  BY <1>4 DEF Terminated, vars
<1> QED BY <1>1, <1>2, <1>3, <1>4 DEF Next, Controller, ModelReply

\* A patch that was approved is not refused by the matcher afterwards, if
\* preflight is on and nobody writes between recheck and apply.
THEOREM RefusalTheorem ==
  ASSUME "apply" \notin EditPoints, PreflightEnabled
  PROVE  Spec => NothingRefusedAfterApproval
<1>1. Init => BoundFits
  BY DEF Init, BoundFits
<1>2. BoundFits /\ [Next]_vars => BoundFits'
  BY BoundFitsStep
<1>3. Inv /\ BindingOK /\ BoundFits /\ [Next]_vars =>
        [total_regen' > total_regen => pc = "model"]_vars
  <2> SUFFICES ASSUME Inv, BindingOK, BoundFits, [Next]_vars, total_regen' > total_regen
               PROVE  pc = "model"
    OBVIOUS
  <2>1. total_regen \in Nat /\ ~(total_regen > total_regen)
    BY DEF Inv, TypeOK
  <2>2. pc \in {"model", "apply"}
    BY <2>1, RegenerationStep
  <2>3. ASSUME pc = "apply" PROVE FALSE
    <3>1. Fits(proposal)
      BY <2>3 DEF BindingOK, BoundFits, Fits
    <3>2. total_regen' = total_regen
      BY <2>3, <3>1 DEF Next, Controller, ModelReply, Waits, ToolCall, repair, vars, Terminated,
         Import, BaselineFinished, MalformedReply, ProviderError, GeneralRead,
         GeneralReadDenied, RecoveryRead, OtherTool, EvidenceHardViolation,
         EvidenceAccepted, EvidenceCorrected, EvidenceNoProgress, Finish,
         ProposalBlocked, ProposalMalformed, ProposalRefused, PreflightRejects,
         PreflightAccepts, HandlerMissing, Reject, Approve, ApplySucceeds,
         ApplyFailsHard, ApplyMismatch, TestFinished, Finalize, FinalizeRaises,
         Unexpected, ExternalEdit
    <3> QED BY <2>1, <3>2
  <2> QED BY <2>2, <2>3
<1> QED BY <1>1, <1>2, <1>3, BindingAlways, PTL DEF Spec, NothingRefusedAfterApproval
=============================================================================
