------------------------------ MODULE Session ------------------------------
(***************************************************************************)
(* One repair session of TaskController (code_agent/controller.py): the    *)
(* analysis loop with its read, evidence, format and regeneration budgets, *)
(* the hash-bound human approval, the apply, the post-apply pytest, and    *)
(* the ways a session ends.                                                *)
(*                                                                         *)
(* The controller is sequential.  It waits on the test runner, the model,  *)
(* the human and the file system; `pc` names what it waits for, and one    *)
(* action is the whole stretch of code from one wait to the next.  The     *)
(* model's replies, the human's decisions, test results, I/O failures and  *)
(* edits of the working copy by somebody else are chosen by TLC.           *)
(***************************************************************************)
EXTENDS Naturals, Sequences, FiniteSets

CONSTANTS
  Files,            \* paths a failed patch may oblige the model to re-read
  Patches, NoPatch, \* unified diffs, by patch_hash
  Trees,            \* contents of working_copy, by working_tree_hash
  Patched,          \* <<patch, tree>> |-> the tree, where the exact matcher accepts
  MaxAttempts, MaxSteps, MaxReads, MaxEvidence, MaxCorrections,
  MaxFormatRetries, MaxRegenerations,
  Handlers,         \* whether an approval callback is supplied: both, or one case
  PreflightEnabled, \* FALSE only in the benchmark ablation
  EditPoints,       \* the waits during which others may edit working_copy
  RollbackMayFail   \* a failed apply may leave working_copy changed

ASSUME BudgetAssumption ==
  /\ MaxAttempts \in Nat \ {0} /\ MaxSteps \in Nat \ {0}
  /\ MaxReads \in Nat /\ MaxEvidence \in Nat /\ MaxCorrections \in Nat
  /\ MaxFormatRetries \in Nat /\ MaxRegenerations \in Nat

ASSUME DataAssumption ==
  /\ NoPatch \notin Patches
  /\ DOMAIN Patched \subseteq Patches \X Trees
  /\ \A d \in DOMAIN Patched : Patched[d] \in Trees

ASSUME ConfigAssumption ==
  /\ Handlers \subseteq BOOLEAN /\ PreflightEnabled \in BOOLEAN
  /\ RollbackMayFail \in BOOLEAN /\ "closed" \notin EditPoints

VARIABLES
  handler,           \* TaskController was given an approval callback
  pc,                \* what the controller waits for
  status,            \* session.status
  stop_reason,       \* session.stop_reason (none: the empty string)
  step,              \* index of the analysis loop
  format_retries,    \* consecutive_format_retries
  analysis_phase,    \* session.analysis_phase
  exploration_reads, \* exploration_read_actions_used
  evidence_used,     \* evidence_requests_used
  corrections_used,  \* evidence_parameter_corrections_used
  no_progress,       \* consecutive_no_progress_actions
  required_reads,    \* paths of session.required_reads
  attempts_used,
  attempts,          \* session.attempts: number and outcome of each record
  regen_retries,     \* consecutive_patch_regeneration_retries
  total_regen,       \* total_patch_regeneration_retries
  tree,              \* working_tree_hash of working_copy
  proposal,          \* session.current_proposal
  binding,           \* ApprovalBinding: the hashes under review
  baseline,          \* result of the baseline test run
  summary,           \* the status last written to summary.json
  raised             \* run() ended in an exception

control == <<pc, status, stop_reason>>
loop    == <<step, format_retries, analysis_phase>>
reading == <<exploration_reads, evidence_used, corrections_used, no_progress,
             required_reads>>
repair  == <<attempts_used, attempts, regen_retries, total_regen>>
review  == <<proposal, binding>>
ending  == <<summary, raised>>
vars    == <<handler, control, loop, reading, repair, tree, review, baseline, ending>>

Waits == {"import", "baseline", "model", "approval", "apply", "test"}
TestResults == {"passed", "failed", "environment", "timeout"}
TerminalStatuses ==
  {"SUCCEEDED", "TESTS_PASSED_UNVERIFIED", "FAILED_MAX_ATTEMPTS",
   "PATCH_NOT_APPLICABLE", "PATCH_BASE_CHANGED", "REJECTED",
   "TEST_ENVIRONMENT_ERROR", "TEST_TIMEOUT", "MODEL_OUTPUT_INVALID",
   "READ_BUDGET_EXHAUSTED", "ERROR"}
\* PATCH_PROPOSED and PATCH_APPLIED are overwritten before the next wait.
Statuses == TerminalStatuses \cup
  {"CREATED", "IMPORTED", "ANALYZING", "AWAITING_APPROVAL", "TESTING"}
StopReasons ==
  {"none", "synthesis_step_limit", "agent_finished_without_patch",
   "model_output_invalid", "synthesis_no_progress", "test_environment_error",
   "pytest_timeout", "tests_passed_unverified", "all_tests_passed", "llm_error",
   "evidence_hard_violation", "patch_not_applicable", "approval_handler_missing",
   "user_rejected_patch", "patch_base_changed", "patch_apply_failed",
   "max_patch_attempts_reached", "internal_error"}
Phases == {"EXPLORE", "SYNTHESIZE", "PROPOSE", "FINISH"}
AttemptRecords ==
  [attempt : 1..MaxAttempts,
   outcome : TestResults \cup {"rejected", "base_changed", "apply_failed"}]
Bindings == [patch : Patches \cup {NoPatch}, tree : Trees]

Init ==
  /\ handler \in Handlers
  /\ pc = "import" /\ status = "CREATED" /\ stop_reason = "none"
  /\ step = 0 /\ format_retries = 0 /\ analysis_phase = "EXPLORE"
  /\ exploration_reads = 0 /\ evidence_used = 0 /\ corrections_used = 0
  /\ no_progress = 0 /\ required_reads = {}
  /\ attempts_used = 0 /\ attempts = << >> /\ regen_retries = 0 /\ total_regen = 0
  /\ tree \in Trees /\ proposal = NoPatch
  /\ binding = [patch |-> NoPatch, tree |-> tree]
  /\ baseline = "none" /\ summary = "none" /\ raised = FALSE

----------------------------------------------------------------------------
(* Pieces shared by the handlers.                                          *)

\* A terminal status: every loop breaks and run() goes on to _finalize.
Stop(s, reason) == pc' = "finalize" /\ status' = s /\ stop_reason' = reason

\* Fault: the loop has no step limit.
ContinueForever(ph) == analysis_phase' = ph /\ UNCHANGED <<step, control>>

\* The model goes on in phase ph; after the last step the loop falls through
\* to the step limit.  Outside SYNTHESIZE that sets no terminal status, and
\* run() turns the missing binding into agent_finished_without_patch.
Continue(ph) ==
  /\ analysis_phase' = ph
  /\ \/ step + 1 < MaxSteps /\ step' = step + 1 /\ UNCHANGED control
     \/ /\ step + 1 >= MaxSteps /\ UNCHANGED step
        /\ IF ph = "SYNTHESIZE"
             THEN Stop("READ_BUDGET_EXHAUSTED", "synthesis_step_limit")
             ELSE Stop("ERROR", "agent_finished_without_patch")

\* Fault: a new analysis explores again.
EntryPhaseReopening(ph) == IF ph = "PROPOSE" THEN "EXPLORE" ELSE ph

\* Where a new _analyze_phase starts from phase ph.
EntryPhase(ph) ==
  IF ph = "PROPOSE" \/ (ph = "EXPLORE" /\ exploration_reads >= MaxReads)
    THEN "SYNTHESIZE" ELSE ph

EnterAnalysis ==
  /\ pc' = "model" /\ status' = "ANALYZING" /\ UNCHANGED stop_reason
  /\ step' = 0 /\ format_retries' = 0
  /\ analysis_phase' = EntryPhase(analysis_phase)

\* _handle_format_error, with `used` consecutive retries before it.
FormatError(used, ph) ==
  \/ /\ used >= MaxFormatRetries
     /\ format_retries' = used /\ analysis_phase' = ph /\ UNCHANGED step
     /\ Stop("MODEL_OUTPUT_INVALID", "model_output_invalid")
  \/ used < MaxFormatRetries /\ format_retries' = used + 1 /\ Continue(ph)

\* Fault: the second no-progress action is not noticed.
NoProgressUncounted == no_progress' = no_progress + 1 /\ Continue(analysis_phase)

NoProgress ==
  /\ no_progress' = no_progress + 1
  /\ \/ no_progress + 1 < 2 /\ Continue(analysis_phase)
     \/ /\ no_progress + 1 >= 2 /\ UNCHANGED <<step, analysis_phase>>
        /\ Stop("READ_BUDGET_EXHAUSTED", "synthesis_no_progress")

\* A schema-valid reply resets the consecutive format retries.
ToolCall == pc = "model" /\ format_retries' = 0

\* apply_hunks_to_text is a pure function: preflight and apply agree on it.
Fits(p) == <<p, tree>> \in DOMAIN Patched

\* Fault: proposals do not wait for the required read.
GateOpen == TRUE

GateClear == required_reads = {}
\* Fault: one regeneration too many.
RegenerationOverrun == regen_retries > MaxRegenerations
RegenerationExhausted == regen_retries >= MaxRegenerations
ConsumeRegeneration ==
  /\ regen_retries' = regen_retries + 1 /\ total_regen' = total_regen + 1

\* A failure names a file and a region, or nothing to re-read.
RequireRead ==
  \/ UNCHANGED required_reads
  \/ \E f \in Files : required_reads' = required_reads \cup {f}

\* Fault: only the patch hash is rechecked.
PatchChanged(p) == p # binding.patch

\* The recheck between approval and apply.
Stale(p) == tree # binding.tree \/ p # binding.patch

\* Fault: an attempt whose tests fail leaves no record.
RecordUnlessFailed(n, outcome) ==
  attempts' = IF outcome = "failed" THEN attempts
              ELSE Append(attempts, [attempt |-> n, outcome |-> outcome])

Record(n, outcome) ==
  attempts' = Append(attempts, [attempt |-> n, outcome |-> outcome])

\* A pytest run cut short by Docker or by the clock ends the session.
InfrastructureStatus(result) ==
  IF result = "timeout" THEN Stop("TEST_TIMEOUT", "pytest_timeout")
                        ELSE Stop("TEST_ENVIRONMENT_ERROR", "test_environment_error")

\* Fault: a green baseline counts as an oracle.
PassingStatusUnqualified == Stop("SUCCEEDED", "all_tests_passed")

PassingStatus ==
  IF baseline = "passed"
    THEN Stop("TESTS_PASSED_UNVERIFIED", "tests_passed_unverified")
    ELSE Stop("SUCCEEDED", "all_tests_passed")

----------------------------------------------------------------------------
(* Before the analysis loop.                                               *)

\* Repository map and baseline snapshot are written.
Import ==
  /\ pc = "import" /\ pc' = "baseline" /\ status' = "IMPORTED"
  /\ UNCHANGED <<stop_reason, loop, reading, repair, tree, review, baseline, ending>>

BaselineFinished(result) ==
  /\ pc = "baseline" /\ baseline' = result
  /\ \/ /\ result \in {"environment", "timeout"}
        /\ InfrastructureStatus(result) /\ UNCHANGED loop
     \/ result \in {"passed", "failed"} /\ EnterAnalysis
  /\ UNCHANGED <<reading, repair, tree, review, ending>>

----------------------------------------------------------------------------
(* Replies of the model.                                                   *)

\* ModelOutputError: the reply is no schema-valid tool call.
MalformedReply ==
  /\ pc = "model" /\ FormatError(format_retries, analysis_phase)
  /\ UNCHANGED <<reading, repair, tree, review, baseline, ending>>

ProviderError ==
  /\ pc = "model" /\ Stop("ERROR", "llm_error")
  /\ UNCHANGED <<loop, reading, repair, tree, review, baseline, ending>>

\* list_tree, read_file outside the required paths, search_*, get_repo_map.
\* The action is charged before it runs; only a successful one (`ok`) that
\* spends the last of the budget closes exploration.
GeneralReadOpen == analysis_phase = "EXPLORE" /\ exploration_reads < MaxReads

GeneralRead(ok) ==
  /\ ToolCall /\ GeneralReadOpen
  /\ exploration_reads' = exploration_reads + 1
  /\ Continue(IF ok /\ exploration_reads + 1 >= MaxReads
                THEN "SYNTHESIZE" ELSE "EXPLORE")
  /\ UNCHANGED <<evidence_used, corrections_used, no_progress, required_reads,
                 repair, tree, review, baseline, ending>>

\* ReadBudgetExceeded.
GeneralReadDenied ==
  /\ ToolCall /\ ~GeneralReadOpen /\ NoProgress
  /\ UNCHANGED <<exploration_reads, evidence_used, corrections_used, required_reads,
                 repair, tree, review, baseline, ending>>

\* read_file on a required path is never charged; covering the required
\* range clears it.  A failed or partial read leaves it required.
RecoveryRead(f, covers) ==
  /\ ToolCall /\ f \in required_reads
  /\ required_reads' = IF covers THEN required_reads \ {f} ELSE required_reads
  /\ Continue(IF covers /\ analysis_phase = "EXPLORE" /\ exploration_reads >= MaxReads
                THEN "SYNTHESIZE" ELSE analysis_phase)
  /\ UNCHANGED <<exploration_reads, evidence_used, corrections_used, no_progress,
                 repair, tree, review, baseline, ending>>

\* get_current_diff and unknown tools.
OtherTool ==
  /\ ToolCall /\ Continue(analysis_phase)
  /\ UNCHANGED <<reading, repair, tree, review, baseline, ending>>

EvidenceOpen == analysis_phase = "SYNTHESIZE" /\ evidence_used < MaxEvidence

EvidenceHardViolation ==
  /\ ToolCall /\ ~EvidenceOpen
  /\ Stop("READ_BUDGET_EXHAUSTED", "evidence_hard_violation")
  /\ UNCHANGED <<step, analysis_phase, reading, repair, tree, review, baseline, ending>>

EvidenceAccepted ==
  /\ ToolCall /\ EvidenceOpen
  /\ evidence_used' = evidence_used + 1 /\ no_progress' = 0
  /\ Continue("SYNTHESIZE")
  /\ UNCHANGED <<exploration_reads, corrections_used, required_reads,
                 repair, tree, review, baseline, ending>>

\* The first parameter error is forgiven.
EvidenceCorrected ==
  /\ ToolCall /\ EvidenceOpen /\ corrections_used < MaxCorrections
  /\ corrections_used' = corrections_used + 1 /\ Continue("SYNTHESIZE")
  /\ UNCHANGED <<exploration_reads, evidence_used, no_progress, required_reads,
                 repair, tree, review, baseline, ending>>

\* A later parameter error, or a range an earlier read already covered.
EvidenceNoProgress ==
  /\ ToolCall /\ EvidenceOpen /\ NoProgress
  /\ UNCHANGED <<exploration_reads, evidence_used, corrections_used, required_reads,
                 repair, tree, review, baseline, ending>>

Finish ==
  /\ ToolCall /\ analysis_phase' = "FINISH"
  /\ Stop("ERROR", "agent_finished_without_patch")
  /\ UNCHANGED <<step, reading, repair, tree, review, baseline, ending>>

----------------------------------------------------------------------------
(* Proposals.  Each one resets no_progress before anything is looked at.   *)

\* REQUIRED_READ_MISSING: the phase stays PROPOSE.
ProposalBlocked ==
  /\ ToolCall /\ ~GateClear
  /\ no_progress' = 0 /\ Continue("PROPOSE")
  /\ UNCHANGED <<exploration_reads, evidence_used, corrections_used, required_reads,
                 repair, tree, review, baseline, ending>>

\* The arguments violate the proposal schema: a format error counted from 0,
\* because the tool call itself was valid.
ProposalMalformed ==
  /\ pc = "model" /\ GateClear
  /\ no_progress' = 0 /\ FormatError(0, "SYNTHESIZE")
  /\ UNCHANGED <<exploration_reads, evidence_used, corrections_used, required_reads,
                 repair, tree, review, baseline, ending>>

\* StructuredEditError or a policy violation.
ProposalRefused ==
  /\ ToolCall /\ GateClear
  /\ no_progress' = 0 /\ Continue("SYNTHESIZE")
  /\ UNCHANGED <<exploration_reads, evidence_used, corrections_used, required_reads,
                 repair, tree, review, baseline, ending>>

PreflightRejects(p) ==
  /\ ToolCall /\ GateClear /\ PreflightEnabled /\ ~Fits(p)
  /\ proposal' = p /\ no_progress' = 0
  /\ \/ /\ RegenerationExhausted
        /\ Stop("PATCH_NOT_APPLICABLE", "patch_not_applicable")
        /\ analysis_phase' = "PROPOSE"
        /\ UNCHANGED <<step, required_reads, regen_retries, total_regen>>
     \/ /\ ~RegenerationExhausted
        /\ RequireRead /\ ConsumeRegeneration /\ Continue("SYNTHESIZE")
  /\ UNCHANGED <<exploration_reads, evidence_used, corrections_used,
                 attempts_used, attempts, tree, binding, baseline, ending>>

\* Fault: the patch is shown without a simulated apply.
PreflightSkipped(p) ==
  /\ ToolCall /\ GateClear
  /\ proposal' = p /\ binding' = [patch |-> p, tree |-> tree]
  /\ no_progress' = 0 /\ analysis_phase' = "PROPOSE"
  /\ pc' = "approval" /\ status' = "AWAITING_APPROVAL"
  /\ UNCHANGED <<stop_reason, step, exploration_reads, evidence_used, corrections_used,
                 required_reads, repair, tree, baseline, ending>>

\* The patch is bound to the tree it was simulated on and shown to the human.
PreflightAccepts(p) ==
  /\ ToolCall /\ GateClear /\ (PreflightEnabled => Fits(p))
  /\ proposal' = p /\ binding' = [patch |-> p, tree |-> tree]
  /\ no_progress' = 0 /\ analysis_phase' = "PROPOSE"
  /\ pc' = "approval" /\ status' = "AWAITING_APPROVAL"
  /\ UNCHANGED <<stop_reason, step, exploration_reads, evidence_used, corrections_used,
                 required_reads, repair, tree, baseline, ending>>

----------------------------------------------------------------------------
(* Approval, apply, test.                                                  *)

HandlerMissing ==
  /\ pc = "approval" /\ ~handler
  /\ Stop("REJECTED", "approval_handler_missing")
  /\ UNCHANGED <<loop, reading, repair, tree, review, baseline, ending>>

Reject ==
  /\ pc = "approval" /\ handler
  /\ Record(attempts_used + 1, "rejected") /\ Stop("REJECTED", "user_rejected_patch")
  /\ UNCHANGED <<loop, reading, attempts_used, regen_retries, total_regen, tree,
                 review, baseline, ending>>

\* Fault: a missing handler is an approval.
ApproveByDefault(p) ==
  /\ pc = "approval" /\ proposal' = p
  /\ pc' = "apply" /\ UNCHANGED <<status, stop_reason, attempts>>
  /\ UNCHANGED <<loop, reading, attempts_used, regen_retries, total_regen, tree,
                 binding, baseline, ending>>

\* The callback holds the proposal object and may hand back another diff (p).
Approve(p) ==
  /\ pc = "approval" /\ handler /\ proposal' = p
  /\ \/ /\ Stale(p)
        /\ Record(attempts_used + 1, "base_changed")
        /\ Stop("PATCH_BASE_CHANGED", "patch_base_changed")
     \/ /\ ~Stale(p)
        /\ pc' = "apply" /\ UNCHANGED <<status, stop_reason, attempts>>
  /\ UNCHANGED <<loop, reading, attempts_used, regen_retries, total_regen, tree,
                 binding, baseline, ending>>

\* The attempt is charged and the tests start.
ApplySucceeds ==
  /\ pc = "apply" /\ Fits(proposal)
  /\ tree' = Patched[<<proposal, tree>>]
  /\ attempts_used' = attempts_used + 1 /\ regen_retries' = 0
  /\ pc' = "test" /\ status' = "TESTING"
  /\ UNCHANGED <<stop_reason, loop, reading, attempts, total_regen, review,
                 baseline, ending>>

RolledBack == tree' = tree \/ (RollbackMayFail /\ tree' \in Trees)

\* I/O or permission failure, or the policy rejects the changed tree.
ApplyFailsHard ==
  /\ pc = "apply" /\ RolledBack
  /\ Record(attempts_used + 1, "apply_failed") /\ Stop("ERROR", "patch_apply_failed")
  /\ UNCHANGED <<loop, reading, attempts_used, regen_retries, total_regen, review,
                 baseline, ending>>

\* The exact matcher refuses the patch at apply time.
ApplyMismatch ==
  /\ pc = "apply" /\ ~Fits(proposal) /\ RolledBack
  /\ Record(attempts_used + 1, "apply_failed")
  /\ \/ /\ RegenerationExhausted
        /\ Stop("PATCH_NOT_APPLICABLE", "patch_not_applicable")
        /\ UNCHANGED <<loop, required_reads, regen_retries, total_regen>>
     \/ ~RegenerationExhausted /\ RequireRead /\ ConsumeRegeneration /\ EnterAnalysis
  /\ UNCHANGED <<exploration_reads, evidence_used, corrections_used, no_progress,
                 attempts_used, review, baseline, ending>>

TestFinished(result) ==
  /\ pc = "test" /\ Record(attempts_used, result) /\ regen_retries' = 0
  /\ \/ result \in {"environment", "timeout"} /\ InfrastructureStatus(result) /\ UNCHANGED loop
     \/ result = "passed" /\ PassingStatus /\ UNCHANGED loop
     \/ /\ result = "failed" /\ attempts_used >= MaxAttempts
        /\ Stop("FAILED_MAX_ATTEMPTS", "max_patch_attempts_reached") /\ UNCHANGED loop
     \/ result = "failed" /\ attempts_used < MaxAttempts /\ EnterAnalysis
  /\ UNCHANGED <<reading, attempts_used, total_regen, tree, review, baseline, ending>>

----------------------------------------------------------------------------
(* The end of a session.                                                   *)

Finalize ==
  /\ pc = "finalize" /\ pc' = "closed" /\ summary' = status
  /\ UNCHANGED <<status, stop_reason, loop, reading, repair, tree, review, baseline,
                 raised>>

\* Any other exception inside run()'s try block.  Writing the artifacts may
\* fail in turn.
Unexpected ==
  /\ pc \in Waits
  /\ pc' = "closed" /\ status' = "ERROR" /\ stop_reason' = "internal_error"
  /\ summary' \in {summary, "ERROR"} /\ raised' = TRUE
  /\ UNCHANGED <<loop, reading, repair, tree, review, baseline>>

\* _finalize raises before or after summary.json is written.  After a baseline
\* that hit the infrastructure the call sits inside the try block, whose
\* handler overwrites the status.
\* Fault: every _finalize call sits inside the try block.
FinalizeInsideTry == TRUE
BaselineEndedSession == baseline \in {"environment", "timeout"}

FinalizeRaises ==
  /\ pc = "finalize" /\ pc' = "closed" /\ raised' = TRUE
  /\ \/ /\ BaselineEndedSession
        /\ status' = "ERROR" /\ stop_reason' = "internal_error"
        /\ summary' \in {summary, status, "ERROR"}
     \/ /\ ~BaselineEndedSession
        /\ UNCHANGED <<status, stop_reason>> /\ summary' \in {summary, status}
  /\ UNCHANGED <<loop, reading, repair, tree, review, baseline>>

----------------------------------------------------------------------------
ModelReply ==
  \/ MalformedReply \/ ProviderError \/ GeneralReadDenied \/ OtherTool
  \/ EvidenceHardViolation \/ EvidenceAccepted \/ EvidenceCorrected
  \/ EvidenceNoProgress \/ Finish
  \/ ProposalBlocked \/ ProposalMalformed \/ ProposalRefused
  \/ \E ok \in BOOLEAN : GeneralRead(ok)
  \/ \E f \in Files, covers \in BOOLEAN : RecoveryRead(f, covers)
  \/ \E p \in Patches : PreflightRejects(p) \/ PreflightAccepts(p)

Controller ==
  \/ Import \/ \E r \in TestResults : BaselineFinished(r)
  \/ ModelReply
  \/ HandlerMissing \/ Reject \/ \E p \in Patches : Approve(p)
  \/ ApplySucceeds \/ ApplyFailsHard \/ ApplyMismatch
  \/ \E r \in TestResults : TestFinished(r)
  \/ Finalize \/ FinalizeRaises \/ Unexpected

\* Somebody else writes into working_copy.
ExternalEdit ==
  /\ pc \in EditPoints
  /\ tree' \in Trees \ {tree}
  /\ UNCHANGED <<control, loop, reading, repair, review, baseline, ending>>

\* run() has returned or raised.
Terminated == pc = "closed" /\ UNCHANGED vars

Next ==
  \/ (Controller \/ ExternalEdit) /\ UNCHANGED handler
  \/ Terminated

\* The controller is one thread, and each call it waits for returns: the model
\* and Docker have timeouts, the approval callback is the caller's.
Fairness == WF_vars(Controller /\ UNCHANGED handler)

Spec == Init /\ [][Next]_vars /\ Fairness

----------------------------------------------------------------------------
(* Properties.                                                             *)

\* Every variable stays in its range and every budget within its bound.
TypeOK ==
  /\ handler \in BOOLEAN
  /\ pc \in Waits \cup {"finalize", "closed"} /\ status \in Statuses
  /\ stop_reason \in StopReasons
  /\ step \in 0..(MaxSteps - 1) /\ format_retries \in 0..MaxFormatRetries
  /\ analysis_phase \in Phases
  /\ exploration_reads \in 0..MaxReads /\ evidence_used \in 0..MaxEvidence
  /\ corrections_used \in 0..MaxCorrections /\ no_progress \in 0..2
  /\ required_reads \in SUBSET Files
  /\ attempts_used \in 0..MaxAttempts
  /\ attempts \in Seq(AttemptRecords)
  /\ regen_retries \in 0..MaxRegenerations /\ total_regen \in Nat
  /\ tree \in Trees /\ proposal \in Patches \cup {NoPatch}
  /\ binding \in Bindings
  /\ baseline \in TestResults \cup {"none"}
  /\ summary \in Statuses \cup {"none"} /\ raised \in BOOLEAN

\* The stale-context gate: whatever mixture of failed preflights, failed
\* applies, partial reads and blocked proposals led there, no patch is under
\* review, being applied or being tested while a mandated read is missing; at
\* most one file is ever mandated, and only while regenerating, after
\* exploration (controller.py, required_reads).
GateHeld ==
  /\ pc \in {"approval", "apply", "test"} => required_reads = {}
  /\ Cardinality(required_reads) <= 1
  /\ required_reads # {} => regen_retries > 0 /\ analysis_phase # "EXPLORE"

\* The regeneration budget is per applied patch: however often preflight and
\* apply alternate, the session asks for at most MaxRegenerations new patches
\* between two successful applies (_consume_regeneration and the resets in run).
RegenerationWindow ==
  total_regen <= MaxRegenerations * attempts_used + regen_retries

\* A verdict is earned: SUCCEEDED needs a failing baseline and a last attempt
\* that passed, after earlier ones that all failed; a green baseline never
\* yields SUCCEEDED; FAILED_MAX_ATTEMPTS means that every attempt was applied,
\* tested and failed (VerificationPolicy and the end of run's loop).
VerdictEarned ==
  LET tested == {i \in DOMAIN attempts : attempts[i].outcome \in TestResults}
      numbers == {attempts[i].attempt : i \in tested}
      last == Len(attempts)
  IN /\ status \in {"SUCCEEDED", "TESTS_PASSED_UNVERIFIED"} =>
          /\ last \in tested
          /\ attempts[last] = [attempt |-> attempts_used, outcome |-> "passed"]
          /\ numbers = 1..attempts_used
          /\ \A i \in tested \ {last} : attempts[i].outcome = "failed"
          /\ baseline = IF status = "SUCCEEDED" THEN "failed" ELSE "passed"
     /\ status = "FAILED_MAX_ATTEMPTS" =>
          numbers = 1..MaxAttempts /\ \A i \in tested : attempts[i].outcome = "failed"

\* session.attempts is a complete ledger: each applied patch has one tested
\* record, the one under test excepted (an exception during the tests loses
\* it); a number repeats only after a failed apply.
AttemptLedger ==
  LET tested == {i \in DOMAIN attempts : attempts[i].outcome \in TestResults}
      numbers == {attempts[i].attempt : i \in tested}
  IN /\ \/ numbers = 1..attempts_used
        \/ (pc = "test" \/ raised) /\ numbers = 1..(attempts_used - 1)
     /\ \A i, j \in DOMAIN attempts : i < j =>
          \/ attempts[i].attempt < attempts[j].attempt
          \/ /\ attempts[i].attempt = attempts[j].attempt
             /\ attempts[i].outcome = "apply_failed"

\* What is applied is what was approved: when a patch is written, it is the
\* diff the human saw, and working_copy has the hash it had then
\* (controller.py, recheck of the approval binding before apply).  Nothing looks
\* at the tree again between the recheck and the apply.
AppliedIsReviewed ==
  [][attempts_used' > attempts_used =>
       handler /\ proposal = binding.patch /\ tree = binding.tree]_vars

\* The session implements the promise of ApprovedRepair.
Repair == INSTANCE ApprovedRepair WITH
  approved <- IF pc = "apply" THEN {binding} ELSE {},
  writes <- attempts_used, over <- (pc = "closed"), MaxWrites <- MaxAttempts

\* working_copy is written only by approved patches, on the tree they were
\* approved for, with their exact result, at most MaxAttempts times and never
\* after the end of the session, provided that nobody else writes between the
\* recheck and the apply and that rollbacks succeed.
ImplementsApprovedRepair == Repair!Spec

\* The exact matcher never refuses a patch the human approved: with preflight
\* on and nobody writing between recheck and apply, regeneration is only ever
\* requested before approval.
NothingRefusedAfterApproval ==
  [][total_regen' > total_regen => pc = "model"]_vars

\* Exploration never reopens: once the session has left EXPLORE no failed
\* apply, failed test or accepted evidence returns to it, and no general
\* inspection is charged any more.
ExplorationStaysClosed ==
  [][analysis_phase # "EXPLORE" =>
       analysis_phase' # "EXPLORE" /\ exploration_reads' = exploration_reads]_vars

\* A terminal status is final: nothing is applied, recorded or re-judged after
\* it, save that an artifact failure after a baseline that hit the
\* infrastructure is reported as ERROR.
KeepsVerdict ==
  /\ UNCHANGED <<attempts_used, attempts, proposal, binding, required_reads>>
  /\ \/ UNCHANGED <<status, stop_reason>>
     \/ raised' /\ baseline \in {"environment", "timeout"}
TerminalIsFinal == [][(status \in TerminalStatuses) => KeepsVerdict]_vars

\* summary.json never claims another verdict than the session's, with the one
\* exception of the previous property.
SummaryAgrees ==
  \/ summary \in {"none", status}
  \/ /\ raised /\ status = "ERROR" /\ attempts = << >>
     /\ summary \in {"TEST_ENVIRONMENT_ERROR", "TEST_TIMEOUT"}

\* Without an approval handler nothing is ever applied or recorded, and only
\* others change working_copy (ApprovalGate.decide).
FailClosed ==
  [][~handler => /\ attempts_used' = 0 /\ attempts' = << >>
                 /\ tree' = tree \/ ExternalEdit]_vars

\* Every session ends: the budgets bound the analysis loop, the regenerations
\* and the attempts together.
SessionEnds == <>(pc = "closed")
=============================================================================
