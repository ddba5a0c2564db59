# SafePatch in TLA+

SafePatch (`code_agent/`) repairs a Python repository with a language model
that may only look through a few read tools and propose patches. A controller
copies the repository, runs the tests once, lets the model explore within
budgets, checks each proposed patch by policy and by a simulated apply
(*preflight*), shows it to a human, applies it only if neither the patch nor
the tree has changed since, and runs the tests again. This directory models
that program in TLA+, checks it with TLC on small instances, and proves its
central properties with TLAPS for every value of the constants.

Paths below are relative to `src/`; line numbers refer to the commit the
project was written for. `PROJECT.json` maps each definition to its lines.

## 1. The system

| Component | State it keeps | Operations | Hard behaviour | What makes it correct |
|---|---|---|---|---|
| Session controller (`controller.py`, `state.py`, `workflow.py`) | `TaskSession`: status, stop reason, phase, seven budgets, required reads, attempts, proposal, binding | `run`, `_baseline_phase`, `_analyze_phase`, `_handle_evidence_error`, `_run_preflight`, `_handle_format_error`, `_finalize` | three nested loops whose counters are reset at different places; decisions taken on hashes that may be stale; exceptions at every wait | gate, budgets, ledger and verdict agree on every path; every session ends |
| Approval (`ApprovalBinding`, `ApprovalGate`, `hashes.py`) | the pair of hashes under review | `decide`, recheck before apply | others edit `working_copy` or the proposal while the human thinks | what is applied is what was shown; no handler means no patch |
| Patch apply and preflight (`patching/applier.py`, `patching/preflight.py`) | backups, created files, `ApplyResult` | `PatchPreflight.run`, `apply_proposal`, `_rollback` | several files, each read or write may fail; rollback may fail as well | all or nothing, but for a torn new file; the rollback flag is honest |
| Hunk engine (`patching/hunk_engine.py`) | none | `split_file_diffs`, `parse_hunks`, `apply_hunks_to_text` | relocation, overlapping and empty hunks, ends of files | exact: no fuzzy match, no choice between matches |
| Structured edits (`patching/structured_edit.py`) | none | `build_structured_proposal` | several edits to one file, newline conventions | each old text occurs exactly once; revision recorded |
| Policy (`patching/validator.py`, `patching/test_integrity.py`) | none | `validate_proposal`, `check_test_integrity` | many text heuristics | one section a file, only `.py`, no tampering with tests |
| Model protocol (`llm.py`, `patching/proposal.py`) | token usage | `complete`, `parse_tool_call`, `parse_proposal` | malformed replies and provider errors at any time | format retries are bounded; every reply is classified |
| Read tools and evidence (`tools/`) | read budget, read ranges | `execute_tool`, `execute_request_evidence`, `record_successful_read_range` | charging order, what counts as already read, ranges that go stale | budgets are never exceeded, evidence only outside what was read |
| Docker runner (`runtime/`) | container name, disposable copy | `run_pytest`, `_force_remove_container`, `_remove_disposable_test_copy` | timeouts, a container that outlives its client, failing cleanup | `working_copy` untouched; a failure of the infrastructure is not a verdict |
| Workspace (`repository/workspace.py`) | session directory | `import_repository`, `safe_resolve` | the source changes between measuring and copying | caps hold for the copy; paths stay inside |
| Map, search, diff (`repository/`) | none | read-only text processing | none | none that drives a decision |
| Hidden evaluation (`eval/`) | a temporary copy | `evaluate_after_product`, `run_hidden_tests` | runs after the session, on copies, with failing cleanup | hidden tests never reach the session; the product is not changed |
| Observability, tracing (`state.py`, `tracing/`) | counters, JSON lines | `record_call_usage`, `emit` | counters updated before a call that may fail | totals are complete or say that they are not |
| Command line (`cli.py`, `envfile.py`) | none | `main`, `_prompt_approval` | mapping of statuses to exit codes | one code per kind of end |
| Preflight ablation (`examples/real_bug_benchmark/run_preflight_ablation.py`, `publish_`, `verify_preflight_ablation.py`) | `ablation_index.json`, the published bundle | `build_schedule`, `run_campaign`, `publish`, `verify` | dies and is resumed; the repository changes in between; publications that stop halfway | each slot counted once, limits kept, one repository state, a bundle that verifies is whole |
| Benchmark drivers (`examples/llm_benchmark/run_deepseek_pilot.py`, `run_deepseek_canary.py`, `run_full12_x3.py`, `metrics_lib.py`) | rows, freeze record, index | `record_freeze`, `run_one`, `verify_freeze`, rerun and index | reruns, inconsistent summaries, files that change during hours | a success is earned, the first run counts, drift is noticed |

The controller is one thread. It calls the other components and waits for
them: there are no messages between program parts, and a session is never
resumed. Concurrency comes from outside: the human, the model, Docker and its
containers, the file system, and any other process that writes into
`working_copy` or the repository. Above the sessions, a hidden evaluation may
be started again in the same directory after it died, and an ablation campaign
is resumed from its index; a run of the benchmark drivers is not.

### Hazards

`PROJECT.json` lists them at their lines. The main ones: decisions taken on
stale hashes (`controller.py:195`), the recheck and the apply as two steps
(`controller.py:218`), the stale-context gate under mixtures of failures
(`controller.py:548`), counters reset in several places (`controller.py:301`,
`:687`), charged tools that fail (`controller.py:734`), records lost to
exceptions (`controller.py:371`), multi-file apply with failing writes and
rollbacks (`applier.py:163-254`), the arithmetic of hunk placement
(`hunk_engine.py:270`), a container that outlives its client
(`docker_pytest.py:147`), leftovers of an evaluation that died
(`hidden.py:127`), a campaign that dies before its row is saved
(`run_preflight_ablation.py:338`), and reruns that must not replace a first
result (`run_deepseek_pilot.py:877`).

## 2. Modules

| Module | Role |
|---|---|
| `ApprovedRepair` | the abstract promise about `working_copy`: the program changes it only by the exact result of a patch approved for that very tree, once per approval, at most `MaxWrites` times, never after the end |
| `Session` | one session of the controller, an apply being one step |
| `PatchApply` | preflight, recheck, apply and rollback, file by file |
| `ReadLedger` | extends `Session` with line ranges: what a read returns, what is charged for it, what counts as already read, what a failure mandates |
| `HunkEngine` | the matcher: placement, relocation, refusal and splicing of hunks in real texts |
| `StructuredEdit` | composes `HunkEngine` with the edits of `propose_edit` and the diff made of them |
| `DockerRun` | one call of `run_pytest` after the other, with their copies and containers |
| `HiddenEval` | composes `DockerRun` with a session's test runs and with the hidden evaluation after it |
| `Ablation` | the resumable comparison campaign, its index, publication and verification |
| `Campaign` | the three benchmark drivers and their labels |
| `MCSession`, `MCPatchApply`, `MCReadLedger`, `MCStructuredEdit`, `MCHiddenEval`, `MCAblation`, `MCCampaign` | constants for TLC |
| `SessionProofs`, `PatchApplyProofs`, `ReadLedgerProofs`, `HunkEngineProofs`, `StructuredEditProofs`, `HiddenEvalProofs`, `AblationProofs`, `CampaignProofs` | theorems |

`Session` and `PatchApply` describe the same system at two grains and both
implement `ApprovedRepair`. `Session` has the whole control of the loop and
takes the file system as one tree with a partial function `Patched`;
`PatchApply` has the files and the failures of every read and write and leaves
the budgets of the analysis loop out. `ReadLedger` refines `Session` by
extension: each of its actions is an action of `Session` conjoined with its
effect on the ledger, and the choices `Session` leaves open (does this read
cover the mandated range, does it succeed, was this evidence read before)
are computed from the arguments. `HunkEngine` is what `Patched` and `Edited`
stand for in the modules above it.

### Session

`pc` names what the controller waits for; an action is the stretch of code
from one wait to the next, with every state change on the way.

| `pc` | waits for | code |
|---|---|---|
| `import` | repository map and snapshot | `controller.py:400-418` |
| `baseline` | first test run | `:420-446` |
| `model` | a reply | `:448-780` |
| `approval` | the callback | `:153-192` |
| `apply` | `apply_proposal` | `:218-330` |
| `test` | test run after a patch | `:331-369` |
| `finalize` | artifacts | `:1250-1297` |
| `closed` | nothing: `run()` returned or raised | `:371-381` |

The actions of `ModelReply` are the branches of `_analyze_phase`: malformed
replies, provider errors, general reads (charged before they run, so failed
ones too), denied reads, recovery reads, evidence requests (accepted,
corrected, no progress, hard violation), `finish`, and proposals (blocked by
the gate, malformed, refused by policy, rejected or accepted by preflight).
`Continue` is the end of the `for` loop: the next step, or the step limit.
Texts are model values: a tree is an element of `Trees`, a patch one of
`Patches`, and `Patched[<<p, t>>]` is defined where the exact matcher accepts.
That preflight and apply agree on this function is not an assumption about two
algorithms: both call `apply_hunks_to_text`.

`required_reads` keeps the paths; the covering test of line ranges is the
Boolean `covers` that TLC chooses, and `ReadLedger` computes. `"none"` stands
for the empty stop reason. The suffix of `patch_apply_<kind>` stop reasons is
left out. `handler`, whether there is an approval callback, is part of the
state so that one run has both.

### PatchApply

`pc` walks through `idle`, `preflight`, `approval`, `validate`, `revisions`,
`section`, `rollback`, `done`. Each file section is one step in preflight, in
the apply and in the rollback. `disk` is `working_copy`; `Torn` is what a
failed write leaves; `Edited[<<patch, section, old text>>]` is the exact
matcher. Backups and created files are the two collections of `apply_proposal`
with its order: a backup is taken before the match, a new file is remembered
only after its write. `Original` is the tree a rollback of this moment would
bring back; the refinement maps the abstract tree to it.

Left out: directories made for new files (no hash sees them), the read range a
failure suggests (in `ReadLedger`), regeneration budgets (in `Session`).

### ReadLedger

| State | Code |
|---|---|
| `region` | `session.required_reads`, a range for each required path |
| `ranges` | `session.successful_read_ranges` |
| `read_actions`, `recovery_reads` | `read_actions_used`, `required_recovery_reads_used` |
| `shown`, `owed` | history: the lines, of which text, that a result contained; the lines mandated in the present text and not returned since |

A text is its number of lines, `Length[<<path, tree>>]`. `Readable`,
`LastLine` and `Returned` are `read_file`; `Covers` is the controller's test on
the arguments, `Covered` that of `request_evidence`; `Suggested`, `HeadOfFile`
and `Centered` are the three ways a failure mandates a range. `Open` is a
missing `end_line`. `Elsewhere` gathers the handlers that neither read nor
mandate. Reads of other paths, unparsable arguments and the other inspection
tools are `ExploreOther`; their success is chosen by TLC.

### HunkEngine and StructuredEdit

A text is a sequence of words and line ends (`LF`, `CRLF`); `Lines` is
`splitlines(keepends=True)`, so a last line without line end is one here too
and is glued to what is put after it. `original`, `hunks`, `src_index` and
`output` are the locals of `apply_hunks_to_text`; a step is one hunk, `Place`,
`Mismatch` or `Overlap`, and `Finish` copies the rest. `StructuredEdit` begins
with edits (`Edit`, `EditRefused`: occurrences counted in the text as edited so
far, line ends adapted) and makes the diff (`Build`, `DiffLines`), or begins
with a diff of the model's own. `difflib` is external: one hunk from the first
to the last changed line, which is what it makes when changes are near each
other. `Parsed` is the way of that diff through text and back.

### DockerRun and HiddenEval

`DockerRun` has one step for every docker command and every operation on files
of `run_pytest`, each with its failures. `docker` is the state of daemon and
image and changes at any time. `copy` and `container` keep the directories and
containers of all calls: a container whose client was given up goes on writing
while the next call is under way. A client ends with its container
(`ClientReturns`), without it (`ClientLost`: the code takes that for the end of
the tests), or is given up (`ClientGivenUp`). `tested` records what a container found when
it started.

| `pc` | code of `docker_pytest.py` |
|---|---|
| `info`, `inspect` | preflight |
| `resolve` | the image is looked up again |
| `mkdtemp`, `copytree` | the disposable copy |
| `launch`, `waiting` | `docker run` and its client |
| `stop` | `_force_remove_container` |
| `cleanup`, `wipe`, `rmdir`, `settle` | the `finally` block |
| `log` | `pytest.log` |

`HiddenEval` has the workspaces. `phase` goes from the session (patches and
public test runs on `working_copy`) to one of two evaluations, `method`:
`evaluate_after_product` for tasks (`stale`: an earlier copy is removed) and
`run_hidden_evaluation` for real bugs (a fresh directory, and fingerprints
compared in the end). `WithHidden` maps a public tree to the same tree with
the hidden tests. `Crash` ends the process anywhere; an evaluation then starts
again with what is on the disk.

### Ablation

| State | Code |
|---|---|
| `index`, `folder` | `ablation_index.json` and its directory |
| `state`, `args`, `row` | the payload in memory, the command line, the result of `run_one` |
| `bundle` | the published files |
| `tree` | the repository: what `freeze_record` hashes |
| `touched` | history: somebody edited while a process ran |

The schedule is computed (`Task`, `Repeat`, `PreflightEnabled`), not
enumerated. `pc` is the place in `main` and `run_campaign`: `create`, `check`
(`assert_frozen_inputs`), `slot`, `prepare` and `session` (in `run_one`), `row`,
`finish`. Every action that writes the index is atomic, because `atomic_json`
renames. `Spendings` gives what a slot may take of the limits.

### Campaign

`driver` is one of the three scripts; they differ in reruns (not in the
canary), in rounds (only `run_full12_x3`) and in which rows count. `run_one` is
`docker`, `baseline`, `session`, `hidden`, `metrics`; the summary of the
session and the hidden result are any that the code can see, with
inconsistent ones among them. `Resolve` and `Classify` are `metrics_lib`;
`Drift` is `verify_freeze`. `tree` is the set of edits
that stand, which may be put back; `restored` remembers that in this round one
was.

## 3. What is checked

| Run | Question | Result |
|---|---|---|
| `session_review` | whole sessions with and without approval handler, others editing at every wait but between recheck and apply | types and bounds, gate, regeneration window, verdicts, summary, `ApprovedRepair`, review binding, fail-closed approval, closed exploration, final verdicts, termination |
| `session_ablation` | preflight off, edits anywhere, rollbacks that fail | records of attempts, attempts and applied patches agree at every exit |
| `patch_atomic` | patches of 2-3 files, every read and write may fail | implements `ApprovedRepair` |
| `patch_faults` | rollbacks fail too, new files may be left torn | the rollback flag is honest but for a torn new file; a reviewed patch is stopped by I/O only, so no retry happens on a damaged tree |
| `patch_race` | no preflight, edits until the revisions are compared | a named revision is what a section is applied to |
| `ledger_gate` | reads of every shape around the end of a file and the limit of one read, ranges mandated anywhere, edits that change the file's length | the gate opens only on returned lines and can always be opened, the accounts balance, closed ranges that count as read were returned |
| `edit_texts` | every text of up to three short lines, up to two edits or two hunks | a diff is applied exactly or refused, unique blocks are found, accepted edits arrive |
| `eval_runs` | a session and its evaluation while docker fails or hangs, clients die, containers outlive them, clean-ups fail and the evaluation dies | passes and hidden passes are earned, timeouts kept, leftovers reported, hidden tests stay hidden, every call ends |
| `ablation_campaign` | a campaign of two processes, resumed while the repository is edited, published at every moment | schedule, limits, frozen rows, verified bundles |
| `benchmark_drivers` | the drivers with every summary and hidden result, missing docker, reruns, edits | successes are earned, first runs count, drift that stands is seen |
| `eval_refused` | docker goes away between preflight and `docker run` | violated, see below |
| `edit_dashes` | an edit whose deleted line begins with two dashes, or the added one with two plus signs | violated, see below |

Bounds.

- *Sessions.* Two patches, three trees (one patch fits two trees, the other
  one, and nothing fits the third, so an edit or an apply can make an
  applicable patch inapplicable), two attempts, up to two regenerations, three
  or four steps per analysis, one or two reads, one evidence request, one
  correction, one format retry, one file to re-read. Two attempts and two
  regenerations are the least with which a counter can be used, reset and used
  again; four steps reach every order of charged read, gate, refusal and
  proposal within one analysis, and the second analysis continues where the
  first left off.
- *Patches.* Three files (two modified, one created), two texts, two attempts,
  five patches: two plain sections, modify and create, create and modify with a
  revision, one file twice (refused by policy), and an unparsable new file. Two
  files are enough for one to be written when the next fails, three for a
  duplicate to be written twice before a failure.
- *Ledger.* One file of five lines, four after the patch, one read of at most
  three lines (120 in the code) and a radius of one (8): the file is longer
  than a read, a mandated range may lie at its start, in its middle, at its end
  or beyond it, and start and end arguments lie on both sides of each of these.
- *Texts.* One to three lines of one of two words, all with `LF`, all with
  `CRLF`, or without the last line end; one text with both line ends and three
  with a line that begins with dashes; edits also write lines that begin with
  dashes, with plus signs, and with plus signs and a space. Three lines are the least in which a
  block occurs twice and something lies between. Hunks name line 0, 1, 2 or 4:
  before the file, in it, and past its end.
- *Evaluation.* Two calls of `run_pytest`: a container or copy of the first is
  there during the second, and they may be a test run of the session and the
  evaluation, or an evaluation that died and its repetition. Four trees: with
  and without the repair, with and without hidden tests.
- *Ablation.* One task, so four slots, and two processes; three failed slots
  exhaust one limit exactly, the other limits exhaust time before the end.
- *Drivers.* Two tasks, one with hidden tests, two rounds and two edits
  (`MaxEdits`): one to make and one to put it back, or two that stand.

Fairness. `Session` and `PatchApply` assume `WF_vars` of the controller: it is
a single thread and each call it waits for returns (the model client and
`docker run` have timeouts, the approval callback is the caller's). Edits by
others are not fair, and no single reply is: `SessionEnds` holds for every
sequence of replies. `HiddenEval` assumes weak fairness of the steps of
`run_pytest` (`RunPytest`), not of containers, daemon, people, crashes or the
loss of a client: `RunEnds` is due to the timeouts of the code, and it makes an exception of the one command that has
none. `Ablation` and `Campaign` claim no liveness: both may be killed at any
time. Runs check deadlock, but for `benchmark_drivers`, where a driver that has
ended does nothing more.

Every property of a passing run has a mutant, written next to the definition
it changes under a `Fault:` comment, that makes it fail.

### Divergences found

Two have a run:

- `docker_pytest.py:189` (`eval_refused`): when daemon or image go away after
  the preflight, `docker run` exits with 125, and the result says failed tests
  instead of an infrastructure failure (`ARCHITECTURE.md:95`).
- `hunk_engine.py:64-75`, `:139-142` (`edit_dashes`): a deleted line that begins
  with two dashes, or an added one that begins with two plus signs, looks like a
  file header to the parser and is dropped; the diff is applied without it
  (`structured_edit.py:129`). An added line of two plus signs and a space is
  also a second file name to the policy, which refuses the proposal
  (`validator.py:71-86`).

Six more are left out by an exception of a property, or by the bounds of a run
(but for `structured_edit.py:166`, TLC shows each when that is dropped):

- `controller.py:194-218`: the hash recheck and the apply are two steps; an edit
  in between is patched unreviewed (`ARCHITECTURE.md:106`). `AppliedIsReviewed`
  fails with `EditPoints <- EditsAnytime`; the theorems state the gap as an
  assumption (`"apply" \notin EditPoints`).
- `applier.py:142-152`, `:180`: all revisions are compared before the first
  write; a file edited after that is patched although its revision is stale
  (`PATCH_RECOVERY.md:56`). `RevisionGuardsText` fails with `"section"` among
  the `EditPoints`. Up to the comparison the revisions narrow the gap above.
- `applier.py:174-175`: a new file is remembered only once it is written. If
  that fails half way the file stays, and the rollback is reported successful
  (`PATCH_RECOVERY.md:58`). `patch_faults` has such files; `RollbackReportHonest`
  says that this one is the only thing that can stay.
- `docker_pytest.py:156-198`: a container is force-removed only where its client
  timed out. A client that is killed or loses its daemon is taken for the end of
  the tests: the result says failed tests and the container runs on
  (`TEST_COVERAGE_AUDIT.md:185`). `LeftoversReported` makes the exception.
- `structured_edit.py:166`: that an old text occurs exactly once is asked of the
  text as earlier edits of the same reply left it, not of the revision that the
  model was shown (`llm.py:46-47`, `PATCH_RECOVERY.md:42`). No property is about
  it: `EditsRoundTrip` begins with edits the code has accepted.
- `run_deepseek_pilot.py:254`, `:906`: the files are compared once, at the end
  of a round; an edit that is put back before is not seen
  (`examples/llm_benchmark/PILOT_REPORT.md:90`). `DriftIsSeen` excepts rounds in
  which that happened.

The others were met while modelling. The transitions are in the modules as the
code has them.

Session and evidence:

- `controller.py:546`: a proposal blocked by the gate leaves the phase at
  `PROPOSE`; an evidence request then ends the session as a hard violation
  with its allowance unspent (`PATCH_RECOVERY.md:25`).
- `controller.py:734`: an exploration read that fails on the last unit of
  budget leaves the phase at `EXPLORE` (`PATCH_RECOVERY.md:21`).
- `controller.py:687`: a satisfied mandated read does not restart the count of
  consecutive no-progress actions (`PATCH_RECOVERY.md:25`).
- `request_evidence.py:32`: a read without `end_line` is recorded as a read of
  everything after its start, up to 2^31-1, though it returns 120 lines;
  evidence beyond them is refused as already read (`:98`).
- `request_evidence.py:95`: recorded ranges survive the patch that changes the
  file, so lines the model has never seen are refused as already read
  (`PATCH_RECOVERY.md:3`); this is why `CoverageEarned` speaks of one of the
  texts the file has had.
- `preflight.py:118`: a hunk beyond the end of a file mandates a range such as
  52-20; the read demanded in these words is refused by `read_file`, and the
  gate opens only for arguments the message excludes (`controller.py:986`,
  `:993`). `RefreshPossible` shows that such arguments always exist.

Patches:

- `hunk_engine.py`: a hunk without old lines goes to the line it names, even
  past the end of the file, where it is appended; a line added after a last line
  without line end is glued to it; with one `CRLF` in the file every added line
  gets `CRLF`. `EditsRoundTrip` names the files for which none of this matters.

Docker:

- `docker image inspect` has no timeout; with a daemon that hangs there the
  call never ends (`RunEnds` makes this exception).
- When `docker rm -f` itself times out, its exception leaves `run_pytest` and
  the timeout of the tests is not reported.
- When the image is gone at its second lookup, an assertion leaves
  `run_pytest` instead of an environment error.

Ablation:

- An environment failure of the hidden tests is a counted result
  (`run_preflight_ablation.py:111-116`, `run_model_eval.py:340-348`), though the
  frozen `rerun_policy` retains such failures (`:240`).
- A crash or exception after a session, before its row is saved, repeats the
  slot, so a semantic result may be run twice (`:239`); `ScheduleKept` says that
  it is not counted twice.
- The directory is made before the index; a process that dies in between leaves
  a directory that a new start refuses and a resume cannot use.
- Time and cost of environment failures are in no total, and a provider that
  reports no tokens makes a slot free: `BudgetKept` is about counted rows.
- Edits under a running process are noticed by its successor only, so
  `FrozenRows` is about campaigns without them.
- `publish` removes the old bundle before it builds the new one, which may
  fail; `environment_failures` is a constant 0
  (`publish_preflight_ablation.py:166`), so its check in `verify` finds nothing.

Drivers:

- A first run without docker carries a `rerun_reason`
  (`run_deepseek_pilot.py:316`), so the pilot's index drops it (`:914`) although
  first results are permanent (`:5`); `CanonicalIsFirst` makes this exception.
- Canary and repeated run call the pilot's `record_freeze` and overwrite
  `full12_deepseek/freeze.json`.
- Assets that are added after the freeze are not noticed (`:261-263`);
  `DriftIsSeen` makes this exception, and one for rounds in which an edit was
  put back.
- `TESTS_PASSED_UNVERIFIED` becomes `ARTIFACT_INCONSISTENT`.

## 4. What is proved

All theorems hold for every value of the constants that satisfies the named
assumptions of the modules (budgets are naturals, `NoPatch` is not a patch,
texts are not marks, and the like). Assumptions beyond these stand in the
statement of a theorem and are named here.

`SessionProofs`. The inductive invariant is `TypeOK /\ WaitsOK /\ GateOK`.
`TypeOK` alone is not inductive: that a counter stays within its bound depends
on where the controller waits (`WaitsOK`: an attempt is only charged below the
limit, a no-progress count of two has already ended the loop), and that nothing
is under review with a read outstanding depends on the phase (`GateOK`).

- `TypeCorrect`, `GateTheorem`: `TypeOK` and `GateHeld`, unconditionally.
- `RegenerationTheorem`: by a window argument on the four ways a step changes
  the two counters (`RegenerationStep`).
- `ExplorationTheorem`: exploration never reopens.
- `ReviewTheorem`: assumes that nobody edits between recheck and apply; uses
  `BindingOK`, that at the apply the proposal and the tree are the bound ones.
- `RepairTheorem`: `Session` implements `ApprovedRepair`; assumes also that
  rollbacks succeed.

Its second half adds the records. `VInv` is the invariant above with
`LedgerOK` (the numbers of the tested records are exactly the attempts used,
but for one that an exception took; only the last record may be of the present
attempt, and only a failed apply; numbers grow), `EndOK` (what is not there yet
before the end) and the two properties themselves.

- `VerdictTheorem`, `LedgerTheorem`, `SummaryTheorem`: from `VInv`.
- `FinalTheorem`: no action leaves a terminal status for another.
- `FailClosedTheorem`: without handler the controller never reaches the apply.
- `RefusalTheorem`: by `BoundFits`, that what is under review fits the bound
  tree; assumes preflight on and nobody editing between recheck and apply.

`PatchApplyProofs`. `TypeOK` is inductive with `NothingHeld`. The argument for
transactionality is `InFlight`: from the recheck on, `Original` is the bound
tree, but in a rollback for the one torn file that no list holds (`Litter`); the
files of the sections done so far hold the patched texts, all other
files the bound ones. It is inductive because the policy allows one section a
file (a second one would overwrite a backup).

- `TypeCorrect`: unconditionally.
- `HonestTheorem`: the rollback flag is honest but for one torn new file,
  whatever fails, if nobody edits between recheck and report.
- `RepairTheorem`: `PatchApply` implements `ApprovedRepair` for patches of any
  number of files; assumes also that rollbacks succeed and that no new file is
  left torn.
- `ReviewedTheorem`: `Seen` carries what preflight saw of each section to the
  apply, `NoMisfit` is the result; assumes preflight on and no edits during
  preflight and between recheck and report.
- `RevisionTheorem`: `Named`, that a section done was made on the revision it
  names and one still to do finds it; assumes no edits once the revisions have
  been compared.

`ReadLedgerProofs` builds on the invariant of `Session`: `LedgerIsSession`
shows that every ledger step is a step of `Session`. `LedgerEffect` sorts the
steps into four forms (quiet, charged, reading, mandating), and each invariant
is proved for the forms. Assumptions: `2 * Radius + 1 <= Cap` (17 <= 120 in the
code), lines are naturals, `Open` is not one.

- `LedgerTypeCorrect`, `BalanceTheorem`, `CoverageTheorem`: directly inductive.
- `PossibleTheorem`: by `RegionsNarrow`, that a mandated range is never wider
  than one read; nothing about the present length of the file is needed.
- `RefreshTheorem`: by `OwedInRegion`, that what is owed lies in the mandated
  range and in the file, so that arguments that cover the range and that
  `read_file` accepts return all of it.

`HunkEngineProofs`, for every file, hunk and number of hunks. The model is full
of recursion (`LinesUpto`, `FlattenSeq`, `SplicedFrom`), and the induction
theorems of the library cannot be instantiated by the provers. `Induction`
replaces them for the only case needed, a set that has 0 and with `k - 1` also
`k`, up to `n`; it follows from the well-foundedness of the naturals. With it
each recursive function is given by its recursion, and what is claimed of it is
shown for prefixes. `ForwardIsBackward` is the core: putting lines out hunk
after hunk, as the code does, gives what replacing the blocks from the last one
back gives, which is how `Spliced` says what the result should be. `EngineInv`
has five parts:

| Part | Says |
|---|---|
| `Shape` | only the last hunk may have no place, and none lacks one when the diff is applied |
| `InOrder` | each block is where `Placed` says, begins after the one before it ends, and `src_index` is the end of the last |
| `Forward` | the output is what the hunks so far put out one after the other |
| `Result` | an applied diff gives the output and the rest of the file |
| `Refusal` | a refused hunk has no place, or one before `src_index` |

None is inductive alone: that blocks do not overlap needs `src_index`, and the
output needs both. `StructuredEditProofs` shows that whatever the matcher is
given is a hunk, and that `EngineInv` holds of every step (`EditsKeepOrder`).

- `AppliesExactly`: from `InOrder`, `Forward`, `Result` and `ForwardIsBackward`.
- `FindsUniqueBlocks`: from `InOrder` and `Refusal`: the unique places are where
  the hunks before were put, so the last one is not used up.
- `PlacedLinesStay`: from `InOrder` and `OldLinePlace`, that the `m`-th kept or
  deleted line of a hunk is the `m`-th of its old lines. The code compares the
  old lines twice, as a block to place them and one by one while the output
  grows (`hunk_engine.py:283-337`); the theorem is why `Place` needs no branch
  for the second refusal. No run checks it: it is a fact about the model that
  only the proof states.
- `EditsArrive`: `EditsRoundTrip`. `RoundInv` is added to the invariant: an
  edited diff has one hunk, the one made of the two texts, and a file with one
  kind of line end keeps it through the edits (`OneNewline`; it is lost when
  the last CRLF is edited away and a new line end comes in, which the property
  excludes). Then: splitting a text into lines and joining them again loses
  nothing in either direction (`LinesSplit`, `LinesOfSplit`), so the parser
  reads back the tagged lines it was given (`DiffIsChange`); the old lines of
  that hunk are lines of the file at the place it names (`ChangeFits`), so the
  matcher puts it there (`FitsWhereNamed`); and what it puts out, with the lines
  before and after, are the lines of the new text (`ChangeArrives`). No bound on
  edits, texts or context lines; the last line of the file must be ended, no
  deleted line may begin with two dashes and no added one with two plus signs,
  as the property says.

`HiddenEvalProofs`, for any number of runs and any suites. None of the
properties is inductive: each speaks of the moment a result is there. `RunInv`
relates result, copy and container of the present call at every point of
`run_pytest` (the copy is exact when the container starts; a result is missing
until something made it; from then on it is `Honest`), `PhaseInv` says what the
directories hold at every point of the evaluation.

- `TypeCorrect`, `PassEarned`, `TimeoutKept`, `NothingLeftSilently`: of
  `run_pytest`. The last says that a run which leaves a copy or a running
  container is no success, and which error a copy or a container given up on a
  timeout gives; the container of a lost client has none.
- `Isolation`, `HiddenPassEarned`: of the evaluations, through crashes. Isolation
  is that the working copy holds public files only and that the containers of
  the session were given such a tree; nothing is said of the source repository.

`AblationProofs`, for schedules and limits of any size. `CampaignInv` says
that the campaign on disk and the one in memory are both `Kept` (rows are
numbered through, failures in order, all but the last row under the limits) and
agree while the process works; `FreezeInv` and `PublishedInv` add the tree and
the bundle.

- `BalancedSchedule`: about the operators alone, for the two repeats of the
  code: the two slots of a pair are of one task under both settings, and the
  second repeat has them the other way round.
- `TypeCorrect`, `ScheduleIsKept`, `BudgetIsKept`, `RowsAreFrozen`,
  `VerifiedStaysWhole`: from the invariant.

`CampaignProofs`, for any number of tasks and rounds. `GateInv` (hidden tests
are asked for exactly when the consistency gate lets them), `Listed` (a row is
earned and numbered, a rerun follows its task's row), `Reached` (which tasks
have a first row at each point of the loop) and `IndexInv`.

- `SuccessEarned`, `FirstRunCounts`, `DriftSeen` (with the two exceptions of
  `DriftIsSeen`: added assets, and rounds in which an edit was put back).

Only model-checked: the liveness properties `SessionEnds` and `RunEnds` (the
prover has no rules for fairness or `ENABLED`). Every other property of a
passing run is stated by a theorem.

## 5. What is not modelled

- The text heuristics of the policy (`validator.py`, `test_integrity.py`):
  predicates over one text; a refusal in `Session` and `PatchApply`.
- Parsing of replies and the accounting of tokens (`llm.py`, `proposal.py`):
  the classes of replies the controller distinguishes are in `Session`.
- Workspace import and `safe_resolve`: a success or a failure in `Session`. The
  size limits bound a sum of file sizes that no other state depends on.
- Map, search and diff: read-only text processing shown to the model or the
  human.
- Tracing, the token and time totals of observability, `envfile.py` and the
  command line: written and never read back, or a table of exit codes.
- Of the examples: self-checks of the assets, replays of recorded replies,
  publication of the synthesis results, fixture repositories and recorded data;
  and the numbers in summaries and reports of the campaigns that are modelled.
- Within modelled parts: directories made for new files, the flags of the
  docker command line, the parsing of test names, the counts in hunk headers
  (the code never uses them), and diffs of several hunks from one edit.

Possible extensions: the directories of new files in `PatchApply`; several
hunks in `DiffLines`; a refinement from `PatchApply` to the apply step of
`Session` that goes beyond their common abstraction.
