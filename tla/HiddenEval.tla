----------------------------- MODULE HiddenEval -----------------------------
(***************************************************************************)
(* The evaluation of a finished session with tests the session never saw:  *)
(* evaluate_after_product and run_hidden_tests (code_agent/eval/hidden.py) *)
(* for tasks with a .hidden directory, run_hidden_evaluation               *)
(* (examples/real_bug_benchmark/run_model_eval.py, on                      *)
(* code_agent/eval/isolation.py) for real bugs.                            *)
(*                                                                         *)
(* Session and evaluation run one after the other and call the same        *)
(* run_pytest (DockerRun), so containers and copies that the session left  *)
(* behind are still there.  The evaluating process may die at any step and *)
(* the evaluation be started again in the same results directory.          *)
(***************************************************************************)
EXTENDS DockerRun

CONSTANTS
  Public,       \* the trees a session can work on
  WithHidden    \* public tree |-> the same with the hidden tests added

ASSUME HiddenAssumption ==
  /\ Public \subseteq Trees /\ WithHidden \in [Public -> Trees \ Public]
  /\ Roots = {"working_copy", "eval_copy"}

VARIABLES
  phase,           \* what the session, then the evaluation does next
  method,          \* which of the two evaluations
  hidden_tests,    \* hidden tests are configured for the task
  product_status,  \* SUCCEEDED or another status
  before,          \* fingerprint of the working copy
  raising,         \* an exception is on its way out of the evaluation
  hidden_pass,     \* of the metrics: none is Python's None
  eval_status      \* of the metrics, once they are written

product == <<method, hidden_tests, product_status>>
verdict == <<hidden_pass, eval_status>>
evaluation == <<phase, product, before, raising, verdict>>
vars == <<runner, disk, evaluation>>

Phases == {"session", "testing", "ended", "stale", "copying", "inject", "resolve",
           "running", "removing", "compare", "metrics", "done", "failed"}
EvalStatuses == {"none", "SUCCEEDED", "PUBLIC_TESTS_FAILED", "HIDDEN_TESTS_FAILED",
                 "HIDDEN_TEST_TIMEOUT", "HIDDEN_TEST_ENVIRONMENT_ERROR"}
Working == disk["working_copy"]
SetEval(t) == disk' = [disk EXCEPT !["eval_copy"] = t]

Init ==
  /\ RunnerInit
  /\ disk \in {[w \in Roots |-> IF w = "working_copy" THEN t ELSE Absent] : t \in Public}
  /\ phase = "session" /\ method \in {"task", "isolated"} /\ hidden_tests \in BOOLEAN
  /\ product_status = "none" /\ before = Absent /\ raising = FALSE
  /\ hidden_pass = "none" /\ eval_status = "none"

----------------------------------------------------------------------------
(* The session: patches applied to working_copy, public tests run on it.   *)

SessionApplies ==
  /\ phase = "session" /\ pc = "idle"
  /\ \E t \in Public \ {Working} : disk' = [disk EXCEPT !["working_copy"] = t]
  /\ UNCHANGED <<runner, evaluation>>

SessionTests ==
  /\ phase = "session" /\ Call("working_copy") /\ phase' = "testing"
  /\ UNCHANGED <<disk, product, before, raising, verdict>>

\* Only a run that gives a verdict lets the session go on.  SUCCEEDED takes a
\* passed run, and tests that failed before.
SessionSees ==
  /\ phase = "testing" /\ pc \in Ended /\ pc' = "idle"
  /\ \/ /\ phase' = "session" /\ pc = "returned" /\ result.kind = "none"
        /\ UNCHANGED product_status
     \/ /\ phase' = "ended"
        /\ \/ product_status' = "OTHER"
           \/ product_status' = "SUCCEEDED" /\ pc = "returned" /\ Passed(result)
  /\ UNCHANGED <<run, root, disk, boxes, docker, answer, method, hidden_tests,
                 before, raising, verdict>>

----------------------------------------------------------------------------
(* The evaluation.                                                         *)

EndWith(status, pass) == phase' = "done" /\ eval_status' = status /\ hidden_pass' = pass
EvalStep == UNCHANGED <<runner, product>>

\* A task is not evaluated further unless the session succeeded.
SkipHidden ==
  /\ phase = "ended" /\ method = "task"
  /\ \/ product_status # "SUCCEEDED" /\ EndWith("PUBLIC_TESTS_FAILED", "none")
     \/ product_status = "SUCCEEDED" /\ ~hidden_tests /\ EndWith("SUCCEEDED", "none")
  /\ EvalStep /\ UNCHANGED <<disk, before, raising>>

StartHidden ==
  /\ phase = "ended" /\ hidden_tests
  /\ \/ /\ method = "task" /\ product_status = "SUCCEEDED" /\ phase' = "stale"
        /\ UNCHANGED <<disk, before>>
     \/ /\ method = "isolated" /\ phase' = "copying"     \* in a fresh directory
        /\ before' = Working /\ SetEval(Absent)
  /\ EvalStep /\ UNCHANGED <<raising, verdict>>

\* An exception leaves the evaluation of a task at once; the isolated one
\* removes its copy on the way out.
Raise ==
  /\ phase' = IF method = "task" THEN "failed" ELSE "removing"
  /\ raising' = TRUE

\* Fault: what an earlier evaluation left is evaluated again.
KeepStale ==
  /\ phase = "stale"
  /\ phase' = IF disk["eval_copy"] = Absent THEN "copying" ELSE "resolve"
  /\ EvalStep /\ UNCHANGED <<disk, before, raising, verdict>>

\* eval_temp_copy of an evaluation that did not come to its end.
RemoveStale ==
  /\ phase = "stale"
  /\ \/ phase' = "copying" /\ SetEval(Absent) /\ UNCHANGED raising
     \/ /\ disk["eval_copy"] # Absent /\ Raise
        /\ disk' \in {disk, [disk EXCEPT !["eval_copy"] = Scribbled]}
  /\ EvalStep /\ UNCHANGED <<before, verdict>>

CopyWorking ==
  /\ phase = "copying"
  /\ \/ phase' = "inject" /\ SetEval(Working) /\ UNCHANGED raising
     \/ Raise /\ SetEval(Absent)
     \/ Raise /\ SetEval(Scribbled)
  /\ EvalStep /\ UNCHANGED <<before, verdict>>

\* Fault: the hidden tests are put into the working copy.
InjectWorking ==
  /\ phase = "inject" /\ phase' = "resolve"
  /\ disk' = [w \in Roots |-> WithHidden[Working]]
  /\ EvalStep /\ UNCHANGED <<before, raising, verdict>>

\* The hidden tests are copied in, or the hidden patch is applied by git.
Inject ==
  /\ phase = "inject"
  /\ \/ phase' = "resolve" /\ SetEval(WithHidden[disk["eval_copy"]]) /\ UNCHANGED raising
     \/ Raise /\ SetEval(Scribbled)
  /\ EvalStep /\ UNCHANGED <<before, verdict>>

\* run_hidden_tests looks the image up for its configuration.
CallHidden ==
  /\ phase = "resolve" /\ (method = "task" => docker # "hung")
  /\ Call("eval_copy") /\ phase' = "running"
  /\ UNCHANGED <<disk, product, before, raising, verdict>>

HiddenReturns ==
  /\ phase = "running" /\ pc \in Ended /\ pc' = "idle"
  /\ IF pc = "returned" THEN phase' = "removing" /\ UNCHANGED raising ELSE Raise
  /\ UNCHANGED <<run, root, disk, boxes, docker, answer, product, before, verdict>>

\* Both remove with ignore_errors.
RemoveEval ==
  /\ phase = "removing"
  /\ phase' = IF raising THEN "failed" ELSE IF method = "task" THEN "metrics" ELSE "compare"
  /\ SetEval(Absent) \/ (disk["eval_copy"] # Absent /\ SetEval(Scribbled))
  /\ EvalStep /\ UNCHANGED <<before, raising, verdict>>

Compare ==
  /\ phase = "compare" /\ phase' = IF Working = before THEN "metrics" ELSE "failed"
  /\ EvalStep /\ UNCHANGED <<disk, before, raising, verdict>>

\* Fault: the runner's error kind becomes the status.
StatusIsKind(r) == IF r.kind = "none" THEN "SUCCEEDED" ELSE r.kind

\* _status_from_hidden_result; run_one of the real bugs asks the same.
StatusOf(r) ==
  CASE r.kind = "timeout" -> "HIDDEN_TEST_TIMEOUT"
    [] r.kind = "environment" -> "HIDDEN_TEST_ENVIRONMENT_ERROR"
    [] r.kind = "none" /\ r.exit = 0 -> "SUCCEEDED"
    [] OTHER -> "HIDDEN_TESTS_FAILED"

WriteMetrics ==
  /\ phase = "metrics"
  /\ \/ EndWith(StatusOf(result), IF Passed(result) THEN "true" ELSE "false")
     \/ phase' = "failed" /\ UNCHANGED verdict
  /\ EvalStep /\ UNCHANGED <<disk, before, raising>>

----------------------------------------------------------------------------
\* The process dies.  A session is lost; an evaluation is started again.
Crash ==
  /\ pc # "idle" \/ phase \notin {"session", "ended", "done", "failed"}
  /\ pc' = "idle" /\ raising' = FALSE
  /\ phase' = IF phase = "testing" THEN "failed" ELSE "ended"
  /\ UNCHANGED <<run, root, disk, boxes, docker, answer, product, before, verdict>>

\* Without hidden tests there is no isolated evaluation, and after MaxRuns
\* calls the model ends.
Terminated ==
  /\ \/ phase \in {"done", "failed"}
     \/ phase = "ended" /\ method = "isolated" /\ ~hidden_tests
     \/ run = MaxRuns /\ pc = "idle"
  /\ UNCHANGED vars

Process ==
  \/ (Runner \/ Containers) /\ UNCHANGED evaluation
  \/ SkipHidden \/ StartHidden \/ RemoveStale \/ CopyWorking \/ Inject \/ CallHidden
  \/ HiddenReturns \/ RemoveEval \/ Compare \/ WriteMetrics

Next ==
  \/ Process
  \/ SessionApplies \/ SessionTests \/ SessionSees
  \/ DockerChanges /\ UNCHANGED evaluation
  \/ Crash \/ Terminated

\* The process goes on as long as it can; people, the daemon and crashes are
\* under no obligation.
Spec == Init /\ [][Next]_vars /\ WF_vars(RunPytest /\ UNCHANGED evaluation)

----------------------------------------------------------------------------
(* Properties.                                                             *)

\* Every variable has its type.
TypeOK ==
  /\ pc \in {"idle", "info", "inspect", "resolve", "mkdtemp", "copytree", "launch",
             "waiting", "stop", "cleanup", "wipe", "rmdir", "settle", "log"} \cup Ended
  /\ run \in 0..MaxRuns /\ (pc # "idle" => run > 0) /\ root \in Roots
  /\ disk \in [Roots -> Contents] /\ copy \in [Runs -> Copies]
  /\ container \in [Runs -> {"none", "running", "removed"} \cup Outcomes]
  /\ tested \in [Runs -> Contents] /\ docker \in {"up", "no_image", "down", "hung"}
  /\ pending \in {"none", "environment", "timeout"} /\ result \in Results
  /\ cleanup_error \in BOOLEAN
  /\ phase \in Phases /\ method \in {"task", "isolated"} /\ hidden_tests \in BOOLEAN
  /\ product_status \in {"none", "OTHER", "SUCCEEDED"} /\ before \in Contents
  /\ raising \in BOOLEAN
  /\ hidden_pass \in {"none", "true", "false"} /\ eval_status \in EvalStatuses

\* The workspace of the session never holds hidden tests, and no test run,
\* failure or leftover of one ever writes into it, neither during the session
\* nor during an evaluation; and as long as there is a session, none of the
\* containers has been given a hidden test (hidden.py, module docstring).
HiddenStaysHidden ==
  /\ disk["working_copy"] \in Public
  /\ phase \in {"session", "testing"} => \A r \in Runs : tested[r] \in Public \cup {Absent}

\* hidden_pass is true only if the hidden tests, added to the working copy as
\* the session left it, ran to their end and passed, whatever an evaluation
\* that died before left in the results directory.
HiddenVerdictEarned ==
  hidden_pass = "true" =>
    /\ "passed" \in Suite[WithHidden[Working]]
    /\ tested[run] = WithHidden[Working] /\ container[run] = "passed"
=============================================================================
