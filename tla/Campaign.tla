------------------------------ MODULE Campaign ------------------------------
(***************************************************************************)
(* The benchmark drivers of examples/llm_benchmark: the full run over all  *)
(* tasks (run_deepseek_pilot.py), the canary (run_deepseek_canary.py) and  *)
(* the repeated run (run_full12_x3.py).  All three take a record of what   *)
(* they are about to test, run each task with run_one, label the result    *)
(* with metrics_lib.py, run a task again whose environment failed (not the *)
(* canary), and write an index that says which runs count.  Meanwhile      *)
(* somebody may edit what is being tested.                                 *)
(***************************************************************************)
EXTENDS Integers, SequencesExt

CONSTANTS
  NumTasks, NumRounds,   \* the tasks of a round, the rounds of run_full12_x3
  WithHidden,            \* the tasks that have a .hidden directory
  MaxEdits               \* edits of the tested files, a bound of the model

ASSUME CampaignAssumption ==
  /\ NumTasks \in Nat \ {0} /\ NumRounds \in Nat \ {0} /\ MaxEdits \in Nat
  /\ WithHidden \subseteq 1..NumTasks

Drivers == {"pilot", "canary", "x3"}

\* What can become of the tested files.
Edits == {"file_changed", "product_file_added", "asset_added"}

\* status and final_tests_passed of a summary.json; UNKNOWN: there is none.
Failing == {"FAILED_MAX_ATTEMPTS", "REJECTED", "TEST_ENVIRONMENT_ERROR", "TEST_TIMEOUT", "UNKNOWN"}
Summaries == [status : {"SUCCEEDED", "TESTS_PASSED_UNVERIFIED"}, tests_passed : {TRUE}] \cup
             [status : Failing, tests_passed : {FALSE}]
HiddenStatuses == {"SUCCEEDED", "HIDDEN_TESTS_FAILED", "HIDDEN_TEST_TIMEOUT",
                   "HIDDEN_TEST_ENVIRONMENT_ERROR"}
NoSummary == [status |-> "UNKNOWN", tests_passed |-> FALSE]

VARIABLES
  driver,
  pc,         \* what the driver does next
  round, task,
  again,      \* the run is the rerun of its task (rerun_reason)
  summary,    \* of the session of the run
  hidden,     \* what run_hidden_tests said, "none" if it was not asked
  runs,       \* rows of the round, as they were run
  freeze,     \* the files as record_freeze saw them
  tree,       \* the files as they are: the edits that stand
  edits,      \* how many there have been
  restored,   \* one was put back in this round (history)
  index       \* runs_index.json of the round

campaign == <<driver, round, freeze>>
files == <<tree, edits, restored>>
vars == <<campaign, pc, task, again, summary, hidden, runs, files, index>>

NoIndex == [written |-> FALSE, canonical |-> {}, drift |-> {}]

Init ==
  /\ driver \in Drivers /\ pc = "freeze" /\ round = 1 /\ task = 1 /\ again = FALSE
  /\ summary = NoSummary /\ hidden = "none" /\ runs = << >>
  /\ freeze = {} /\ tree = {} /\ edits = 0 /\ restored = FALSE /\ index = NoIndex

Goto(next) == pc' = next
Run == <<summary, hidden>>
Position == <<task, again, runs>>

\* Without docker there is no campaign.
RecordFreeze ==
  /\ pc = "freeze" /\ freeze' = tree /\ restored' = FALSE
  /\ Goto("docker") \/ Goto("ended")
  /\ UNCHANGED <<driver, round, Position, Run, tree, edits, index>>

----------------------------------------------------------------------------
(* metrics_lib.                                                            *)

Consistent(s) == (s.status = "SUCCEEDED") = s.tests_passed

\* Fault: the label follows the tests, whatever the session says of itself.
ResolveByTests(s, h) ==
  IF ~s.tests_passed THEN "PUBLIC_TESTS_FAILED" ELSE IF h = "none" THEN "SUCCEEDED" ELSE h

\* resolve_eval_status.
Resolve(s, h) ==
  IF ~Consistent(s) THEN "ARTIFACT_INCONSISTENT"
  ELSE IF ~s.tests_passed THEN "PUBLIC_TESTS_FAILED"
  ELSE IF h = "none" THEN "SUCCEEDED" ELSE h

\* classify_failure.
Classify(s, eval) ==
  IF eval \in {"ARTIFACT_INCONSISTENT", "HIDDEN_TESTS_FAILED", "SUCCEEDED"} THEN eval
  ELSE IF eval = "HIDDEN_TEST_ENVIRONMENT_ERROR" THEN "TEST_ENVIRONMENT_ERROR"
  ELSE IF eval = "HIDDEN_TEST_TIMEOUT" THEN "TEST_TIMEOUT"
  ELSE IF s.status \in {"TEST_ENVIRONMENT_ERROR", "TEST_TIMEOUT", "FAILED_MAX_ATTEMPTS"}
    THEN s.status
  ELSE IF s.status = "REJECTED" THEN "POLICY_BLOCKED" ELSE "PUBLIC_TESTS_FAILED"

----------------------------------------------------------------------------
(* run_one.  skipped: docker was not there, which is a rerun_reason too.   *)

Row(s, h, eval, class, skipped) ==
  [task |-> task, number |-> Len(runs) + 1, again |-> again, skipped |-> skipped,
   summary |-> s, hidden |-> h, eval_status |-> eval, failure_class |-> class,
   tree |-> tree]

Record(row) ==
  /\ runs' = Append(runs, row) /\ Goto("next")
  /\ summary' = NoSummary /\ hidden' = "none"
  /\ UNCHANGED <<campaign, task, again, files, index>>

RunStep(next) == Goto(next) /\ UNCHANGED <<campaign, Position, files, index>>

DockerMissing ==
  /\ pc = "docker"
  /\ Record(Row(NoSummary, "none", "TEST_ENVIRONMENT_ERROR", "TEST_ENVIRONMENT_ERROR", TRUE))

DockerThere == pc = "docker" /\ RunStep("baseline") /\ UNCHANGED Run

\* A baseline that could not be run counts as failing.
BaselinePasses ==
  /\ pc = "baseline"
  /\ Record(Row(NoSummary, "none", "ARTIFACT_INCONSISTENT", "ARTIFACT_INCONSISTENT", FALSE))

BaselineFails == pc = "baseline" /\ RunStep("session") /\ UNCHANGED Run

\* The session refuses its source, or gets as far as its summary or not.
NoSession ==
  /\ pc = "session"
  /\ Record(Row(NoSummary, "none", "PUBLIC_TESTS_FAILED", "PUBLIC_TESTS_FAILED", FALSE))

Session ==
  /\ pc = "session" /\ RunStep("hidden") /\ summary' \in Summaries /\ UNCHANGED hidden

\* The consistency gate, before anything hidden is run.
RunHidden ==
  /\ pc = "hidden" /\ Consistent(summary) /\ summary.tests_passed /\ task \in WithHidden
  /\ RunStep("metrics") /\ hidden' \in HiddenStatuses /\ UNCHANGED summary

SkipHidden ==
  /\ pc = "hidden" /\ ~(Consistent(summary) /\ summary.tests_passed /\ task \in WithHidden)
  /\ RunStep("metrics") /\ UNCHANGED Run

WriteMetrics ==
  /\ pc = "metrics"
  /\ LET eval == Resolve(summary, hidden)
     IN Record(Row(summary, hidden, eval, Classify(summary, eval), FALSE))

----------------------------------------------------------------------------
(* The loop over the tasks.                                                *)

Environment(row) ==
  \/ row.failure_class \in {"TEST_ENVIRONMENT_ERROR", "TEST_TIMEOUT"}
  \/ row.eval_status \in {"TEST_ENVIRONMENT_ERROR", "HIDDEN_TEST_ENVIRONMENT_ERROR",
                          "HIDDEN_TEST_TIMEOUT"}

NeedsRerun == driver # "canary" /\ ~again /\ Environment(Last(runs))

NextRun ==
  /\ pc = "next"
  /\ \/ NeedsRerun /\ again' = TRUE /\ Goto("docker") /\ UNCHANGED task
     \/ /\ ~NeedsRerun /\ again' = FALSE
        /\ \/ task < NumTasks /\ task' = task + 1 /\ Goto("docker")
           \/ task = NumTasks /\ Goto("index") /\ UNCHANGED task
  /\ UNCHANGED <<campaign, Run, runs, files, index>>

\* Fault: of several runs of a task the last one counts.
LatestRuns ==
  {r \in ToSet(runs) : \A k \in DOMAIN runs : runs[k].task = r.task => k <= r.number}

\* Pilot: of each task the first row without a rerun_reason.  The others take
\* a task's row when it is run, before there is another.
Eligible(r) == ~r.again /\ (driver = "pilot" => ~r.skipped)
FirstRuns ==
  {r \in ToSet(runs) : /\ Eligible(r)
                       /\ \A k \in 1..(r.number - 1) :
                            runs[k].task = r.task => ~Eligible(runs[k])}

\* How such files differ from the frozen ones.
Changed(t) == (t \ freeze) \cup (freeze \ t)

\* A new file outside code_agent is looked at by nobody.
Unnoticed == {"asset_added"} \ freeze

\* Fault: only files that were there before are looked at.
DriftOfKnown == Changed(tree) \cap ({"file_changed"} \cup freeze)

\* verify_freeze, once at the end of a round.
Drift == Changed(tree) \ Unnoticed

WriteIndex ==
  /\ pc = "index"
  /\ index' = [written |-> TRUE, canonical |-> FirstRuns, drift |-> Drift]
  /\ Goto(IF driver = "x3" /\ round < NumRounds THEN "round" ELSE "ended")
  /\ UNCHANGED <<campaign, Position, Run, files>>

NextRound ==
  /\ pc = "round" /\ Goto("docker") /\ round' = round + 1 /\ task' = 1
  /\ runs' = << >> /\ index' = NoIndex /\ restored' = FALSE
  /\ UNCHANGED <<driver, freeze, again, Run, tree, edits>>

----------------------------------------------------------------------------
\* An exception of run_one is not caught, and nothing is resumed.
Dies ==
  /\ pc # "ended" /\ Goto("ended")
  /\ UNCHANGED <<campaign, Position, Run, files, index>>

\* A file is changed, or put back as it was; a file is added, or removed.
Edit ==
  /\ pc # "ended" /\ edits < MaxEdits /\ edits' = edits + 1
  /\ \E e \in Edits :
       /\ tree' = IF e \in tree THEN tree \ {e} ELSE tree \cup {e}
       /\ restored' = (restored \/ e \in Changed(tree))
  /\ UNCHANGED <<campaign, pc, Position, Run, index>>

Next ==
  \/ RecordFreeze \/ DockerMissing \/ DockerThere \/ BaselinePasses \/ BaselineFails
  \/ NoSession \/ Session \/ RunHidden \/ SkipHidden \/ WriteMetrics
  \/ NextRun \/ WriteIndex \/ NextRound \/ Dies \/ Edit

Spec == Init /\ [][Next]_vars

----------------------------------------------------------------------------
(* Properties.                                                             *)

\* A run is a success only if its session calls itself one, its last public
\* tests passed, and the hidden tests passed where there are any; and the two
\* labels of a row, which reports count separately, agree on it
\* (artifact_is_consistent, build_run_metrics).
SuccessIsEarned ==
  \A k \in DOMAIN runs :
    LET row == runs[k]
    IN /\ row.eval_status = "SUCCEEDED" <=> row.failure_class = "SUCCEEDED"
       /\ row.eval_status = "SUCCEEDED" =>
            /\ row.summary = [status |-> "SUCCEEDED", tests_passed |-> TRUE]
            /\ row.hidden = IF row.task \in WithHidden THEN "SUCCEEDED" ELSE "none"

\* The index counts every task once and by its first run, never by the rerun;
\* only the pilot loses a task, whose first run had no docker.
CanonicalIsFirst ==
  index.written =>
    \A t \in 1..NumTasks :
      LET first == CHOOSE k \in DOMAIN runs :
                     runs[k].task = t /\ \A j \in 1..(k - 1) : runs[j].task # t
          counted == {r \in index.canonical : r.task = t}
      IN \/ counted = {runs[first]}
         \/ driver = "pilot" /\ runs[first].skipped /\ counted = {}

\* An index without drift errors speaks of the frozen files, whenever in the
\* round they were edited: no run it counts saw a file changed or removed, or
\* other product code.  Except for assets that were added after the freeze,
\* which are not looked at, and for a round in which an edit was put back,
\* because verify_freeze compares once, after the last run.
DriftIsSeen ==
  index.written /\ index.drift = {} /\ ~restored =>
    \A row \in index.canonical : Changed(row.tree) \subseteq Unnoticed
=============================================================================
