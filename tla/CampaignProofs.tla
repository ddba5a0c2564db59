--------------------------- MODULE CampaignProofs ---------------------------
(***************************************************************************)
(* Proofs about Campaign, for any number of tasks and rounds.              *)
(*                                                                         *)
(* What an index says follows from the shape of the rows of a round: they  *)
(* are numbered, go through the tasks in order, and a row is a rerun just  *)
(* if the one before it is of the same task.  As long as no edit is put    *)
(* back, what differs from the frozen files when a run ends still differs  *)
(* when they are compared.                                                 *)
(***************************************************************************)
EXTENDS Campaign, TLAPS, SequenceTheorems

InRun == {"docker", "baseline", "session", "hidden", "metrics"}

Labels == {"ARTIFACT_INCONSISTENT", "PUBLIC_TESTS_FAILED", "POLICY_BLOCKED", "SUCCEEDED",
           "HIDDEN_TESTS_FAILED", "HIDDEN_TEST_TIMEOUT", "HIDDEN_TEST_ENVIRONMENT_ERROR",
           "TEST_ENVIRONMENT_ERROR", "TEST_TIMEOUT", "FAILED_MAX_ATTEMPTS"}

\* A row as SuccessIsEarned wants it.
EarnedRow(row) ==
  /\ row.eval_status = "SUCCEEDED" <=> row.failure_class = "SUCCEEDED"
  /\ row.eval_status = "SUCCEEDED" =>
       /\ row.summary = [status |-> "SUCCEEDED", tests_passed |-> TRUE]
       /\ row.hidden = IF row.task \in WithHidden THEN "SUCCEEDED" ELSE "none"

RowSet == [task : 1..NumTasks, number : Nat, again : BOOLEAN, skipped : BOOLEAN,
           summary : Summaries, hidden : HiddenStatuses \cup {"none"},
           eval_status : Labels, failure_class : Labels, tree : SUBSET Edits]

TypeInv ==
  /\ driver \in Drivers /\ task \in 1..NumTasks /\ again \in BOOLEAN
  /\ pc \in InRun \cup {"freeze", "next", "index", "round", "ended"}
  /\ summary \in Summaries /\ hidden \in HiddenStatuses \cup {"none"}
  /\ runs \in Seq(RowSet) /\ tree \in SUBSET Edits

\* The hidden tests were asked for just when the consistency gate lets them.
GateInv ==
  /\ hidden # "none" => pc \in {"metrics", "ended"}
  /\ pc = "metrics" =>
       (hidden # "none" <=> Consistent(summary) /\ summary.tests_passed /\ task \in WithHidden)

\* The rows of a round among themselves.
Listed ==
  /\ \A k \in DOMAIN runs :
       /\ EarnedRow(runs[k]) /\ runs[k].number = k
       /\ ~restored => Changed(runs[k].tree) \subseteq Changed(tree)
       /\ runs[k].again <=> k > 1 /\ runs[k - 1].task = runs[k].task
  /\ \A j, k \in DOMAIN runs : j < k => runs[j].task <= runs[k].task

HasFirst(t) == \E k \in DOMAIN runs : runs[k].task = t /\ ~runs[k].again

\* How far they go.
Reached ==
  /\ \A k \in DOMAIN runs : runs[k].task <= task
  /\ \A t \in 1..(task - 1) : HasFirst(t)
  /\ pc = "freeze" => runs = << >> /\ task = 1 /\ ~again
  /\ pc \in {"next", "index"} => runs # << >> /\ runs[Len(runs)].task = task /\ HasFirst(task)
  /\ pc \in InRun /\ ~again => \A k \in DOMAIN runs : runs[k].task < task
  /\ pc \in InRun /\ again => runs # << >> /\ runs[Len(runs)].task = task /\ HasFirst(task)
  /\ pc = "index" => task = NumTasks
  /\ pc \in {"index", "round"} => ~again

IndexInv ==
  index.written =>
    /\ pc \in {"round", "ended"} /\ index.canonical = FirstRuns
    /\ \A t \in 1..NumTasks : HasFirst(t)
    /\ index.drift = {} /\ ~restored =>
         \A k \in DOMAIN runs : Changed(runs[k].tree) \subseteq Unnoticed

IInv == TypeInv /\ GateInv /\ Listed /\ Reached /\ IndexInv

----------------------------------------------------------------------------
(* A run of a task ends in a row.                                          *)

LEMMA RowsTyped ==
  ASSUME TypeInv
  PROVE  /\ task \in 1..NumTasks /\ task \in Int /\ runs \in Seq(RowSet) /\ Len(runs) \in Nat
         /\ DOMAIN runs = 1..Len(runs)
         /\ \A k \in DOMAIN runs : runs[k] \in RowSet /\ runs[k].task \in Int
         /\ runs # << >> => Len(runs) \in DOMAIN runs
<1>1. task \in 1..NumTasks /\ runs \in Seq(RowSet)
  BY DEF TypeInv
<1>2. \A q \in RowSet : q.task \in Int
  BY DEF RowSet
<1> QED BY <1>1, <1>2

\* The labels that run_one gives.
LEMMA LabelsEarned ==
  ASSUME TypeInv, GateInv, pc = "metrics"
  PROVE  LET eval == Resolve(summary, hidden)
             class == Classify(summary, eval)
         IN /\ eval \in Labels /\ class \in Labels
            /\ eval = "SUCCEEDED" <=> class = "SUCCEEDED"
            /\ eval = "SUCCEEDED" =>
                 /\ summary = [status |-> "SUCCEEDED", tests_passed |-> TRUE]
                 /\ hidden = IF task \in WithHidden THEN "SUCCEEDED" ELSE "none"
<1> DEFINE eval == Resolve(summary, hidden)
<1>1. /\ summary.status \in {"SUCCEEDED", "TESTS_PASSED_UNVERIFIED"} \cup Failing
      /\ summary.tests_passed \in BOOLEAN
      /\ summary = [status |-> summary.status, tests_passed |-> summary.tests_passed]
  BY DEF TypeInv, Summaries
<1>2. eval \in {"ARTIFACT_INCONSISTENT", "PUBLIC_TESTS_FAILED", "SUCCEEDED", "HIDDEN_TESTS_FAILED",
                "HIDDEN_TEST_TIMEOUT", "HIDDEN_TEST_ENVIRONMENT_ERROR"}
  BY DEF Resolve, TypeInv, HiddenStatuses
<1>3. eval = "SUCCEEDED" =>
        /\ summary.status = "SUCCEEDED" /\ summary.tests_passed
        /\ hidden = IF task \in WithHidden THEN "SUCCEEDED" ELSE "none"
  BY <1>1 DEF Resolve, Consistent, GateInv
<1>4. eval = "SUCCEEDED" => summary = [status |-> "SUCCEEDED", tests_passed |-> TRUE]
  BY <1>1, <1>3
<1>5. /\ eval \in Labels /\ Classify(summary, eval) \in Labels
      /\ eval = "SUCCEEDED" <=> Classify(summary, eval) = "SUCCEEDED"
  BY <1>1, <1>2 DEF Classify, Failing, Labels
<1> QED BY <1>3, <1>4, <1>5

\* What Record does to the rows.
LEMMA RecordInv ==
  ASSUME IInv, pc \in InRun, NEW s \in Summaries, NEW h \in HiddenStatuses \cup {"none"},
         NEW eval \in Labels, NEW class \in Labels, NEW skipped \in BOOLEAN,
         EarnedRow(Row(s, h, eval, class, skipped)),
         Record(Row(s, h, eval, class, skipped))
  PROVE  IInv'
<1> DEFINE r == Row(s, h, eval, class, skipped)
<1> USE DEF IInv
<1>1. /\ r \in RowSet /\ r.task = task /\ r.number = Len(runs) + 1 /\ r.again = again /\ r.tree = tree
  BY RowsTyped DEF Row, RowSet, TypeInv
<1>2. /\ runs' = Append(runs, r) /\ pc' = "next" /\ summary' = NoSummary /\ hidden' = "none"
      /\ UNCHANGED <<driver, round, freeze, task, again, tree, restored, index>>
  BY DEF Record, Goto, campaign, files
<1>3. EarnedRow(r)
  OBVIOUS
<1> HIDE DEF r
<1>4. /\ runs' \in Seq(RowSet) /\ Len(runs') = Len(runs) + 1 /\ DOMAIN runs' = 1..(Len(runs) + 1)
      /\ runs'[Len(runs) + 1] = r /\ \A k \in DOMAIN runs : runs'[k] = runs[k]
  BY <1>1, <1>2, RowsTyped
<1>5. TypeInv'
  BY <1>2, <1>4 DEF TypeInv, NoSummary, Summaries, Failing
<1>6. GateInv' /\ IndexInv'
  BY <1>2 DEF GateInv, IndexInv, InRun
<1>16. \A t : Changed(t)' = Changed(t)
  BY <1>2 DEF Changed
<1>7. \A k \in DOMAIN runs : runs[k].task <= task
  BY DEF Reached
<1>8. again <=> Len(runs) + 1 > 1 /\ runs[Len(runs)].task = task
  <2>1. CASE again
    BY <2>1, RowsTyped DEF Reached
  <2>2. CASE ~again
    BY <2>2, RowsTyped DEF Reached
  <2> QED BY <2>1, <2>2
<1>9. \A k \in DOMAIN runs' :
        /\ EarnedRow(runs'[k]) /\ runs'[k].number = k
        /\ ~restored => Changed(runs'[k].tree) \subseteq Changed(tree)
        /\ runs'[k].again <=> k > 1 /\ runs'[k - 1].task = runs'[k].task
  <2> SUFFICES ASSUME NEW k \in DOMAIN runs'
               PROVE  /\ EarnedRow(runs'[k]) /\ runs'[k].number = k
                      /\ ~restored => Changed(runs'[k].tree) \subseteq Changed(tree)
                      /\ runs'[k].again <=> k > 1 /\ runs'[k - 1].task = runs'[k].task
    OBVIOUS
  <2>1. CASE k = Len(runs) + 1
    <3>1. runs'[k] = r /\ (Len(runs) > 0 => runs'[k - 1] = runs[Len(runs)])
      BY <1>4, <2>1, RowsTyped
    <3>2. EarnedRow(runs'[k]) /\ runs'[k].number = k /\ Changed(runs'[k].tree) \subseteq Changed(tree)
      BY <1>1, <1>2, <1>3, <2>1, <3>1
    <3>3. k > 1 <=> Len(runs) > 0
      BY <2>1, RowsTyped
    <3>4. runs'[k].again <=> k > 1 /\ runs[Len(runs)].task = task
      BY <1>1, <1>8, <2>1, <3>1
    <3>5. k > 1 => runs'[k - 1].task = runs[Len(runs)].task /\ runs'[k].task = task
      BY <1>1, <3>1, <3>3
    <3> QED BY <3>2, <3>4, <3>5
  <2>2. CASE k \in DOMAIN runs
    BY <1>2, <1>4, <2>2, RowsTyped DEF Listed
  <2> QED BY <1>4, <2>1, <2>2, RowsTyped
<1>10. \A j, k \in DOMAIN runs' : j < k => runs'[j].task <= runs'[k].task
  <2> SUFFICES ASSUME NEW j \in DOMAIN runs', NEW k \in DOMAIN runs', j < k
               PROVE  runs'[j].task <= runs'[k].task
    OBVIOUS
  <2>1. j \in DOMAIN runs
    BY <1>4, RowsTyped
  <2>2. CASE k = Len(runs) + 1
    BY <1>1, <1>4, <1>7, <2>1, <2>2
  <2>3. CASE k \in DOMAIN runs
    BY <1>4, <2>1, <2>3 DEF Listed
  <2> QED BY <1>4, <2>2, <2>3, RowsTyped
<1>11. Listed'
  BY <1>2, <1>9, <1>10, <1>16 DEF Listed
<1>12. \A t \in 1..NumTasks : HasFirst(t) => HasFirst(t)'
  BY <1>4, RowsTyped DEF HasFirst
<1>13. HasFirst(task)'
  <2>1. CASE again
    BY <1>2, <1>12, <2>1, RowsTyped DEF Reached
  <2>2. CASE ~again
    BY <1>1, <1>2, <1>4, <2>2, RowsTyped DEF HasFirst
  <2> QED BY <2>1, <2>2
<1>14. Reached'
  <2>1. \A k \in DOMAIN runs' : runs'[k].task <= task'
    BY <1>1, <1>2, <1>4, <1>7, RowsTyped
  <2>2. \A t \in 1..(task - 1) : HasFirst(t)'
    <3>1. \A t \in 1..(task - 1) : t \in 1..NumTasks /\ HasFirst(t)
      BY RowsTyped, CampaignAssumption DEF Reached
    <3> QED BY <1>12, <3>1
  <2>3. runs' # << >> /\ runs'[Len(runs')].task = task'
    BY <1>1, <1>2, <1>4, RowsTyped
  <2> QED BY <1>2, <1>13, <2>1, <2>2, <2>3 DEF Reached, InRun
<1> QED BY <1>5, <1>6, <1>11, <1>14

----------------------------------------------------------------------------
(* The steps.                                                              *)

LEMMA InitInv == Init => IInv
<1> SUFFICES ASSUME Init PROVE IInv
  OBVIOUS
<1>1. TypeInv
  <2>1. task \in 1..NumTasks /\ again = FALSE
    BY CampaignAssumption DEF Init
  <2>2. summary \in Summaries /\ hidden = "none" /\ runs = << >> /\ tree = {}
    BY DEF Init, NoSummary, Summaries, Failing
  <2>3. driver \in Drivers /\ pc = "freeze"
    BY DEF Init
  <2>4. runs \in Seq(RowSet) /\ tree \in SUBSET Edits /\ hidden \in HiddenStatuses \cup {"none"}
    BY <2>2
  <2>5. again \in BOOLEAN /\ pc \in InRun \cup {"freeze", "next", "index", "round", "ended"}
    BY <2>1, <2>3
  <2> QED BY <2>1, <2>2, <2>3, <2>4, <2>5 DEF TypeInv
<1>2. GateInv /\ Listed /\ Reached /\ IndexInv
  BY DEF Init, GateInv, Listed, Reached, IndexInv, NoIndex, InRun
<1> QED BY <1>1, <1>2 DEF IInv

\* Steps that neither record a row nor touch the index.
LEMMA QuietInv ==
  ASSUME IInv, pc \in InRun, pc' \in InRun, GateInv', summary' \in Summaries,
         hidden' \in HiddenStatuses \cup {"none"},
         UNCHANGED <<campaign, Position, files, index>>
  PROVE  IInv'
<1>1. TypeInv'
  BY DEF IInv, TypeInv, campaign, Position, files
<1>2. Listed'
  BY DEF IInv, Listed, Changed, campaign, Position, files
<1>3. Reached' /\ IndexInv'
  BY DEF IInv, Reached, HasFirst, IndexInv, Changed, Unnoticed, campaign, Position, files, InRun
<1> QED BY <1>1, <1>2, <1>3 DEF IInv

LEMMA RunInv ==
  ASSUME IInv, DockerMissing \/ DockerThere \/ BaselinePasses \/ BaselineFails \/ NoSession
               \/ Session \/ RunHidden \/ SkipHidden \/ WriteMetrics
  PROVE  IInv'
<1> USE DEF IInv
<1>1. NoSummary \in Summaries /\ "none" \in HiddenStatuses \cup {"none"}
  BY DEF NoSummary, Summaries, Failing
<1>2. CASE DockerMissing
  <2>1. EarnedRow(Row(NoSummary, "none", "TEST_ENVIRONMENT_ERROR", "TEST_ENVIRONMENT_ERROR", TRUE))
    BY DEF EarnedRow, Row
  <2> QED BY <1>1, <1>2, <2>1, RecordInv DEF DockerMissing, InRun, Labels
<1>3. CASE BaselinePasses
  <2>1. EarnedRow(Row(NoSummary, "none", "ARTIFACT_INCONSISTENT", "ARTIFACT_INCONSISTENT", FALSE))
    BY DEF EarnedRow, Row
  <2> QED BY <1>1, <1>3, <2>1, RecordInv DEF BaselinePasses, InRun, Labels
<1>4. CASE NoSession
  <2>1. EarnedRow(Row(NoSummary, "none", "PUBLIC_TESTS_FAILED", "PUBLIC_TESTS_FAILED", FALSE))
    BY DEF EarnedRow, Row
  <2> QED BY <1>1, <1>4, <2>1, RecordInv DEF NoSession, InRun, Labels
<1>5. CASE WriteMetrics
  <2> DEFINE eval == Resolve(summary, hidden)
             class == Classify(summary, eval)
  <2>1. EarnedRow(Row(summary, hidden, eval, class, FALSE)) /\ eval \in Labels /\ class \in Labels
    BY <1>5, LabelsEarned DEF WriteMetrics, EarnedRow, Row
  <2>2. Record(Row(summary, hidden, eval, class, FALSE)) /\ pc \in InRun
    BY <1>5 DEF WriteMetrics, InRun
  <2>3. summary \in Summaries /\ hidden \in HiddenStatuses \cup {"none"}
    BY DEF TypeInv
  <2> HIDE DEF eval, class
  <2> QED BY <2>1, <2>2, <2>3, RecordInv
<1>6. CASE DockerThere \/ BaselineFails
  <2>1. GateInv'
    BY <1>6 DEF DockerThere, BaselineFails, RunStep, Goto, Run, GateInv
  <2> QED
    BY <1>6, <2>1, QuietInv DEF DockerThere, BaselineFails, RunStep, Goto, Run, InRun, TypeInv
<1>7. CASE Session \/ RunHidden \/ SkipHidden
  <2>1. GateInv'
    BY <1>7
    DEF Session, RunHidden, SkipHidden, RunStep, Goto, Run, GateInv, HiddenStatuses, Position, Consistent
  <2> QED
    BY <1>7, <2>1, QuietInv DEF Session, RunHidden, SkipHidden, RunStep, Goto, Run, InRun, TypeInv
<1> QED BY <1>2, <1>3, <1>4, <1>5, <1>6, <1>7

LEMMA NextRunInv == IInv /\ NextRun => IInv'
<1> SUFFICES ASSUME IInv, NextRun PROVE IInv'
  OBVIOUS
<1> USE DEF IInv
<1>1. /\ pc = "next"
      /\ UNCHANGED <<driver, round, freeze, runs, tree, restored, index, summary, hidden>>
  BY DEF NextRun, campaign, files, Run
<1>2. \/ task' = task /\ again' = TRUE /\ pc' = "docker"
      \/ task' = task + 1 /\ task < NumTasks /\ again' = FALSE /\ pc' = "docker"
      \/ task' = task /\ task = NumTasks /\ again' = FALSE /\ pc' = "index"
  BY DEF NextRun, Goto
<1>3. task' \in 1..NumTasks
  BY <1>2, RowsTyped, CampaignAssumption
<1>4. TypeInv' /\ GateInv'
  BY <1>1, <1>2, <1>3 DEF TypeInv, GateInv, InRun
<1>5. Listed' /\ IndexInv'
  BY <1>1 DEF Listed, IndexInv, Changed, Unnoticed
<1>6. /\ \A k \in DOMAIN runs : runs[k].task <= task /\ runs[k].task \in Int
      /\ runs # << >> /\ runs[Len(runs)].task = task
      /\ HasFirst(task) /\ \A t \in 1..(task - 1) : HasFirst(t)
  BY <1>1, RowsTyped DEF Reached
<1>7. \A t : HasFirst(t)' <=> HasFirst(t)
  BY <1>1 DEF HasFirst
<1>8. Reached'
  <2>1. \A k \in DOMAIN runs : runs[k].task <= task' /\ (task' = task + 1 => runs[k].task < task')
    BY <1>2, <1>6, RowsTyped
  <2>2. \A t \in 1..(task' - 1) : HasFirst(t)
    <3>1. \A t \in 1..(task' - 1) : t \in 1..(task - 1) \/ t = task
      BY <1>2, RowsTyped
    <3> QED BY <1>6, <3>1
  <2>3. task' = task + 1 => task' # task
    BY RowsTyped
  <2> QED BY <1>1, <1>2, <1>6, <1>7, <2>1, <2>2, <2>3 DEF Reached, InRun
<1> QED BY <1>4, <1>5, <1>8

LEMMA NextInv == IInv /\ [Next]_vars => IInv'
<1> SUFFICES ASSUME IInv, [Next]_vars PROVE IInv'
  OBVIOUS
<1> USE DEF IInv, Goto, campaign, Position, files, Run
<1>1. CASE RecordFreeze
  <2>1. TypeInv' /\ GateInv' /\ IndexInv'
    BY <1>1 DEF RecordFreeze, TypeInv, GateInv, IndexInv, InRun
  <2>2. Listed' /\ Reached'
    BY <1>1 DEF RecordFreeze, Listed, Reached, HasFirst, InRun
  <2> QED BY <2>1, <2>2
<1>2. CASE NextRun BY <1>2, NextRunInv
<1>3. CASE WriteIndex
  <2>1. TypeInv' /\ GateInv'
    BY <1>3 DEF WriteIndex, TypeInv, GateInv, InRun
  <2>2. Listed' /\ Reached'
    BY <1>3 DEF WriteIndex, Listed, Changed, Reached, HasFirst, InRun
  <2>3. \A t \in 1..NumTasks : HasFirst(t)
    <3>1. task = NumTasks /\ HasFirst(task) /\ \A t \in 1..(task - 1) : HasFirst(t)
      BY <1>3 DEF WriteIndex, Reached
    <3>2. \A t \in 1..NumTasks : t \in 1..(task - 1) \/ t = task
      BY <3>1, CampaignAssumption
    <3> QED BY <3>1, <3>2
  <2>4. index'.drift = {} /\ ~restored =>
          \A k \in DOMAIN runs : Changed(runs[k].tree) \subseteq Unnoticed
    <3>1. index'.drift = {} => Changed(tree) \subseteq Unnoticed
      BY <1>3 DEF WriteIndex, Drift
    <3> QED BY <3>1 DEF Listed
  <2>5. IndexInv'
    BY <1>3, <2>3, <2>4 DEF WriteIndex, IndexInv, FirstRuns, Eligible, HasFirst, Changed, Unnoticed
  <2> QED BY <2>1, <2>2, <2>5
<1>4. CASE NextRound
  <2>1. TypeInv' /\ GateInv' /\ IndexInv'
    BY <1>4, CampaignAssumption DEF NextRound, TypeInv, GateInv, IndexInv, NoIndex, InRun
  <2>2. Listed' /\ Reached'
    BY <1>4 DEF NextRound, Listed, Reached, HasFirst, InRun
  <2> QED BY <2>1, <2>2
<1>5. CASE Dies
  <2>1. TypeInv' /\ GateInv' /\ Listed' /\ Reached'
    BY <1>5 DEF Dies, TypeInv, GateInv, Listed, Changed, Reached, HasFirst, InRun
  <2>2. IndexInv'
    BY <1>5 DEF Dies, IndexInv, FirstRuns, Eligible, HasFirst, Changed, Unnoticed
  <2> QED BY <2>1, <2>2
<1>6. CASE Edit
  <2>1. /\ tree' \in SUBSET Edits /\ UNCHANGED <<freeze, runs>>
        /\ restored => restored'
        /\ ~restored' => Changed(tree) \subseteq Changed(tree')
    BY <1>6 DEF Edit, TypeInv, Changed
  <2>2. \A t : Changed(t)' = Changed(t)
    BY <2>1 DEF Changed
  <2>3. TypeInv' /\ GateInv' /\ Reached'
    BY <1>6, <2>1 DEF Edit, TypeInv, GateInv, Reached, HasFirst
  <2>4. Listed'
    <3>1. Changed(tree)' = (tree' \ freeze) \cup (freeze \ tree')
      BY <2>1 DEF Changed
    <3>2. ~restored' => Changed(tree) \subseteq Changed(tree)'
      BY <2>1, <3>1 DEF Changed
    <3>3. \A k \in DOMAIN runs : ~restored' => Changed(runs[k].tree) \subseteq Changed(tree)'
      BY <2>1, <3>2 DEF Listed
    <3> QED BY <2>1, <2>2, <3>3 DEF Listed
  <2>5. IndexInv'
    BY <1>6, <2>1, <2>2 DEF Edit, IndexInv, FirstRuns, Eligible, HasFirst, Unnoticed
  <2> QED BY <2>3, <2>4, <2>5
<1>7. CASE UNCHANGED vars
  BY <1>7 DEF vars, TypeInv, GateInv, Listed, Reached, HasFirst, IndexInv, FirstRuns, Eligible,
              Changed, Unnoticed
<1> QED BY <1>1, <1>2, <1>3, <1>4, <1>5, <1>6, <1>7, RunInv DEF Next

LEMMA InvAlways == Spec => []IInv
BY InitInv, NextInv, PTL DEF Spec

----------------------------------------------------------------------------
(* The theorems.                                                           *)

\* Success is earned, and both labels of a row agree on it.
THEOREM SuccessEarned == Spec => []SuccessIsEarned
<1>1. IInv => SuccessIsEarned
  BY DEF IInv, Listed, EarnedRow, SuccessIsEarned
<1> QED BY <1>1, InvAlways, PTL

\* Every task counts by its first run.
THEOREM FirstRunCounts == Spec => []CanonicalIsFirst
<1>1. IInv => CanonicalIsFirst
  <2> SUFFICES ASSUME IInv, index.written, NEW t \in 1..NumTasks,
                      NEW first, first = CHOOSE k \in DOMAIN runs :
                        runs[k].task = t /\ \A j \in 1..(k - 1) : runs[j].task # t
               PROVE  LET counted == {r \in index.canonical : r.task = t}
                      IN \/ counted = {runs[first]}
                         \/ driver = "pilot" /\ runs[first].skipped /\ counted = {}
    BY DEF CanonicalIsFirst
  <2>1. /\ index.canonical = FirstRuns /\ HasFirst(t)
    BY DEF IInv, IndexInv
  <2>2. PICK k \in DOMAIN runs : runs[k].task = t /\ ~runs[k].again
    BY <2>1 DEF HasFirst
  <2>3. \A j \in DOMAIN runs : j < k => runs[j].task # t
    <3> SUFFICES ASSUME NEW j \in DOMAIN runs, j < k, runs[j].task = t PROVE FALSE
      OBVIOUS
    <3>1. k - 1 \in DOMAIN runs /\ k > 1 /\ (j = k - 1 \/ j < k - 1)
      BY RowsTyped DEF IInv
    <3>2. runs[k - 1].task # t
      BY <2>2, <3>1 DEF IInv, Listed
    <3>3. t <= runs[k - 1].task /\ runs[k - 1].task <= t
      BY <2>2, <3>1, RowsTyped DEF IInv, Listed
    <3>4. runs[k - 1].task \in Int
      BY <3>1, RowsTyped DEF IInv
    <3> QED BY <3>2, <3>3, <3>4
  <2>4. \A j \in DOMAIN runs : runs[j].task = t /\ j # k => runs[j].again
    <3> SUFFICES ASSUME NEW j \in DOMAIN runs, runs[j].task = t, j # k PROVE runs[j].again
      OBVIOUS
    <3>1. j > k /\ j - 1 \in DOMAIN runs /\ (j - 1 = k \/ k < j - 1)
      BY <2>3, RowsTyped DEF IInv
    <3>2. t <= runs[j - 1].task /\ runs[j - 1].task <= t /\ runs[j - 1].task \in Int
      BY <2>2, <3>1, RowsTyped DEF IInv, Listed
    <3>3. runs[j - 1].task = runs[j].task /\ j > 1
      BY <2>2, <3>1, <3>2, RowsTyped DEF IInv
    <3>4. runs[j].again <=> j > 1 /\ runs[j - 1].task = runs[j].task
      BY DEF IInv, Listed
    <3> QED BY <3>3, <3>4
  <2>5. first = k
    <3>1. \A q \in DOMAIN runs :
            (runs[q].task = t /\ \A j \in 1..(q - 1) : runs[j].task # t) <=> q = k
      BY <2>2, <2>3, RowsTyped DEF IInv
    <3> QED BY <2>2, <3>1
  <2>6. \A r \in FirstRuns : r.task = t => r = runs[k]
    BY <2>4 DEF FirstRuns, Eligible, ToSet
  <2>7. runs[k] \in FirstRuns <=> (driver = "pilot" => ~runs[k].skipped)
    <3>1. runs[k].number = k
      BY <2>2 DEF IInv, Listed
    <3>2. \A j \in 1..(k - 1) : runs[j].task # t
      BY <2>3, RowsTyped DEF IInv
    <3> QED BY <2>2, <3>1, <3>2 DEF FirstRuns, Eligible, ToSet
  <2>8. runs[k].task = t
    BY <2>2
  <2> QED BY <2>1, <2>5, <2>6, <2>7, <2>8
<1> QED BY <1>1, InvAlways, PTL

\* An index without drift errors speaks of the frozen files, added assets
\* apart, if no edit of the round was put back.
THEOREM DriftSeen == Spec => []DriftIsSeen
<1>1. IInv => DriftIsSeen
  BY DEF IInv, IndexInv, DriftIsSeen, FirstRuns, ToSet
<1> QED BY <1>1, InvAlways, PTL
=============================================================================
