------------------------------ MODULE Ablation ------------------------------
(***************************************************************************)
(* The controlled comparison of sessions with and without preflight        *)
(* (examples/real_bug_benchmark/run_preflight_ablation.py, on run_one of   *)
(* run_model_eval.py) and its publication (publish_preflight_ablation.py,  *)
(* verify_preflight_ablation.py).                                          *)
(*                                                                         *)
(* A campaign goes through a fixed schedule of slots, keeps what is done   *)
(* in ablation_index.json, and is resumed from there after an environment  *)
(* failure, an exception or the death of its process.  In between, people  *)
(* edit the repository it is run from.                                     *)
(***************************************************************************)
EXTENDS Integers, Sequences, SequencesExt

CONSTANTS
  NumTasks,
  Spendings(_),  \* [time, cost] of a slot by its outcome, in parts of the limits
  Limits,        \* [time, cost] that the command line may give
  Trees,         \* the repository: what freeze_record hashes, the commit, edits
  Clean,         \* those without uncommitted edits of tracked files
  Absent,        \* no file, or no process
  MaxStarts      \* processes

----------------------------------------------------------------------------
(* build_schedule: both conditions of a task come one after the other, and *)
(* which comes first alternates with the task and with the repeat.         *)

Slots == 1..(4 * NumTasks)
Repeat(s) == IF s <= 2 * NumTasks THEN 1 ELSE 2
Task(s) == (s - 1 - 2 * NumTasks * (Repeat(s) - 1)) \div 2

EnabledFirst(s) == (Task(s) + Repeat(s)) % 2 = 1
PreflightEnabled(s) == IF s % 2 = 1 THEN EnabledFirst(s) ELSE ~EnabledFirst(s)

\* What a slot ends with.  invalid: the baseline did not fail as it should, no
\* session was run.  unlogged: docker did not run the hidden tests.  unpriced:
\* the provider reported no tokens.
Counted == {"passed", "failed", "unlogged", "unpriced", "invalid"}
Outcomes == Counted \cup {"environment"}
Rows == [slot : Slots, outcome : Outcomes, spent : [time : Nat, cost : Nat], tree : Trees]
Statuses == {"running", "complete", "stopped_time_limit", "stopped_cost_limit",
             "stopped_environment_failure", "stopped_orchestrator_error"}

Campaigns == [frozen : Trees, limits : Limits, status : Statuses,
              runs : Seq(Rows), failures : Seq(Rows)]

\* runs.json, whether there is a summary.json, and the slots of failures/.
Bundles == [runs : Seq(Rows), summary : BOOLEAN, environment_failures : {0},
            failures : SUBSET Slots]

ASSUME AblationAssumption ==
  /\ NumTasks \in Nat \ {0} /\ MaxStarts \in Nat /\ Clean \subseteq Trees
  /\ Absent \notin Campaigns
  /\ \A o \in Outcomes : Spendings(o) \subseteq [time : Nat, cost : Nat]
  /\ Limits \subseteq [time : Nat \ {0}, cost : Nat \ {0}]

VARIABLES
  pc,        \* what the process does next ("down": there is none)
  args,      \* limits on its command line, until they are checked
  state,     \* the campaign as the process has it
  row,       \* what run_one returns
  folder,    \* the experiment directory exists
  index,     \* ablation_index.json
  bundle,    \* the published files
  tree,      \* the repository the campaign is run from
  starts,    \* processes so far
  touched    \* the repository was edited under a running process (history)

files == <<folder, index, bundle>>
repository == <<tree, touched>>
vars == <<pc, args, state, row, files, repository, starts>>

Init ==
  /\ pc = "down" /\ args = Absent /\ state = Absent /\ row = Absent
  /\ folder = FALSE /\ index = Absent /\ bundle = Absent
  /\ tree \in Clean /\ touched = FALSE /\ starts = 0

----------------------------------------------------------------------------
(* Start and resume.                                                       *)

Goto(next) == pc' = next

\* The process ends, its memory is gone.
Exit == Goto("down") /\ args' = Absent /\ state' = Absent /\ row' = Absent

Begin(l) ==
  /\ pc = "down" /\ starts < MaxStarts /\ starts' = starts + 1
  /\ args' = l /\ row' = Absent /\ UNCHANGED <<index, bundle, repository>>

\* The directory must not exist yet.
StartNew(l) ==
  /\ index = Absent /\ tree \in Clean /\ ~folder
  /\ Begin(l) /\ Goto("create") /\ folder' = TRUE
  /\ state' = [frozen |-> tree, limits |-> l, status |-> "running",
               runs |-> << >>, failures |-> << >>]

\* freeze.json, then the index.
Create ==
  /\ pc = "create" /\ Goto("check") /\ index' = state
  /\ UNCHANGED <<args, state, row, folder, bundle, repository, starts>>

StartAgain(l) ==
  /\ index # Absent /\ Begin(l) /\ Goto("check")
  /\ state' = [index EXCEPT !.status = "running"] /\ UNCHANGED folder

\* Fault: a resumed campaign takes the repository as it is.
ChecksNothing == state.limits = args

\* assert_frozen_inputs.
InputsFrozen == state.frozen = tree /\ tree \in Clean /\ state.limits = args

Check ==
  /\ pc = "check"
  /\ \/ InputsFrozen /\ Goto("slot") /\ args' = Absent /\ UNCHANGED <<state, row>>
     \/ ~InputsFrozen /\ Exit
  /\ UNCHANGED <<files, repository, starts>>

----------------------------------------------------------------------------
(* The slots.                                                              *)

\* Fault: slots that failed count as done.
DonePastFailures(c) == {c.runs[k].slot : k \in DOMAIN c.runs} \cup
                       {c.failures[k].slot : k \in DOMAIN c.failures}

Done(c) == {c.runs[k].slot : k \in DOMAIN c.runs}
NextSlot(c) == CHOOSE s \in Slots \ Done(c) : \A r \in Slots \ Done(c) : s <= r

Total(rows) ==
  FoldLeft(LAMBDA sum, r : [time |-> sum.time + r.spent.time, cost |-> sum.cost + r.spent.cost],
           [time |-> 0, cost |-> 0], rows)

\* Fault: only the last slot is held against the limits.
SpentLast(c) ==
  LET sum == Total(SelectSeq(c.runs, LAMBDA r : r.slot = Len(c.runs)))
  IN IF sum.time >= c.limits.time THEN "stopped_time_limit"
     ELSE IF sum.cost >= c.limits.cost THEN "stopped_cost_limit" ELSE "running"

\* What environment failures and lost slots took is not in the totals, and a
\* slot without a price counts as free.
Spent(c) ==
  LET sum == Total(c.runs)
  IN IF sum.time >= c.limits.time THEN "stopped_time_limit"
     ELSE IF sum.cost >= c.limits.cost THEN "stopped_cost_limit" ELSE "running"

StopWith(status) == Goto("finish") /\ state' = [state EXCEPT !.status = status]

NextOrStop ==
  /\ pc = "slot"
  /\ \/ Done(state) = Slots /\ StopWith("complete")
     \/ Done(state) # Slots /\ Spent(state) # "running" /\ StopWith(Spent(state))
     \/ /\ Done(state) # Slots /\ Spent(state) = "running"
        /\ Goto("prepare") /\ UNCHANGED state
  /\ UNCHANGED <<args, row, files, repository, starts>>

\* run_one returns.  Nothing is spent on a model before the baseline is valid.
Row(outcome, spent) ==
  row' = [slot |-> NextSlot(state), outcome |-> outcome, spent |-> spent, tree |-> tree]
RunStep == UNCHANGED <<args, state, files, repository, starts>>

Baseline ==
  /\ pc = "prepare" /\ RunStep
  /\ \/ Goto("session") /\ UNCHANGED row
     \/ /\ Goto("row")
        /\ \E o \in {"invalid", "environment"} :
             \E spent \in {s \in Spendings(o) : s.cost = 0} : Row(o, spent)

\* run_one returns what the session and then the hidden tests came to: only
\* an environment or API failure of the session is one.
RunSession ==
  /\ pc = "session" /\ Goto("row") /\ RunStep
  /\ \E o \in Outcomes \ {"invalid"} :
       \E spent \in {s \in Spendings(o) : o = "unpriced" => s.cost = 0} : Row(o, spent)

\* No clone, no image, no hidden patch, an artifact that cannot be copied.
RunRaises ==
  /\ pc \in {"prepare", "session"} /\ Exit
  /\ index' = [state EXCEPT !.status = "stopped_orchestrator_error"]
  /\ UNCHANGED <<folder, bundle, repository, starts>>

Retain ==
  /\ pc = "row" /\ row.outcome = "environment" /\ Exit
  /\ index' = [state EXCEPT !.failures = Append(@, row),
                            !.status = "stopped_environment_failure"]
  /\ UNCHANGED <<folder, bundle, repository, starts>>

\* The row is appended and saved by atomic_json, then the limits are checked.
Count ==
  /\ pc = "row" /\ row.outcome # "environment"
  /\ LET counted == [state EXCEPT !.runs = Append(@, row)]
     IN /\ index' = counted
        /\ state' = [counted EXCEPT !.status = Spent(counted)]
        /\ Goto(IF Spent(counted) = "running" THEN "slot" ELSE "finish")
  /\ row' = Absent /\ UNCHANGED <<args, folder, bundle, repository, starts>>

\* The index, then summary.json and REPORT.md, which repeat it.
Finish ==
  /\ pc = "finish" /\ Exit /\ index' = state
  /\ UNCHANGED <<folder, bundle, repository, starts>>

Crash ==
  /\ pc # "down" /\ Exit /\ UNCHANGED <<files, repository, starts>>

----------------------------------------------------------------------------
(* Publication.                                                            *)

\* Fault: campaigns that were stopped are published too.
PublishableEarly == pc = "down" /\ index # Absent

\* Rows of sessions that were never run lack what sanitize_run takes.
Publishable ==
  /\ pc = "down" /\ index # Absent /\ index.status = "complete"
  /\ \A k \in DOMAIN index.runs : index.runs[k].outcome # "invalid"

\* The old bundle is removed first.  A row without tokens stops the new one at
\* its summary, a row without a log at its failures.  environment_failures is
\* a constant of calculate_summary.
Publish ==
  /\ Publishable
  /\ LET runs == index.runs
         bad == {k \in DOMAIN runs : runs[k].outcome \in {"failed", "unlogged"}}
         priced == \A k \in DOMAIN runs : runs[k].outcome # "unpriced"
     IN bundle' = [runs |-> runs, summary |-> priced, environment_failures |-> 0,
                   failures |-> {k \in bad : /\ priced
                                             /\ \A j \in bad : j <= k => runs[j].outcome = "failed"}]
  /\ UNCHANGED <<pc, args, state, row, folder, index, repository, starts>>

\* verify: each identity once, in the order of the schedule, a summary that
\* adds up, and a diff and a log for every failed slot.
Verified ==
  /\ bundle # Absent /\ bundle.summary
  /\ Len(bundle.runs) = 4 * NumTasks /\ \A s \in Slots : bundle.runs[s].slot = s
  /\ bundle.environment_failures = 0
  /\ bundle.failures = {s \in Slots : bundle.runs[s].outcome \in {"failed", "unlogged"}}

----------------------------------------------------------------------------
Process ==
  \/ Create \/ Check \/ NextOrStop \/ Baseline \/ RunSession \/ RunRaises
  \/ Retain \/ Count \/ Finish

\* Somebody edits or commits.
Edit ==
  /\ tree' \in Trees \ {tree} /\ touched' = (touched \/ pc # "down")
  /\ UNCHANGED <<pc, args, state, row, files, starts>>

Next ==
  \/ \E l \in Limits : StartNew(l) \/ StartAgain(l)
  \/ Process \/ Crash \/ Publish \/ Edit

Spec == Init /\ [][Next]_vars

----------------------------------------------------------------------------
(* Properties.                                                             *)

\* Every variable has its type.
TypeOK ==
  /\ pc \in {"down", "create", "check", "slot", "prepare", "session", "row", "finish"}
  /\ args \in Limits \cup {Absent} /\ state \in Campaigns \cup {Absent} /\ row \in Rows \cup {Absent}
  /\ folder \in BOOLEAN /\ index \in Campaigns \cup {Absent}
  /\ bundle \in Bundles \cup {Absent}
  /\ tree \in Trees /\ touched \in BOOLEAN
  /\ starts \in 0..MaxStarts

\* Through crashes, exceptions and resumes every slot is counted once and in
\* the order of the schedule, a slot whose environment failed comes up again,
\* and "complete" means all of them (the frozen rerun_policy).
ScheduleKept ==
  index # Absent =>
    /\ \A k \in DOMAIN index.runs : index.runs[k].slot = k
    /\ \A k \in DOMAIN index.failures :
         /\ index.failures[k].slot <= Len(index.runs) + 1
         /\ \A j \in 1..(k - 1) : index.failures[j].slot <= index.failures[k].slot
    /\ index.status = "complete" => Done(index) = Slots

\* A slot is only begun while the counted ones are under both limits, those of
\* earlier processes included (limits.enforcement).  It bounds the sum of the
\* counted rows, by one slot's worth over a limit: what lost slots and
\* environment failures spent is in no total and has no bound here.
BudgetKept ==
  index # Absent /\ index.runs # << >> =>
    LET before == Total(Front(index.runs))
    IN ~(before.time >= index.limits.time) /\ ~(before.cost >= index.limits.cost)

\* What was edited while no process ran never gets into a campaign: all its
\* rows are from the repository that was frozen (assert_frozen_inputs).
FrozenRows ==
  index # Absent /\ ~touched =>
    \A k \in DOMAIN index.runs : index.runs[k].tree = index.frozen

\* A bundle that verifies is the whole of the campaign as its index still has
\* it: publications that stopped halfway do not verify, and nothing is added
\* to a campaign that was published.
VerifiedIsWhole ==
  Verified => bundle.runs = index.runs /\ index.status = "complete"
=============================================================================
