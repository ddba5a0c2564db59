-------------------------- MODULE HiddenEvalProofs --------------------------
(***************************************************************************)
(* Proofs about HiddenEval and the DockerRun it is built on, for every     *)
(* value of the constants.                                                 *)
(*                                                                         *)
(* None of the properties is inductive: each speaks of the moment a result *)
(* is there and follows from what holds on the way to it.  RunInv says     *)
(* what the result, the copy and the container of the current call have to *)
(* do with each other at every point of run_pytest, PhaseInv what the      *)
(* directories hold at every point of the evaluation.                      *)
(***************************************************************************)
EXTENDS HiddenEval, TLAPS

Before == {"info", "inspect", "resolve", "mkdtemp", "copytree", "launch"}
Finally == {"cleanup", "wipe", "rmdir", "settle"}
Reported == {"log", "returned"}

\* What a result says of its container and of the limit that ran out.
Honest ==
  /\ result.kind # "missing"
  /\ pending = "timeout" => result.kind = "timeout"
  /\ pending # "none" => result.kind \in {"environment", "timeout"}
  /\ Passed(result) => container[run] = "passed"

\* Boxes that were not used yet are empty; the copy is exact when the
\* container is started, and gone at the end unless that is an error.
BoxInv ==
  /\ \A r \in Runs : r > run \/ (r = run /\ pc \in Before) => container[r] = "none"
  /\ \A r \in Runs : r > run \/ (r = run /\ pc \in Before \ {"copytree", "launch"}) => copy[r] = NoCopy
  /\ pc = "launch" => copy[run].tree = disk[root]
  /\ pc \in {"settle"} \cup Reported => cleanup_error \/ ~copy[run].parent

RunInv ==
  /\ BoxInv
  /\ \A r \in Runs : container[r] \in Outcomes => container[r] \in Suite[tested[r]]
  /\ pc \notin Before \cup {"idle"} /\ container[run] # "none" => tested[run] = disk[root]
  /\ pc \in Before \cup {"waiting"} => pending = "none" /\ result = Missing
  /\ pc = "stop" => pending # "none" /\ result = Missing
  /\ pc \in Finally => result = Missing \/ Honest
  /\ pc \in Reported => Honest
  /\ pc \in Before \cup {"waiting", "stop", "cleanup", "wipe", "rmdir"} => ~cleanup_error
  /\ pc \in Reported /\ cleanup_error => result.kind \in {"environment", "timeout"}

\* The hidden tests passed on what the session left.
Earned ==
  /\ run \in Runs /\ tested[run] = WithHidden[Working] /\ container[run] = "passed"
  /\ "passed" \in Suite[WithHidden[Working]]

\* No container of a session has been given a hidden test.
PublicRuns == \A r \in Runs : tested[r] \in Public \cup {Absent}

PhaseInv ==
  /\ disk["working_copy"] \in Public
  /\ phase = "testing" => root = "working_copy"
  /\ phase \in {"session", "testing"} => PublicRuns
  /\ pc # "idle" => phase \in {"testing", "running"}
  /\ phase = "inject" => disk["eval_copy"] = Working
  /\ phase \in {"resolve", "running"} => disk["eval_copy"] = WithHidden[Working]
  /\ phase = "running" => root = "eval_copy"
  /\ (phase = "removing" /\ ~raising) \/ phase \in {"compare", "metrics"} =>
       (Passed(result) => Earned)
  /\ hidden_pass # "none" => phase = "done"
  /\ hidden_pass = "true" => Earned

IInv == TypeOK /\ RunInv /\ PhaseInv

----------------------------------------------------------------------------
(* Types.                                                                  *)

LEMMA TypeRunner == TypeOK /\ Runner /\ UNCHANGED evaluation => TypeOK'
<1> SUFFICES ASSUME TypeOK, Runner, UNCHANGED evaluation PROVE TypeOK'
  OBVIOUS
<1> USE DEF TypeOK, Goto, boxes, answer, evaluation, product, verdict, Ended, Runs
<1>1. run \in Nat /\ (pc # "idle" => run \in 1..MaxRuns)
  BY SuiteAssumption
<1>2. CASE Preflight BY <1>1, <1>2 DEF Preflight
<1>3. CASE PreflightFails
  BY <1>1, <1>3 DEF PreflightFails, EnvironmentError, Results, Kinds
<1>4. CASE ResolveImage BY <1>1, <1>4 DEF ResolveImage
<1>5. CASE MakeDirectory
  <2>1. copy' \in [Runs -> Copies]
    <3>1. CASE copy' = [copy EXCEPT ![run].parent = TRUE]
      BY <1>1, <1>5, <3>1 DEF MakeDirectory, Copies
    <3> QED BY <3>1, <1>5 DEF MakeDirectory
  <2> QED BY <1>1, <1>5, <2>1 DEF MakeDirectory
<1>6. CASE CopyTree BY <1>1, <1>6 DEF CopyTree, Copies
<1>7. CASE CopyFails
  BY <1>1, <1>7 DEF CopyFails, Copies, Contents, EnvironmentError, Results, Kinds
<1>8. CASE Launch BY <1>1, <1>8 DEF Launch, Copies
<1>9. CASE LaunchHangs BY <1>1, <1>9 DEF LaunchHangs
<1>10. CASE LaunchRefused BY <1>1, <1>10 DEF LaunchRefused, Results, Kinds
<1>11. CASE ClientReturns BY <1>1, <1>11 DEF ClientReturns, ResultOf, Results, Kinds
<1>12. CASE ClientGivenUp BY <1>1, <1>12 DEF ClientGivenUp
<1>13. CASE ForceRemove BY <1>1, <1>13 DEF ForceRemove, Results, Kinds
<1>14. CASE ForceRemoveRaises BY <1>1, <1>14 DEF ForceRemoveRaises
<1>15. CASE HostRemoves BY <1>1, <1>15 DEF HostRemoves, NoCopy, Copies, Contents
<1>16. CASE HostRemoveFails BY <1>1, <1>16 DEF HostRemoveFails, Copies, Contents
<1>17. CASE Wipe BY <1>1, <1>17 DEF Wipe, Copies, Contents
<1>18. CASE RemoveEmptied BY <1>1, <1>18 DEF RemoveEmptied, NoCopy, Copies, Contents
<1>19. CASE CleanupFails BY <1>1, <1>19 DEF CleanupFails
<1>20. CASE Settle BY <1>1, <1>20 DEF Settle, WithCleanupFailure, Results, Kinds
<1>21. CASE WriteLog BY <1>1, <1>21 DEF WriteLog
<1>22. CASE ClientLost BY <1>1, <1>22 DEF ClientLost, ResultOf, Results, Kinds
<1> QED
  BY <1>2, <1>3, <1>4, <1>5, <1>6, <1>7, <1>8, <1>9, <1>10, <1>11, <1>12, <1>13, <1>14,
     <1>15, <1>16, <1>17, <1>18, <1>19, <1>20, <1>21, <1>22 DEF Runner, RunPytest

----------------------------------------------------------------------------
(* run_pytest.                                                             *)

LEMMA RunInvRunner == TypeOK /\ RunInv /\ Runner /\ UNCHANGED evaluation => RunInv'
<1> SUFFICES ASSUME TypeOK, RunInv, Runner, UNCHANGED evaluation PROVE RunInv'
  OBVIOUS
<1> USE DEF RunInv, BoxInv, Honest, Goto, boxes, answer, Before, Finally, Reported, Passed, Missing
<1>1. run \in Runs
  <2>1. pc # "idle"
    BY DEF Runner, RunPytest, Preflight, PreflightFails, ResolveImage, MakeDirectory, CopyTree, CopyFails, Launch, LaunchHangs, LaunchRefused, ClientReturns, ClientLost, ClientGivenUp, ForceRemove, ForceRemoveRaises, HostRemoves, HostRemoveFails, Wipe, RemoveEmptied, CleanupFails, Settle, WriteLog
  <2> QED BY <2>1, SuiteAssumption DEF TypeOK, Runs
<1>2. /\ copy \in [Runs -> Copies] /\ container \in [Runs -> {"none", "running", "removed"} \cup Outcomes]
      /\ tested \in [Runs -> Contents] /\ result \in Results
      /\ pending \in {"none", "environment", "timeout"}
  BY DEF TypeOK
<1>3. CASE Preflight
  BY <1>1, <1>2, <1>3 DEF Preflight, Runs, Copies, NoCopy, Results, Outcomes
<1>4. CASE PreflightFails
  BY <1>1, <1>2, <1>4 DEF PreflightFails, EnvironmentError, Runs, Copies, NoCopy, Results, Outcomes
<1>5. CASE ResolveImage
  BY <1>1, <1>2, <1>5 DEF ResolveImage, Runs, Copies, NoCopy, Results, Outcomes
<1>6. CASE MakeDirectory
  <2>1. \A r \in Runs : r # run => copy'[r] = copy[r]
    BY <1>1, <1>2, <1>6 DEF MakeDirectory, Copies
  <2>2. pc = "mkdtemp" /\ pc' \in {"copytree", "raised"} /\ UNCHANGED <<run, root, disk, container, cleanup_error>>
    BY <1>6 DEF MakeDirectory
  <2>3. BoxInv'
    BY <1>1, <1>2, <2>1, <2>2 DEF Runs
  <2> QED
    BY <1>1, <1>2, <1>6, <2>3 DEF MakeDirectory, Runs, Results, Outcomes
<1>7. CASE CopyTree
  <2>1. \A r \in Runs : r # run => copy'[r] = copy[r]
    BY <1>1, <1>2, <1>7 DEF CopyTree, Copies
  <2>2. copy'[run].tree = disk[root]
    BY <1>1, <1>2, <1>7 DEF CopyTree, Copies
  <2>3. pc = "copytree" /\ pc' = "launch" /\ UNCHANGED <<run, root, disk, container, cleanup_error>>
    BY <1>7 DEF CopyTree
  <2>4. BoxInv'
    BY <1>1, <1>2, <2>1, <2>2, <2>3 DEF Runs
  <2> QED
    BY <1>1, <1>2, <1>7, <2>4 DEF CopyTree, Runs, Results, Outcomes
<1>8. CASE CopyFails
  <2>1. \A r \in Runs : r # run => copy'[r] = copy[r]
    BY <1>1, <1>2, <1>8 DEF CopyFails, Copies
  <2>2. pc = "copytree" /\ pc' = "cleanup" /\ UNCHANGED <<run, root, disk, container, cleanup_error>>
    BY <1>8 DEF CopyFails
  <2>3. BoxInv'
    BY <1>1, <1>2, <2>1, <2>2 DEF Runs
  <2> QED
    BY <1>1, <1>2, <1>8, <2>3 DEF CopyFails, Runs, Results, Outcomes, EnvironmentError
<1>9. CASE Launch
  BY <1>1, <1>2, <1>9 DEF Launch, Runs, Copies, NoCopy, Results, Outcomes
<1>10. CASE LaunchHangs
  BY <1>1, <1>2, <1>10 DEF LaunchHangs, Runs, Copies, NoCopy, Results, Outcomes
<1>11. CASE LaunchRefused
  BY <1>1, <1>2, <1>11 DEF LaunchRefused, Runs, Copies, NoCopy, Results, Outcomes
<1>12. CASE ClientReturns
  BY <1>1, <1>2, <1>12 DEF ClientReturns, ResultOf, Runs, Copies, NoCopy, Results, Outcomes
<1>13. CASE ClientGivenUp
  BY <1>1, <1>2, <1>13 DEF ClientGivenUp, Runs, Copies, NoCopy, Results, Outcomes
<1>14. CASE ForceRemove
  BY <1>1, <1>2, <1>14 DEF ForceRemove, Runs, Copies, NoCopy, Results, Outcomes
<1>15. CASE ForceRemoveRaises
  BY <1>1, <1>2, <1>15 DEF ForceRemoveRaises, Runs, Copies, NoCopy, Results, Outcomes
<1>16. CASE HostRemoves
  BY <1>1, <1>2, <1>16 DEF HostRemoves, Runs, Copies, NoCopy, Results, Outcomes
<1>17. CASE HostRemoveFails
  <2>1. \A r \in Runs : r # run => copy'[r] = copy[r]
    BY <1>1, <1>2, <1>17 DEF HostRemoveFails, Copies
  <2>2. pc = "cleanup" /\ pc' = "wipe" /\ UNCHANGED <<run, root, disk, container, cleanup_error>>
    BY <1>17 DEF HostRemoveFails
  <2>3. BoxInv'
    BY <1>1, <1>2, <2>1, <2>2 DEF Runs
  <2> QED
    BY <1>1, <1>2, <1>17, <2>3 DEF HostRemoveFails, Runs, Results, Outcomes
<1>18. CASE Wipe
  <2>1. \A r \in Runs : r # run => copy'[r] = copy[r]
    BY <1>1, <1>2, <1>18 DEF Wipe, Copies
  <2>2. pc = "wipe" /\ pc' = "rmdir" /\ UNCHANGED <<run, root, disk, container, cleanup_error>>
    BY <1>18 DEF Wipe
  <2>3. BoxInv'
    BY <1>1, <1>2, <2>1, <2>2 DEF Runs
  <2> QED
    BY <1>1, <1>2, <1>18, <2>3 DEF Wipe, Runs, Results, Outcomes
<1>19. CASE RemoveEmptied
  BY <1>1, <1>2, <1>19 DEF RemoveEmptied, Runs, Copies, NoCopy, Results, Outcomes
<1>20. CASE CleanupFails
  BY <1>1, <1>2, <1>20 DEF CleanupFails, Runs, Copies, NoCopy, Results, Outcomes
<1>21. CASE Settle
  BY <1>1, <1>2, <1>21 DEF Settle, WithCleanupFailure, Runs, Copies, NoCopy, Results, Outcomes
<1>22. CASE WriteLog
  BY <1>1, <1>2, <1>22 DEF WriteLog, Runs, Copies, NoCopy, Results, Outcomes
<1>23. CASE ClientLost
  BY <1>1, <1>2, <1>23 DEF ClientLost, ResultOf, Runs, Copies, NoCopy, Results, Outcomes
<1> QED
  BY <1>3, <1>4, <1>5, <1>6, <1>7, <1>8, <1>9, <1>10, <1>11, <1>12, <1>13, <1>14, <1>15, <1>16, <1>17, <1>18, <1>19, <1>20, <1>21, <1>22, <1>23 DEF Runner, RunPytest

\* Containers change nothing that a result or a verdict rests on.
LEMMA ContainersKeep ==
  ASSUME TypeOK, RunInv, Containers, UNCHANGED evaluation
  PROVE  /\ UNCHANGED <<pc, run, root, disk, tested, docker, answer>>
         /\ TypeOK' /\ RunInv'
         /\ container[run] = "passed" /\ run \in Runs => container'[run] = "passed"
<1> USE DEF TypeOK, boxes, answer, evaluation, product, verdict
<1>0. pc # "idle" => run \in Runs
  BY SuiteAssumption DEF Runs
<1>1. ASSUME NEW r \in Runs, ContainerWrites(r)
      PROVE  /\ UNCHANGED <<pc, run, root, disk, container, tested, docker, answer>>
             /\ TypeOK' /\ RunInv'
  <2>1. UNCHANGED <<pc, run, root, disk, container, tested, docker, answer>>
    BY <1>1 DEF ContainerWrites
  <2>2. PICK f \in BOOLEAN : copy' = [copy EXCEPT ![r].tree = Scribbled, ![r].foreign = f]
    <3>1. copy[r].foreign \in BOOLEAN
      BY DEF Copies
    <3>2. {copy[r].foreign, TRUE} \subseteq BOOLEAN
      BY <3>1
    <3> HIDE DEF TypeOK
    <3> QED BY <1>1, <3>2 DEF ContainerWrites
  <2>3. copy' \in [Runs -> Copies]
    <3>1. copy[r] \in Copies /\ Scribbled \in Contents
      BY DEF Contents
    <3>2. [copy[r] EXCEPT !.tree = Scribbled, !.foreign = f] \in Copies
      BY <3>1, <2>2 DEF Copies
    <3> QED BY <3>2, <2>2
  <2>4. \A q \in Runs : (q # r => copy'[q] = copy[q]) /\ copy'[q].parent = copy[q].parent
    BY <2>2 DEF Copies
  <2>5. container[r] = "running"
    BY <1>1 DEF ContainerWrites
  <2>6. BoxInv'
    BY <1>0, <2>1, <2>4, <2>5 DEF RunInv, BoxInv, Before, Reported
  <2>7. TypeOK'
    BY <2>1, <2>3
  <2>8. RunInv'
    BY <2>1, <2>6 DEF RunInv, Honest
  <2> QED
    BY <2>1, <2>7, <2>8
<1>2. ASSUME NEW r \in Runs, ContainerExits(r)
      PROVE  /\ UNCHANGED <<pc, run, root, disk, copy, tested, docker, answer>>
             /\ TypeOK' /\ RunInv' /\ (container[run] = "passed" => container'[run] = "passed")
  <2>1. UNCHANGED <<pc, run, root, disk, copy, tested, docker, answer>> /\ container[r] = "running"
    BY <1>2 DEF ContainerExits
  <2>2. PICK o \in Suite[tested[r]] \ {"hangs"} : container' = [container EXCEPT ![r] = o]
    BY <1>2 DEF ContainerExits
  <2>3. Suite[tested[r]] \subseteq Outcomes
    BY SuiteAssumption
  <2>4. container' \in [Runs -> {"none", "running", "removed"} \cup Outcomes]
    BY <2>2, <2>3
  <2>5. BoxInv'
    BY <1>0, <2>1, <2>2 DEF RunInv, BoxInv
  <2>6. \A q \in Runs : container'[q] = IF q = r THEN o ELSE container[q]
    BY <2>2
  <2>7. RunInv'
    BY <1>0, <2>1, <2>3, <2>5, <2>6 DEF RunInv, Honest, Before, Finally, Reported, Outcomes
  <2> QED
    BY <2>1, <2>2, <2>4, <2>7
<1> QED
  BY <1>1, <1>2 DEF Containers

\* A step of run_pytest leaves the workspaces alone.
LEMMA RunnerKeeps ==
  Runner => pc # "idle" /\ pc' # "idle" /\ UNCHANGED <<run, root, disk, docker>>
BY DEF Runner, RunPytest, Preflight, PreflightFails, ResolveImage, MakeDirectory, CopyTree, CopyFails,
   Launch, LaunchHangs, LaunchRefused, ClientReturns, ClientLost, ClientGivenUp, ForceRemove,
   ForceRemoveRaises, HostRemoves, HostRemoveFails, Wipe, RemoveEmptied, CleanupFails,
   Settle, WriteLog, Goto, boxes, answer

\* It gives a container what it has copied.
LEMMA RunnerTests ==
  Runner => \/ UNCHANGED tested
            \/ pc = "launch" /\ tested' = [tested EXCEPT ![run] = copy[run].tree]
BY DEF Runner, RunPytest, Preflight, PreflightFails, ResolveImage, MakeDirectory, CopyTree, CopyFails,
   Launch, LaunchHangs, LaunchRefused, ClientReturns, ClientLost, ClientGivenUp, ForceRemove,
   ForceRemoveRaises, HostRemoves, HostRemoveFails, Wipe, RemoveEmptied, CleanupFails,
   Settle, WriteLog, Goto, boxes, answer

----------------------------------------------------------------------------
(* Session and evaluation.                                                 *)

LEMMA MissingTyped == Missing \in Results
BY DEF Missing, Results, Kinds

LEMMA InitInv == Init => IInv
<1> SUFFICES ASSUME Init PROVE IInv
  OBVIOUS
<1> USE HiddenAssumption, SuiteAssumption, TreeAssumption DEF Init, RunnerInit
<1>1. TypeOK
  <2>1. disk \in [Roots -> Contents] /\ disk["working_copy"] \in Public
    BY DEF Contents
  <2>2. /\ pc = "idle" /\ run = 0 /\ run \in 0..MaxRuns /\ root \in Roots /\ docker = "up"
        /\ pending = "none" /\ result \in Results /\ cleanup_error = FALSE
    BY MissingTyped
  <2>3. /\ copy \in [Runs -> Copies] /\ tested \in [Runs -> Contents]
        /\ container \in [Runs -> {"none", "running", "removed"} \cup Outcomes]
    BY DEF Copies, NoCopy, Contents
  <2>4. phase \in Phases /\ before \in Contents /\ eval_status \in EvalStatuses
    BY DEF Phases, Contents, EvalStatuses
  <2> QED BY <2>1, <2>2, <2>3, <2>4 DEF TypeOK
<1>2. RunInv
  BY DEF RunInv, BoxInv, Honest, Before, Finally, Reported, Outcomes
<1>3. PhaseInv
  BY DEF PhaseInv, PublicRuns, Working
<1> QED BY <1>1, <1>2, <1>3 DEF IInv

LEMMA ProcessInv ==
  IInv /\ (Runner \/ Containers) /\ UNCHANGED evaluation => IInv'
<1> SUFFICES ASSUME IInv, Runner \/ Containers, UNCHANGED evaluation PROVE IInv'
  OBVIOUS
<1> USE DEF IInv
<1>1. CASE Runner
  <2>1. TypeOK' /\ RunInv'
    BY <1>1, TypeRunner, RunInvRunner
  <2>2. phase \in {"session", "testing"} => PublicRuns'
    <3>1. ASSUME phase = "testing", PublicRuns, pc = "launch",
                 tested' = [tested EXCEPT ![run] = copy[run].tree]
          PROVE  PublicRuns'
      <4>1. copy[run].tree = disk[root] /\ root = "working_copy" /\ disk[root] \in Public
        BY <3>1 DEF RunInv, BoxInv, PhaseInv
      <4>2. tested \in [Runs -> Contents]
        BY DEF TypeOK
      <4> QED BY <3>1, <4>1, <4>2 DEF PublicRuns
    <3>2. CASE UNCHANGED tested
      BY <3>2 DEF PublicRuns, PhaseInv
    <3>3. phase \in {"session", "testing"} => phase = "testing" /\ PublicRuns
      BY <1>1, RunnerKeeps DEF PhaseInv
    <3> QED BY <1>1, <3>1, <3>2, <3>3, RunnerTests
  <2>3. PhaseInv'
    BY <1>1, <2>2, RunnerKeeps DEF PhaseInv, Working, evaluation, verdict, product
  <2> QED BY <2>1, <2>3
<1>2. CASE Containers
  <2>1. PhaseInv'
    BY <1>2, ContainersKeep DEF PhaseInv, PublicRuns, Working, evaluation, verdict, product, answer, Earned
  <2> QED BY <1>2, <2>1, ContainersKeep
<1> QED BY <1>1, <1>2

\* A call begins with boxes that were not used yet.
LEMMA CallInv ==
  ASSUME IInv, NEW w \in Roots, Call(w),
         UNCHANGED <<disk, product, before, raising, verdict>>, phase' \in {"testing", "running"}
  PROVE  TypeOK' /\ RunInv'
<1> USE DEF IInv, Call, boxes
<1>1. run \in Nat /\ run' = run + 1 /\ run' \in Runs
  BY SuiteAssumption DEF TypeOK, Runs
<1>2. TypeOK'
  <2>1. pc' = "info" /\ run' \in 0..MaxRuns /\ run' > 0 /\ root' \in Roots
    BY <1>1 DEF Runs
  <2>2. result' \in Results /\ pending' = "none" /\ cleanup_error' = FALSE /\ phase' \in Phases
    BY MissingTyped DEF Phases
  <2>3. UNCHANGED <<disk, copy, container, tested, docker, method, hidden_tests,
                    product_status, before, raising, hidden_pass, eval_status>>
    BY DEF product, verdict
  <2> HIDE DEF Call
  <2> QED BY <2>1, <2>2, <2>3 DEF TypeOK
<1>3. BoxInv'
  BY <1>1 DEF RunInv, BoxInv, Before, Reported, Runs
<1>4. RunInv'
  BY <1>1, <1>3 DEF RunInv, Before, Finally, Reported
<1> QED BY <1>2, <1>4

\* A call is over, as the caller or a crash will have it.
LEMMA IdleType ==
  ASSUME TypeOK, pc' = "idle", phase' \in Phases, raising' = raising \/ raising' \in BOOLEAN,
         UNCHANGED <<run, root, disk, boxes, docker, answer, product, before, verdict>>
  PROVE  TypeOK'
<1> USE DEF TypeOK, boxes, answer, product, verdict
<1>1. /\ pc' = "idle" /\ run' \in 0..MaxRuns /\ root' \in Roots
      /\ disk' \in [Roots -> Contents] /\ copy' \in [Runs -> Copies]
  OBVIOUS
<1>2. /\ container' \in [Runs -> {"none", "running", "removed"} \cup Outcomes]
      /\ tested' \in [Runs -> Contents] /\ docker' \in {"up", "no_image", "down", "hung"}
  OBVIOUS
<1>3. /\ pending' \in {"none", "environment", "timeout"} /\ result' \in Results
      /\ cleanup_error' \in BOOLEAN
  OBVIOUS
<1>4. /\ method' \in {"task", "isolated"} /\ hidden_tests' \in BOOLEAN
      /\ product_status' \in {"none", "OTHER", "SUCCEEDED"} /\ before' \in Contents
      /\ raising' \in BOOLEAN
      /\ hidden_pass' \in {"none", "true", "false"} /\ eval_status' \in EvalStatuses
  OBVIOUS
<1> HIDE DEF boxes, answer, product, verdict
<1> QED BY <1>1, <1>2, <1>3, <1>4

\* Between two calls the workspaces may change.
LEMMA IdleInv ==
  ASSUME RunInv, pc' = "idle", UNCHANGED <<run, boxes, answer>>
  PROVE  RunInv'
BY DEF RunInv, BoxInv, boxes, answer, Before, Finally, Reported

LEMMA SessionInv ==
  IInv /\ (SessionApplies \/ SessionTests \/ SessionSees) => IInv'
<1> SUFFICES ASSUME IInv, SessionApplies \/ SessionTests \/ SessionSees PROVE IInv'
  OBVIOUS
<1> USE DEF IInv, product, verdict
<1>1. CASE SessionApplies
  <2>1. TypeOK'
    BY <1>1, HiddenAssumption DEF SessionApplies, TypeOK, Contents, runner, boxes, answer, evaluation
  <2>2. RunInv'
    BY <1>1, IdleInv DEF SessionApplies, runner
  <2>3. PhaseInv'
    BY <1>1, HiddenAssumption DEF SessionApplies, TypeOK, PhaseInv, PublicRuns, Working, evaluation, runner, boxes
  <2> QED BY <2>1, <2>2, <2>3
<1>2. CASE SessionTests
  <2>1. TypeOK' /\ RunInv'
    BY <1>2, CallInv, HiddenAssumption DEF SessionTests
  <2>2. PhaseInv'
    BY <1>2 DEF SessionTests, Call, PhaseInv, PublicRuns, Working, boxes
  <2> QED BY <2>1, <2>2
<1>3. CASE SessionSees
  <2>1. TypeOK'
    BY <1>3 DEF SessionSees, TypeOK, boxes, answer, Phases
  <2>2. RunInv'
    BY <1>3, IdleInv DEF SessionSees
  <2>3. PhaseInv'
    BY <1>3 DEF SessionSees, PhaseInv, PublicRuns, Working, boxes
  <2> QED BY <2>1, <2>2, <2>3
<1> QED BY <1>1, <1>2, <1>3

\* What the evaluation does to the directories: the working copy stays.
LEMMA EvalCopyOnly ==
  ASSUME disk \in [Roots -> Contents], NEW t, SetEval(t)
  PROVE  disk'["working_copy"] = disk["working_copy"] /\ disk'["eval_copy"] = t
         /\ (t \in Contents => disk' \in [Roots -> Contents])
BY HiddenAssumption DEF SetEval

LEMMA EvalInv ==
  ASSUME IInv, SkipHidden \/ StartHidden \/ RemoveStale \/ CopyWorking \/ Inject
               \/ RemoveEval \/ Compare \/ WriteMetrics
  PROVE  IInv'
<1> USE DEF IInv
<1>1. /\ pc = "idle" /\ UNCHANGED runner /\ UNCHANGED product
      /\ phase \in {"ended", "stale", "copying", "inject", "removing", "compare", "metrics"}
  BY DEF PhaseInv, EvalStep, SkipHidden, StartHidden, RemoveStale, CopyWorking, Inject,
         RemoveEval, Compare, WriteMetrics
<1>2. RunInv'
  BY <1>1, IdleInv DEF runner
<1>3. disk \in [Roots -> Contents] /\ Working \in Public /\ Absent \in Contents /\ Scribbled \in Contents
  BY HiddenAssumption DEF PhaseInv, Working, TypeOK, Contents
<1>4. hidden_pass = "none"
  BY <1>1 DEF PhaseInv
<1>5. ASSUME /\ disk' \in [Roots -> Contents] /\ disk'["working_copy"] = disk["working_copy"]
             /\ before' \in Contents /\ raising' \in BOOLEAN /\ phase' \in Phases
             /\ hidden_pass' \in {"none", "true", "false"} /\ eval_status' \in EvalStatuses
      PROVE  TypeOK'
  BY <1>1, <1>5 DEF TypeOK, runner, boxes, answer, product
<1> USE DEF PhaseInv, Working, Earned, runner, boxes, answer, Raise, verdict, Phases
<1>6. CASE SkipHidden
  BY <1>1, <1>2, <1>3, <1>4, <1>5, <1>6 DEF SkipHidden, EndWith, TypeOK, EvalStatuses
<1>7. CASE StartHidden
  <2>1. /\ phase' \in {"stale", "copying"} /\ before' \in Contents
        /\ UNCHANGED <<raising, hidden_pass, eval_status>>
    BY <1>3, <1>7, HiddenAssumption DEF StartHidden, TypeOK, Contents
  <2>2. disk' \in [Roots -> Contents] /\ disk'["working_copy"] = disk["working_copy"]
    BY <1>3, <1>7, EvalCopyOnly DEF StartHidden
  <2>3. TypeOK'
    BY <1>5, <2>1, <2>2 DEF TypeOK
  <2> QED
    BY <1>1, <1>2, <1>3, <1>4, <2>1, <2>2, <2>3
<1>8. CASE RemoveStale
  BY <1>1, <1>2, <1>3, <1>4, <1>5, <1>8, EvalCopyOnly DEF RemoveStale, SetEval, TypeOK
<1>9. CASE CopyWorking
  <2>1. /\ UNCHANGED <<before, hidden_pass, eval_status>>
        /\ \/ phase' = "inject" /\ SetEval(Working) /\ UNCHANGED raising
           \/ phase' \in {"failed", "removing"} /\ raising' /\ (SetEval(Absent) \/ SetEval(Scribbled))
    BY <1>9 DEF CopyWorking
  <2>2. Working \in Contents
    BY <1>3, HiddenAssumption DEF Contents
  <2>3. /\ disk' \in [Roots -> Contents] /\ disk'["working_copy"] = disk["working_copy"]
        /\ phase' = "inject" => disk'["eval_copy"] = disk["working_copy"]
    BY <1>3, <2>1, <2>2, EvalCopyOnly
  <2>4. TypeOK' 
    BY <1>5, <1>9, <2>1, <2>3 DEF TypeOK, CopyWorking
  <2> QED
    BY <1>1, <1>2, <1>3, <1>4, <2>1, <2>3, <2>4
<1>10. CASE Inject
  BY <1>1, <1>2, <1>3, <1>4, <1>5, <1>10, EvalCopyOnly, HiddenAssumption DEF Inject, TypeOK, Contents
<1>11. CASE RemoveEval
  BY <1>1, <1>2, <1>3, <1>4, <1>5, <1>11, EvalCopyOnly DEF RemoveEval, TypeOK
<1>12. CASE Compare
  BY <1>1, <1>2, <1>3, <1>4, <1>5, <1>12 DEF Compare, TypeOK
<1>13. CASE WriteMetrics
  BY <1>1, <1>2, <1>3, <1>4, <1>5, <1>13
  DEF WriteMetrics, EndWith, StatusOf, TypeOK, EvalStatuses
<1> QED BY <1>6, <1>7, <1>8, <1>9, <1>10, <1>11, <1>12, <1>13

LEMMA HiddenCallInv == IInv /\ (CallHidden \/ HiddenReturns) => IInv'
<1> SUFFICES ASSUME IInv, CallHidden \/ HiddenReturns PROVE IInv'
  OBVIOUS
<1> USE DEF IInv, product, verdict
<1>1. CASE CallHidden
  <2>1. TypeOK' /\ RunInv'
    BY <1>1, CallInv, HiddenAssumption DEF CallHidden
  <2>2. PhaseInv'
    BY <1>1 DEF CallHidden, Call, PhaseInv, Working
  <2> QED BY <2>1, <2>2
<1>2. CASE HiddenReturns
  <2>1. TypeOK'
    <3>1. pc' = "idle" /\ phase' \in Phases /\ (raising' = raising \/ raising' = TRUE)
      BY <1>2 DEF HiddenReturns, Raise, Phases
    <3>2. UNCHANGED <<run, root, disk, boxes, docker, answer, product, before, verdict>>
      BY <1>2 DEF HiddenReturns
    <3> QED BY <3>1, <3>2, IdleType
  <2>2. RunInv'
    BY <1>2, IdleInv DEF HiddenReturns
  <2>3. pc = "returned" /\ Passed(result) => Earned
    <3>1. run \in Runs
      BY <1>2, SuiteAssumption DEF HiddenReturns, TypeOK, Runs, Ended
    <3>2. /\ root = "eval_copy" /\ disk["eval_copy"] = WithHidden[Working]
      BY <1>2 DEF HiddenReturns, PhaseInv
    <3>3. pc = "returned" /\ Passed(result) =>
            container[run] = "passed" /\ tested[run] = disk[root] /\ "passed" \in Suite[tested[run]]
      BY <3>1 DEF RunInv, Reported, Honest, Before, Outcomes
    <3> QED BY <3>1, <3>2, <3>3 DEF Earned
  <2>4. PhaseInv'
    BY <1>2, <2>3 DEF HiddenReturns, Raise, PhaseInv, Working, Earned, boxes, answer, Passed
  <2> QED BY <2>1, <2>2, <2>4
<1> QED BY <1>1, <1>2

LEMMA NextInv == IInv /\ [Next]_vars => IInv'
<1> SUFFICES ASSUME IInv, [Next]_vars PROVE IInv'
  OBVIOUS
<1>1. CASE Process
  BY <1>1, ProcessInv, EvalInv, HiddenCallInv DEF Process
<1>2. CASE SessionApplies \/ SessionTests \/ SessionSees
  BY <1>2, SessionInv
<1>3. CASE DockerChanges /\ UNCHANGED evaluation
  <2> USE <1>3 DEF DockerChanges, boxes, answer, evaluation, product, verdict
  <2>1. TypeOK'
    BY DEF IInv, TypeOK
  <2>2. RunInv'
    BY DEF IInv, RunInv, BoxInv, Honest
  <2>3. PhaseInv'
    BY DEF IInv, PhaseInv, PublicRuns, Working, Earned
  <2> QED BY <2>1, <2>2, <2>3 DEF IInv
<1>4. CASE Crash
  <2>1. TypeOK'
    <3>1. pc' = "idle" /\ phase' \in Phases /\ raising' = FALSE
      BY <1>4 DEF Crash, Phases
    <3>2. UNCHANGED <<run, root, disk, boxes, docker, answer, product, before, verdict>>
      BY <1>4 DEF Crash
    <3> QED BY <3>1, <3>2, IdleType DEF IInv
  <2>2. RunInv'
    BY <1>4, IdleInv DEF IInv, Crash
  <2>3. PhaseInv'
    BY <1>4 DEF IInv, Crash, PhaseInv, Working, boxes, answer, verdict
  <2> QED BY <2>1, <2>2, <2>3 DEF IInv
<1>5. CASE UNCHANGED vars
  <2> USE <1>5 DEF vars, runner, boxes, answer, evaluation, product, verdict
  <2>1. TypeOK'
    BY DEF IInv, TypeOK
  <2>2. RunInv'
    BY DEF IInv, RunInv, BoxInv, Honest
  <2>3. PhaseInv'
    BY DEF IInv, PhaseInv, PublicRuns, Working, Earned
  <2> QED BY <2>1, <2>2, <2>3 DEF IInv
<1>6. CASE Terminated
  BY <1>5, <1>6 DEF Terminated
<1> QED BY <1>1, <1>2, <1>3, <1>4, <1>5, <1>6 DEF Next

----------------------------------------------------------------------------
(* The theorems.                                                           *)

LEMMA InvAlways == Spec => []IInv
BY InitInv, NextInv, PTL DEF Spec

\* Every variable of a session's evaluation has its type, whatever docker,
\* containers and crashes do.
THEOREM TypeCorrect == Spec => []TypeOK
<1>1. IInv => TypeOK
  BY DEF IInv
<1> QED BY <1>1, InvAlways, PTL

\* Hidden tests never get into the workspace of the session, nor into a
\* container while the session lasts.
THEOREM Isolation == Spec => []HiddenStaysHidden
<1>1. IInv => HiddenStaysHidden
  BY DEF IInv, PhaseInv, PublicRuns, HiddenStaysHidden
<1> QED BY <1>1, InvAlways, PTL

\* A passed TestResult was earned by an exact copy of the workspace.
THEOREM PassEarned == Spec => []PassIsEarned
<1>1. IInv => PassIsEarned
  <2> SUFFICES ASSUME IInv, pc = "returned", Passed(result)
               PROVE  /\ tested[run] = disk[root] /\ "passed" \in Suite[disk[root]]
                      /\ container[run] = "passed" /\ ~copy[run].parent
    BY DEF PassIsEarned
  <2>1. run \in Runs
    BY SuiteAssumption DEF IInv, TypeOK, Runs
  <2>2. container[run] = "passed" /\ tested[run] = disk[root]
    BY DEF IInv, RunInv, Reported, Honest, Before
  <2>3. "passed" \in Suite[disk[root]]
    BY <2>1, <2>2 DEF IInv, RunInv, Outcomes
  <2>4. ~copy[run].parent
    BY DEF IInv, RunInv, BoxInv, Reported, Passed
  <2> QED BY <2>2, <2>3, <2>4
<1> QED BY <1>1, InvAlways, PTL

\* A timeout is reported as one, whatever fails after it.
THEOREM TimeoutKept == Spec => []TimeoutNotErased
<1>1. IInv => TimeoutNotErased
  BY DEF IInv, RunInv, Reported, Honest, TimeoutNotErased
<1> QED BY <1>1, InvAlways, PTL

\* What is left behind is no success, and reported where run_pytest knows it.
THEOREM NothingLeftSilently == Spec => []LeftoversReported
<1>1. IInv => LeftoversReported
  BY DEF IInv, TypeOK, RunInv, BoxInv, Reported, Honest, LeftoversReported, Results, Kinds
<1> QED BY <1>1, InvAlways, PTL

\* hidden_pass is true only if the hidden tests passed on what the session
\* left.
THEOREM HiddenPassEarned == Spec => []HiddenVerdictEarned
<1>1. IInv => HiddenVerdictEarned
  BY DEF IInv, PhaseInv, Earned, HiddenVerdictEarned
<1> QED BY <1>1, InvAlways, PTL
=============================================================================
