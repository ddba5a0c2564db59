----------------------------- MODULE DockerRun -----------------------------
(***************************************************************************)
(* DockerPytestRunner.run_pytest (code_agent/runtime/docker_pytest.py):    *)
(* the tests of a workspace run in a container, on a copy made for this    *)
(* run and removed after it.                                               *)
(*                                                                         *)
(* Every docker command and every change to the file system is a step that *)
(* may fail.  Containers are processes of their own: one whose client was  *)
(* given up goes on writing until it ends or is removed.  The process that *)
(* calls run_pytest may die between any two steps.  The modules that call  *)
(* run_pytest own the workspaces in `disk`.                                *)
(***************************************************************************)
EXTENDS Integers

CONSTANTS
  Trees,        \* contents of a workspace
  Absent,       \* no directory
  Scribbled,    \* contents cut short by a failure or written by a test run
  Suite,        \* tree |-> what running its tests may come to
  Roots,        \* the workspaces that run_pytest is called with
  MaxRuns       \* calls of run_pytest

Outcomes == {"passed", "failed", "pytest_missing", "hangs"}
Contents == Trees \cup {Absent, Scribbled}

ASSUME TreeAssumption ==
  Absent \notin Trees /\ Scribbled \notin Trees /\ Absent # Scribbled

ASSUME SuiteAssumption ==
  /\ Suite \in [Contents -> SUBSET Outcomes]
  /\ MaxRuns \in Nat \ {0}

VARIABLES
  pc,             \* what run_pytest does next ("idle": it is not running)
  run,            \* number of this call
  root,           \* its workspace_root
  disk,           \* the workspaces
  copy,           \* the disposable directory of every call
  container,      \* its container
  tested,         \* the contents its container found (history)
  docker,         \* state of the docker daemon and of the image
  pending,        \* the error that force-removal has interrupted
  result,         \* the TestResult
  cleanup_error   \* last_cleanup_error is set

boxes == <<copy, container, tested>>
answer == <<pending, result, cleanup_error>>
runner == <<pc, run, root, boxes, docker, answer>>

Runs == 1..MaxRuns
Ended == {"returned", "raised"}
Kinds == {"none", "environment", "timeout", "missing"}
Results == [exit : {-1, 0, 1}, kind : Kinds]
Missing == [exit |-> -1, kind |-> "missing"]
EnvironmentError == [exit |-> -1, kind |-> "environment"]
Copies == [parent : BOOLEAN, tree : Contents, foreign : BOOLEAN]
NoCopy == [parent |-> FALSE, tree |-> Absent, foreign |-> FALSE]
Passed(r) == r = [exit |-> 0, kind |-> "none"]

RunnerInit ==
  /\ pc = "idle" /\ run = 0 /\ root \in Roots
  /\ copy = [r \in Runs |-> NoCopy]
  /\ container = [r \in Runs |-> "none"] /\ tested = [r \in Runs |-> Absent]
  /\ docker = "up"
  /\ pending = "none" /\ result = Missing /\ cleanup_error = FALSE

----------------------------------------------------------------------------
(* Before the container.                                                   *)

Call(w) ==
  /\ pc = "idle" /\ run < MaxRuns
  /\ pc' = "info" /\ run' = run + 1 /\ root' = w
  /\ pending' = "none" /\ result' = Missing /\ cleanup_error' = FALSE
  /\ UNCHANGED <<boxes, docker>>

Goto(next) == pc' = next /\ UNCHANGED <<run, root>>

\* docker info is given 20 seconds; docker image inspect has no time limit.
Preflight ==
  /\ \/ pc = "info" /\ docker \in {"up", "no_image"} /\ Goto("inspect")
     \/ pc = "inspect" /\ docker = "up" /\ Goto("resolve")
  /\ UNCHANGED <<disk, boxes, docker, answer>>

PreflightFails ==
  /\ \/ pc = "info" /\ docker \in {"down", "hung"}
     \/ pc = "inspect" /\ docker \in {"down", "no_image"}
  /\ Goto("returned") /\ result' = EnvironmentError
  /\ UNCHANGED <<disk, boxes, docker, pending, cleanup_error>>

\* The image is looked up again, and asserted to be there.
ResolveImage ==
  /\ pc = "resolve" /\ docker # "hung"
  /\ Goto(IF docker = "up" THEN "mkdtemp" ELSE "raised")
  /\ UNCHANGED <<disk, boxes, docker, answer>>

MakeDirectory ==
  /\ pc = "mkdtemp"
  /\ \/ Goto("copytree") /\ copy' = [copy EXCEPT ![run].parent = TRUE]
     \/ Goto("raised") /\ UNCHANGED copy
  /\ UNCHANGED <<disk, container, tested, docker, answer>>

\* Fault: a copy that was cut short is tested all the same.
CopyCutShort ==
  /\ pc = "copytree" /\ Goto("launch")
  /\ copy' = [copy EXCEPT ![run].tree = Scribbled]
  /\ UNCHANGED <<disk, container, tested, docker, answer>>

CopyTree ==
  /\ pc = "copytree" /\ disk[root] # Absent
  /\ Goto("launch") /\ copy' = [copy EXCEPT ![run].tree = disk[root]]
  /\ UNCHANGED <<disk, container, tested, docker, answer>>

\* copytree, or the chmod of the whole copy after it, fails.
CopyFails ==
  /\ pc = "copytree" /\ Goto("cleanup") /\ result' = EnvironmentError
  /\ \E t \in {Absent, Scribbled, disk[root]} :
       copy' = [copy EXCEPT ![run].tree = t]
  /\ UNCHANGED <<disk, container, tested, docker, pending, cleanup_error>>

----------------------------------------------------------------------------
(* The container and its client.                                           *)

Launch ==
  /\ pc = "launch" /\ docker = "up" /\ Goto("waiting")
  /\ container' = [container EXCEPT ![run] = "running"]
  /\ tested' = [tested EXCEPT ![run] = copy[run].tree]
  /\ UNCHANGED <<disk, copy, docker, answer>>

\* The daemon does not answer: the client waits without a container.
LaunchHangs ==
  /\ pc = "launch" /\ docker = "hung" /\ Goto("waiting")
  /\ UNCHANGED <<disk, boxes, docker, answer>>

\* The client exits with 125 because daemon or image have gone.  Its output
\* does not say that pytest is missing, so the run counts as failed tests.
LaunchRefused ==
  /\ pc = "launch" /\ docker \in {"down", "no_image"} /\ Goto("cleanup")
  /\ result' = [exit |-> 1, kind |-> "none"]
  /\ UNCHANGED <<disk, boxes, docker, pending, cleanup_error>>

\* Fault: the workspace itself is mounted.
ContainerWritesRoot(r) ==
  /\ container[r] = "running" /\ r = run
  /\ disk' = [disk EXCEPT ![root] = Scribbled] /\ UNCHANGED runner

\* The tests write into the mounted copy, as UID 1000.
ContainerWrites(r) ==
  /\ container[r] = "running" /\ copy[r].tree # Absent
  /\ \E f \in {copy[r].foreign, TRUE} :
       copy' = [copy EXCEPT ![r].tree = Scribbled, ![r].foreign = f]
  /\ UNCHANGED <<pc, run, root, disk, container, tested, docker, answer>>

ContainerExits(r) ==
  /\ container[r] = "running"
  /\ \E o \in Suite[tested[r]] \ {"hangs"} :
       container' = [container EXCEPT ![r] = o]
  /\ UNCHANGED <<pc, run, root, disk, copy, tested, docker, answer>>

ResultOf(outcome) ==
  [exit |-> IF outcome = "passed" THEN 0 ELSE 1,
   kind |-> IF outcome = "pytest_missing" THEN "environment" ELSE "none"]

ClientReturns ==
  /\ pc = "waiting" /\ container[run] \in Outcomes
  /\ Goto("cleanup") /\ result' = ResultOf(container[run])
  /\ UNCHANGED <<disk, boxes, docker, pending, cleanup_error>>

\* The client is lost: killed, or cut off from its daemon.  Its exit is taken
\* for the end of the tests, with what they have printed so far, and the
\* container is not removed.
ClientLost ==
  LET printed == IF container[run] = "running" THEN Suite[tested[run]] ELSE {container[run]}
  IN /\ pc = "waiting" /\ Goto("cleanup")
     /\ \E o \in {"failed"} \cup (printed \cap {"pytest_missing"}) : result' = ResultOf(o)
     /\ UNCHANGED <<disk, boxes, docker, pending, cleanup_error>>

\* Fault: the client is read without a time limit.
ClientBreaks ==
  /\ pc = "launch" /\ Goto("stop") /\ pending' = "environment"
  /\ UNCHANGED <<disk, boxes, docker, result, cleanup_error>>

\* The limit of 120 seconds, or another exception while the client is read.
ClientGivenUp ==
  /\ pc \in {"launch", "waiting"} /\ Goto("stop")
  /\ pending' \in IF pc = "launch" THEN {"environment"} ELSE {"environment", "timeout"}
  /\ UNCHANGED <<disk, boxes, docker, result, cleanup_error>>

\* docker rm -f, whose exit code nobody reads.
ForceRemove ==
  /\ pc = "stop" /\ Goto("cleanup") /\ result' = [exit |-> -1, kind |-> pending]
  /\ \/ UNCHANGED container
     \/ /\ docker \in {"up", "no_image"} /\ container[run] = "running"
        /\ container' = [container EXCEPT ![run] = "removed"]
  /\ UNCHANGED <<disk, copy, tested, docker, pending, cleanup_error>>

\* docker rm -f takes more than 30 seconds, or cannot be started: its own
\* exception leaves run_pytest, past the clean-up, without a result.
ForceRemoveRaises ==
  /\ pc = "stop" /\ Goto("cleanup")
  /\ UNCHANGED <<disk, boxes, docker, answer>>

----------------------------------------------------------------------------
(* _remove_disposable_test_copy, in the finally block.                     *)

HostRemoves ==
  /\ pc = "cleanup" /\ ~copy[run].foreign /\ Goto("settle")
  /\ copy' = [copy EXCEPT ![run] = NoCopy]
  /\ UNCHANGED <<disk, container, tested, docker, answer>>

HostRemoveFails ==
  /\ pc = "cleanup" /\ Goto("wipe")
  /\ \E t \in {copy[run].tree, IF copy[run].tree = Absent THEN Absent ELSE Scribbled} :
       copy' = [copy EXCEPT ![run].tree = t]
  /\ UNCHANGED <<disk, container, tested, docker, answer>>

\* The wipe as UID 1000 in a container of its own; its failures are kept for
\* the report and the host tries again.
Wipe ==
  /\ pc = "wipe" /\ Goto("rmdir")
  /\ \/ UNCHANGED copy
     \/ /\ docker = "up" /\ copy[run].tree # Absent
        /\ \E f \in {copy[run].foreign, FALSE} :
             copy' = [copy EXCEPT ![run].tree = Scribbled, ![run].foreign = f]
  /\ UNCHANGED <<disk, container, tested, docker, answer>>

RemoveEmptied ==
  /\ pc = "rmdir" /\ ~copy[run].foreign /\ Goto("settle")
  /\ copy' = [copy EXCEPT ![run] = NoCopy]
  /\ UNCHANGED <<disk, container, tested, docker, answer>>

CleanupFails ==
  /\ pc = "rmdir" /\ Goto("settle") /\ cleanup_error' = TRUE
  /\ UNCHANGED <<disk, boxes, docker, pending, result>>

\* Fault: the clean-up error replaces the result.
CleanupErases(r) == EnvironmentError

\* Fault: only a missing result is replaced.
CleanupUnreported(r) == IF r = Missing THEN EnvironmentError ELSE r

\* _with_cleanup_failure: a timeout stays one, and nothing stays a success.
WithCleanupFailure(r) ==
  [exit |-> IF r.exit = 0 THEN -1 ELSE r.exit,
   kind |-> IF r.kind = "timeout" THEN "timeout" ELSE "environment"]

\* A result made here for a run without one is lost with the exception.
Settle ==
  /\ pc = "settle"
  /\ IF result = Missing THEN Goto("raised") ELSE Goto("log")
  /\ result' = IF cleanup_error THEN WithCleanupFailure(result) ELSE result
  /\ UNCHANGED <<disk, boxes, docker, pending, cleanup_error>>

WriteLog ==
  /\ pc = "log" /\ (Goto("returned") \/ Goto("raised"))
  /\ UNCHANGED <<disk, boxes, docker, answer>>

----------------------------------------------------------------------------
\* The steps that run_pytest makes, by itself or by its time limits.
RunPytest ==
  \/ Preflight \/ PreflightFails \/ ResolveImage
  \/ MakeDirectory \/ CopyTree \/ CopyFails
  \/ Launch \/ LaunchHangs \/ LaunchRefused
  \/ ClientReturns \/ ClientGivenUp \/ ForceRemove \/ ForceRemoveRaises
  \/ HostRemoves \/ HostRemoveFails \/ Wipe \/ RemoveEmptied \/ CleanupFails
  \/ Settle \/ WriteLog

Runner == RunPytest \/ ClientLost

Containers == \E r \in Runs : ContainerWrites(r) \/ ContainerExits(r)

\* The daemon is stopped, started or hangs, the image is removed or built.
DockerChanges ==
  /\ docker' \in {"up", "no_image", "down", "hung"} \ {docker}
  /\ UNCHANGED <<pc, run, root, disk, boxes, answer>>

----------------------------------------------------------------------------
(* Properties.                                                             *)

\* A passed TestResult is one the whole workspace has earned: its own tests
\* ran to their end on an exact copy that nobody else wrote to, and neither
\* the copy nor the container is left.
PassIsEarned ==
  pc = "returned" /\ Passed(result) =>
    /\ tested[run] = disk[root] /\ "passed" \in Suite[disk[root]]
    /\ container[run] = "passed" /\ ~copy[run].parent

\* A result that comes after a timeout reports it as one, whatever part of the
\* clean-up fails (docker_pytest.py, _with_cleanup_failure).  A force-removal
\* that raises leaves no result (ForceRemoveRaises).
TimeoutNotErased ==
  pc = "returned" /\ pending = "timeout" => result.kind = "timeout"

\* Whatever is left behind, the run is no success, and the result says why: a
\* copy that could not be removed is an environment error or a timeout, with
\* the clean-up error kept ("Cleanup failures surface as environment errors
\* (fail-closed)", README.md), and so is a container that run_pytest gave up.
\* A container whose client is lost counts as failed tests (ClientLost).
LeftoversReported ==
  /\ pc = "returned" /\ copy[run].parent =>
       cleanup_error /\ result.kind \in {"environment", "timeout"}
  /\ pc = "returned" /\ container[run] = "running" =>
       /\ ~Passed(result)
       /\ pending # "none" => result.kind \in {"environment", "timeout"}

\* Every call comes to an end, unless the daemon hangs while the image is
\* looked up, the one docker command without a time limit.
RunEnds ==
  pc \in {"info", "copytree", "waiting", "stop"} ~>
    pc \in Ended \cup {"idle"} \/ (docker = "hung" /\ pc \in {"inspect", "resolve"})

\* Claimed: failed tests are told apart from docker not starting them, which
\* is TEST_ENVIRONMENT_ERROR ("Docker / pytest infrastructure failure",
\* docs/ARCHITECTURE.md).
FailureMeansTestsRan ==
  pc = "returned" /\ result.kind = "none" => container[run] # "none"
=============================================================================
