--------------------------- MODULE TaskLifecycle ---------------------------
(***************************************************************************)
(* What one executor process promises to the Mesos agent about its single  *)
(* task, whatever goroutines, signals and failures stand behind it: the    *)
(* task is reported RUNNING once, before anything else happens, and then   *)
(* at most one terminal status follows, which never claims an outcome that *)
(* the container did not have.  Executor.tla implements this module.       *)
(***************************************************************************)
EXTENDS Integers, Sequences

CONSTANT ExitCodes   \* exit codes a container may have, within 0..255

VARIABLES
    reports,   \* statuses handed to the agent, oldest first
    run,       \* life of the container: "none", "created", "running", "exited"
    code       \* exit code, meaningful once run = "exited"

vars == <<reports, run, code>>

Init == reports = <<>> /\ run = "none" /\ code = 0

\* Codes above 128 that stand for a fatal signal.
FatalSignal == 129..165

Accept ==
    /\ reports = <<>>
    /\ reports' = Append(reports, "RUNNING")
    /\ UNCHANGED <<run, code>>

\* A container is made only for a task that was accepted and not given up.
Prepare ==
    /\ reports = <<"RUNNING">>
    /\ \/ run = "none" /\ run' = "created"
       \/ run = "created" /\ run' = "running"
    /\ UNCHANGED <<reports, code>>

Exit ==
    /\ run = "running"
    /\ run' = "exited"
    /\ code' \in ExitCodes
    /\ UNCHANGED reports

Conclude(status) ==
    /\ reports = <<"RUNNING">>
    /\ reports' = Append(reports, status)
    /\ UNCHANGED <<run, code>>

Finish == run = "exited" /\ code = 0 /\ Conclude("FINISHED")

Killed == run = "exited" /\ code \in FatalSignal /\ Conclude("KILLED")

\* FAILED is also the answer when the outcome could not be established.
Fail == Conclude("FAILED")

Next == Accept \/ Prepare \/ Exit \/ Finish \/ Killed \/ Fail

Spec == Init /\ [][Next]_vars
=============================================================================
