--------------------------- MODULE ExecutorProps ---------------------------
(***************************************************************************)
(* What is checked and proved of Executor: its types, the order of its     *)
(* steps, and the properties of the process as a whole.                    *)
(***************************************************************************)
EXTENDS Executor

StopSteps == {"stop", "verify", "restop"}

CheckSteps == {"list", "sidecar", "inspect"}

LaunchSteps == {"pull", "aws", "renew", "decrypt", "create", "start", "spawn",
                "fail"}

Locations ==
    [main    |-> {"select", "exiting"},
     reader  |-> LaunchSteps \cup StopSteps \cup
                 {"idle", "logs", "failStop", "drain", "drainWait", "quit",
                  "deliver", "ended"},
     monitor |-> StopSteps \cup CheckSteps \cup
                 {"none", "backoff", "wait", "recheck", "lease", "token",
                  "report", "stopDriver", "wgDone", "ended"},
     looper  |-> CheckSteps \cup {"none", "select", "done", "ended"},
     signals |-> {"wait", "doneSend", "wgWait", "closeLogs", "exit"},
     lease   |-> {"none", "watching", "ended"},
     relay   |-> {"none", "timing", "ended"},
     wrapper |-> {"up", "done"}]

Goroutine == {"main", "reader", "monitor", "looper", "signals", "lease",
              "relay", "wrapper"}

PcOK ==
    /\ pc \in [Goroutine -> UNION {Locations[g] : g \in Goroutine}]
    /\ \A g \in Goroutine : pc[g] \in Locations[g]

DataOK ==
    /\ proc \in {"up", "returned", "signalled", "killed",
                 "panicSend", "panicStop", "panicNil", "panicLogs"}
    /\ container \in {"none", "created", "running", "exited"}
    /\ ccode \in ExitCodes \cup {0}
    /\ exitCode \in ExitCodes \cup {0, StillRunning}
    /\ quitClosed \in BOOLEAN /\ looperQuit \in BOOLEAN
    /\ configured \in BOOLEAN /\ watcherDone \in BOOLEAN
    /\ lease \in {"none", "held", "revoked"}
    /\ token \in {"none", "held", "revoked"}
    /\ logs \in {"none", "open", "closed"}
    /\ sent \in Seq(Statuses)
    /\ sig \in {"none", "TERM", "USR1"}
    /\ kills \in 0..MaxKills /\ shutdowns \in 0..MaxShutdowns
    /\ tries \in 0..RetryCount

\* The types of the variables; in particular a KillTask tries to drain at most
\* RetryCount + 1 times, and exitCode is a code of the container or -1.
TypeOK == PcOK /\ DataOK

\* While the task is being launched nothing watches it, and the container is
\* exactly as far as the reader.
LaunchOrder ==
    /\ sent = <<>> => container = "none" /\ pc["monitor"] = "none"
    /\ proc = "up" /\ pc["reader"] \in LaunchSteps
       => sent = <<"RUNNING">> /\ pc["monitor"] = "none"
    /\ proc = "up" /\ pc["reader"] \in {"pull", "aws", "renew", "decrypt", "create"}
       => container = "none"
    /\ proc = "up" /\ pc["reader"] = "start" => container = "created"
    /\ proc = "up" /\ pc["reader"] = "spawn" => container \in {"running", "exited"}

BeforeReport == StopSteps \cup CheckSteps \cup
                {"backoff", "wait", "recheck", "lease", "token", "report"}

\* The monitor and its looper exist only for a container that was started, and
\* nobody concludes the task before the monitor reports.
WatchOrder ==
    /\ pc["looper"] # "none" => pc["monitor"] # "none"
    /\ pc["monitor"] # "none" => container \in {"running", "exited"}
    /\ proc = "up" /\ pc["monitor"] \in BeforeReport => sent = <<"RUNNING">>

\* Whoever reads the exit code, and whatever the other overwrites it with, it
\* is unknown or the code of a container that has exited.
CodeKnown ==
    /\ \A g \in {"looper", "monitor"} : pc[g] = "inspect" => container = "exited"
    /\ exitCode # StillRunning => container = "exited" /\ exitCode = ccode

\* The promise to the agent, kept by all the goroutines together.
Promise == INSTANCE TaskLifecycle WITH
    reports <- sent, run <- container, code <- ccode

\* The executor implements TaskLifecycle: RUNNING first and once, at most one
\* terminal status (failTask of the launch and of monitorTask exclude each
\* other), and a container that is only made for a task not yet given up.
ImplementsLifecycle == Promise!Spec

\* handleContainerExit reports what the container did: success and death by a
\* signal are claimed only of a container that really exited that way, although
\* the code is read by two goroutines into one variable and each of the Docker
\* calls it comes from may fail.
TerminalStatusTruthful ==
    \A i \in DOMAIN sent :
        /\ sent[i] = "FINISHED" => container = "exited" /\ ccode = 0
        /\ sent[i] = "KILLED" => container = "exited" /\ ccode \in 129..165

\* The inductive invariant of ExecutorProofs.
IndInv ==
    TypeOK /\ LaunchOrder /\ WatchOrder /\ CodeKnown /\ TerminalStatusTruthful

\* A TERM with a looper to take over from does not let handleSignals past
\* watcherWg.Wait() before monitorTask has told the agent how the task ended
\* and has stopped the driver, even if it arrives during the backoff.
TermReportsFirst ==
    [][sig = "TERM" /\ pc["signals"] = "wgWait" /\ pc'["signals"] # "wgWait"
       => TerminalSent /\ quitClosed]_vars

\* KillTask finds no configuration or no looper only when LaunchTask has failed
\* and said so: a KILL right behind the LAUNCH never crashes a good launch.
KillPanicsOnlyAfterFailedLaunch ==
    proc = "panicNil" => sent = <<"RUNNING", "FAILED">> /\ ~HasLooper

\* Without a SHUTDOWN event only one goroutine ever stops the driver.
DriverStoppedOnce == shutdowns = 0 => proc # "panicStop"

\* Unless Docker fails, neither a terminal status nor the revocation of the
\* credentials the container uses comes while the container is still running.
ConcludesOnlyWhenStopped ==
    "docker" \notin Faults /\ (TerminalSent \/ lease = "revoked" \/ token = "revoked")
    => container # "running"

\* Unless Docker fails, "-1 unable to check code" is never the result
\* (executor.go:341).
CodeKnownWhenReported ==
    "docker" \notin Faults /\ pc["monitor"] = "report" => exitCode # StillRunning

\* A KILL that was accepted ends the executor, whatever Docker and Sidecar do.
KillEndsExecutor == kills > 0 ~> proc # "up"

\* So does a signal, from outside or from the lease's watch, at whatever point
\* of the launch or the monitoring it comes.
SignalEndsExecutor == sig # "none" ~> proc # "up"

\* A container that exits of itself is noticed and ends the executor.
ExitEndsExecutor == container = "exited" ~> proc # "up"

\* However the executor ends, no container of its task is left running.
NoOrphan == proc # "up" ~> container # "running"

\* executor_utils.go:219: draining bails out early if the watcher exits.
DrainBailsOutOnlyAfterWatcher ==
    watcherDone /\ HasLooper => pc["monitor"] = "ended"

\* main.go:226: the log pump is shut down if it is running.
LogPumpClosedOnce == proc # "panicLogs"
=============================================================================
