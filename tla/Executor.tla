------------------------------ MODULE Executor ------------------------------
(***************************************************************************)
(* One executor process, from the agent's LAUNCH to the exit of the        *)
(* process: the goroutines of package main, the event loop of the Mesos    *)
(* driver as far as they interact with it, the task's container, and the   *)
(* shell wrapper that started the process.                                 *)
(*                                                                         *)
(*   main     Run() and eventLoop: leaves when quitChan is closed          *)
(*   reader   decodes events and runs LaunchTask / KillTask on its stack   *)
(*   monitor  monitorTask                                                  *)
(*   looper   watchLooper.Loop(checkContainerStatus)                       *)
(*   signals  handleSignals                                                *)
(*   lease    monitorAWSCredsLease                                         *)
(*   relay    cancelAfterStartup                                           *)
(*   wrapper  the EXIT trap of executor.sh (a process of its own)          *)
(***************************************************************************)
EXTENDS Integers, Sequences

CONSTANTS
    CheckSidecar,   \* the task's SidecarDiscover label lets us check Sidecar
    DrainOn,        \* SidecarDrainingDuration is not 0
    AWSRole,        \* an AWS role is configured
    AWSRoleTTL,     \* ... with a TTL of its own, so that its lease is renewed
    Relay,          \* log relaying: "off", "on" or "startup" (startup only)
    RetryCount,     \* SidecarRetryCount
    ExitCodes,      \* exit codes a container may have
    Signals,        \* signals the environment may send (INT is like TERM)
    Faults,         \* what may fail: see FaultKinds
    MaxKills,       \* bound on KILL events
    MaxShutdowns    \* bound on SHUTDOWN events

\* docker: list, inspect, stop fail; vault: revocations fail; agent: a status
\* update fails; stream: the subscription is lost for good; crash: SIGKILL.
FaultKinds == {"docker", "vault", "agent", "stream", "crash"}

ASSUME ConfigAssumption ==
    /\ {CheckSidecar, DrainOn, AWSRole, AWSRoleTTL} \subseteq BOOLEAN
    /\ Relay \in {"off", "on", "startup"}
    /\ ExitCodes \subseteq 0..255
    /\ Signals \subseteq {"TERM", "USR1"}
    /\ Faults \subseteq FaultKinds
    /\ {RetryCount, MaxKills, MaxShutdowns} \subseteq Nat

StillRunning == -1

VARIABLES
    pc,           \* where each goroutine is
    proc,         \* "up", or how the process ended
    container,    \* "none", "created", "running" or "exited"
    ccode,        \* the container's exit code once it is "exited"
    exitCode,     \* the variable monitorTask shares with the looper's closure
    quitClosed,   \* driver.quitChan is closed
    looperQuit,   \* a Quit() of watchLooper is waiting to be received
    configured,   \* exec.containerConfig is set
    lease,        \* exec.awsCredsLease: "none", "held" or "revoked"
    token,        \* the role's own Vault token: "none", "held" or "revoked"
    logs,         \* exec.logsQuitChan: "none", "open" or "closed"
    sent,         \* statuses sent to the agent
    sig,          \* the signal handleSignals reads: "none", "TERM" or "USR1"
    kills,        \* KILL events so far
    shutdowns,    \* SHUTDOWN events so far
    tries,        \* attempts at draining in this KillTask
    watcherDone   \* watcherDoneChan of this KillTask is closed

docker == <<container, ccode>>
creds  == <<lease, token>>
drain  == <<tries, watcherDone>>
events == <<kills, shutdowns>>

vars == <<pc, proc, docker, exitCode, quitClosed, looperQuit, configured,
          creds, logs, sent, sig, events, drain>>

Init ==
    /\ pc = [main |-> "select", reader |-> "idle", monitor |-> "none",
             looper |-> "none", signals |-> "wait", lease |-> "none",
             relay |-> "none", wrapper |-> "up"]
    /\ proc = "up"
    /\ container = "none" /\ ccode = 0
    /\ exitCode = StillRunning
    /\ quitClosed = FALSE /\ looperQuit = FALSE /\ configured = FALSE
    /\ lease = "none" /\ logs = "none"
    /\ token \in IF AWSRole THEN {"none", "held"} ELSE {"none"}
    /\ sent = <<>>
    /\ sig = "none"
    /\ kills = 0 /\ shutdowns = 0
    /\ tries = 0 /\ watcherDone = FALSE

-----------------------------------------------------------------------------
(* Vocabulary *)

At(g, l) == proc = "up" /\ pc[g] = l

Goto(g, l) == pc' = [pc EXCEPT ![g] = l]

Move(g, from, to) == At(g, from) /\ Goto(g, to)

Terminal == {"FINISHED", "FAILED", "KILLED"}

Statuses == {"RUNNING"} \cup Terminal

TerminalSent == \E i \in DOMAIN sent : sent[i] \in Terminal

\* watcherWg is 1 from monitorTask's Add to its Done, and 0 otherwise.
WatcherWg == IF pc["monitor"] \in {"none", "backoff", "ended"} THEN 0 ELSE 1

\* Mutant: the looper is only made by monitorTask, after its backoff.
HasLooperLate == pc["monitor"] \notin {"none", "backoff"}

\* exec.watchLooper is set just before monitorTask is started.
HasLooper == pc["monitor"] # "none"

\* sendStatus: an error from the agent, which may have had the update, panics.
SendStatus(g, status, next) ==
    \/ /\ sent' = Append(sent, status)
       /\ Goto(g, next)
       /\ UNCHANGED proc
    \/ /\ "agent" \in Faults
       /\ proc' = "panicSend"
       /\ sent' \in {sent, Append(sent, status)}
       /\ UNCHANGED pc

\* close(driver.quitChan), which panics the second time.
StopDriver(g, next) ==
    \/ ~quitClosed /\ quitClosed' = TRUE /\ Goto(g, next) /\ UNCHANGED proc
    \/ quitClosed /\ proc' = "panicStop" /\ UNCHANGED <<pc, quitClosed>>

\* Closing a channel of the log pump, which panics the second time.
CloseLogsChan(g, next) ==
    \/ logs # "closed" /\ logs' = "closed" /\ Goto(g, next) /\ UNCHANGED proc
    \/ logs = "closed" /\ proc' = "panicLogs" /\ UNCHANGED <<pc, logs>>

\* What a stop request does to the container: whatever it answers, a running
\* container has exited afterwards unless Docker failed.
DockerStop ==
    \/ /\ container = "running"
       /\ container' = "exited"
       /\ ccode' \in ExitCodes
    \/ /\ container # "running" \/ "docker" \in Faults
       /\ UNCHANGED docker

\* container.StopContainer, one step per request: stop, inspect, stop again
\* unless the inspection failed (as it does when there is no container) or
\* found it exited.  Both callers only log the result.
StopContainer(g, next) ==
    /\ \/ Move(g, "stop", "verify") /\ DockerStop
       \/ /\ At(g, "verify")
          /\ \/ "docker" \in Faults /\ Goto(g, next)
             \/ Goto(g, IF container \in {"none", "exited"} THEN next ELSE "restop")
          /\ UNCHANGED docker
       \/ Move(g, "restop", next) /\ DockerStop
    /\ UNCHANGED <<proc, exitCode, quitClosed, looperQuit, configured, creds,
                   logs, sent, sig, events, drain>>

\* Mutant: the error of GetExitCode is ignored, and its zero value taken.
CodeReadIgnoringError ==
    {ccode} \cup IF "docker" \in Faults THEN {0} ELSE {}

\* What GetExitCode may yield for a container that is gone.
CodeRead == {ccode} \cup IF "docker" \in Faults THEN {StillRunning} ELSE {}

\* Mutant: the looper is not told to quit when the container is absent.
ListContainersNoQuit(g, bad) ==
    /\ At(g, "list")
    /\ \/ "docker" \in Faults /\ exitCode' = StillRunning /\ Goto(g, bad)
       \/ container = "running" /\ Goto(g, "sidecar") /\ UNCHANGED exitCode
       \/ container # "running" /\ Goto(g, "inspect") /\ UNCHANGED exitCode
    /\ UNCHANGED looperQuit

\* checkContainerStatus, run by the looper and by monitorTask, one step per
\* call it makes: ListContainers, then Sidecar if the container is present, or
\* GetExitCode if it is absent.  What it returns goes to exitCode; the caller
\* continues at `good` without and at `bad` with an error.
ListContainers(g, bad) ==
    /\ At(g, "list")
    /\ \/ /\ "docker" \in Faults
          /\ exitCode' = StillRunning /\ Goto(g, bad) /\ UNCHANGED looperQuit
       \/ /\ container = "running"
          /\ Goto(g, "sidecar") /\ UNCHANGED <<exitCode, looperQuit>>
       \/ /\ container # "running"
          /\ looperQuit' = TRUE /\ Goto(g, "inspect") /\ UNCHANGED exitCode

AskSidecar(g, good, bad) ==
    /\ At(g, "sidecar")
    /\ exitCode' = StillRunning
    /\ Goto(g, good) \/ (CheckSidecar /\ Goto(g, bad))
    /\ UNCHANGED looperQuit

GetExitCode(g, good, bad) ==
    /\ At(g, "inspect")
    /\ exitCode' \in CodeRead
    /\ Goto(g, IF exitCode' = 0 THEN good ELSE bad)
    /\ UNCHANGED looperQuit

CheckContainerStatus(g, good, bad) ==
    /\ \/ ListContainers(g, bad)
       \/ AskSidecar(g, good, bad)
       \/ GetExitCode(g, good, bad)
    /\ UNCHANGED <<proc, docker, quitClosed, configured, creds, logs, sent, sig,
                   events, drain>>

\* handleContainerExit
StatusFor(code) ==
    IF code \in 129..165 THEN "KILLED"
    ELSE IF code # 0 THEN "FAILED" ELSE "FINISHED"

-----------------------------------------------------------------------------
(* The reader: LaunchTask *)

launchFrame == <<exitCode, quitClosed, looperQuit, sig, events, drain>>

\* The LAUNCH event: the agent sends one task to an executor.
Launch ==
    /\ At("reader", "idle")
    /\ sent = <<>>
    /\ SendStatus("reader", "RUNNING", "pull")
    /\ UNCHANGED <<launchFrame, docker, configured, creds, logs>>

Pull ==
    /\ At("reader", "pull")
    /\ \/ Goto("reader", IF AWSRole THEN "aws" ELSE "decrypt")
       \/ Goto("reader", "fail")
    /\ UNCHANGED <<launchFrame, proc, docker, configured, creds, logs, sent>>

\* Credentials obtained (and renewed): start monitorAWSCredsLease and go on.
WatchLease == pc' = [pc EXCEPT !["lease"] = "watching", !["reader"] = "decrypt"]

\* AddAndMonitorVaultAWSKeys
GetLease ==
    /\ At("reader", "aws")
    /\ \/ /\ lease' = "held"
          /\ IF AWSRoleTTL THEN Goto("reader", "renew") ELSE WatchLease
       \/ Goto("reader", "fail") /\ UNCHANGED lease
    /\ UNCHANGED <<launchFrame, proc, docker, configured, token, logs, sent>>

\* SetVaultAWSTTL
RenewLease ==
    /\ At("reader", "renew")
    /\ WatchLease \/ Goto("reader", "fail")
    /\ UNCHANGED <<launchFrame, proc, docker, configured, creds, logs, sent>>

\* ConfigForTask cannot fail, DecryptAllEnv can.
Decrypt ==
    /\ At("reader", "decrypt")
    /\ configured' = TRUE
    /\ Goto("reader", "create") \/ Goto("reader", "fail")
    /\ UNCHANGED <<launchFrame, proc, docker, creds, logs, sent>>

CreateContainer ==
    /\ At("reader", "create")
    /\ \/ container' = "created" /\ Goto("reader", "start")
       \/ Goto("reader", "fail") /\ UNCHANGED container
    /\ UNCHANGED <<launchFrame, proc, ccode, configured, creds, logs, sent>>

\* A start that failed for Docker may have started the container all the same.
StartContainer ==
    /\ At("reader", "start")
    /\ \/ container' = "running" /\ Goto("reader", "spawn")
       \/ UNCHANGED container /\ Goto("reader", "fail")
       \/ "docker" \in Faults /\ container' = "running" /\ Goto("reader", "fail")
    /\ UNCHANGED <<launchFrame, proc, ccode, configured, creds, logs, sent>>

\* The looper is made and monitorTask started.
SpawnMonitor ==
    /\ At("reader", "spawn")
    /\ pc' = [pc EXCEPT !["monitor"] = "backoff", !["reader"] = "logs"]
    /\ UNCHANGED <<launchFrame, proc, docker, configured, creds, logs, sent>>

\* Mutant: the timer is started although the log is relayed to the end.
RelayTimed ==
    /\ At("reader", "logs")
    /\ IF Relay = "off"
       THEN Goto("reader", "deliver") /\ UNCHANGED logs
       ELSE /\ logs' = "open"
            /\ pc' = [pc EXCEPT !["reader"] = "deliver", !["relay"] = "timing"]
    /\ UNCHANGED <<launchFrame, proc, docker, configured, creds, sent>>

\* handleContainerLogs, and the timer that relayLogs starts.
RelayLogs ==
    /\ At("reader", "logs")
    /\ IF Relay = "off"
       THEN Goto("reader", "deliver") /\ UNCHANGED logs
       ELSE /\ logs' = "open"
            /\ pc' = [pc EXCEPT !["reader"] = "deliver",
                                !["relay"] = IF Relay = "startup" THEN "timing"
                                             ELSE "none"]
    /\ UNCHANGED <<launchFrame, proc, docker, configured, creds, sent>>

\* failTask of a launch that failed: report, sleep, stop the driver, return.
LaunchFails ==
    /\ At("reader", "fail")
    /\ SendStatus("reader", "FAILED", "failStop")
    /\ UNCHANGED <<launchFrame, docker, configured, creds, logs>>

\* Mutant: the return after failTask is missing.
LaunchFailStopGoesOn ==
    /\ At("reader", "failStop")
    /\ StopDriver("reader", "spawn")
    /\ UNCHANGED <<exitCode, looperQuit, sig, events, drain, docker,
                   configured, creds, logs, sent>>

LaunchFailStop ==
    /\ At("reader", "failStop")
    /\ StopDriver("reader", "deliver")
    /\ UNCHANGED <<exitCode, looperQuit, sig, events, drain, docker,
                   configured, creds, logs, sent>>

LaunchNext ==
    \/ Launch \/ Pull \/ GetLease \/ RenewLease \/ Decrypt \/ CreateContainer
    \/ StartContainer \/ SpawnMonitor \/ RelayLogs \/ LaunchFails
    \/ LaunchFailStop

-----------------------------------------------------------------------------
(* The reader: KillTask, SHUTDOWN, and handing the result to the event loop *)

killFrame == <<exitCode, quitClosed, configured, docker, creds, logs, sent, sig>>

\* A nil dereference in the reader ends the process.
NilPanic == proc' = "panicNil" /\ UNCHANGED pc

\* The KILL event up to the guards of notifyDrain.  Before LaunchTask has made
\* the configuration (or failed to), reading it panics.
Kill ==
    /\ At("reader", "idle")
    /\ sent # <<>>
    /\ kills < MaxKills
    /\ kills' = kills + 1
    /\ tries' = 0 /\ watcherDone' = FALSE
    /\ \/ ~configured /\ NilPanic
       \/ /\ configured
          /\ Goto("reader", IF CheckSidecar /\ DrainOn /\ container # "none"
                            THEN "drain" ELSE "stop")
          /\ UNCHANGED proc
    /\ UNCHANGED <<killFrame, looperQuit, shutdowns>>

\* The goroutine that turns watcherWg.Wait() into watcherDoneChan.
WatcherBridge ==
    /\ At("reader", "drain") \/ At("reader", "drainWait")
    /\ WatcherWg = 0
    /\ ~watcherDone
    /\ watcherDone' = TRUE
    /\ UNCHANGED <<killFrame, pc, proc, looperQuit, events, tries>>

\* Mutant: the retry loop runs once too often.
LastTryOffByOne == tries > RetryCount

LastTry == tries = RetryCount

\* One attempt at setting the service to DRAINING: accepted, or to be retried
\* unless it was the last or the watcher is done.
DrainPost ==
    /\ At("reader", "drain")
    /\ \/ Goto("reader", "drainWait") /\ UNCHANGED tries
       \/ IF watcherDone \/ LastTry
          THEN Goto("reader", "drainWait") /\ UNCHANGED tries
          ELSE tries' = tries + 1 /\ UNCHANGED pc
    /\ UNCHANGED <<killFrame, proc, looperQuit, events, watcherDone>>

\* SidecarDrainingDuration elapses, or the watcher is done before.
DrainWait ==
    /\ Move("reader", "drainWait", "stop")
    /\ UNCHANGED <<killFrame, proc, looperQuit, events, drain>>

\* Mutant: KillTask returns without quitting the looper.
KillStopReturns == StopContainer("reader", "deliver")

KillStop == StopContainer("reader", "quit")

\* watchLooper.Quit() does not block; there is no looper after a failed launch.
KillQuit ==
    /\ At("reader", "quit")
    /\ \/ /\ HasLooper
          /\ looperQuit' = TRUE
          /\ Goto("reader", "deliver")
          /\ UNCHANGED proc
       \/ ~HasLooper /\ NilPanic /\ UNCHANGED looperQuit
    /\ UNCHANGED <<killFrame, events, drain>>

\* The SHUTDOWN event only stops the driver.
Shutdown ==
    /\ At("reader", "idle")
    /\ shutdowns < MaxShutdowns
    /\ shutdowns' = shutdowns + 1
    /\ StopDriver("reader", "deliver")
    /\ UNCHANGED <<exitCode, looperQuit, configured, docker, creds, logs, sent,
                   sig, kills, drain>>

\* The unbuffered channel of the event loop: the reader hands over the result
\* of the handler while the loop still selects, or sees quitChan closed.
Deliver ==
    /\ At("reader", "deliver")
    /\ \/ pc["main"] = "select" /\ Goto("reader", "idle")
       \/ quitClosed /\ Goto("reader", "ended")
    /\ UNCHANGED <<killFrame, proc, looperQuit, events, drain>>

EventNext ==
    \/ Kill \/ WatcherBridge \/ DrainPost \/ DrainWait \/ KillStop \/ KillQuit
    \/ Shutdown \/ Deliver

-----------------------------------------------------------------------------
(* monitorTask and its looper *)

monitorFrame == <<quitClosed, configured, logs, sig, events, drain>>

\* The backoff is over: count ourselves in and start the looper.
MonitorStart ==
    /\ At("monitor", "backoff")
    /\ pc' = [pc EXCEPT !["monitor"] = "wait", !["looper"] = "list"]
    /\ UNCHANGED <<monitorFrame, proc, docker, exitCode, looperQuit, creds, sent>>

\* Mutant: monitorTask only ever hears of the looper's end.
DoneCallersLooper == {<<"looper", "done", "ended">>}

\* Who may be sending in Done(): <<goroutine, where it blocks, where it goes>>.
DoneCallers == {<<"looper", "done", "ended">>, <<"signals", "doneSend", "wgWait">>}

\* Mutant: the test is inverted.
NeedsStopInverted == exitCode # StillRunning

NeedsStop == exitCode = StillRunning

\* Wait() receives from whoever calls Done first, and exitCode is read.
MonitorWake ==
    /\ At("monitor", "wait")
    /\ \E d \in DoneCallers :
          /\ pc[d[1]] = d[2]
          /\ pc' = [pc EXCEPT !["monitor"] = IF NeedsStop THEN "stop" ELSE "recheck",
                              ![d[1]] = d[3]]
    /\ UNCHANGED <<monitorFrame, proc, docker, exitCode, looperQuit, creds, sent>>

MonitorStop == StopContainer("monitor", "recheck")

\* Mutant: the last check is left out.
MonitorRecheckSkipped ==
    /\ Move("monitor", "recheck", "lease")
    /\ UNCHANGED <<monitorFrame, proc, docker, exitCode, looperQuit, creds, sent>>

\* exitCode is read again: one last checkContainerStatus if still unknown, the
\* error of which is only logged.
MonitorRecheck ==
    /\ At("monitor", "recheck")
    /\ Goto("monitor", IF exitCode = StillRunning THEN "list" ELSE "lease")
    /\ UNCHANGED <<monitorFrame, proc, docker, exitCode, looperQuit, creds, sent>>

MonitorCheck == CheckContainerStatus("monitor", "lease", "lease")

\* A revocation of a credential we hold is tried once; an error is only logged.
Revoked(credential) ==
    IF credential = "held"
    THEN {"revoked"} \cup IF "vault" \in Faults THEN {"held"} ELSE {}
    ELSE {credential}

\* maybeCleanupAWSCredsLease, then MaybeRevokeToken
MonitorRevoke ==
    /\ \/ /\ At("monitor", "lease")
          /\ lease' \in Revoked(lease) /\ UNCHANGED token
          /\ Goto("monitor", "token")
       \/ /\ At("monitor", "token")
          /\ token' \in Revoked(token) /\ UNCHANGED lease
          /\ Goto("monitor", "report")
    /\ UNCHANGED <<monitorFrame, proc, docker, exitCode, looperQuit, sent>>

\* handleContainerExit: finishTask, failTask or taskKilled ...
MonitorReport ==
    /\ At("monitor", "report")
    /\ SendStatus("monitor", StatusFor(exitCode), "stopDriver")
    /\ UNCHANGED <<monitorFrame, docker, exitCode, looperQuit, creds>>

\* ... each of which sleeps and stops the driver.
MonitorStopDriver ==
    /\ At("monitor", "stopDriver")
    /\ StopDriver("monitor", "wgDone")
    /\ UNCHANGED <<docker, exitCode, looperQuit, configured, creds, logs, sent,
                   sig, events, drain>>

MonitorDone ==
    /\ Move("monitor", "wgDone", "ended")
    /\ UNCHANGED <<monitorFrame, proc, docker, exitCode, looperQuit, creds, sent>>

MonitorNext ==
    \/ MonitorStart \/ MonitorWake \/ MonitorStop \/ MonitorRecheck \/ MonitorCheck
    \/ MonitorRevoke \/ MonitorReport \/ MonitorStopDriver \/ MonitorDone

LooperCheck == CheckContainerStatus("looper", "select", "done")

LooperTick ==
    /\ Move("looper", "select", "list")
    /\ UNCHANGED <<monitorFrame, proc, docker, exitCode, looperQuit, creds, sent>>

LooperQuits ==
    /\ Move("looper", "select", "done")
    /\ looperQuit
    /\ UNCHANGED <<monitorFrame, proc, docker, exitCode, looperQuit, creds, sent>>

LooperNext == LooperCheck \/ LooperTick \/ LooperQuits

-----------------------------------------------------------------------------
(* handleSignals, and the goroutines that act on time alone *)

signalFrame == <<docker, exitCode, quitClosed, configured, creds, sent, events,
                 drain>>

\* sigChan holds one signal and is read once: later ones change nothing.
SignalArrives(s) ==
    /\ s \in Signals
    /\ proc = "up" /\ sig = "none"
    /\ sig' = s
    /\ UNCHANGED <<signalFrame, pc, proc, looperQuit, logs>>

\* Mutant: TERM is handled like USR1.
QuitSignalsAll == {"USR1", "TERM"}

\* Signals that end the looper by Quit() rather than by taking its place.
QuitSignals == {"USR1"}

\* Without a looper there is nothing to shut down.  USR1 quits the looper, any
\* other signal takes its place in Done(), which blocks until monitorTask waits.
HandleSignal ==
    /\ At("signals", "wait")
    /\ sig # "none"
    /\ \/ ~HasLooper /\ Goto("signals", "closeLogs") /\ UNCHANGED looperQuit
       \/ /\ HasLooper /\ sig \in QuitSignals
          /\ looperQuit' = TRUE
          /\ Goto("signals", "wgWait")
       \/ /\ HasLooper /\ sig \notin QuitSignals
          /\ Goto("signals", "doneSend")
          /\ UNCHANGED looperQuit
    /\ UNCHANGED <<signalFrame, proc, logs, sig>>

\* watcherWg.Wait()
SignalsWgWait ==
    /\ Move("signals", "wgWait", "closeLogs")
    /\ WatcherWg = 0
    /\ UNCHANGED <<signalFrame, proc, looperQuit, logs, sig>>

SignalsCloseLogs ==
    /\ At("signals", "closeLogs")
    /\ \/ logs = "none" /\ Goto("signals", "exit") /\ UNCHANGED <<proc, logs>>
       \/ logs # "none" /\ CloseLogsChan("signals", "exit")
    /\ UNCHANGED <<signalFrame, looperQuit, sig>>

\* os.Exit
SignalsExit ==
    /\ At("signals", "exit")
    /\ proc' = "signalled"
    /\ UNCHANGED <<signalFrame, pc, looperQuit, logs, sig>>

\* monitorAWSCredsLease at the (padded) expiry of the lease.
LeaseExpires ==
    /\ At("lease", "watching")
    /\ sig' = IF sig = "none" THEN "USR1" ELSE sig
    /\ Goto("lease", "ended")
    /\ UNCHANGED <<signalFrame, proc, looperQuit, logs>>

\* cancelAfterStartup when RelaySyslogStartupTime is over.
RelayCancel ==
    /\ At("relay", "timing")
    /\ CloseLogsChan("relay", "ended")
    /\ UNCHANGED <<signalFrame, looperQuit, sig>>

SignalNext ==
    \/ \E s \in Signals : SignalArrives(s)
    \/ HandleSignal \/ SignalsWgWait \/ SignalsCloseLogs \/ SignalsExit
    \/ LeaseExpires \/ RelayCancel

-----------------------------------------------------------------------------
(* The event loop's side, the container, and the wrapper *)

worldFrame == <<exitCode, quitClosed, looperQuit, configured, creds, logs, sent,
                sig, events, drain>>

\* quitChan is closed: eventLoop and Run return, main sleeps two seconds.
MainQuit ==
    /\ Move("main", "select", "exiting")
    /\ quitClosed
    /\ UNCHANGED <<worldFrame, proc, docker>>

\* The subscription is lost: no checkpointing, or the recovery timeout is over.
MainGivesUp ==
    /\ At("main", "select")
    /\ "stream" \in Faults
    /\ Goto("main", "exiting")
    /\ UNCHANGED <<worldFrame, proc, docker>>

\* Returning from main ends every goroutine.
MainExit ==
    /\ At("main", "exiting")
    /\ proc' = "returned"
    /\ UNCHANGED <<worldFrame, pc, docker>>

Crash ==
    /\ "crash" \in Faults
    /\ proc = "up"
    /\ proc' = "killed"
    /\ UNCHANGED <<worldFrame, pc, docker>>

\* The container exits of itself, whatever became of the executor.
ContainerExit ==
    /\ container = "running"
    /\ container' = "exited"
    /\ ccode' \in ExitCodes
    /\ UNCHANGED <<worldFrame, pc, proc>>

\* Mutant: cleanup only runs after a normal exit.
ExecutorGoneNormally == proc = "returned"

ExecutorGone == proc # "up"

\* executor.sh: when the executor is gone, stop a container it left running.
WrapperCleanup ==
    /\ ExecutorGone
    /\ pc["wrapper"] = "up"
    /\ DockerStop
    /\ Goto("wrapper", "done")
    /\ UNCHANGED <<worldFrame, proc>>

\* Nothing is left to do: not a deadlock.
Finished ==
    /\ pc["wrapper"] = "done"
    /\ container # "running"
    /\ UNCHANGED vars

ProcessNext ==
    \/ MainQuit \/ MainGivesUp \/ MainExit \/ Crash \/ ContainerExit
    \/ WrapperCleanup \/ Finished

Next ==
    LaunchNext \/ EventNext \/ MonitorNext \/ LooperNext \/ SignalNext \/ ProcessNext

Spec == Init /\ [][Next]_vars

-----------------------------------------------------------------------------
(* Fairness: a goroutine that can run does run, timers fire, and a call that *)
(* was made returns.  Nothing is assumed of the agent, of signals, of the    *)
(* lease's expiry, of faults, or of a container that nobody stops.           *)

\* select picks at random among the ready cases, so a pending Quit, ready at
\* every turn of the loop, is taken after finitely many ticks.
Fairness ==
    /\ WF_vars(Pull \/ GetLease \/ RenewLease \/ Decrypt \/ CreateContainer
               \/ StartContainer \/ SpawnMonitor \/ RelayLogs \/ LaunchFails
               \/ LaunchFailStop)
    /\ WF_vars(DrainPost \/ DrainWait \/ KillStop \/ KillQuit \/ Deliver)
    /\ WF_vars(MonitorNext)
    /\ WF_vars(LooperCheck \/ LooperTick)
    /\ SF_vars(LooperQuits)
    /\ WF_vars(HandleSignal \/ SignalsWgWait \/ SignalsCloseLogs \/ SignalsExit)
    /\ WF_vars(RelayCancel)
    /\ WF_vars(MainQuit \/ MainExit)
    /\ WF_vars(WrapperCleanup)

FairSpec == Spec /\ Fairness
=============================================================================
