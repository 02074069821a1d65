------------------------ MODULE ExecutorSafetyProofs ------------------------
(***************************************************************************)
(* More theorems about Executor, resting on its inductive invariant: who   *)
(* stops the driver, when a KILL may panic, that the container has stopped *)
(* before its task is concluded, that a TERM waits for the report, and who *)
(* closes the log pump.                                                    *)
(***************************************************************************)
EXTENDS ExecutorProofs

\* From here on the monitor has either stopped the container or seen it gone.
AfterStop == {"verify", "restop", "recheck", "list", "sidecar", "inspect",
              "lease", "token", "report", "stopDriver", "wgDone", "ended"}

\* Nobody who is still to stop the driver finds it stopped, unless by SHUTDOWN:
\* the launch that fails and the monitor exclude each other.
StopsOnce ==
    /\ pc["reader"] = "failStop" => pc["monitor"] = "none" /\ sent # <<>>
    /\ shutdowns = 0 =>
         /\ proc # "panicStop"
         /\ sent = <<>> => ~quitClosed
         /\ proc = "up" /\ pc["reader"] \in LaunchSteps \cup {"failStop"} => ~quitClosed
         /\ proc = "up" /\ pc["monitor"] \in BeforeReport \cup {"stopDriver"} =>
            ~quitClosed

\* The steps of KillTask.
KillSteps == StopSteps \cup {"drain", "drainWait", "quit"}

\* Without a monitor, a launch that is over has failed.
LaunchFailed ==
    /\ pc["reader"] \in KillSteps => sent # <<>>
    /\ proc = "up" /\ pc["reader"] \in {"create", "start", "spawn"} => configured
    /\ pc["monitor"] # "none" => configured
    /\ proc = "up" /\ sent # <<>> /\ pc["monitor"] = "none"
       /\ pc["reader"] \notin LaunchSteps => sent = <<"RUNNING", "FAILED">>
    /\ proc = "panicNil" => sent = <<"RUNNING", "FAILED">> /\ pc["monitor"] = "none"

\* With a Docker that does not fail, whoever concludes the task or gives back
\* its credentials does so after the container has stopped.
StopsFirst ==
    /\ lease = "revoked" \/ token = "revoked" => pc["monitor"] # "none"
    /\ "docker" \notin Faults =>
         /\ pc["monitor"] \in AfterStop => container # "running"
         /\ pc["reader"] = "fail" => container # "running"
         /\ TerminalSent \/ lease = "revoked" \/ token = "revoked"
            => container # "running"

\* Where the monitor is when a TERM waits for it, and what it has done there.
ReportsFirst ==
    /\ pc["signals"] # "wait" => sig # "none"
    /\ sig = "TERM" /\ pc["signals"] = "wgWait"
       => pc["monitor"] \notin {"none", "backoff", "wait"}
    /\ pc["monitor"] \in {"stopDriver", "wgDone", "ended"} => TerminalSent
    /\ pc["monitor"] \in {"wgDone", "ended"} => quitClosed

\* Without a TERM, and with a Docker that does not fail, the monitor is alone
\* with exitCode once it is awake: it waits for the looper's end.
CodeKept ==
    "docker" \notin Faults /\ "TERM" \notin Signals =>
        /\ sig # "TERM" /\ pc["signals"] # "doneSend"
        /\ pc["monitor"] \notin {"none", "backoff", "wait"} => pc["looper"] = "ended"
        /\ pc["monitor"] # "sidecar"
        /\ pc["monitor"] \in {"lease", "token", "report"} => exitCode # StillRunning

\* The strengthening of IndInv that the theorems rest on.
Safe == StopsOnce /\ LaunchFailed /\ StopsFirst /\ ReportsFirst /\ CodeKept

-----------------------------------------------------------------------------
(* What is sent *)

\* A step that sends nothing leaves the conclusion as it is.
LEMMA NothingSent == sent' = sent => (TerminalSent' <=> TerminalSent)
  BY DEF TerminalSent

\* RUNNING is no conclusion.
LEMMA RunningIsNoConclusion == sent = <<"RUNNING">> => ~TerminalSent
  BY RunningAlone DEF TerminalSent, Terminal

\* A step that sends a status adds it.
LEMMA StatusSent ==
    ASSUME NEW status \in Statuses, sent \in Seq(Statuses),
           sent' = Append(sent, status)
    PROVE  /\ sent' # <<>>
           /\ TerminalSent => TerminalSent'
           /\ status \in Terminal => TerminalSent'
<1>1. /\ Len(sent) \in Nat /\ DOMAIN sent = 1..Len(sent)
      /\ Len(sent') = Len(sent) + 1 /\ DOMAIN sent' = 1..Len(sent) + 1
      /\ \A i \in 1..Len(sent) : sent'[i] = sent[i]
      /\ sent'[Len(sent) + 1] = status
  BY AppendProperties, LenProperties
<1>2. sent' # <<>>
  BY AppendProperties
<1>3. TerminalSent => TerminalSent'
  BY <1>1 DEF TerminalSent
<1>4. status \in Terminal => TerminalSent'
  <2>1. Len(sent) + 1 \in DOMAIN sent'
    BY <1>1
  <2> QED
    BY <1>1, <2>1 DEF TerminalSent
<1> QED
  BY <1>2, <1>3, <1>4

-----------------------------------------------------------------------------
(* Every step keeps Safe *)

\* LaunchTask keeps Safe.
LEMMA LaunchSafe == IndInv /\ Safe /\ LaunchNext => Safe'
<1> SUFFICES ASSUME TypeOK, LaunchOrder, WatchOrder, CodeKnown, Safe, LaunchNext
             PROVE  Safe'
  BY DEF IndInv
<1> USE ConfigAssumption DEF TypeOK, PcOK, DataOK, Goroutine, LaunchOrder, WatchOrder,
      CodeKnown, At, Goto, Move, docker, creds, events, LaunchSteps, BeforeReport,
      StopSteps, CheckSteps, AfterStop, KillSteps, StillRunning, launchFrame, Safe
<1>1. CASE Launch
  <2>1. "RUNNING" \in Statuses /\ (sent' = sent \/ sent' = Append(sent, "RUNNING"))
    BY <1>1, StatusNames DEF Launch, SendStatus
  <2>2. sent = <<>> /\ (TerminalSent => TerminalSent')
    BY <1>1, <2>1, NothingSent, StatusSent DEF Launch
  <2> QED
    BY <1>1, <2>2 DEF Launch, SendStatus, StopsOnce, LaunchFailed, StopsFirst,
       ReportsFirst, CodeKept
<1>2. CASE Pull
  <2>1. sent' = sent
    BY <1>2 DEF Pull
  <2> QED
    BY <1>2, <2>1, NothingSent DEF Pull, StopsOnce, LaunchFailed, StopsFirst,
       ReportsFirst, CodeKept
<1>3. CASE GetLease
  <2>1. sent' = sent
    BY <1>3 DEF GetLease, WatchLease
  <2> QED
    BY <1>3, <2>1, NothingSent DEF GetLease, WatchLease, StopsOnce, LaunchFailed,
       StopsFirst, ReportsFirst, CodeKept
<1>4. CASE RenewLease
  <2>1. sent' = sent
    BY <1>4 DEF RenewLease, WatchLease
  <2> QED
    BY <1>4, <2>1, NothingSent DEF RenewLease, WatchLease, StopsOnce, LaunchFailed,
       StopsFirst, ReportsFirst, CodeKept
<1>5. CASE Decrypt
  <2>1. sent' = sent
    BY <1>5 DEF Decrypt
  <2> QED
    BY <1>5, <2>1, NothingSent DEF Decrypt, StopsOnce, LaunchFailed, StopsFirst,
       ReportsFirst, CodeKept
<1>6. CASE CreateContainer
  <2>1. sent' = sent
    BY <1>6 DEF CreateContainer
  <2> QED
    BY <1>6, <2>1, NothingSent DEF CreateContainer, StopsOnce, LaunchFailed,
       StopsFirst, ReportsFirst, CodeKept
<1>7. CASE StartContainer
  <2>1. sent' = sent /\ ~TerminalSent
    BY <1>7, RunningIsNoConclusion DEF StartContainer
  <2> QED
    BY <1>7, <2>1, NothingSent DEF StartContainer, StopsOnce, LaunchFailed,
       StopsFirst, ReportsFirst, CodeKept
<1>8. CASE SpawnMonitor
  <2>1. sent' = sent
    BY <1>8 DEF SpawnMonitor
  <2> QED
    BY <1>8, <2>1, NothingSent DEF SpawnMonitor, StopsOnce, LaunchFailed, StopsFirst,
       ReportsFirst, CodeKept
<1>9. CASE RelayLogs
  <2>1. sent' = sent
    BY <1>9 DEF RelayLogs
  <2> QED
    BY <1>9, <2>1, NothingSent DEF RelayLogs, StopsOnce, LaunchFailed, StopsFirst,
       ReportsFirst, CodeKept
<1>10. CASE LaunchFails
  <2>1. "FAILED" \in Statuses /\ (sent' = sent \/ sent' = Append(sent, "FAILED"))
    BY <1>10, StatusNames DEF LaunchFails, SendStatus
  <2>2. sent = <<"RUNNING">> /\ (TerminalSent => TerminalSent')
    BY <1>10, <2>1, NothingSent, StatusSent DEF LaunchFails
  <2>3. proc' = "up" => sent' = <<"RUNNING", "FAILED">> /\ sent' # <<>>
    <3>1. <<"RUNNING", "FAILED">> = Append(<<"RUNNING">>, "FAILED")
      OBVIOUS
    <3>2. sent' # <<>>
      BY <2>1, <2>2, Conclusion
    <3> QED
      BY <1>10, <2>2, <3>1, <3>2 DEF LaunchFails, SendStatus
  <2>4. sent' # <<>>
    BY <2>1, <2>2, Conclusion
  <2> QED
    BY <1>10, <2>2, <2>3, <2>4 DEF LaunchFails, SendStatus, StopsOnce, LaunchFailed,
       StopsFirst, ReportsFirst, CodeKept
<1>11. CASE LaunchFailStop
  <2>1. sent' = sent
    BY <1>11 DEF LaunchFailStop, StopDriver
  <2> QED
    BY <1>11, <2>1, NothingSent DEF LaunchFailStop, StopDriver, StopsOnce,
       LaunchFailed, StopsFirst, ReportsFirst, CodeKept
<1> QED
  BY <1>1, <1>2, <1>3, <1>4, <1>5, <1>6, <1>7, <1>8, <1>9, <1>10, <1>11 DEF LaunchNext

\* KillTask and the reader's loop keep Safe.
LEMMA EventSafe == IndInv /\ Safe /\ EventNext => Safe'
<1> SUFFICES ASSUME TypeOK, LaunchOrder, WatchOrder, CodeKnown, Safe, EventNext
             PROVE  Safe'
  BY DEF IndInv
<1> USE ConfigAssumption DEF TypeOK, PcOK, DataOK, Goroutine, LaunchOrder, WatchOrder,
      CodeKnown, At, Goto, Move, docker, creds, events, LaunchSteps, BeforeReport,
      StopSteps, CheckSteps, AfterStop, KillSteps, StillRunning, killFrame, Safe
<1>1. CASE Kill
  <2>1. sent' = sent
    BY <1>1 DEF Kill, NilPanic
  <2> QED
    BY <1>1, <2>1, NothingSent DEF Kill, NilPanic, StopsOnce, LaunchFailed,
       StopsFirst, ReportsFirst, CodeKept
<1>2. CASE WatcherBridge
  <2>1. sent' = sent
    BY <1>2 DEF WatcherBridge
  <2> QED
    BY <1>2, <2>1, NothingSent DEF WatcherBridge, StopsOnce, LaunchFailed, StopsFirst,
       ReportsFirst, CodeKept
<1>3. CASE DrainPost
  <2>1. sent' = sent
    BY <1>3 DEF DrainPost
  <2> QED
    BY <1>3, <2>1, NothingSent DEF DrainPost, StopsOnce, LaunchFailed, StopsFirst,
       ReportsFirst, CodeKept
<1>4. CASE DrainWait
  <2>1. sent' = sent
    BY <1>4 DEF DrainWait
  <2> QED
    BY <1>4, <2>1, NothingSent DEF DrainWait, StopsOnce, LaunchFailed, StopsFirst,
       ReportsFirst, CodeKept
<1>5. CASE KillStop
  <2>1. sent' = sent
    BY <1>5 DEF KillStop, StopContainer, DockerStop
  <2> QED
    BY <1>5, <2>1, NothingSent DEF KillStop, StopContainer, DockerStop, StopsOnce,
       LaunchFailed, StopsFirst, ReportsFirst, CodeKept
<1>6. CASE KillQuit
  <2>1. sent' = sent
    BY <1>6 DEF KillQuit, NilPanic, HasLooper
  <2> QED
    BY <1>6, <2>1, NothingSent DEF KillQuit, NilPanic, HasLooper, StopsOnce,
       LaunchFailed, StopsFirst, ReportsFirst, CodeKept
<1>7. CASE Shutdown
  <2>1. sent' = sent
    BY <1>7 DEF Shutdown, StopDriver
  <2> QED
    BY <1>7, <2>1, NothingSent DEF Shutdown, StopDriver, StopsOnce, LaunchFailed,
       StopsFirst, ReportsFirst, CodeKept
<1>8. CASE Deliver
  <2>1. sent' = sent
    BY <1>8 DEF Deliver
  <2> QED
    BY <1>8, <2>1, NothingSent DEF Deliver, StopsOnce, LaunchFailed, StopsFirst,
       ReportsFirst, CodeKept
<1> QED
  BY <1>1, <1>2, <1>3, <1>4, <1>5, <1>6, <1>7, <1>8 DEF EventNext

\* monitorTask keeps Safe.
LEMMA MonitorSafe == IndInv /\ Safe /\ MonitorNext => Safe'
<1> SUFFICES ASSUME TypeOK, LaunchOrder, WatchOrder, CodeKnown, Safe, MonitorNext
             PROVE  Safe'
  BY DEF IndInv
<1> USE ConfigAssumption DEF TypeOK, PcOK, DataOK, Goroutine, LaunchOrder, WatchOrder,
      CodeKnown, At, Goto, Move, docker, creds, events, LaunchSteps, BeforeReport,
      StopSteps, CheckSteps, AfterStop, KillSteps, StillRunning, monitorFrame, Safe
<1>1. CASE MonitorStart
  <2>1. sent' = sent
    BY <1>1 DEF MonitorStart
  <2> QED
    BY <1>1, <2>1, NothingSent DEF MonitorStart, StopsOnce, LaunchFailed, StopsFirst,
       ReportsFirst, CodeKept
<1>2. CASE MonitorWake
  <2>1. sent' = sent
    BY <1>2 DEF MonitorWake, DoneCallers, NeedsStop
  <2> QED
    BY <1>2, <2>1, NothingSent DEF MonitorWake, DoneCallers, NeedsStop, StopsOnce,
       LaunchFailed, StopsFirst, ReportsFirst, CodeKept
<1>3. CASE MonitorStop
  <2>1. sent' = sent
    BY <1>3 DEF MonitorStop, StopContainer, DockerStop
  <2> QED
    BY <1>3, <2>1, NothingSent DEF MonitorStop, StopContainer, DockerStop, StopsOnce,
       LaunchFailed, StopsFirst, ReportsFirst, CodeKept
<1>4. CASE MonitorRecheck
  <2>1. sent' = sent
    BY <1>4 DEF MonitorRecheck
  <2> QED
    BY <1>4, <2>1, NothingSent DEF MonitorRecheck, StopsOnce, LaunchFailed,
       StopsFirst, ReportsFirst, CodeKept
<1>5. CASE MonitorCheck
  <2>1. sent' = sent
    BY <1>5 DEF MonitorCheck, CheckContainerStatus, ListContainers, AskSidecar,
       GetExitCode, CodeRead
  <2> QED
    BY <1>5, <2>1, NothingSent DEF MonitorCheck, CheckContainerStatus, ListContainers,
       AskSidecar, GetExitCode, CodeRead, StopsOnce, LaunchFailed, StopsFirst,
       ReportsFirst, CodeKept
<1>6. CASE MonitorRevoke
  <2>1. sent' = sent
    BY <1>6 DEF MonitorRevoke, Revoked
  <2> QED
    BY <1>6, <2>1, NothingSent DEF MonitorRevoke, Revoked, StopsOnce, LaunchFailed,
       StopsFirst, ReportsFirst, CodeKept
<1>7. CASE MonitorReport
  <2> DEFINE status == StatusFor(exitCode)
  <2>1. status \in Statuses \cap Terminal
    BY StatusNames DEF StatusFor, Terminal
  <2>2. sent' = sent \/ sent' = Append(sent, status)
    BY <1>7 DEF MonitorReport, SendStatus
  <2>3. TerminalSent => TerminalSent'
    BY <2>1, <2>2, NothingSent, StatusSent
  <2>4. proc' = "up" => TerminalSent'
    BY <1>7, <2>1, StatusSent DEF MonitorReport, SendStatus
  <2>5. sent = <<"RUNNING">> /\ sent' # <<>>
    BY <1>7, <2>1, <2>2, Conclusion DEF MonitorReport
  <2> QED
    BY <1>7, <2>3, <2>4, <2>5 DEF MonitorReport, SendStatus, StopsOnce, LaunchFailed,
       StopsFirst, ReportsFirst, CodeKept
<1>8. CASE MonitorStopDriver
  <2>1. sent' = sent
    BY <1>8 DEF MonitorStopDriver, StopDriver
  <2> QED
    BY <1>8, <2>1, NothingSent DEF MonitorStopDriver, StopDriver, StopsOnce,
       LaunchFailed, StopsFirst, ReportsFirst, CodeKept
<1>9. CASE MonitorDone
  <2>1. sent' = sent
    BY <1>9 DEF MonitorDone
  <2> QED
    BY <1>9, <2>1, NothingSent DEF MonitorDone, StopsOnce, LaunchFailed, StopsFirst,
       ReportsFirst, CodeKept
<1> QED
  BY <1>1, <1>2, <1>3, <1>4, <1>5, <1>6, <1>7, <1>8, <1>9 DEF MonitorNext

\* The looper keeps Safe.
LEMMA LooperSafe == IndInv /\ Safe /\ LooperNext => Safe'
<1> SUFFICES ASSUME TypeOK, LaunchOrder, WatchOrder, CodeKnown, Safe, LooperNext
             PROVE  Safe'
  BY DEF IndInv
<1> USE ConfigAssumption DEF TypeOK, PcOK, DataOK, Goroutine, LaunchOrder, WatchOrder,
      CodeKnown, At, Goto, Move, docker, creds, events, LaunchSteps, BeforeReport,
      StopSteps, CheckSteps, AfterStop, KillSteps, StillRunning, monitorFrame, Safe
<1>1. CASE LooperCheck
  <2>1. sent' = sent
    BY <1>1 DEF LooperCheck, CheckContainerStatus, ListContainers, AskSidecar,
       GetExitCode, CodeRead
  <2> QED
    BY <1>1, <2>1, NothingSent DEF LooperCheck, CheckContainerStatus, ListContainers,
       AskSidecar, GetExitCode, CodeRead, StopsOnce, LaunchFailed, StopsFirst,
       ReportsFirst, CodeKept
<1>2. CASE LooperTick
  <2>1. sent' = sent
    BY <1>2 DEF LooperTick
  <2> QED
    BY <1>2, <2>1, NothingSent DEF LooperTick, StopsOnce, LaunchFailed, StopsFirst,
       ReportsFirst, CodeKept
<1>3. CASE LooperQuits
  <2>1. sent' = sent
    BY <1>3 DEF LooperQuits
  <2> QED
    BY <1>3, <2>1, NothingSent DEF LooperQuits, StopsOnce, LaunchFailed, StopsFirst,
       ReportsFirst, CodeKept
<1> QED
  BY <1>1, <1>2, <1>3 DEF LooperNext

\* Signals and timers keep Safe.
LEMMA SignalSafe == IndInv /\ Safe /\ SignalNext => Safe'
<1> SUFFICES ASSUME TypeOK, LaunchOrder, WatchOrder, CodeKnown, Safe, SignalNext
             PROVE  Safe'
  BY DEF IndInv
<1> USE ConfigAssumption DEF TypeOK, PcOK, DataOK, Goroutine, LaunchOrder, WatchOrder,
      CodeKnown, At, Goto, Move, docker, creds, events, LaunchSteps, BeforeReport,
      StopSteps, CheckSteps, AfterStop, KillSteps, StillRunning, signalFrame, Safe
<1>1. CASE \E s \in Signals : SignalArrives(s)
  <2>1. sent' = sent
    BY <1>1 DEF SignalArrives
  <2> QED
    BY <1>1, <2>1, NothingSent DEF SignalArrives, StopsOnce, LaunchFailed, StopsFirst,
       ReportsFirst, CodeKept
<1>2. CASE HandleSignal
  <2>1. sent' = sent
    BY <1>2 DEF HandleSignal, HasLooper, QuitSignals
  <2> QED
    BY <1>2, <2>1, NothingSent DEF HandleSignal, HasLooper, QuitSignals, StopsOnce,
       LaunchFailed, StopsFirst, ReportsFirst, CodeKept
<1>3. CASE SignalsWgWait
  <2>1. sent' = sent
    BY <1>3 DEF SignalsWgWait
  <2> QED
    BY <1>3, <2>1, NothingSent DEF SignalsWgWait, StopsOnce, LaunchFailed, StopsFirst,
       ReportsFirst, CodeKept
<1>4. CASE SignalsCloseLogs
  <2>1. sent' = sent
    BY <1>4 DEF SignalsCloseLogs, CloseLogsChan
  <2> QED
    BY <1>4, <2>1, NothingSent DEF SignalsCloseLogs, CloseLogsChan, StopsOnce,
       LaunchFailed, StopsFirst, ReportsFirst, CodeKept
<1>5. CASE SignalsExit
  <2>1. sent' = sent
    BY <1>5 DEF SignalsExit
  <2> QED
    BY <1>5, <2>1, NothingSent DEF SignalsExit, StopsOnce, LaunchFailed, StopsFirst,
       ReportsFirst, CodeKept
<1>6. CASE LeaseExpires
  <2>1. sent' = sent
    BY <1>6 DEF LeaseExpires
  <2> QED
    BY <1>6, <2>1, NothingSent DEF LeaseExpires, StopsOnce, LaunchFailed, StopsFirst,
       ReportsFirst, CodeKept
<1>7. CASE RelayCancel
  <2>1. sent' = sent
    BY <1>7 DEF RelayCancel, CloseLogsChan
  <2> QED
    BY <1>7, <2>1, NothingSent DEF RelayCancel, CloseLogsChan, StopsOnce,
       LaunchFailed, StopsFirst, ReportsFirst, CodeKept
<1> QED
  BY <1>1, <1>2, <1>3, <1>4, <1>5, <1>6, <1>7 DEF SignalNext

\* main, the container and the wrapper keep Safe.
LEMMA ProcessSafe == IndInv /\ Safe /\ ProcessNext => Safe'
<1> SUFFICES ASSUME TypeOK, LaunchOrder, WatchOrder, CodeKnown, Safe, ProcessNext
             PROVE  Safe'
  BY DEF IndInv
<1> USE ConfigAssumption DEF TypeOK, PcOK, DataOK, Goroutine, LaunchOrder, WatchOrder,
      CodeKnown, At, Goto, Move, docker, creds, events, LaunchSteps, BeforeReport,
      StopSteps, CheckSteps, AfterStop, KillSteps, StillRunning, worldFrame, Safe
<1>1. CASE MainQuit
  <2>1. sent' = sent
    BY <1>1 DEF MainQuit
  <2> QED
    BY <1>1, <2>1, NothingSent DEF MainQuit, StopsOnce, LaunchFailed, StopsFirst,
       ReportsFirst, CodeKept
<1>2. CASE MainGivesUp
  <2>1. sent' = sent
    BY <1>2 DEF MainGivesUp
  <2> QED
    BY <1>2, <2>1, NothingSent DEF MainGivesUp, StopsOnce, LaunchFailed, StopsFirst,
       ReportsFirst, CodeKept
<1>3. CASE MainExit
  <2>1. sent' = sent
    BY <1>3 DEF MainExit
  <2> QED
    BY <1>3, <2>1, NothingSent DEF MainExit, StopsOnce, LaunchFailed, StopsFirst,
       ReportsFirst, CodeKept
<1>4. CASE Crash
  <2>1. sent' = sent
    BY <1>4 DEF Crash
  <2> QED
    BY <1>4, <2>1, NothingSent DEF Crash, StopsOnce, LaunchFailed, StopsFirst,
       ReportsFirst, CodeKept
<1>5. CASE ContainerExit
  <2>1. sent' = sent
    BY <1>5 DEF ContainerExit
  <2> QED
    BY <1>5, <2>1, NothingSent DEF ContainerExit, StopsOnce, LaunchFailed, StopsFirst,
       ReportsFirst, CodeKept
<1>6. CASE WrapperCleanup
  <2>1. sent' = sent
    BY <1>6 DEF WrapperCleanup, DockerStop
  <2> QED
    BY <1>6, <2>1, NothingSent DEF WrapperCleanup, DockerStop, StopsOnce,
       LaunchFailed, StopsFirst, ReportsFirst, CodeKept
<1>7. CASE Finished
  <2>1. sent' = sent
    BY <1>7 DEF Finished, vars
  <2> QED
    BY <1>7, <2>1, NothingSent DEF Finished, vars, StopsOnce, LaunchFailed,
       StopsFirst, ReportsFirst, CodeKept
<1> QED
  BY <1>1, <1>2, <1>3, <1>4, <1>5, <1>6, <1>7 DEF ProcessNext

\* The initial states satisfy Safe.
LEMMA InitSafe == Init => Safe
  BY ConfigAssumption DEF Init, Safe, StopsOnce, LaunchFailed, StopsFirst,
     ReportsFirst, CodeKept, LaunchSteps, BeforeReport, StopSteps, CheckSteps,
     AfterStop, KillSteps, TerminalSent

\* Every step keeps Safe.
LEMMA NextSafe == IndInv /\ Safe /\ [Next]_vars => Safe'
<1>1. ASSUME UNCHANGED vars, Safe PROVE Safe'
  BY <1>1, NothingSent DEF vars, docker, creds, events, Safe, StopsOnce, LaunchFailed,
     StopsFirst, ReportsFirst, CodeKept
<1> QED
  BY <1>1, LaunchSafe, EventSafe, MonitorSafe, LooperSafe, SignalSafe, ProcessSafe
     DEF Next

\* Only SignalsWgWait moves handleSignals on from watcherWg.Wait().
LEMMA WaitEnds ==
    TypeOK /\ [Next]_vars /\ pc["signals"] = "wgWait" /\ pc'["signals"] # "wgWait"
    => SignalsWgWait
<1> SUFFICES ASSUME TypeOK, Next, pc["signals"] = "wgWait", pc'["signals"] # "wgWait"
             PROVE  SignalsWgWait
  BY DEF vars
<1> USE DEF TypeOK, PcOK, Goroutine, At, Goto, Move
<1>1. ~LaunchNext
  BY DEF LaunchNext, Launch, SendStatus, Pull, GetLease, WatchLease, RenewLease,
     Decrypt, CreateContainer,
     StartContainer, SpawnMonitor, RelayLogs, LaunchFails,
     LaunchFailStop, StopDriver
<1>2. ~EventNext
  BY DEF EventNext, Kill, NilPanic, WatcherBridge, DrainPost, DrainWait, KillStop,
     StopContainer, KillQuit, Shutdown, StopDriver, Deliver
<1>3. ~MonitorNext
  BY DEF MonitorNext, MonitorStart, MonitorWake, DoneCallers, MonitorStop,
     StopContainer, MonitorRecheck, MonitorCheck, CheckContainerStatus, ListContainers, AskSidecar,
     GetExitCode, MonitorRevoke, MonitorReport, SendStatus, MonitorStopDriver,
     StopDriver, MonitorDone
<1>4. ~LooperNext
  BY DEF LooperNext, LooperCheck, CheckContainerStatus, ListContainers, AskSidecar,
     GetExitCode, LooperTick, LooperQuits
<1>5. SignalNext => SignalsWgWait
  BY DEF SignalNext, SignalArrives, HandleSignal, SignalsCloseLogs, CloseLogsChan,
     SignalsExit, LeaseExpires, RelayCancel
<1>6. ~ProcessNext
  BY DEF ProcessNext, MainQuit, MainGivesUp, MainExit, Crash, ContainerExit,
     WrapperCleanup, Finished, vars
<1> QED
  BY <1>1, <1>2, <1>3, <1>4, <1>5, <1>6 DEF Next

\* The log pump is left to handleSignals, which closes it on its way out, unless
\* it is relayed for the start-up only.
ClosesOnce ==
    Relay # "startup" =>
        /\ pc["relay"] = "none" /\ proc # "panicLogs"
        /\ logs = "closed" => pc["signals"] = "exit"

\* Every step keeps ClosesOnce.
LEMMA NextCloses == TypeOK /\ ClosesOnce /\ [Next]_vars => ClosesOnce'
<1> SUFFICES ASSUME TypeOK, ClosesOnce, [Next]_vars PROVE ClosesOnce'
  OBVIOUS
<1> USE DEF TypeOK, PcOK, Goroutine, At, Goto, Move, ClosesOnce
<1>1. CASE LaunchNext
  BY <1>1 DEF LaunchNext, Launch, SendStatus, Pull, GetLease, WatchLease, RenewLease,
     Decrypt, CreateContainer, StartContainer, SpawnMonitor, RelayLogs, LaunchFails,
     LaunchFailStop, StopDriver, launchFrame
<1>2. CASE EventNext
  BY <1>2 DEF EventNext, Kill, NilPanic, WatcherBridge, DrainPost, DrainWait, KillStop,
     StopContainer, KillQuit, Shutdown, StopDriver, Deliver, killFrame, creds, events
<1>3. CASE MonitorNext
  BY <1>3 DEF MonitorNext, MonitorStart, MonitorWake, DoneCallers, MonitorStop,
     StopContainer, MonitorRecheck, MonitorCheck, CheckContainerStatus, ListContainers,
     AskSidecar, GetExitCode, MonitorRevoke, MonitorReport, SendStatus,
     MonitorStopDriver, StopDriver, MonitorDone, monitorFrame
<1>4. CASE LooperNext
  BY <1>4 DEF LooperNext, LooperCheck, CheckContainerStatus, ListContainers, AskSidecar,
     GetExitCode, LooperTick, LooperQuits, monitorFrame
<1>5. CASE SignalNext
  BY <1>5 DEF SignalNext, SignalArrives, HandleSignal, SignalsWgWait, SignalsCloseLogs,
     CloseLogsChan, SignalsExit, LeaseExpires, RelayCancel, signalFrame
<1>6. CASE ProcessNext
  BY <1>6 DEF ProcessNext, MainQuit, MainGivesUp, MainExit, Crash, ContainerExit,
     WrapperCleanup, Finished, vars, worldFrame
<1>7. CASE UNCHANGED vars
  BY <1>7 DEF vars
<1> QED
  BY <1>1, <1>2, <1>3, <1>4, <1>5, <1>6, <1>7 DEF Next

\* Safe holds throughout: it is what the theorems below rest on.
THEOREM SafeInvariant == Spec => [](IndInv /\ Safe)
  BY InitSafe, NextSafe, InductiveInvariant, PTL DEF Spec

\* Without a SHUTDOWN event no goroutine stops the driver a second time: the
\* launch that fails and the monitor exclude each other, for every
\* configuration and whatever fails.
THEOREM DriverStopsOnce == Spec => []DriverStoppedOnce
<1>1. Safe => DriverStoppedOnce
  BY DEF Safe, StopsOnce, DriverStoppedOnce
<1> QED
  BY <1>1, SafeInvariant, PTL

\* A KILL panics only when the launch has failed and said so.
THEOREM KillPanicsLate == Spec => []KillPanicsOnlyAfterFailedLaunch
<1>1. Safe => KillPanicsOnlyAfterFailedLaunch
  BY DEF Safe, LaunchFailed, KillPanicsOnlyAfterFailedLaunch, HasLooper
<1> QED
  BY <1>1, SafeInvariant, PTL

\* With a Docker that does not fail, the task is concluded and its credentials
\* are given back only after the container has stopped, whatever else fails.
THEOREM ConcludesStopped == Spec => []ConcludesOnlyWhenStopped
<1>1. Safe => ConcludesOnlyWhenStopped
  BY DEF Safe, StopsFirst, ConcludesOnlyWhenStopped
<1> QED
  BY <1>1, SafeInvariant, PTL

\* A TERM lets handleSignals past watcherWg.Wait() only when the agent was told
\* and the driver stopped, although the wait group is 0 twice.
THEOREM TermWaits == Spec => TermReportsFirst
<1> DEFINE Waits ==
             sig = "TERM" /\ pc["signals"] = "wgWait" /\ pc'["signals"] # "wgWait"
             => TerminalSent /\ quitClosed
<1>1. IndInv /\ Safe /\ [Next]_vars => [Waits]_vars
  <2> SUFFICES ASSUME IndInv, Safe, [Next]_vars,
                      sig = "TERM", pc["signals"] = "wgWait", pc'["signals"] # "wgWait"
               PROVE  TerminalSent /\ quitClosed
    OBVIOUS
  <2>1. TypeOK
    BY DEF IndInv
  <2>2. SignalsWgWait
    BY <2>1, WaitEnds
  <2>3. pc["monitor"] \notin {"none", "backoff"}
    BY DEF Safe, ReportsFirst
  <2> QED
    BY <2>2, <2>3 DEF SignalsWgWait, WatcherWg, Safe, ReportsFirst
<1>2. Spec => [][Waits]_vars
  BY <1>1, SafeInvariant, PTL DEF Spec
<1> QED
  BY <1>2 DEF TermReportsFirst

\* Without a TERM, and with a Docker that does not fail, the task is never
\* reported with a code that could not be checked; code_overwritten shows that
\* a TERM breaks this.
THEOREM CodeKnownWithoutTerm ==
    Spec => []("TERM" \notin Signals => CodeKnownWhenReported)
<1>1. Safe => ("TERM" \notin Signals => CodeKnownWhenReported)
  BY DEF Safe, CodeKept, CodeKnownWhenReported
<1> QED
  BY <1>1, SafeInvariant, PTL

\* When the log is relayed for the whole life of the task, or not at all, the log
\* pump's channel is closed once; log_pump_closed_twice shows what happens when it
\* is relayed for the start-up only.
THEOREM PumpClosedOnce ==
    Spec => [](Relay # "startup" => LogPumpClosedOnce)
<1>1. Init => ClosesOnce
  BY DEF Init, ClosesOnce, Goroutine
<1>2. ClosesOnce => (Relay # "startup" => LogPumpClosedOnce)
  BY DEF ClosesOnce, LogPumpClosedOnce
<1> QED
  BY <1>1, <1>2, NextCloses, TypeCorrect, PTL DEF Spec

=============================================================================
