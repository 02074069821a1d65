--------------------------- MODULE ExecutorProofs ---------------------------
(***************************************************************************)
(* Theorems about Executor, for every value of its constants: its type     *)
(* invariant, its inductive invariant, the truth of the terminal status,   *)
(* and that it implements TaskLifecycle.                                   *)
(***************************************************************************)
EXTENDS ExecutorProps, SequenceTheorems, TLAPS

-----------------------------------------------------------------------------
(* Where a step may take a goroutine *)

\* A goroutine that moves to one of its locations leaves pc well typed.
LEMMA GotoTyped ==
    \A g \in Goroutine : \A l \in Locations[g] :
        PcOK /\ pc' = [pc EXCEPT ![g] = l] => PcOK'
  BY DEF PcOK

\* So do two goroutines that move together.
LEMMA GotoTwiceTyped ==
    \A g, h \in Goroutine : \A l \in Locations[g], m \in Locations[h] :
        PcOK /\ pc' = [pc EXCEPT ![g] = l, ![h] = m] => PcOK'
  BY DEF PcOK

\* A step that leaves pc alone leaves it well typed.
LEMMA UnchangedTyped == PcOK /\ UNCHANGED pc => PcOK'
  BY DEF PcOK

\* The locations by name, one fact per goroutine.
LEMMA LocationNames ==
    /\ {"select", "exiting"} \subseteq Locations["main"]
    /\ {"idle", "pull", "aws", "renew", "decrypt", "create", "start", "spawn",
        "logs", "fail", "failStop", "drain", "drainWait", "stop", "verify",
        "restop", "quit", "deliver", "ended"} \subseteq Locations["reader"]
    /\ {"backoff", "wait", "stop", "verify", "restop", "recheck", "list",
        "sidecar", "inspect", "lease", "token", "report", "stopDriver",
        "wgDone", "ended"} \subseteq Locations["monitor"]
    /\ {"list", "sidecar", "inspect", "select", "done", "ended"}
       \subseteq Locations["looper"]
    /\ {"doneSend", "wgWait", "closeLogs", "exit"} \subseteq Locations["signals"]
    /\ {"watching", "ended"} \subseteq Locations["lease"]
    /\ {"none", "timing", "ended"} \subseteq Locations["relay"]
    /\ "done" \in Locations["wrapper"]
  BY DEF Locations, LaunchSteps, StopSteps, CheckSteps

\* Each goroutine is one of them.
LEMMA GoroutineNames ==
    {"main", "reader", "monitor", "looper", "signals", "lease", "relay", "wrapper"}
    \subseteq Goroutine
  BY DEF Goroutine

\* The bounds are naturals.
LEMMA BoundsTyped == RetryCount \in Nat /\ MaxKills \in Nat /\ MaxShutdowns \in Nat
  BY ConfigAssumption

\* A status appended to the statuses sent leaves them statuses.
LEMMA AppendTyped ==
    \A status \in Statuses :
        sent \in Seq(Statuses) => Append(sent, status) \in Seq(Statuses)
  OBVIOUS

\* The statuses by name.
LEMMA StatusNames == {"RUNNING", "FINISHED", "FAILED", "KILLED"} \subseteq Statuses
  BY DEF Statuses, Terminal

-----------------------------------------------------------------------------
(* Type correctness, goroutine by goroutine *)

\* The steps of LaunchTask preserve TypeOK.
LEMMA LaunchTyped == TypeOK /\ LaunchNext => TypeOK'
<1> SUFFICES ASSUME PcOK, DataOK, LaunchNext PROVE PcOK' /\ DataOK'
  BY DEF TypeOK
<1> USE DEF At, Goto, Move, launchFrame, docker, creds, events, drain
<1>1. CASE Launch
  <2>1. PcOK'
    BY <1>1, GotoTyped, UnchangedTyped, LocationNames, GoroutineNames DEF Launch, SendStatus
  <2>2. DataOK'
    <3>1. sent' \in Seq(Statuses)
      BY <1>1, AppendTyped, StatusNames DEF Launch, DataOK, SendStatus
    <3> QED
      BY <1>1, <3>1 DEF Launch, DataOK, SendStatus
  <2> QED
    BY <2>1, <2>2
<1>2. CASE Pull
  <2>1. PcOK'
    BY <1>2, GotoTyped, LocationNames, GoroutineNames DEF Pull
  <2>2. DataOK'
    BY <1>2 DEF Pull, DataOK
  <2> QED
    BY <2>1, <2>2
<1>3. CASE GetLease
  <2>1. PcOK'
    BY <1>3, GotoTyped, GotoTwiceTyped, LocationNames, GoroutineNames DEF GetLease, WatchLease
  <2>2. DataOK'
    BY <1>3 DEF GetLease, DataOK, WatchLease
  <2> QED
    BY <2>1, <2>2
<1>4. CASE RenewLease
  <2>1. PcOK'
    BY <1>4, GotoTyped, GotoTwiceTyped, LocationNames, GoroutineNames DEF RenewLease, WatchLease
  <2>2. DataOK'
    BY <1>4 DEF RenewLease, DataOK, WatchLease
  <2> QED
    BY <2>1, <2>2
<1>5. CASE Decrypt
  <2>1. PcOK'
    BY <1>5, GotoTyped, LocationNames, GoroutineNames DEF Decrypt
  <2>2. DataOK'
    BY <1>5 DEF Decrypt, DataOK
  <2> QED
    BY <2>1, <2>2
<1>6. CASE CreateContainer
  <2>1. PcOK'
    BY <1>6, GotoTyped, LocationNames, GoroutineNames DEF CreateContainer
  <2>2. DataOK'
    BY <1>6 DEF CreateContainer, DataOK
  <2> QED
    BY <2>1, <2>2
<1>7. CASE StartContainer
  <2>1. PcOK'
    BY <1>7, GotoTyped, LocationNames, GoroutineNames DEF StartContainer
  <2>2. DataOK'
    BY <1>7 DEF StartContainer, DataOK
  <2> QED
    BY <2>1, <2>2
<1>8. CASE SpawnMonitor
  <2>1. PcOK'
    BY <1>8, GotoTwiceTyped, LocationNames, GoroutineNames DEF SpawnMonitor
  <2>2. DataOK'
    BY <1>8 DEF SpawnMonitor, DataOK
  <2> QED
    BY <2>1, <2>2
<1>9. CASE RelayLogs
  <2>1. PcOK'
    BY <1>9, GotoTyped, GotoTwiceTyped, LocationNames, GoroutineNames DEF RelayLogs
  <2>2. DataOK'
    BY <1>9 DEF RelayLogs, DataOK
  <2> QED
    BY <2>1, <2>2
<1>10. CASE LaunchFails
  <2>1. PcOK'
    BY <1>10, GotoTyped, UnchangedTyped, LocationNames, GoroutineNames DEF LaunchFails, SendStatus
  <2>2. DataOK'
    <3>1. sent' \in Seq(Statuses)
      BY <1>10, AppendTyped, StatusNames DEF LaunchFails, DataOK, SendStatus
    <3> QED
      BY <1>10, <3>1 DEF LaunchFails, DataOK, SendStatus
  <2> QED
    BY <2>1, <2>2
<1>11. CASE LaunchFailStop
  <2>1. PcOK'
    BY <1>11, GotoTyped, UnchangedTyped, LocationNames, GoroutineNames DEF LaunchFailStop, StopDriver
  <2>2. DataOK'
    <3>1. quitClosed' \in BOOLEAN
      BY <1>11 DEF LaunchFailStop, DataOK, StopDriver
    <3> QED
      BY <1>11, <3>1 DEF LaunchFailStop, DataOK, StopDriver
  <2> QED
    BY <2>1, <2>2
<1>12. QED
  BY <1>1, <1>2, <1>3, <1>4, <1>5, <1>6, <1>7, <1>8, <1>9, <1>10, <1>11 DEF LaunchNext

\* The steps of KillTask and of the reader's loop preserve TypeOK.
LEMMA EventTyped == TypeOK /\ EventNext => TypeOK'
<1> SUFFICES ASSUME PcOK, DataOK, EventNext PROVE PcOK' /\ DataOK'
  BY DEF TypeOK
<1> USE DEF At, Goto, Move, killFrame, docker, creds, events, drain
<1>1. CASE Kill
  <2>1. PcOK'
    BY <1>1, GotoTyped, UnchangedTyped, LocationNames, GoroutineNames DEF Kill, NilPanic
  <2>2. DataOK'
    <3>1. kills' \in 0..MaxKills
      BY <1>1, BoundsTyped DEF Kill, DataOK
    <3>2. tries' \in 0..RetryCount
      BY <1>1, BoundsTyped DEF Kill, DataOK
    <3>3. watcherDone' \in BOOLEAN
      BY <1>1 DEF Kill, DataOK
    <3> QED
      BY <1>1, <3>1, <3>2, <3>3 DEF Kill, DataOK, NilPanic
  <2> QED
    BY <2>1, <2>2
<1>2. CASE WatcherBridge
  <2>1. PcOK'
    BY <1>2, UnchangedTyped, LocationNames, GoroutineNames DEF WatcherBridge
  <2>2. DataOK'
    BY <1>2 DEF WatcherBridge, DataOK
  <2> QED
    BY <2>1, <2>2
<1>3. CASE DrainPost
  <2>1. PcOK'
    BY <1>3, GotoTyped, UnchangedTyped, LocationNames, GoroutineNames DEF DrainPost
  <2>2. DataOK'
    BY <1>3, BoundsTyped DEF DrainPost, DataOK, LastTry
  <2> QED
    BY <2>1, <2>2
<1>4. CASE DrainWait
  <2>1. PcOK'
    BY <1>4, GotoTyped, LocationNames, GoroutineNames DEF DrainWait
  <2>2. DataOK'
    BY <1>4 DEF DrainWait, DataOK
  <2> QED
    BY <2>1, <2>2
<1>5. CASE KillStop
  <2>1. PcOK'
    BY <1>5, GotoTyped, LocationNames, GoroutineNames DEF KillStop, StopContainer
  <2>2. DataOK'
    BY <1>5 DEF KillStop, DataOK, StopContainer, DockerStop
  <2> QED
    BY <2>1, <2>2
<1>6. CASE KillQuit
  <2>1. PcOK'
    BY <1>6, GotoTyped, UnchangedTyped, LocationNames, GoroutineNames DEF KillQuit, NilPanic
  <2>2. DataOK'
    <3>1. looperQuit' \in BOOLEAN
      BY <1>6 DEF KillQuit, DataOK
    <3> QED
      BY <1>6, <3>1 DEF KillQuit, DataOK, NilPanic
  <2> QED
    BY <2>1, <2>2
<1>7. CASE Shutdown
  <2>1. PcOK'
    BY <1>7, GotoTyped, UnchangedTyped, LocationNames, GoroutineNames DEF Shutdown, StopDriver
  <2>2. DataOK'
    <3>1. quitClosed' \in BOOLEAN
      BY <1>7 DEF Shutdown, DataOK, StopDriver
    <3> QED
      BY <1>7, <3>1, BoundsTyped DEF Shutdown, DataOK, StopDriver
  <2> QED
    BY <2>1, <2>2
<1>8. CASE Deliver
  <2>1. PcOK'
    BY <1>8, GotoTyped, LocationNames, GoroutineNames DEF Deliver
  <2>2. DataOK'
    BY <1>8 DEF Deliver, DataOK
  <2> QED
    BY <2>1, <2>2
<1>9. QED
  BY <1>1, <1>2, <1>3, <1>4, <1>5, <1>6, <1>7, <1>8 DEF EventNext

\* The steps of monitorTask preserve TypeOK.
LEMMA MonitorTyped == TypeOK /\ MonitorNext => TypeOK'
<1> SUFFICES ASSUME PcOK, DataOK, MonitorNext PROVE PcOK' /\ DataOK'
  BY DEF TypeOK
<1> USE DEF At, Goto, Move, monitorFrame, docker, creds, events, drain
<1>1. CASE MonitorStart
  <2>1. PcOK'
    BY <1>1, GotoTwiceTyped, LocationNames, GoroutineNames DEF MonitorStart
  <2>2. DataOK'
    BY <1>1 DEF MonitorStart, DataOK
  <2> QED
    BY <2>1, <2>2
<1>2. CASE MonitorWake
  <2>1. PcOK'
    <3>1. PICK d \in DoneCallers :
             pc' = [pc EXCEPT !["monitor"] = IF NeedsStop THEN "stop" ELSE "recheck",
                              ![d[1]] = d[3]]
      BY <1>2 DEF MonitorWake
    <3>2. d[1] \in Goroutine /\ d[3] \in Locations[d[1]]
      BY LocationNames, GoroutineNames DEF DoneCallers
    <3> DEFINE next == IF NeedsStop THEN "stop" ELSE "recheck"
    <3>3. "monitor" \in Goroutine /\ next \in Locations["monitor"]
      BY LocationNames, GoroutineNames
    <3>4. pc' = [pc EXCEPT !["monitor"] = next, ![d[1]] = d[3]]
      BY <3>1
    <3> HIDE DEF next
    <3>5. PcOK
      OBVIOUS
    <3> QED
      BY ONLY <3>2, <3>3, <3>4, <3>5, GotoTwiceTyped
  <2>2. DataOK'
    BY <1>2 DEF MonitorWake, DataOK
  <2> QED
    BY <2>1, <2>2
<1>3. CASE MonitorStop
  <2>1. PcOK'
    BY <1>3, GotoTyped, LocationNames, GoroutineNames DEF MonitorStop, StopContainer
  <2>2. DataOK'
    BY <1>3 DEF MonitorStop, DataOK, StopContainer, DockerStop
  <2> QED
    BY <2>1, <2>2
<1>4. CASE MonitorRecheck
  <2>1. PcOK'
    BY <1>4, GotoTyped, LocationNames, GoroutineNames DEF MonitorRecheck
  <2>2. DataOK'
    BY <1>4 DEF MonitorRecheck, DataOK
  <2> QED
    BY <2>1, <2>2
<1>5. CASE MonitorCheck
  <2>1. PcOK'
    BY <1>5, GotoTyped, LocationNames, GoroutineNames DEF MonitorCheck, CheckContainerStatus, ListContainers, AskSidecar, GetExitCode
  <2>2. DataOK'
    <3>1. looperQuit' \in BOOLEAN
      BY <1>5 DEF MonitorCheck, DataOK, CheckContainerStatus, ListContainers, AskSidecar, GetExitCode
    <3> QED
      BY <1>5, <3>1 DEF MonitorCheck, DataOK, CheckContainerStatus, ListContainers, AskSidecar, GetExitCode, CodeRead
  <2> QED
    BY <2>1, <2>2
<1>6. CASE MonitorRevoke
  <2>1. PcOK'
    BY <1>6, GotoTyped, LocationNames, GoroutineNames DEF MonitorRevoke
  <2>2. DataOK'
    BY <1>6 DEF MonitorRevoke, DataOK, Revoked
  <2> QED
    BY <2>1, <2>2
<1>7. CASE MonitorReport
  <2>1. PcOK'
    BY <1>7, GotoTyped, UnchangedTyped, LocationNames, GoroutineNames DEF MonitorReport, SendStatus
  <2>2. DataOK'
    <3>1. sent' \in Seq(Statuses)
      BY <1>7, AppendTyped, StatusNames DEF MonitorReport, DataOK, SendStatus, StatusFor
    <3>2. proc' \in {proc, "panicSend"}
      BY <1>7 DEF MonitorReport, SendStatus
    <3>3. UNCHANGED <<container, ccode, exitCode, quitClosed, looperQuit, configured,
                      lease, token, logs, sig, kills, shutdowns, tries, watcherDone>>
      BY <1>7 DEF MonitorReport
    <3> QED
      BY <3>1, <3>2, <3>3 DEF DataOK
  <2> QED
    BY <2>1, <2>2
<1>8. CASE MonitorStopDriver
  <2>1. PcOK'
    BY <1>8, GotoTyped, UnchangedTyped, LocationNames, GoroutineNames DEF MonitorStopDriver, StopDriver
  <2>2. DataOK'
    <3>1. quitClosed' \in BOOLEAN
      BY <1>8 DEF MonitorStopDriver, DataOK, StopDriver
    <3> QED
      BY <1>8, <3>1 DEF MonitorStopDriver, DataOK, StopDriver
  <2> QED
    BY <2>1, <2>2
<1>9. CASE MonitorDone
  <2>1. PcOK'
    BY <1>9, GotoTyped, LocationNames, GoroutineNames DEF MonitorDone
  <2>2. DataOK'
    BY <1>9 DEF MonitorDone, DataOK
  <2> QED
    BY <2>1, <2>2
<1>10. QED
  BY <1>1, <1>2, <1>3, <1>4, <1>5, <1>6, <1>7, <1>8, <1>9 DEF MonitorNext

\* The looper's steps preserve TypeOK.
LEMMA LooperTyped == TypeOK /\ LooperNext => TypeOK'
<1> SUFFICES ASSUME PcOK, DataOK, LooperNext PROVE PcOK' /\ DataOK'
  BY DEF TypeOK
<1> USE DEF At, Goto, Move, monitorFrame, docker, creds, events, drain
<1>1. CASE LooperCheck
  <2>1. PcOK'
    BY <1>1, GotoTyped, LocationNames, GoroutineNames DEF LooperCheck, CheckContainerStatus, ListContainers, AskSidecar, GetExitCode
  <2>2. DataOK'
    <3>1. looperQuit' \in BOOLEAN
      BY <1>1 DEF LooperCheck, DataOK, CheckContainerStatus, ListContainers, AskSidecar, GetExitCode
    <3> QED
      BY <1>1, <3>1 DEF LooperCheck, DataOK, CheckContainerStatus, ListContainers, AskSidecar, GetExitCode, CodeRead
  <2> QED
    BY <2>1, <2>2
<1>2. CASE LooperTick
  <2>1. PcOK'
    BY <1>2, GotoTyped, LocationNames, GoroutineNames DEF LooperTick
  <2>2. DataOK'
    BY <1>2 DEF LooperTick, DataOK
  <2> QED
    BY <2>1, <2>2
<1>3. CASE LooperQuits
  <2>1. PcOK'
    BY <1>3, GotoTyped, LocationNames, GoroutineNames DEF LooperQuits
  <2>2. DataOK'
    BY <1>3 DEF LooperQuits, DataOK
  <2> QED
    BY <2>1, <2>2
<1>4. QED
  BY <1>1, <1>2, <1>3 DEF LooperNext

\* The steps of handleSignals and of the timers preserve TypeOK.
LEMMA SignalTyped == TypeOK /\ SignalNext => TypeOK'
<1> SUFFICES ASSUME PcOK, DataOK, SignalNext PROVE PcOK' /\ DataOK'
  BY DEF TypeOK
<1> USE DEF At, Goto, Move, signalFrame, docker, creds, events, drain
<1>1. CASE \E s \in Signals : SignalArrives(s)
  <2>1. PcOK'
    BY <1>1, UnchangedTyped, LocationNames, GoroutineNames DEF SignalArrives
  <2>2. DataOK'
    BY <1>1, ConfigAssumption DEF SignalArrives, DataOK
  <2> QED
    BY <2>1, <2>2
<1>2. CASE HandleSignal
  <2>1. PcOK'
    BY <1>2, GotoTyped, LocationNames, GoroutineNames DEF HandleSignal
  <2>2. DataOK'
    <3>1. looperQuit' \in BOOLEAN
      BY <1>2 DEF HandleSignal, DataOK
    <3> QED
      BY <1>2, <3>1 DEF HandleSignal, DataOK
  <2> QED
    BY <2>1, <2>2
<1>3. CASE SignalsWgWait
  <2>1. PcOK'
    BY <1>3, GotoTyped, LocationNames, GoroutineNames DEF SignalsWgWait
  <2>2. DataOK'
    BY <1>3 DEF SignalsWgWait, DataOK
  <2> QED
    BY <2>1, <2>2
<1>4. CASE SignalsCloseLogs
  <2>1. PcOK'
    BY <1>4, GotoTyped, UnchangedTyped, LocationNames, GoroutineNames DEF SignalsCloseLogs, CloseLogsChan
  <2>2. DataOK'
    BY <1>4 DEF SignalsCloseLogs, DataOK, CloseLogsChan
  <2> QED
    BY <2>1, <2>2
<1>5. CASE SignalsExit
  <2>1. PcOK'
    BY <1>5, UnchangedTyped, LocationNames, GoroutineNames DEF SignalsExit
  <2>2. DataOK'
    BY <1>5 DEF SignalsExit, DataOK
  <2> QED
    BY <2>1, <2>2
<1>6. CASE LeaseExpires
  <2>1. PcOK'
    BY <1>6, GotoTyped, LocationNames, GoroutineNames DEF LeaseExpires
  <2>2. DataOK'
    BY <1>6 DEF LeaseExpires, DataOK
  <2> QED
    BY <2>1, <2>2
<1>7. CASE RelayCancel
  <2>1. PcOK'
    BY <1>7, GotoTyped, UnchangedTyped, LocationNames, GoroutineNames DEF RelayCancel, CloseLogsChan
  <2>2. DataOK'
    BY <1>7 DEF RelayCancel, DataOK, CloseLogsChan
  <2> QED
    BY <2>1, <2>2
<1>8. QED
  BY <1>1, <1>2, <1>3, <1>4, <1>5, <1>6, <1>7 DEF SignalNext

\* The steps of main, of the container and of the wrapper preserve TypeOK.
LEMMA ProcessTyped == TypeOK /\ ProcessNext => TypeOK'
<1> SUFFICES ASSUME PcOK, DataOK, ProcessNext PROVE PcOK' /\ DataOK'
  BY DEF TypeOK
<1> USE DEF At, Goto, Move, worldFrame, docker, creds, events, drain
<1>1. CASE MainQuit
  <2>1. PcOK'
    BY <1>1, GotoTyped, LocationNames, GoroutineNames DEF MainQuit
  <2>2. DataOK'
    BY <1>1 DEF MainQuit, DataOK
  <2> QED
    BY <2>1, <2>2
<1>2. CASE MainGivesUp
  <2>1. PcOK'
    BY <1>2, GotoTyped, LocationNames, GoroutineNames DEF MainGivesUp
  <2>2. DataOK'
    BY <1>2 DEF MainGivesUp, DataOK
  <2> QED
    BY <2>1, <2>2
<1>3. CASE MainExit
  <2>1. PcOK'
    BY <1>3, UnchangedTyped, LocationNames, GoroutineNames DEF MainExit
  <2>2. DataOK'
    BY <1>3 DEF MainExit, DataOK
  <2> QED
    BY <2>1, <2>2
<1>4. CASE Crash
  <2>1. PcOK'
    BY <1>4, UnchangedTyped, LocationNames, GoroutineNames DEF Crash
  <2>2. DataOK'
    BY <1>4 DEF Crash, DataOK
  <2> QED
    BY <2>1, <2>2
<1>5. CASE ContainerExit
  <2>1. PcOK'
    BY <1>5, UnchangedTyped, LocationNames, GoroutineNames DEF ContainerExit
  <2>2. DataOK'
    BY <1>5 DEF ContainerExit, DataOK
  <2> QED
    BY <2>1, <2>2
<1>6. CASE WrapperCleanup
  <2>1. PcOK'
    BY <1>6, GotoTyped, LocationNames, GoroutineNames DEF WrapperCleanup
  <2>2. DataOK'
    BY <1>6 DEF WrapperCleanup, DataOK, DockerStop
  <2> QED
    BY <2>1, <2>2
<1>7. CASE Finished
  <2>1. PcOK'
    BY <1>7, UnchangedTyped, LocationNames, GoroutineNames DEF Finished, vars
  <2>2. DataOK'
    BY <1>7 DEF Finished, DataOK, vars
  <2> QED
    BY <2>1, <2>2
<1>8. QED
  BY <1>1, <1>2, <1>3, <1>4, <1>5, <1>6, <1>7 DEF ProcessNext

-----------------------------------------------------------------------------
(* The type invariant *)

\* The initial states are well typed.
LEMMA InitTyped == Init => TypeOK
<1> SUFFICES ASSUME Init PROVE PcOK /\ DataOK
  BY DEF TypeOK
<1>1. PcOK
  BY DEF Init, PcOK, Goroutine, Locations, LaunchSteps, StopSteps, CheckSteps
<1>2. token \in {"none", "held", "revoked"} /\ sent \in Seq(Statuses)
  BY DEF Init
<1>3. kills \in 0..MaxKills /\ shutdowns \in 0..MaxShutdowns /\ tries \in 0..RetryCount
  BY BoundsTyped DEF Init
<1>4. DataOK
  BY <1>2, <1>3 DEF Init, DataOK
<1> QED
  BY <1>1, <1>4

\* So is every state that a step, or a stutter, leads to.
LEMMA NextTyped == TypeOK /\ [Next]_vars => TypeOK'
<1>1. TypeOK /\ UNCHANGED vars => TypeOK'
  BY DEF vars, TypeOK, PcOK, DataOK, docker, creds, events, drain
<1> QED
  BY <1>1, LaunchTyped, EventTyped, MonitorTyped, LooperTyped, SignalTyped,
     ProcessTyped DEF Next

\* Executor is type correct: exitCode holds a code or -1, the statuses sent are
\* statuses, draining is tried at most RetryCount + 1 times.
THEOREM TypeCorrect == Spec => []TypeOK
  BY InitTyped, NextTyped, PTL DEF Spec

-----------------------------------------------------------------------------
(* The inductive invariant *)

\* The parts of IndInv that are about more than types.
Order == LaunchOrder /\ WatchOrder /\ CodeKnown /\ TerminalStatusTruthful

\* A step that leaves alone what they speak of.
Quiet ==
    /\ UNCHANGED <<container, ccode, exitCode, sent>>
    /\ \A g \in {"reader", "monitor", "looper"} : pc'[g] = pc[g]
    /\ proc' = "up" => proc = "up"

\* A quiet step preserves the order.
LEMMA QuietOrder == Order /\ Quiet => Order'
  BY DEF Order, Quiet, LaunchOrder, WatchOrder, CodeKnown, TerminalStatusTruthful

\* Signals, timers and the event loop are quiet.
LEMMA SignalQuiet == TypeOK /\ SignalNext => Quiet
<1> USE DEF TypeOK, PcOK, Goroutine, At, Goto, Move, signalFrame, docker, Quiet
<1> QED
  BY DEF SignalNext, SignalArrives, HandleSignal, SignalsWgWait, SignalsCloseLogs,
     SignalsExit, LeaseExpires, RelayCancel, CloseLogsChan

\* RUNNING alone claims nothing.
LEMMA RunningAlone ==
    sent = <<"RUNNING">> => \A i \in DOMAIN sent : sent[i] = "RUNNING"
  OBVIOUS

\* A status sent after RUNNING.
LEMMA Conclusion ==
    /\ <<"RUNNING">> # <<>>
    /\ \A status \in Statuses : Append(<<"RUNNING">>, status) # <<>>
<1>1. <<"RUNNING">> \in Seq(Statuses)
  BY StatusNames
<1>2. <<"RUNNING">> # <<>>
  OBVIOUS
<1> QED
  BY <1>1, <1>2, AppendProperties

\* A status sent was sent before, or is the one this step sends.
LEMMA SentGrows ==
    \A status \in Statuses :
        sent \in Seq(Statuses) /\ sent' = Append(sent, status)
        => \A i \in DOMAIN sent' :
             (i \in DOMAIN sent /\ sent'[i] = sent[i]) \/ sent'[i] = status
  OBVIOUS

\* After RUNNING, a status that is true of the container keeps what is sent true.
LEMMA TrueConclusion ==
    ASSUME NEW status \in Statuses,
           sent = <<"RUNNING">>,
           sent' = sent \/ sent' = Append(sent, status),
           UNCHANGED <<container, ccode>>,
           status = "FINISHED" => container = "exited" /\ ccode = 0,
           status = "KILLED" => container = "exited" /\ ccode \in 129..165
    PROVE  TerminalStatusTruthful'
<1>1. \A i \in DOMAIN sent' : sent'[i] = "RUNNING" \/ sent'[i] = status
  <2>1. CASE sent' = sent
    BY <2>1, RunningAlone
  <2>2. CASE sent' = Append(sent, status)
    BY <2>2, RunningAlone, StatusNames, SentGrows
  <2> QED
    BY <2>1, <2>2
<1>2. ASSUME NEW i \in DOMAIN sent', sent'[i] = "FINISHED"
      PROVE  container' = "exited" /\ ccode' = 0
  BY <1>1, <1>2
<1>3. ASSUME NEW i \in DOMAIN sent', sent'[i] = "KILLED"
      PROVE  container' = "exited" /\ ccode' \in 129..165
  BY <1>1, <1>3
<1> QED
  BY <1>2, <1>3 DEF TerminalStatusTruthful

\* LaunchTask preserves them.
LEMMA LaunchOrderly == IndInv /\ LaunchNext => Order'
<1> SUFFICES ASSUME TypeOK, Order, LaunchNext PROVE Order'
  BY DEF IndInv, Order
<1> USE DEF TypeOK, PcOK, DataOK, Goroutine, Order, LaunchOrder, WatchOrder, CodeKnown, TerminalStatusTruthful, At, Goto, Move, launchFrame, docker, LaunchSteps, BeforeReport, StopSteps, CheckSteps
<1>1. CASE Launch
  BY <1>1 DEF Launch, SendStatus
<1>2. CASE Pull
  BY <1>2 DEF Pull
<1>3. CASE GetLease
  BY <1>3 DEF GetLease, WatchLease
<1>4. CASE RenewLease
  BY <1>4 DEF RenewLease, WatchLease
<1>5. CASE Decrypt
  BY <1>5 DEF Decrypt
<1>6. CASE CreateContainer
  <2>1. sent = <<"RUNNING">> /\ sent' = sent
    BY <1>6 DEF CreateContainer
  <2>2. TerminalStatusTruthful'
    BY <2>1, RunningAlone
  <2>3. LaunchOrder' /\ WatchOrder' /\ CodeKnown'
    BY <1>6, <2>1 DEF CreateContainer
  <2> QED
    BY <2>2, <2>3
<1>7. CASE StartContainer
  BY <1>7 DEF StartContainer
<1>8. CASE SpawnMonitor
  BY <1>8 DEF SpawnMonitor
<1>9. CASE RelayLogs
  BY <1>9 DEF RelayLogs
<1>10. CASE LaunchFails
  <2>1. "FAILED" \in Statuses /\ sent = <<"RUNNING">>
    BY <1>10, StatusNames DEF LaunchFails
  <2>2. sent' = sent \/ sent' = Append(sent, "FAILED")
    BY <1>10 DEF LaunchFails, SendStatus
  <2>3. UNCHANGED docker /\ sent' # <<>>
    <3>1. UNCHANGED docker
      BY <1>10 DEF LaunchFails
    <3>2. sent' # <<>>
      BY <2>1, <2>2, Conclusion
    <3> QED
      BY <3>1, <3>2
  <2>4. TerminalStatusTruthful'
    BY <2>1, <2>2, <2>3, TrueConclusion
  <2>5. LaunchOrder' /\ WatchOrder' /\ CodeKnown'
    BY <1>10, <2>1, <2>3 DEF LaunchFails, SendStatus
  <2> QED
    BY <2>4, <2>5
<1>11. CASE LaunchFailStop
  BY <1>11 DEF LaunchFailStop, StopDriver
<1> QED
  BY <1>1, <1>2, <1>3, <1>4, <1>5, <1>6, <1>7, <1>8, <1>9, <1>10, <1>11 DEF LaunchNext

\* KillTask and the reader's loop preserve them.
LEMMA EventOrderly == IndInv /\ EventNext => Order'
<1> SUFFICES ASSUME TypeOK, Order, EventNext PROVE Order'
  BY DEF IndInv, Order
<1> USE DEF TypeOK, PcOK, DataOK, Goroutine, Order, LaunchOrder, WatchOrder, CodeKnown, TerminalStatusTruthful, At, Goto, Move, killFrame, docker, LaunchSteps
<1>1. CASE Kill
  BY <1>1 DEF Kill, NilPanic
<1>2. CASE WatcherBridge
  BY <1>2 DEF WatcherBridge
<1>3. CASE DrainPost
  BY <1>3 DEF DrainPost
<1>4. CASE DrainWait
  BY <1>4 DEF DrainWait
<1>5. CASE KillStop
  BY <1>5 DEF KillStop, StopContainer, DockerStop
<1>6. CASE KillQuit
  BY <1>6 DEF KillQuit, NilPanic
<1>7. CASE Shutdown
  BY <1>7 DEF Shutdown, StopDriver
<1>8. CASE Deliver
  BY <1>8 DEF Deliver
<1> QED
  BY <1>1, <1>2, <1>3, <1>4, <1>5, <1>6, <1>7, <1>8 DEF EventNext

\* monitorTask preserves them.
LEMMA MonitorOrderly == IndInv /\ MonitorNext => Order'
<1> SUFFICES ASSUME TypeOK, Order, MonitorNext PROVE Order'
  BY DEF IndInv, Order
<1> USE DEF TypeOK, PcOK, DataOK, Goroutine, Order, LaunchOrder, WatchOrder, CodeKnown, TerminalStatusTruthful, At, Goto, Move, monitorFrame, docker, BeforeReport, StopSteps, CheckSteps
<1>1. CASE MonitorStart
  BY <1>1 DEF MonitorStart
<1>2. CASE MonitorWake
  BY <1>2 DEF MonitorWake, DoneCallers
<1>3. CASE MonitorStop
  BY <1>3 DEF MonitorStop, StopContainer, DockerStop
<1>4. CASE MonitorRecheck
  BY <1>4 DEF MonitorRecheck
<1>5. CASE MonitorCheck
  BY <1>5 DEF MonitorCheck, CheckContainerStatus, ListContainers, AskSidecar, GetExitCode, CodeRead
<1>6. CASE MonitorRevoke
  BY <1>6 DEF MonitorRevoke
<1>7. CASE MonitorReport
  <2>1. StatusFor(exitCode) \in Statuses /\ sent = <<"RUNNING">>
    BY <1>7, StatusNames DEF MonitorReport, StatusFor
  <2>2. sent' = sent \/ sent' = Append(sent, StatusFor(exitCode))
    BY <1>7 DEF MonitorReport, SendStatus
  <2>3. UNCHANGED docker /\ sent' # <<>>
    <3>1. UNCHANGED docker
      BY <1>7 DEF MonitorReport
    <3>2. sent' # <<>>
      BY <2>1, <2>2, Conclusion
    <3> QED
      BY <3>1, <3>2
  <2>4. /\ StatusFor(exitCode) = "FINISHED" => container = "exited" /\ ccode = 0
        /\ StatusFor(exitCode) = "KILLED" => container = "exited" /\ ccode \in 129..165
    <3>1. CASE exitCode \in 129..165
      BY <3>1 DEF StatusFor, StillRunning
    <3>2. CASE exitCode = 0
      BY <3>2 DEF StatusFor, StillRunning
    <3>3. CASE exitCode \notin 129..165 /\ exitCode # 0
      BY <3>3 DEF StatusFor
    <3> QED
      BY <3>1, <3>2, <3>3
  <2>5. TerminalStatusTruthful'
    BY <2>1, <2>2, <2>3, <2>4, TrueConclusion
  <2>6. LaunchOrder' /\ WatchOrder' /\ CodeKnown'
    BY <1>7, <2>1, <2>3 DEF MonitorReport, SendStatus
  <2> QED
    BY <2>5, <2>6
<1>8. CASE MonitorStopDriver
  BY <1>8 DEF MonitorStopDriver, StopDriver
<1>9. CASE MonitorDone
  BY <1>9 DEF MonitorDone
<1> QED
  BY <1>1, <1>2, <1>3, <1>4, <1>5, <1>6, <1>7, <1>8, <1>9 DEF MonitorNext

\* The looper preserves them.
LEMMA LooperOrderly == IndInv /\ LooperNext => Order'
<1> SUFFICES ASSUME TypeOK, Order, LooperNext PROVE Order'
  BY DEF IndInv, Order
<1> USE DEF TypeOK, PcOK, DataOK, Goroutine, Order, LaunchOrder, WatchOrder, CodeKnown, TerminalStatusTruthful, At, Goto, Move, monitorFrame, docker
<1>1. CASE LooperCheck
  BY <1>1 DEF LooperCheck, CheckContainerStatus, ListContainers, AskSidecar, GetExitCode, CodeRead
<1>2. CASE LooperTick
  BY <1>2 DEF LooperTick
<1>3. CASE LooperQuits
  BY <1>3 DEF LooperQuits
<1> QED
  BY <1>1, <1>2, <1>3 DEF LooperNext

\* main, the container and the wrapper preserve them.
LEMMA ProcessOrderly == IndInv /\ ProcessNext => Order'
<1> SUFFICES ASSUME TypeOK, Order, ProcessNext PROVE Order'
  BY DEF IndInv, Order
<1> USE DEF TypeOK, PcOK, DataOK, Goroutine, Order, LaunchOrder, WatchOrder, CodeKnown, TerminalStatusTruthful, At, Goto, Move, worldFrame, docker
<1>1. CASE MainQuit
  BY <1>1 DEF MainQuit
<1>2. CASE MainGivesUp
  BY <1>2 DEF MainGivesUp
<1>3. CASE MainExit
  BY <1>3 DEF MainExit
<1>4. CASE Crash
  BY <1>4 DEF Crash
<1>5. CASE ContainerExit
  BY <1>5 DEF ContainerExit
<1>6. CASE WrapperCleanup
  BY <1>6 DEF WrapperCleanup, DockerStop
<1>7. CASE Finished
  BY <1>7 DEF Finished, vars
<1> QED
  BY <1>1, <1>2, <1>3, <1>4, <1>5, <1>6, <1>7 DEF ProcessNext

\* The initial states satisfy them.
LEMMA InitOrderly == Init => Order
<1> SUFFICES ASSUME Init PROVE Order
  OBVIOUS
<1>1. LaunchOrder /\ WatchOrder /\ CodeKnown
  BY DEF Init, LaunchOrder, WatchOrder, CodeKnown, LaunchSteps, BeforeReport,
         StopSteps, CheckSteps
<1>2. TerminalStatusTruthful
  BY DEF Init, TerminalStatusTruthful
<1> QED
  BY <1>1, <1>2 DEF Order

\* IndInv is inductive.
LEMMA NextInductive == IndInv /\ [Next]_vars => IndInv'
<1> SUFFICES ASSUME IndInv, [Next]_vars PROVE TypeOK' /\ Order'
  BY DEF IndInv, Order
<1>1. TypeOK /\ Order
  BY DEF IndInv, Order
<1>2. TypeOK'
  BY <1>1, NextTyped
<1>3. CASE SignalNext
  BY <1>1, <1>2, <1>3, SignalQuiet, QuietOrder
<1>4. CASE UNCHANGED vars
  BY <1>1, <1>2, <1>4, QuietOrder DEF Quiet, vars, docker
<1> QED
  BY <1>2, <1>3, <1>4, LaunchOrderly, EventOrderly, MonitorOrderly, LooperOrderly,
     ProcessOrderly DEF Next

\* IndInv holds throughout: the launch, the watch and the exit code are in the
\* order that the next two theorems rest on.
THEOREM InductiveInvariant == Spec => []IndInv
<1>1. Init => IndInv
  BY InitTyped, InitOrderly DEF IndInv, Order
<1> QED
  BY <1>1, NextInductive, PTL DEF Spec

\* The terminal status claims only what the container did, whichever of Docker,
\* Vault and the agent fails, and whatever signals and events arrive.
THEOREM StatusTruthful == Spec => []TerminalStatusTruthful
<1>1. IndInv => TerminalStatusTruthful
  BY DEF IndInv
<1> QED
  BY <1>1, InductiveInvariant, PTL

-----------------------------------------------------------------------------
(* The executor implements TaskLifecycle *)

\* The abstract step, or stutter, that a step of the executor is.
Abstract == [Promise!Next]_(Promise!vars)

\* A step that changes neither the container nor what was sent is a stutter.
LEMMA Stutter == UNCHANGED <<sent, container, ccode>> => Abstract
  BY DEF Abstract, Promise!vars

\* Whoever stops the container makes it exit, in the abstract, too.
LEMMA StopImplements == DockerStop /\ UNCHANGED sent => Abstract
  BY DEF DockerStop, docker, Abstract, Promise!Next, Promise!Exit, Promise!vars

\* LaunchTask takes abstract steps: Accept, Prepare or Fail.
LEMMA LaunchImplements == IndInv /\ LaunchNext => Abstract
<1> SUFFICES ASSUME IndInv, LaunchNext PROVE Abstract
  OBVIOUS
<1> USE DEF IndInv, LaunchOrder, At, Goto, Move, launchFrame, docker, LaunchSteps
<1>1. CASE Launch
  BY <1>1 DEF Launch, SendStatus, Abstract, Promise!Next, Promise!Accept, Promise!vars
<1>2. CASE CreateContainer
  BY <1>2 DEF CreateContainer, Abstract, Promise!Next, Promise!Prepare, Promise!vars
<1>3. CASE StartContainer
  BY <1>3 DEF StartContainer, Abstract, Promise!Next, Promise!Prepare, Promise!vars
<1>4. CASE LaunchFails
  BY <1>4 DEF LaunchFails, SendStatus, Abstract, Promise!Next, Promise!Fail,
              Promise!Conclude, Promise!vars
<1>5. CASE Pull \/ GetLease \/ RenewLease \/ Decrypt \/ SpawnMonitor
           \/ RelayLogs \/ LaunchFailStop
  BY <1>5, Stutter DEF Pull, GetLease, RenewLease, Decrypt, SpawnMonitor, RelayLogs,
                       LaunchFailStop
<1> QED
  BY <1>1, <1>2, <1>3, <1>4, <1>5 DEF LaunchNext

\* KillTask's stop requests are abstract exits, its other steps stutter.
LEMMA EventImplements == EventNext => Abstract
<1> SUFFICES ASSUME EventNext PROVE Abstract
  OBVIOUS
<1>1. CASE KillStop
  BY <1>1, StopImplements, Stutter DEF KillStop, StopContainer, docker
<1>2. CASE Kill \/ WatcherBridge \/ DrainPost \/ DrainWait \/ KillQuit
           \/ Shutdown \/ Deliver
  BY <1>2, Stutter DEF Kill, WatcherBridge, DrainPost, DrainWait, KillQuit,
                       Shutdown, Deliver, killFrame, docker
<1> QED
  BY <1>1, <1>2 DEF EventNext

\* monitorTask claims success or death by a signal only if it knows the code.
LEMMA MonitorImplements == IndInv /\ MonitorNext => Abstract
<1> SUFFICES ASSUME IndInv, MonitorNext PROVE Abstract
  OBVIOUS
<1>1. CASE MonitorStop
  BY <1>1, StopImplements, Stutter DEF MonitorStop, StopContainer, docker
<1>2. CASE MonitorReport
  <2>1. UNCHANGED docker /\ sent = <<"RUNNING">>
    BY <1>2 DEF MonitorReport, IndInv, WatchOrder, BeforeReport, At
  <2>2. sent' = sent \/ sent' = Append(sent, StatusFor(exitCode))
    BY <1>2 DEF MonitorReport, SendStatus
  <2>3. exitCode # StillRunning => container = "exited" /\ ccode = exitCode
    BY DEF IndInv, CodeKnown
  <2>4. CASE exitCode \in 129..165
    BY <2>1, <2>2, <2>3, <2>4 DEF StatusFor, StillRunning, docker, Abstract,
       Promise!Next, Promise!Killed, Promise!Conclude, Promise!FatalSignal, Promise!vars
  <2>5. CASE exitCode = 0
    BY <2>1, <2>2, <2>3, <2>5 DEF StatusFor, StillRunning, docker, Abstract,
       Promise!Next, Promise!Finish, Promise!Conclude, Promise!vars
  <2>6. CASE exitCode \notin 129..165 /\ exitCode # 0
    BY <2>1, <2>2, <2>6 DEF StatusFor, docker, Abstract, Promise!Next,
       Promise!Fail, Promise!Conclude, Promise!vars
  <2> QED
    BY <2>4, <2>5, <2>6
<1>3. CASE MonitorStart \/ MonitorWake \/ MonitorRecheck \/ MonitorCheck
           \/ MonitorRevoke \/ MonitorStopDriver \/ MonitorDone
  BY <1>3, Stutter DEF MonitorStart, MonitorWake, MonitorRecheck, MonitorCheck,
     CheckContainerStatus, MonitorRevoke, MonitorStopDriver, MonitorDone, docker
<1> QED
  BY <1>1, <1>2, <1>3 DEF MonitorNext

\* The looper only reads: its steps stutter.
LEMMA LooperImplements == LooperNext => Abstract
  BY Stutter DEF LooperNext, LooperCheck, CheckContainerStatus, LooperTick,
                 LooperQuits, docker

\* So do those of handleSignals and of the timers.
LEMMA SignalImplements == IndInv /\ SignalNext => Abstract
  BY SignalQuiet, Stutter DEF IndInv, Quiet

\* The container that exits and the wrapper that stops it are abstract exits.
LEMMA ProcessImplements == ProcessNext => Abstract
<1> SUFFICES ASSUME ProcessNext PROVE Abstract
  OBVIOUS
<1>1. CASE ContainerExit
  BY <1>1 DEF ContainerExit, worldFrame, Abstract, Promise!Next, Promise!Exit,
              Promise!vars
<1>2. CASE WrapperCleanup
  BY <1>2, StopImplements DEF WrapperCleanup, worldFrame
<1>3. CASE MainQuit \/ MainGivesUp \/ MainExit \/ Crash \/ Finished
  BY <1>3, Stutter DEF MainQuit, MainGivesUp, MainExit, Crash, Finished, worldFrame,
                       docker, vars
<1> QED
  BY <1>1, <1>2, <1>3 DEF ProcessNext

\* Every step of the executor is a step of the lifecycle that Mesos is promised,
\* or leaves it alone: RUNNING first, one terminal status at most and a true one,
\* and no container for a task that was given up.
THEOREM Refinement == Spec => ImplementsLifecycle
<1>1. Init => Promise!Init
  BY DEF Init, Promise!Init
<1>2. IndInv /\ [Next]_vars => Abstract
  BY LaunchImplements, EventImplements, MonitorImplements, LooperImplements,
     SignalImplements, ProcessImplements, Stutter DEF Next, vars, docker
<1> QED
  BY <1>1, <1>2, InductiveInvariant, PTL
     DEF Spec, ImplementsLifecycle, Promise!Spec, Abstract
=============================================================================
