------------------------------- MODULE Driver -------------------------------
(***************************************************************************)
(* The Mesos executor driver: Run with its subscriptions, one event loop   *)
(* and one reader per stream, the tasks and updates kept until the agent   *)
(* acknowledges them, and Stop.  Its delegate is reduced to what it does   *)
(* to the driver: a launch sends RUNNING on the reader's stack, the        *)
(* terminal update comes from the same stack if the launch fails and from  *)
(* the monitor otherwise, and whoever sends it stops the driver.  KILL,    *)
(* MESSAGE and HEARTBEAT change nothing here.                              *)
(***************************************************************************)
EXTENDS Integers, Sequences

CONSTANTS
    Checkpoint,     \* cfg.Checkpoint
    MaxStreams,     \* bound on the streams; the last one is never lost
    UpdatesFail,    \* Send may fail for a status update
    MaxAlarms       \* bound on ERROR and SHUTDOWN events

ASSUME DriverAssumption ==
    /\ {Checkpoint, UpdatesFail} \subseteq BOOLEAN
    /\ MaxStreams \in Nat \ {0}
    /\ MaxAlarms \in Nat

Streams == 1..MaxStreams

Monitor == 0

Updates == {"RUNNING", "FINAL"}

\* The events, by the name of the place where a reader handles them.
Ack == [RUNNING |-> "ackRUNNING", FINAL |-> "ackFINAL"]

Events == {"LAUNCH", "SHUTDOWN", "ERROR"} \cup {Ack[u] : u \in Updates}

\* SendStatusUpdate: before its call to the agent, and after it.
Sending == [RUNNING |-> "sendRUNNING", FINAL |-> "sendFINAL"]

Sent == [RUNNING |-> "sentRUNNING", FINAL |-> "sentFINAL"]

Senders == {Sending[u] : u \in Updates} \cup {Sent[u] : u \in Updates} \cup {"stop"}

VARIABLES
    proc,       \* "up", or how the process ended
    run,        \* where Run is
    stream,     \* number of the latest stream
    late,       \* the recovery timeout has passed since disconnectTime
    offer,      \* the task and the updates of the Subscribe call being sent
    at,         \* where the monitor and each stream's reader are
    quit,       \* quitChan is closed
    tasks,      \* unackedTasks (of one task: is it there?)
    updates,    \* unackedUpdates
    inFlight,   \* events on each stream that were not decoded yet
    open,       \* which streams are open
    known,      \* updates the agent has
    saved,      \* ... of which it has checkpointed, and then acknowledges
    acking,     \* updates acknowledged on the latest stream
    events,     \* number of LAUNCH, ERROR and SHUTDOWN events
    returned,   \* history: updates SendStatusUpdate has returned from
    acked,      \* history: updates whose acknowledgement was handled
    refused     \* history: the last subscription failed

mesos == <<inFlight, open, known, saved, acking, events>>
maps  == <<tasks, updates, returned, acked>>
loop  == <<run, stream, late, offer, refused>>

vars == <<proc, loop, at, quit, maps, mesos>>

Init ==
    /\ proc = "up" /\ run = "subscribe"
    /\ stream = 0 /\ late = FALSE /\ refused = FALSE
    /\ offer = [task |-> FALSE, updates |-> {}]
    /\ at = [g \in {Monitor} \cup Streams |-> "none"]
    /\ quit = FALSE
    /\ tasks = FALSE /\ updates = {} /\ returned = {} /\ acked = {}
    /\ inFlight = [c \in Streams |-> <<>>]
    /\ open = [c \in Streams |-> FALSE]
    /\ known = {} /\ saved = {} /\ acking = {}
    /\ events = [LAUNCH |-> 0, ERROR |-> 0, SHUTDOWN |-> 0]

Goto(g, l) == at' = [at EXCEPT ![g] = l]

-----------------------------------------------------------------------------
(* Run *)

\* Mutant: the Subscribe call is built once, before the first stream.
OfferOnce ==
    /\ run = "subscribe"
    /\ run' = "send"
    /\ offer' = IF stream = 0 THEN [task |-> tasks, updates |-> updates] ELSE offer
    /\ UNCHANGED <<proc, stream, late, refused, at, quit, maps, mesos>>

\* The value of the Subscribe call: what is not acknowledged yet.
Offer ==
    /\ run = "subscribe"
    /\ run' = "send"
    /\ offer' = [task |-> tasks, updates |-> updates]
    /\ UNCHANGED <<proc, stream, late, refused, at, quit, maps, mesos>>

SubscribeFails ==
    /\ run = "send"
    /\ run' = "check"
    /\ refused' = TRUE
    /\ UNCHANGED <<proc, stream, late, offer, at, quit, maps, mesos>>

\* Subscribed: the agent learns the updates offered; eventLoop starts a reader.
Subscribed ==
    /\ run = "send" /\ stream < MaxStreams
    /\ stream' = stream + 1
    /\ run' = "loop"
    /\ Goto(stream', "decode")
    /\ open' = [open EXCEPT ![stream'] = TRUE]
    /\ known' = known \cup offer.updates
    /\ acking' = {} /\ refused' = FALSE
    /\ UNCHANGED <<proc, late, offer, quit, maps, inFlight, saved, events>>

\* Mutant: disconnectTime is only set when Run begins.
AfterLoopKept == late

\* disconnectTime is set when eventLoop returns.
AfterLoop == FALSE

\* Mutant: the loop is canceled with its connection, too.
CanceledByBreak == quit \/ ~open[stream]

Canceled == quit

LoopQuits ==
    /\ run = "loop" /\ Canceled
    /\ run' = "close"
    /\ late' = AfterLoop
    /\ UNCHANGED <<proc, stream, refused, offer, at, quit, maps, mesos>>

\* Time passes while Run sends, reads events or waits.
RecoveryTimePasses ==
    /\ run \in {"send", "loop", "wait"}
    /\ ~late /\ late' = TRUE
    /\ UNCHANGED <<proc, run, stream, refused, offer, at, quit, maps, mesos>>

\* The deferred Close of the response.
CloseStream ==
    /\ run = "close"
    /\ run' = "check"
    /\ open' = [open EXCEPT ![stream] = FALSE]
    /\ inFlight' = [inFlight EXCEPT ![stream] = <<>>]
    /\ UNCHANGED <<proc, stream, late, refused, offer, at, quit, maps, known, saved,
                   acking, events>>

\* Mutant: quitChan is not looked at between two streams.
ToldToQuitNever == FALSE

ToldToQuit == quit

\* Told to stop, no checkpointing, or the recovery timeout is over.
RunReturns ==
    /\ run = "check"
    /\ run' = "returned"
    /\ \/ (ToldToQuit \/ ~Checkpoint) /\ proc' = "returned"
       \/ ~ToldToQuit /\ Checkpoint /\ late /\ proc' = "gaveUp"
    /\ UNCHANGED <<stream, late, refused, offer, at, quit, maps, mesos>>

Reconnect ==
    /\ run = "check" /\ ~ToldToQuit /\ Checkpoint
    /\ run' = "wait"
    /\ UNCHANGED <<proc, stream, late, refused, offer, at, quit, maps, mesos>>

\* shouldReconnect ticks; quitChan is not looked at.
Retry ==
    /\ run = "wait"
    /\ run' = "subscribe"
    /\ UNCHANGED <<proc, stream, late, refused, offer, at, quit, maps, mesos>>

RunNext ==
    \/ Offer \/ SubscribeFails \/ Subscribed \/ LoopQuits \/ CloseStream
    \/ RunReturns \/ Reconnect \/ Retry

-----------------------------------------------------------------------------
(* The readers and the monitor *)

\* The next event, or an error when the stream is broken.
Decode(c) ==
    /\ at[c] = "decode"
    /\ \/ /\ inFlight[c] # <<>>
          /\ Goto(c, Head(inFlight[c]))
          /\ inFlight' = [inFlight EXCEPT ![c] = Tail(@)]
       \/ /\ inFlight[c] = <<>> /\ ~open[c]
          /\ Goto(c, "deliverErr")
          /\ UNCHANGED inFlight
    /\ UNCHANGED <<proc, loop, quit, maps, open, known, saved, acking, events>>

HandleLaunch(c) ==
    /\ at[c] = "LAUNCH"
    /\ tasks' = TRUE
    /\ Goto(c, "sendRUNNING")
    /\ UNCHANGED <<proc, loop, quit, updates, returned, acked, mesos>>

\* Mutant: an acknowledgement is taken for all updates of its task.
AcknowledgedAll(u) == {}

Acknowledged(u) == updates \ {u}

HandleAck(c, u) ==
    /\ at[c] = Ack[u]
    /\ tasks' = FALSE
    /\ updates' = Acknowledged(u)
    /\ acked' = acked \cup {u}
    /\ Goto(c, "deliver")
    /\ UNCHANGED <<proc, loop, quit, returned, mesos>>

HandleError(c) ==
    /\ at[c] = "ERROR"
    /\ Goto(c, "deliverErr")
    /\ UNCHANGED <<proc, loop, quit, maps, mesos>>

HandleShutdown(c) ==
    /\ at[c] = "SHUTDOWN"
    /\ Goto(c, "stop")
    /\ UNCHANGED <<proc, loop, quit, maps, mesos>>

\* SendStatusUpdate as far as the agent: it has the update, or there is an
\* error, the delegate panics, and the agent may have the update all the same.
Send(g, u) ==
    /\ at[g] = Sending[u]
    /\ \/ known' = known \cup {u} /\ Goto(g, Sent[u]) /\ UNCHANGED proc
       \/ /\ UpdatesFail
          /\ proc' = "panic"
          /\ known' \in {known, known \cup {u}}
          /\ UNCHANGED at
    /\ UNCHANGED <<loop, quit, maps, inFlight, open, saved, acking, events>>

\* Mutant: the update is not kept.
KeptNot(u) == updates

Kept(u) == updates \cup {u}

\* Mutant: the monitor reports RUNNING once more.
MonitorBeginsAgain == "sendRUNNING"

MonitorBegins == "sendFINAL"

\* ... and after: it is kept until it is acknowledged.  A launch then either
\* goes on and leaves the rest to the monitor, or fails.
Record(g, u) ==
    /\ at[g] = Sent[u]
    /\ updates' = Kept(u)
    /\ returned' = returned \cup {u}
    /\ \/ u = "FINAL" /\ Goto(g, "stop")
       \/ u = "RUNNING" /\ Goto(g, "sendFINAL")
       \/ u = "RUNNING" /\ at' = [at EXCEPT ![g] = "deliver", ![Monitor] = MonitorBegins]
    /\ UNCHANGED <<proc, loop, quit, tasks, acked, mesos>>

\* Stop, which panics the second time.
Stop(g) ==
    /\ at[g] = "stop"
    /\ \/ ~quit /\ quit' = TRUE /\ UNCHANGED proc
       \/ quit /\ proc' = "panic" /\ UNCHANGED quit
    /\ Goto(g, IF g = Monitor THEN "ended" ELSE "deliver")
    /\ UNCHANGED <<loop, maps, mesos>>

\* The reader's result goes to its own loop, which an error ends; a reader whose
\* loop is over waits until the driver is stopped.
Deliver(c) ==
    /\ at[c] \in {"deliver", "deliverErr"}
    /\ \/ /\ run = "loop" /\ stream = c
          /\ Goto(c, "decode")
          /\ IF at[c] = "deliver" THEN UNCHANGED <<run, late>>
             ELSE run' = "close" /\ late' = AfterLoop
       \/ quit /\ Goto(c, "ended") /\ UNCHANGED <<run, late>>
    /\ UNCHANGED <<proc, stream, refused, offer, quit, maps, mesos>>

ReaderNext(c) ==
    \/ Decode(c) \/ HandleLaunch(c) \/ \E u \in Updates : HandleAck(c, u)
    \/ HandleError(c) \/ HandleShutdown(c) \/ Deliver(c)

SenderNext(g) == (\E u \in Updates : Send(g, u) \/ Record(g, u)) \/ Stop(g)

\* Who is about to touch the maps, and who to change them.
Writes(g) ==
    at[g] \in {"LAUNCH"} \cup {Ack[u] : u \in Updates} \cup {Sent[u] : u \in Updates}

\* There is no lock: two accesses, one of them a write, may meet, and the
\* runtime ends the process when it notices.
MapRace ==
    /\ \E g \in {Monitor} \cup Streams :
          /\ Writes(g)
          /\ run = "subscribe" \/ \E h \in {Monitor} \cup Streams : h # g /\ Writes(h)
    /\ proc' = "fatal"
    /\ UNCHANGED <<loop, at, quit, maps, mesos>>

-----------------------------------------------------------------------------
(* The agent *)

agentFrame == <<proc, loop, at, quit, maps>>

Connected == stream > 0 /\ open[stream]

Alarms == events["ERROR"] + events["SHUTDOWN"]

Emit(e) == inFlight' = [inFlight EXCEPT ![stream] = Append(@, e)]

AgentSends(type) ==
    /\ Connected
    /\ \/ type = "LAUNCH" /\ events["LAUNCH"] = 0
       \/ type = "ERROR" /\ stream < MaxStreams /\ Alarms < MaxAlarms
       \/ type = "SHUTDOWN" /\ Alarms < MaxAlarms
    /\ events' = [events EXCEPT ![type] = @ + 1]
    /\ Emit(type)
    /\ UNCHANGED <<agentFrame, open, known, saved, acking>>

AgentAcks(u) ==
    /\ Connected
    /\ u \in known \ acking
    /\ acking' = acking \cup {u}
    /\ saved' = saved \cup {u}
    /\ Emit(Ack[u])
    /\ UNCHANGED <<agentFrame, open, known, events>>

\* The stream breaks, and what was sent last is lost; the agent may have
\* restarted, and then knows only what it has checkpointed.
StreamBreaks ==
    /\ Connected /\ stream < MaxStreams
    /\ open' = [open EXCEPT ![stream] = FALSE]
    /\ \E n \in 0..Len(inFlight[stream]) :
          inFlight' = [inFlight EXCEPT ![stream] = SubSeq(@, 1, n)]
    /\ known' \in {known, saved}
    /\ UNCHANGED <<agentFrame, saved, acking, events>>

AgentNext ==
    \/ \E type \in {"LAUNCH", "ERROR", "SHUTDOWN"} : AgentSends(type)
    \/ \E u \in Updates : AgentAcks(u)
    \/ StreamBreaks

Ended == proc # "up" /\ UNCHANGED vars

Next ==
    \/ /\ proc = "up"
       /\ \/ RunNext
          \/ \E c \in Streams : ReaderNext(c)
          \/ \E g \in {Monitor} \cup Streams : SenderNext(g)
          \/ RecoveryTimePasses \/ MapRace
          \/ AgentNext
    \/ Ended

Spec == Init /\ [][Next]_vars

\* Goroutines run, calls return, the agent acknowledges what it has, and it is
\* back one day.  The task may run for ever: the monitor need not send.
Fairness ==
    /\ WF_vars(proc = "up" /\ RunNext)
    /\ SF_vars(proc = "up" /\ Subscribed)
    /\ SF_vars(proc = "up" /\ LoopQuits)
    /\ \A c \in Streams : WF_vars(proc = "up" /\ (ReaderNext(c) \/ SenderNext(c)))
    /\ \A u \in Updates : WF_vars(proc = "up" /\ AgentAcks(u))

FairSpec == Spec /\ Fairness

-----------------------------------------------------------------------------

\* The types of the variables; the monitor sends nothing but the terminal update.
TypeOK ==
    /\ proc \in {"up", "returned", "gaveUp", "panic", "fatal"}
    /\ run \in {"subscribe", "send", "loop", "close", "check", "wait", "returned"}
    /\ stream \in 0..MaxStreams
    /\ late \in BOOLEAN /\ refused \in BOOLEAN /\ quit \in BOOLEAN /\ tasks \in BOOLEAN
    /\ offer \in [task : BOOLEAN, updates : SUBSET Updates]
    /\ at \in [{Monitor} \cup Streams ->
                 Senders \cup Events \cup {"none", "decode", "deliver", "deliverErr", "ended"}]
    /\ at[Monitor] \in {"none", "sendFINAL", "sentFINAL", "stop", "ended"}
    /\ updates \subseteq Updates /\ returned \subseteq Updates /\ acked \subseteq Updates
    /\ known \subseteq Updates /\ saved \subseteq Updates /\ acking \subseteq Updates
    /\ inFlight \in [Streams -> Seq(Events)]
    /\ open \in [Streams -> BOOLEAN]
    /\ events \in [{"LAUNCH", "ERROR", "SHUTDOWN"} -> Nat]

\* What SendStatusUpdate has returned from is kept until its own acknowledgement
\* is handled, whichever streams are lost in between and whatever is
\* acknowledged twice.
UnacknowledgedKept == returned \ acked \subseteq updates

\* Handlers of two streams run at once only after an ERROR event: a stream that
\* breaks has no event left for its reader when the next one begins.
TwoHandlersOnlyAfterError ==
    \A c, d \in Streams :
        /\ c # d
        /\ at[c] \in Senders \cup Events
        /\ at[d] \in Senders \cup Events
        => events["ERROR"] > 0

\* Without ERROR events, the maps are in danger only once the monitor sends: all
\* else that touches them takes turns.
MapRaceNeedsMonitor ==
    proc = "fatal" => events["ERROR"] > 0 \/ at[Monitor] = Sent["FINAL"]

\* Whenever the driver is subscribed, the agent has the RUNNING update, although
\* it may have restarted and forgotten it: it was offered again.
AgentHasRunning ==
    events["ERROR"] = 0 /\ "RUNNING" \in returned /\ run = "loop" /\ Connected
    => "RUNNING" \in known

\* Run never gives up on a stream just lost, however long it lasted: it does so
\* only after the agent has refused a new one.
GivesUpOnlyRefused == proc = "gaveUp" => refused /\ ~Connected

\* Stop makes Run return.
StopReturns == quit ~> proc # "up"

\* An update sent is checkpointed by the agent in the end, unless the process
\* ends before, whatever streams are lost and however often the agent restarts
\* (without ERROR events).
RunningIsSaved ==
    "RUNNING" \in returned
    ~> "RUNNING" \in saved \/ proc # "up" \/ events["ERROR"] > 0

Link == IF run = "send" THEN "asking" ELSE IF Connected THEN "on" ELSE "off"

Calls == {u \in Updates : \E g \in {Monitor} \cup Streams : at[g] = Sent[u]}

Delivery == INSTANCE UpdateDelivery WITH
    link <- Link, offered <- offer.updates, heard <- known,
    calls <- Calls, sent <- returned, confirmed <- acked

\* The driver implements UpdateDelivery: one call at a time, RUNNING before the
\* terminal update, all that is unacknowledged offered at each subscription.
ImplementsDelivery == Delivery!Spec
=============================================================================
