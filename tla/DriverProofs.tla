---------------------------- MODULE DriverProofs ----------------------------
(***************************************************************************)
(* Proofs about Driver, for any number of streams, alarms and reconnects.  *)
(* The inductive invariant is built in layers: the types, which streams    *)
(* are open, who keeps an update, whose turn it is as long as there is no  *)
(* ERROR event, what the agent knows of RUNNING, and when Run gives up.    *)
(***************************************************************************)
EXTENDS Driver, SequenceTheorems, TLAPS

\* Only the latest stream is open, and only while Run reads from it.
OneStream ==
    /\ run \in {"loop", "close"} => stream > 0
    /\ \A c \in Streams :
         /\ open[c] => c = stream /\ run \in {"loop", "close"}
         /\ c > stream => at[c] = "none" /\ inFlight[c] = <<>>

NoError == events["ERROR"] = 0

\* What may be in flight: acknowledgements only of what the agent has saved.
Sendable ==
    {"LAUNCH", "SHUTDOWN"} \cup {Ack[u] : u \in saved}
        \cup (IF NoError THEN {} ELSE {"ERROR"})

OnlySendable ==
    \A c \in Streams :
        /\ inFlight[c] \in Seq(Sendable)
        /\ at[c] \in Events => at[c] \in Sendable

\* A reader with nothing to handle, now and later.
Done(c) ==
    /\ at[c] \in {"decode", "deliverErr", "ended"}
    /\ inFlight[c] = <<>> /\ ~open[c]

\* Run has left the stream because it broke, or is on its way to the next one.
Left ==
    \/ run \in {"wait", "subscribe", "send"}
    \/ run \in {"close", "check"} /\ ~quit

\* Without ERROR events, only the reader of the latest stream is at work, and
\* none is between two streams.
Turns ==
    NoError =>
        \A c \in Streams :
            /\ c < stream => Done(c)
            /\ c = stream /\ Left => Done(c)
            /\ at[c] = "deliverErr" => Done(c)

\* The agent has saved what it acknowledges; it has RUNNING, or is offered it.
Knows ==
    /\ saved \subseteq known
    /\ acked \subseteq saved
    /\ NoError =>
         /\ run = "send" /\ "RUNNING" \in returned =>
               "RUNNING" \in offer.updates \cup saved
         /\ run = "loop" /\ Connected =>
               /\ "RUNNING" \in returned => "RUNNING" \in known
               /\ at[stream] = "sentRUNNING" => "RUNNING" \in known

\* The recovery timeout counts from the loss of the stream.
LateOnlyRefused ==
    /\ run = "close" => ~late
    /\ run = "check" /\ late => refused
    /\ run = "returned" => proc # "up"

\* The task's launch is in one place: in flight, or with the one who reports.
HasLaunch(s) == \E i \in 1..Len(s) : s[i] = "LAUNCH"

OneLaunch(s) == \A i, j \in 1..Len(s) : s[i] = "LAUNCH" /\ s[j] = "LAUNCH" => i = j

Goroutines == {Monitor} \cup Streams

ReportsRunning == {"LAUNCH", "sendRUNNING", "sentRUNNING"}

ReportsFinal == {"sendFINAL", "sentFINAL"}

OneReporter ==
    /\ \A c \in Streams : OneLaunch(inFlight[c])
    /\ \A c, d \in Streams : HasLaunch(inFlight[c]) /\ HasLaunch(inFlight[d]) => c = d
    /\ \A c \in Streams : HasLaunch(inFlight[c]) =>
         /\ events["LAUNCH"] # 0 /\ returned = {}
         /\ \A g \in Goroutines : at[g] \notin ReportsRunning \cup ReportsFinal
    /\ \A g, h \in Goroutines :
         /\ at[g] \in ReportsRunning \cup ReportsFinal
         /\ at[h] \in ReportsRunning \cup ReportsFinal
         => g = h
    /\ \A g \in Goroutines :
         /\ at[g] \in ReportsRunning => events["LAUNCH"] # 0 /\ returned = {}
         /\ at[g] \in ReportsFinal => events["LAUNCH"] # 0 /\ returned = {"RUNNING"}
    /\ events["LAUNCH"] = 0 => returned = {}
    /\ updates \subseteq returned

IndInv ==
    /\ TypeOK /\ OneStream /\ UnacknowledgedKept /\ OnlySendable
    /\ Turns /\ Knows /\ LateOnlyRefused
    /\ MapRaceNeedsMonitor /\ GivesUpOnlyRefused /\ OneReporter

-----------------------------------------------------------------------------
(* One step. *)

\* The places by name.
LEMMA Places ==
  /\ Updates = {"RUNNING", "FINAL"}
  /\ Ack["RUNNING"] = "ackRUNNING" /\ Ack["FINAL"] = "ackFINAL"
  /\ Sending["RUNNING"] = "sendRUNNING" /\ Sending["FINAL"] = "sendFINAL"
  /\ Sent["RUNNING"] = "sentRUNNING" /\ Sent["FINAL"] = "sentFINAL"
  /\ Events = {"LAUNCH", "SHUTDOWN", "ERROR", "ackRUNNING", "ackFINAL"}
  /\ Senders = {"sendRUNNING", "sendFINAL", "sentRUNNING", "sentFINAL", "stop"}
  BY DEF Updates, Ack, Sending, Sent, Events, Senders

\* Streams are numbered from 1, and the monitor is none of them.
LEMMA StreamNumbers ==
  /\ MaxStreams \in Nat \ {0}
  /\ \A c \in Streams : c \in Nat /\ c > 0 /\ c # Monitor
  /\ Streams = 1..MaxStreams
  BY DriverAssumption DEF Streams, Monitor

\* A reader takes the oldest event, or learns that the stream is broken.
LEMMA QueueDecode ==
  ASSUME TypeOK, NEW S, \A d \in Streams : inFlight[d] \in Seq(S),
         NEW c \in Streams, Decode(c)
  PROVE  /\ inFlight' \in [Streams -> Seq(S)]
         /\ inFlight[c] # <<>> => at'[c] \in S
         /\ inFlight[c] = <<>> =>
               at'[c] = "deliverErr" /\ ~open[c] /\ UNCHANGED inFlight
         /\ \A d \in Streams \ {c} : inFlight'[d] = inFlight[d] /\ at'[d] = at[d]
         /\ at' = [at EXCEPT ![c] = at'[c]] /\ at'[Monitor] = at[Monitor]
<1>1. CASE inFlight[c] # <<>>
  <2>1. Head(inFlight[c]) \in S /\ Tail(inFlight[c]) \in Seq(S)
    BY <1>1, HeadTailProperties
  <2>2. inFlight' = [inFlight EXCEPT ![c] = Tail(inFlight[c])]
          /\ at' = [at EXCEPT ![c] = Head(inFlight[c])]
    BY <1>1 DEF Decode, Goto
  <2>3. QED
    BY <1>1, <2>1, <2>2, StreamNumbers DEF TypeOK
<1>2. CASE inFlight[c] = <<>>
  BY <1>2, StreamNumbers DEF Decode, Goto, TypeOK
<1>3. QED
  BY <1>1, <1>2

\* The agent sends an event on the latest stream.
LEMMA QueueEmit ==
  ASSUME TypeOK, NEW S, \A d \in Streams : inFlight[d] \in Seq(S),
         NEW e \in S, stream \in Streams, Emit(e)
  PROVE  /\ inFlight' \in [Streams -> Seq(S)]
         /\ \A d \in Streams : d # stream => inFlight'[d] = inFlight[d]
<1>1. Append(inFlight[stream], e) \in Seq(S)
  BY AppendProperties
<1>2. QED
  BY <1>1 DEF Emit, TypeOK

\* A stream breaks, and loses its latest events.
LEMMA QueueBreaks ==
  ASSUME TypeOK, NEW S, \A d \in Streams : inFlight[d] \in Seq(S), StreamBreaks
  PROVE  /\ stream \in Streams
         /\ inFlight' \in [Streams -> Seq(S)]
         /\ inFlight[stream] = <<>> => inFlight'[stream] = <<>>
         /\ \A d \in Streams : d # stream => inFlight'[d] = inFlight[d]
<1>1. stream \in Streams
  BY StreamNumbers DEF StreamBreaks, Connected, TypeOK
<1>2. PICK n \in 0..Len(inFlight[stream]) :
          inFlight' = [inFlight EXCEPT ![stream] = SubSeq(inFlight[stream], 1, n)]
  BY DEF StreamBreaks
<1>3. inFlight[stream] \in Seq(S) /\ Len(inFlight[stream]) \in Nat
  BY <1>1, LenProperties
<1>4. \A i \in 1..n : inFlight[stream][i] \in S
  BY <1>3, ElementOfSeq
<1>5. SubSeq(inFlight[stream], 1, n) \in Seq(S)
  BY <1>3, <1>4, SubSeqProperties
<1>6. inFlight[stream] = <<>> => SubSeq(inFlight[stream], 1, n) = <<>>
  BY <1>3, SubSeqEmpty
<1>7. QED
  BY <1>1, <1>2, <1>5, <1>6 DEF TypeOK

\* Every step keeps the types.
LEMMA TypeOKStep == TypeOK /\ [Next]_vars => TypeOK'
<1> SUFFICES ASSUME TypeOK, [Next]_vars PROVE TypeOK'
  OBVIOUS
<1> USE DEF mesos, maps, loop, agentFrame, TypeOK
<1>1. CASE proc = "up" /\ Offer
  BY DriverAssumption, Places, StreamNumbers, <1>1 DEF Offer
<1>2. CASE proc = "up" /\ SubscribeFails
  BY DriverAssumption, Places, StreamNumbers, <1>2 DEF SubscribeFails
<1>3. CASE proc = "up" /\ Subscribed
  <2>1. stream' \in Streams /\ stream' \in 0..MaxStreams
    BY <1>3, StreamNumbers DEF Subscribed, TypeOK
  <2>2. open' \in [Streams -> BOOLEAN] /\ known' \subseteq Updates
    BY <1>3, <2>1 DEF Subscribed, TypeOK
  <2>3. /\ at' \in [{Monitor} \cup Streams -> Senders \cup Events \cup
                      {"none", "decode", "deliver", "deliverErr", "ended"}]
        /\ at'[Monitor] = at[Monitor]
    BY <1>3, <2>1, StreamNumbers DEF Subscribed, Goto, TypeOK
  <2>4. QED
    BY <1>3, <2>1, <2>2, <2>3 DEF Subscribed
<1>4. CASE proc = "up" /\ LoopQuits
  BY DriverAssumption, Places, StreamNumbers, <1>4
     DEF LoopQuits, Canceled, AfterLoop
<1>5. CASE proc = "up" /\ CloseStream
  <2>1. inFlight' \in [Streams -> Seq(Events)]
    BY <1>5, EmptySeq DEF CloseStream
  <2>2. QED
    BY <1>5, <2>1 DEF CloseStream
<1>6. CASE proc = "up" /\ RunReturns
  BY DriverAssumption, Places, StreamNumbers, <1>6 DEF RunReturns, ToldToQuit
<1>7. CASE proc = "up" /\ Reconnect
  BY DriverAssumption, Places, StreamNumbers, <1>7 DEF Reconnect, ToldToQuit
<1>8. CASE proc = "up" /\ Retry
  BY DriverAssumption, Places, StreamNumbers, <1>8 DEF Retry
<1>9. ASSUME NEW c \in Streams, proc = "up" /\ Decode(c) PROVE TypeOK'
  <2>1. /\ inFlight' \in [Streams -> Seq(Events)]
        /\ at'[c] \in Events \cup {"deliverErr"}
        /\ at' = [at EXCEPT ![c] = at'[c]] /\ at'[Monitor] = at[Monitor]
    BY <1>9, QueueDecode
  <2>2. at' \in [{Monitor} \cup Streams -> Senders \cup Events \cup
                   {"none", "decode", "deliver", "deliverErr", "ended"}]
    BY <2>1
  <2>3. QED
    BY <1>9, <2>1, <2>2 DEF Decode
<1>10. ASSUME NEW c \in Streams, proc = "up" /\ HandleLaunch(c) PROVE TypeOK'
  BY DriverAssumption, Places, StreamNumbers, <1>10 DEF HandleLaunch, Goto
<1>11. ASSUME NEW c \in Streams, NEW u \in Updates, proc = "up" /\ HandleAck(c, u)
      PROVE  TypeOK'
  BY DriverAssumption, Places, StreamNumbers, <1>11
     DEF HandleAck, Goto, Acknowledged
<1>12. ASSUME NEW c \in Streams, proc = "up" /\ HandleError(c) PROVE TypeOK'
  BY DriverAssumption, Places, StreamNumbers, <1>12 DEF HandleError, Goto
<1>13. ASSUME NEW c \in Streams, proc = "up" /\ HandleShutdown(c)
      PROVE  TypeOK'
  BY DriverAssumption, Places, StreamNumbers, <1>13 DEF HandleShutdown, Goto
<1>14. ASSUME NEW c \in Streams, proc = "up" /\ Deliver(c) PROVE TypeOK'
  BY DriverAssumption, Places, StreamNumbers, <1>14
     DEF Deliver, Goto, AfterLoop
<1>15. ASSUME NEW g \in {Monitor} \cup Streams, NEW u \in Updates, proc = "up" /\ Send(g, u)
      PROVE  TypeOK'
  <2>1. known' \subseteq Updates /\ proc' \in {"up", "panic"}
    BY <1>15 DEF Send
  <2>2. g = Monitor => u = "FINAL"
    BY <1>15, Places DEF Send
  <2>3. /\ at' \in [{Monitor} \cup Streams -> Senders \cup Events \cup
                      {"none", "decode", "deliver", "deliverErr", "ended"}]
        /\ at'[Monitor] \in {"none", "sendFINAL", "sentFINAL", "stop", "ended"}
    <3>1. CASE UNCHANGED at
      BY <3>1
    <3>2. CASE at' = [at EXCEPT ![g] = Sent[u]]
      BY <2>2, <3>2, Places
    <3>3. QED
      BY <1>15, <3>1, <3>2 DEF Send, Goto
  <2>4. QED
    BY <1>15, <2>1, <2>3 DEF Send
<1>16. ASSUME NEW g \in {Monitor} \cup Streams, NEW u \in Updates, proc = "up" /\ Record(g, u)
      PROVE  TypeOK'
  BY DriverAssumption, Places, StreamNumbers, <1>16
     DEF Record, Goto, Kept, MonitorBegins
<1>17. ASSUME NEW g \in {Monitor} \cup Streams, proc = "up" /\ Stop(g)
      PROVE  TypeOK'
  BY DriverAssumption, Places, StreamNumbers, <1>17 DEF Stop, Goto
<1>18. CASE proc = "up" /\ RecoveryTimePasses
  BY DriverAssumption, Places, StreamNumbers, <1>18 DEF RecoveryTimePasses
<1>19. CASE proc = "up" /\ MapRace
  BY DriverAssumption, Places, StreamNumbers, <1>19 DEF MapRace
<1>20. ASSUME NEW type \in {"LAUNCH", "ERROR", "SHUTDOWN"}, proc = "up" /\ AgentSends(type)
      PROVE  TypeOK'
  <2>1. stream \in Streams /\ type \in Events
    BY <1>20, StreamNumbers, Places DEF AgentSends, Connected
  <2>2. inFlight' \in [Streams -> Seq(Events)]
    BY <1>20, <2>1, QueueEmit DEF AgentSends
  <2>3. QED
    BY <1>20, <2>2 DEF AgentSends
<1>21. ASSUME NEW u \in Updates, proc = "up" /\ AgentAcks(u) PROVE TypeOK'
  <2>1. stream \in Streams /\ Ack[u] \in Events
    BY <1>21, StreamNumbers, Places DEF AgentAcks, Connected
  <2>2. inFlight' \in [Streams -> Seq(Events)]
    BY <1>21, <2>1, QueueEmit DEF AgentAcks
  <2>3. QED
    BY <1>21, <2>2 DEF AgentAcks
<1>22. CASE proc = "up" /\ StreamBreaks
  <2>1. stream \in Streams /\ inFlight' \in [Streams -> Seq(Events)]
    BY <1>22, QueueBreaks
  <2>2. QED
    BY <1>22, <2>1 DEF StreamBreaks
<1>23. CASE UNCHANGED vars
  BY <1>23 DEF vars
<1>24. QED
  BY <1>1, <1>2, <1>3, <1>4, <1>5, <1>6, <1>7, <1>8, <1>9, <1>10, <1>11,
     <1>12, <1>13, <1>14, <1>15, <1>16, <1>17, <1>18, <1>19, <1>20, <1>21,
     <1>22, <1>23 DEF Next, RunNext, ReaderNext, SenderNext, AgentNext, Ended

\* Streams are opened one at a time.
LEMMA OneStreamStep == TypeOK /\ OneStream /\ [Next]_vars => OneStream'
<1> SUFFICES ASSUME TypeOK, OneStream, [Next]_vars PROVE OneStream'
  OBVIOUS
<1> USE DEF mesos, maps, loop, agentFrame, TypeOK, OneStream
<1>1. CASE Offer
  BY Places, StreamNumbers, <1>1 DEF Offer
<1>2. CASE SubscribeFails
  BY Places, StreamNumbers, <1>2 DEF SubscribeFails
<1>3. CASE Subscribed
  BY Places, StreamNumbers, <1>3 DEF Subscribed, Goto
<1>4. CASE LoopQuits
  BY Places, StreamNumbers, <1>4 DEF LoopQuits, Canceled, AfterLoop
<1>5. CASE CloseStream
  BY Places, StreamNumbers, <1>5 DEF CloseStream
<1>6. CASE RunReturns
  BY Places, StreamNumbers, <1>6 DEF RunReturns, ToldToQuit
<1>7. CASE Reconnect
  BY Places, StreamNumbers, <1>7 DEF Reconnect, ToldToQuit
<1>8. CASE Retry
  BY Places, StreamNumbers, <1>8 DEF Retry
<1>9. ASSUME NEW c \in Streams, Decode(c) PROVE OneStream'
  <2>1. UNCHANGED <<run, stream, open>> /\ c <= stream
    BY <1>9, StreamNumbers DEF Decode
  <2>2. \A d \in Streams \ {c} : inFlight'[d] = inFlight[d] /\ at'[d] = at[d]
    BY <1>9, QueueDecode
  <2>3. QED
    BY <2>1, <2>2, StreamNumbers
<1>10. ASSUME NEW c \in Streams, HandleLaunch(c) PROVE OneStream'
  BY Places, StreamNumbers, <1>10 DEF HandleLaunch, Goto
<1>11. ASSUME NEW c \in Streams, NEW u \in Updates, HandleAck(c, u)
      PROVE  OneStream'
  BY Places, StreamNumbers, <1>11 DEF HandleAck, Goto, Acknowledged
<1>12. ASSUME NEW c \in Streams, HandleError(c) PROVE OneStream'
  BY Places, StreamNumbers, <1>12 DEF HandleError, Goto
<1>13. ASSUME NEW c \in Streams, HandleShutdown(c) PROVE OneStream'
  BY Places, StreamNumbers, <1>13 DEF HandleShutdown, Goto
<1>14. ASSUME NEW c \in Streams, Deliver(c) PROVE OneStream'
  BY Places, StreamNumbers, <1>14 DEF Deliver, Goto, AfterLoop
<1>15. ASSUME NEW g \in {Monitor} \cup Streams, NEW u \in Updates, Send(g, u)
      PROVE  OneStream'
  <2>1. UNCHANGED <<run, stream, open, inFlight>> /\ at[g] # "none"
    BY <1>15, Places DEF Send
  <2>2. \A d \in Streams \ {g} : at'[d] = at[d]
    BY <1>15 DEF Send, Goto
  <2>3. QED
    BY <2>1, <2>2, StreamNumbers
<1>16. ASSUME NEW g \in {Monitor} \cup Streams, NEW u \in Updates, Record(g, u)
      PROVE  OneStream'
  <2>1. UNCHANGED <<run, stream, open, inFlight>> /\ at[g] # "none"
    BY <1>16, Places DEF Record
  <2>2. \A d \in Streams \ {g} : at'[d] = at[d]
    BY <1>16, StreamNumbers DEF Record, Goto
  <2>3. QED
    BY <2>1, <2>2, StreamNumbers
<1>17. ASSUME NEW g \in {Monitor} \cup Streams, Stop(g) PROVE OneStream'
  BY Places, StreamNumbers, <1>17 DEF Stop, Goto
<1>18. CASE RecoveryTimePasses
  BY Places, StreamNumbers, <1>18 DEF RecoveryTimePasses
<1>19. CASE MapRace
  BY Places, StreamNumbers, <1>19 DEF MapRace
<1>20. ASSUME NEW type \in {"LAUNCH", "ERROR", "SHUTDOWN"}, AgentSends(type)
      PROVE  OneStream'
  <2>1. stream \in Streams /\ type \in Events
    BY <1>20, StreamNumbers, Places DEF AgentSends, Connected
  <2>2. \A d \in Streams : d # stream => inFlight'[d] = inFlight[d]
    BY <1>20, <2>1, QueueEmit DEF AgentSends
  <2>3. UNCHANGED <<run, stream, open, at>>
    BY <1>20 DEF AgentSends
  <2>4. \A d \in Streams : d > stream => inFlight'[d] = <<>>
    BY <2>1, <2>2, StreamNumbers
  <2>5. QED
    BY <2>3, <2>4
<1>21. ASSUME NEW u \in Updates, AgentAcks(u) PROVE OneStream'
  <2>1. stream \in Streams /\ Ack[u] \in Events
    BY <1>21, StreamNumbers, Places DEF AgentAcks, Connected
  <2>2. \A d \in Streams : d # stream => inFlight'[d] = inFlight[d]
    BY <1>21, <2>1, QueueEmit DEF AgentAcks
  <2>3. UNCHANGED <<run, stream, open, at>>
    BY <1>21 DEF AgentAcks
  <2>4. \A d \in Streams : d > stream => inFlight'[d] = <<>>
    BY <2>1, <2>2, StreamNumbers
  <2>5. QED
    BY <2>3, <2>4
<1>22. CASE StreamBreaks
  <2>1. \A d \in Streams : d # stream => inFlight'[d] = inFlight[d]
    BY <1>22, QueueBreaks
  <2>2. UNCHANGED <<run, stream, at>>
          /\ \A d \in Streams : open'[d] => open[d]
    BY <1>22 DEF StreamBreaks
  <2>3. QED
    BY <2>1, <2>2, StreamNumbers
<1>23. CASE UNCHANGED vars
  BY <1>23 DEF vars
<1>24. QED
  BY <1>1, <1>2, <1>3, <1>4, <1>5, <1>6, <1>7, <1>8, <1>9, <1>10, <1>11,
     <1>12, <1>13, <1>14, <1>15, <1>16, <1>17, <1>18, <1>19, <1>20, <1>21,
     <1>22, <1>23 DEF Next, RunNext, ReaderNext, SenderNext, AgentNext, Ended

\* An update is forgotten when it is acknowledged, not before.
LEMMA UnacknowledgedKeptStep == TypeOK /\ UnacknowledgedKept /\ [Next]_vars
      => UnacknowledgedKept'
<1> SUFFICES ASSUME TypeOK, UnacknowledgedKept, [Next]_vars PROVE
      UnacknowledgedKept'
  OBVIOUS
<1> USE DEF mesos, maps, loop, agentFrame, TypeOK, UnacknowledgedKept
<1>1. CASE Offer
  BY Places, StreamNumbers, <1>1 DEF Offer
<1>2. CASE SubscribeFails
  BY Places, StreamNumbers, <1>2 DEF SubscribeFails
<1>3. CASE Subscribed
  BY Places, StreamNumbers, <1>3 DEF Subscribed, Goto
<1>4. CASE LoopQuits
  BY Places, StreamNumbers, <1>4 DEF LoopQuits, Canceled, AfterLoop
<1>5. CASE CloseStream
  BY Places, StreamNumbers, <1>5 DEF CloseStream
<1>6. CASE RunReturns
  BY Places, StreamNumbers, <1>6 DEF RunReturns, ToldToQuit
<1>7. CASE Reconnect
  BY Places, StreamNumbers, <1>7 DEF Reconnect, ToldToQuit
<1>8. CASE Retry
  BY Places, StreamNumbers, <1>8 DEF Retry
<1>9. ASSUME NEW c \in Streams, Decode(c) PROVE UnacknowledgedKept'
  BY Places, StreamNumbers, <1>9 DEF Decode, Goto
<1>10. ASSUME NEW c \in Streams, HandleLaunch(c) PROVE UnacknowledgedKept'
  BY Places, StreamNumbers, <1>10 DEF HandleLaunch, Goto
<1>11. ASSUME NEW c \in Streams, NEW u \in Updates, HandleAck(c, u)
      PROVE  UnacknowledgedKept'
  BY Places, StreamNumbers, <1>11 DEF HandleAck, Goto, Acknowledged
<1>12. ASSUME NEW c \in Streams, HandleError(c) PROVE UnacknowledgedKept'
  BY Places, StreamNumbers, <1>12 DEF HandleError, Goto
<1>13. ASSUME NEW c \in Streams, HandleShutdown(c) PROVE UnacknowledgedKept'
  BY Places, StreamNumbers, <1>13 DEF HandleShutdown, Goto
<1>14. ASSUME NEW c \in Streams, Deliver(c) PROVE UnacknowledgedKept'
  BY Places, StreamNumbers, <1>14 DEF Deliver, Goto, AfterLoop
<1>15. ASSUME NEW g \in {Monitor} \cup Streams, NEW u \in Updates, Send(g, u)
      PROVE  UnacknowledgedKept'
  BY Places, StreamNumbers, <1>15 DEF Send, Goto
<1>16. ASSUME NEW g \in {Monitor} \cup Streams, NEW u \in Updates, Record(g, u)
      PROVE  UnacknowledgedKept'
  BY Places, StreamNumbers, <1>16 DEF Record, Goto, Kept, MonitorBegins
<1>17. ASSUME NEW g \in {Monitor} \cup Streams, Stop(g)
      PROVE  UnacknowledgedKept'
  BY Places, StreamNumbers, <1>17 DEF Stop, Goto
<1>18. CASE RecoveryTimePasses
  BY Places, StreamNumbers, <1>18 DEF RecoveryTimePasses
<1>19. CASE MapRace
  BY Places, StreamNumbers, <1>19 DEF MapRace
<1>20. ASSUME NEW type \in {"LAUNCH", "ERROR", "SHUTDOWN"}, AgentSends(type)
      PROVE  UnacknowledgedKept'
  BY Places, StreamNumbers, <1>20 DEF AgentSends, Emit
<1>21. ASSUME NEW u \in Updates, AgentAcks(u) PROVE UnacknowledgedKept'
  BY Places, StreamNumbers, <1>21 DEF AgentAcks, Emit
<1>22. CASE StreamBreaks
  BY Places, StreamNumbers, <1>22 DEF StreamBreaks
<1>23. CASE UNCHANGED vars
  BY <1>23 DEF vars
<1>24. QED
  BY <1>1, <1>2, <1>3, <1>4, <1>5, <1>6, <1>7, <1>8, <1>9, <1>10, <1>11,
     <1>12, <1>13, <1>14, <1>15, <1>16, <1>17, <1>18, <1>19, <1>20, <1>21,
     <1>22, <1>23 DEF Next, RunNext, ReaderNext, SenderNext, AgentNext, Ended

\* Where a reader goes that calls SendStatusUpdate, or delivers its result.
LEMMA Moves ==
  ASSUME TypeOK
  PROVE  /\ \A g \in {Monitor} \cup Streams : \A u \in Updates : Send(g, u) =>
               /\ at[g] = Sending[u] /\ at'[g] \in {at[g], Sent[u]}
               /\ at'[g] = Sent[u] => u \in known'
               /\ \A d \in Streams \ {g} : at'[d] = at[d]
         /\ \A g \in {Monitor} \cup Streams : \A u \in Updates : Record(g, u) =>
               /\ at[g] = Sent[u]
               /\ g # Monitor => at'[g] \in {"stop", "sendFINAL", "deliver"}
               /\ \A d \in Streams \ {g} : at'[d] = at[d]
         /\ \A c \in Streams : Deliver(c) =>
               /\ at[c] \in {"deliver", "deliverErr"} /\ at'[c] \in {"decode", "ended"}
               /\ \A d \in Streams \ {c} : at'[d] = at[d]
<1>1. ASSUME NEW g \in {Monitor} \cup Streams, NEW u \in Updates, Send(g, u)
      PROVE  /\ at[g] = Sending[u] /\ at'[g] \in {at[g], Sent[u]}
             /\ at'[g] = Sent[u] => u \in known'
             /\ \A d \in Streams \ {g} : at'[d] = at[d]
  BY <1>1, Places DEF Send, Goto, TypeOK
<1>2. ASSUME NEW g \in {Monitor} \cup Streams, NEW u \in Updates, Record(g, u)
      PROVE  /\ at[g] = Sent[u]
             /\ g # Monitor => at'[g] \in {"stop", "sendFINAL", "deliver"}
             /\ \A d \in Streams \ {g} : at'[d] = at[d]
  BY <1>2, StreamNumbers DEF Record, Goto, MonitorBegins, TypeOK
<1>3. ASSUME NEW c \in Streams, Deliver(c)
      PROVE  /\ at[c] \in {"deliver", "deliverErr"} /\ at'[c] \in {"decode", "ended"}
             /\ \A d \in Streams \ {c} : at'[d] = at[d]
  BY <1>3 DEF Deliver, Goto, TypeOK
<1>4. QED
  BY <1>1, <1>2, <1>3

\* A reader that handles an event is the latest, and Run reads from it.
LEMMA Busy ==
  ASSUME TypeOK, OneStream, Turns, NoError, NEW c \in Streams,
         at[c] \in Senders \cup Events \cup {"deliver"} \/ inFlight[c] # <<>> \/ open[c]
  PROVE  c = stream /\ ~Left /\ at[c] # "deliverErr"
<1>1. ~Done(c)
  BY Places DEF Done
<1>2. c <= stream
  BY Places, StreamNumbers DEF OneStream, TypeOK
<1>3. QED
  BY <1>1, <1>2, StreamNumbers DEF Turns, TypeOK

\* No ERROR event is on its way before the agent has sent one.
LEMMA NoErrorSent == TypeOK /\ NoError => "ERROR" \notin Sendable
  BY Places DEF Sendable, NoError, TypeOK

\* Only acknowledgements of what is saved, and only after an ERROR event
\* errors, are on their way.
LEMMA OnlySendableStep == TypeOK /\ OnlySendable /\ [Next]_vars =>
      OnlySendable'
<1> SUFFICES ASSUME TypeOK, OnlySendable, [Next]_vars PROVE OnlySendable'
  OBVIOUS
<1> USE DEF mesos, maps, loop, agentFrame, TypeOK
<1>1. CASE Offer
  BY Places, StreamNumbers, <1>1 DEF Offer, OnlySendable, Sendable, NoError
<1>2. CASE SubscribeFails
  BY Places, StreamNumbers, <1>2
     DEF SubscribeFails, OnlySendable, Sendable, NoError
<1>3. CASE Subscribed
  BY Places, StreamNumbers, <1>3
     DEF Subscribed, Goto, OnlySendable, Sendable, NoError
<1>4. CASE LoopQuits
  BY Places, StreamNumbers, <1>4
     DEF LoopQuits, Canceled, AfterLoop, OnlySendable, Sendable, NoError
<1>5. CASE CloseStream
  <2>1. \A c \in Streams : inFlight'[c] \in Seq(Sendable)
    BY <1>5, EmptySeq DEF CloseStream, OnlySendable
  <2>2. UNCHANGED <<at, saved, events>>
    BY <1>5 DEF CloseStream
  <2>3. QED
    BY <2>1, <2>2 DEF OnlySendable, Sendable, NoError
<1>6. CASE RunReturns
  BY Places, StreamNumbers, <1>6
     DEF RunReturns, ToldToQuit, OnlySendable, Sendable, NoError
<1>7. CASE Reconnect
  BY Places, StreamNumbers, <1>7
     DEF Reconnect, ToldToQuit, OnlySendable, Sendable, NoError
<1>8. CASE Retry
  BY Places, StreamNumbers, <1>8 DEF Retry, OnlySendable, Sendable, NoError
<1>9. ASSUME NEW c \in Streams, Decode(c) PROVE OnlySendable'
  <2>1. /\ inFlight' \in [Streams -> Seq(Sendable)]
        /\ at'[c] \in Sendable \cup {"deliverErr"}
        /\ \A d \in Streams \ {c} : at'[d] = at[d]
    BY <1>9, QueueDecode DEF OnlySendable
  <2>2. Sendable' = Sendable
    BY <1>9 DEF Decode, Sendable, NoError
  <2>3. QED
    BY <2>1, <2>2, Places DEF OnlySendable
<1>10. ASSUME NEW c \in Streams, HandleLaunch(c) PROVE OnlySendable'
  BY Places, StreamNumbers, <1>10
     DEF HandleLaunch, Goto, OnlySendable, Sendable, NoError
<1>11. ASSUME NEW c \in Streams, NEW u \in Updates, HandleAck(c, u)
      PROVE  OnlySendable'
  BY Places, StreamNumbers, <1>11
     DEF HandleAck, Goto, Acknowledged, OnlySendable, Sendable, NoError
<1>12. ASSUME NEW c \in Streams, HandleError(c) PROVE OnlySendable'
  BY Places, StreamNumbers, <1>12
     DEF HandleError, Goto, OnlySendable, Sendable, NoError
<1>13. ASSUME NEW c \in Streams, HandleShutdown(c) PROVE OnlySendable'
  BY Places, StreamNumbers, <1>13
     DEF HandleShutdown, Goto, OnlySendable, Sendable, NoError
<1>14. ASSUME NEW c \in Streams, Deliver(c) PROVE OnlySendable'
  <2>1. UNCHANGED <<inFlight, saved, events>> /\ Sendable' = Sendable
    BY <1>14 DEF Deliver, Sendable, NoError
  <2>2. \A d \in Streams : at'[d] \in Events => at'[d] = at[d]
    <3>1. at'[c] \in {"decode", "ended"} /\ \A d \in Streams \ {c} : at'[d] = at[d]
      BY <1>14, Moves
    <3>2. QED
      BY <3>1, Places, StreamNumbers
  <2>3. QED
    BY <2>1, <2>2 DEF OnlySendable
<1>15. ASSUME NEW g \in {Monitor} \cup Streams, NEW u \in Updates, Send(g, u)
      PROVE  OnlySendable'
  <2>1. UNCHANGED <<inFlight, saved, events>> /\ Sendable' = Sendable
    BY <1>15 DEF Send, Sendable, NoError
  <2>2. \A d \in Streams : at'[d] \in Events => at'[d] = at[d]
    <3>1. at'[g] \in {at[g], Sent[u]} /\ \A d \in Streams \ {g} : at'[d] = at[d]
      BY <1>15, Moves
    <3>2. QED
      BY <3>1, Places, StreamNumbers
  <2>3. QED
    BY <2>1, <2>2 DEF OnlySendable
<1>16. ASSUME NEW g \in {Monitor} \cup Streams, NEW u \in Updates, Record(g, u)
      PROVE  OnlySendable'
  <2>1. UNCHANGED <<inFlight, saved, events>> /\ Sendable' = Sendable
    BY <1>16 DEF Record, Sendable, NoError
  <2>2. \A d \in Streams : at'[d] \in Events => at'[d] = at[d]
    <3>1. (g # Monitor => at'[g] \in {"stop", "sendFINAL", "deliver"})
          /\ \A d \in Streams \ {g} : at'[d] = at[d]
      BY <1>16, Moves
    <3>2. QED
      BY <3>1, Places, StreamNumbers
  <2>3. QED
    BY <2>1, <2>2 DEF OnlySendable
<1>17. ASSUME NEW g \in {Monitor} \cup Streams, Stop(g) PROVE OnlySendable'
  BY Places, StreamNumbers, <1>17
     DEF Stop, Goto, OnlySendable, Sendable, NoError
<1>18. CASE RecoveryTimePasses
  BY Places, StreamNumbers, <1>18
     DEF RecoveryTimePasses, OnlySendable, Sendable, NoError
<1>19. CASE MapRace
  BY Places, StreamNumbers, <1>19
     DEF MapRace, OnlySendable, Sendable, NoError
<1>20. ASSUME NEW type \in {"LAUNCH", "ERROR", "SHUTDOWN"}, AgentSends(type)
      PROVE  OnlySendable'
  <2>1. stream \in Streams
    BY <1>20, StreamNumbers DEF AgentSends, Connected
  <2>2. Sendable \subseteq Sendable' /\ type \in Sendable'
    <3>1. saved' = saved /\ (type # "ERROR" => events'["ERROR"] = events["ERROR"])
            /\ events'["ERROR"] >= events["ERROR"]
            /\ (type = "ERROR" => events'["ERROR"] = events["ERROR"] + 1)
      BY <1>20 DEF AgentSends
    <3>2. NoError' => NoError /\ type # "ERROR"
      BY <3>1 DEF NoError
    <3>3. QED
      BY <3>1, <3>2, Zenon DEF Sendable
  <2>3. \A c \in Streams : inFlight[c] \in Seq(Sendable')
    BY <2>2, SeqMonotonic DEF OnlySendable
  <2>4. inFlight' \in [Streams -> Seq(Sendable')]
    BY <1>20, <2>1, <2>2, <2>3, QueueEmit DEF AgentSends
  <2>5. QED
    BY <1>20, <2>2, <2>4 DEF AgentSends, OnlySendable
<1>21. ASSUME NEW u \in Updates, AgentAcks(u) PROVE OnlySendable'
  <2>1. stream \in Streams
    BY <1>21, StreamNumbers DEF AgentAcks, Connected
  <2>2. Sendable \subseteq Sendable' /\ Ack[u] \in Sendable'
    <3>1. saved' = saved \cup {u} /\ events' = events
      BY <1>21 DEF AgentAcks
    <3>2. NoError' <=> NoError
      BY <3>1 DEF NoError
    <3>3. QED
      BY <3>1, <3>2, Zenon DEF Sendable
  <2>3. \A c \in Streams : inFlight[c] \in Seq(Sendable')
    BY <2>2, SeqMonotonic DEF OnlySendable
  <2>4. inFlight' \in [Streams -> Seq(Sendable')]
    BY <1>21, <2>1, <2>2, <2>3, QueueEmit DEF AgentAcks
  <2>5. QED
    BY <1>21, <2>2, <2>4 DEF AgentAcks, OnlySendable
<1>22. CASE StreamBreaks
  <2>1. inFlight' \in [Streams -> Seq(Sendable)]
    BY <1>22, QueueBreaks DEF OnlySendable
  <2>2. UNCHANGED <<at, saved, events>>
    BY <1>22 DEF StreamBreaks
  <2>3. QED
    BY <2>1, <2>2 DEF OnlySendable, Sendable, NoError
<1>23. CASE UNCHANGED vars
  BY <1>23 DEF vars, OnlySendable, Sendable, NoError
<1>24. QED
  BY <1>1, <1>2, <1>3, <1>4, <1>5, <1>6, <1>7, <1>8, <1>9, <1>10, <1>11,
     <1>12, <1>13, <1>14, <1>15, <1>16, <1>17, <1>18, <1>19, <1>20, <1>21,
     <1>22, <1>23 DEF Next, RunNext, ReaderNext, SenderNext, AgentNext, Ended

\* The readers take turns.
LEMMA TurnsStep == TypeOK /\ OneStream /\ OnlySendable /\ Turns /\
      [Next]_vars => Turns'
<1> SUFFICES ASSUME TypeOK, OneStream, OnlySendable, Turns, [Next]_vars PROVE
      Turns'
  OBVIOUS
<1> USE DEF mesos, maps, loop, agentFrame, TypeOK
<1>1. CASE Offer
  BY Places, StreamNumbers, <1>1
     DEF Offer, OneStream, Turns, NoError, Done, Left
<1>2. CASE SubscribeFails
  BY Places, StreamNumbers, <1>2
     DEF SubscribeFails, OneStream, Turns, NoError, Done, Left
<1>3. CASE Subscribed
  BY Places, StreamNumbers, <1>3
     DEF Subscribed, Goto, OneStream, Turns, NoError, Done, Left
<1>4. CASE LoopQuits
  BY Places, StreamNumbers, <1>4
     DEF LoopQuits, Canceled, AfterLoop, OneStream, Turns, NoError, Done,
      Left
<1>5. CASE CloseStream
  BY Places, StreamNumbers, <1>5
     DEF CloseStream, OneStream, Turns, NoError, Done, Left
<1>6. CASE RunReturns
  BY Places, StreamNumbers, <1>6
     DEF RunReturns, ToldToQuit, OneStream, Turns, NoError, Done, Left
<1>7. CASE Reconnect
  BY Places, StreamNumbers, <1>7
     DEF Reconnect, ToldToQuit, OneStream, Turns, NoError, Done, Left
<1>8. CASE Retry
  BY Places, StreamNumbers, <1>8
     DEF Retry, OneStream, Turns, NoError, Done, Left
<1>9. ASSUME NEW c \in Streams, Decode(c) PROVE Turns'
  <2>1. UNCHANGED <<stream, open, run, quit, events>>
    BY <1>9 DEF Decode
  <2>2. SUFFICES ASSUME NoError, NEW d \in Streams
                 PROVE  /\ d < stream => Done(d)'
                        /\ d = stream /\ Left => Done(d)'
                        /\ at'[d] = "deliverErr" => Done(d)'
    BY <2>1 DEF Turns, NoError, Left
  <2>3. CASE d # c
    BY <2>1, <2>2, <2>3, <1>9, QueueDecode DEF Turns, Done
  <2>4. CASE d = c /\ inFlight[c] = <<>>
    BY <2>1, <2>4, <1>9, QueueDecode DEF Done
  <2>5. CASE d = c /\ inFlight[c] # <<>>
    <3>1. at'[c] \in Events
      BY <2>5, <1>9, QueueDecode
    <3>2. c = stream /\ ~Left
      BY <2>2, <2>5, Busy
    <3>3. QED
      BY <2>5, <3>1, <3>2, Places, StreamNumbers
  <2>6. QED
    BY <2>3, <2>4, <2>5
<1>10. ASSUME NEW c \in Streams, HandleLaunch(c) PROVE Turns'
  <2>1. /\ UNCHANGED <<stream, open, run, quit, events, inFlight>>
        /\ at[c] = "LAUNCH" /\ at'[c] = "sendRUNNING"
        /\ \A d \in Streams \ {c} : at'[d] = at[d]
    BY <1>10 DEF HandleLaunch, Goto
  <2>2. NoError => c = stream /\ ~Left
    BY <2>1, Busy, Places
  <2>3. SUFFICES ASSUME NoError, NEW d \in Streams
                 PROVE  /\ d < stream => Done(d)'
                        /\ d = stream /\ Left => Done(d)'
                        /\ at'[d] = "deliverErr" => Done(d)'
    BY <2>1 DEF Turns, NoError, Left
  <2>4. CASE d # c
    BY <2>1, <2>3, <2>4 DEF Turns, Done
  <2>5. CASE d = c
    BY <2>1, <2>2, <2>3, <2>5, StreamNumbers
  <2>6. QED
    BY <2>4, <2>5
<1>11. ASSUME NEW c \in Streams, NEW u \in Updates, HandleAck(c, u)
      PROVE  Turns'
  <2>1. /\ UNCHANGED <<stream, open, run, quit, events, inFlight>>
        /\ at[c] = Ack[u] /\ at'[c] = "deliver"
        /\ \A d \in Streams \ {c} : at'[d] = at[d]
    BY <1>11 DEF HandleAck, Goto
  <2>2. NoError => c = stream /\ ~Left
    BY <2>1, Busy, Places
  <2>3. SUFFICES ASSUME NoError, NEW d \in Streams
                 PROVE  /\ d < stream => Done(d)'
                        /\ d = stream /\ Left => Done(d)'
                        /\ at'[d] = "deliverErr" => Done(d)'
    BY <2>1 DEF Turns, NoError, Left
  <2>4. CASE d # c
    BY <2>1, <2>3, <2>4 DEF Turns, Done
  <2>5. CASE d = c
    BY <2>1, <2>2, <2>3, <2>5, StreamNumbers
  <2>6. QED
    BY <2>4, <2>5
<1>12. ASSUME NEW c \in Streams, HandleError(c) PROVE Turns'
  <2>1. ~NoError
    BY <1>12, NoErrorSent, Places DEF HandleError, OnlySendable
  <2>2. QED
    BY <1>12, <2>1 DEF HandleError, Turns, NoError
<1>13. ASSUME NEW c \in Streams, HandleShutdown(c) PROVE Turns'
  <2>1. /\ UNCHANGED <<stream, open, run, quit, events, inFlight>>
        /\ at[c] = "SHUTDOWN" /\ at'[c] = "stop"
        /\ \A d \in Streams \ {c} : at'[d] = at[d]
    BY <1>13 DEF HandleShutdown, Goto
  <2>2. NoError => c = stream /\ ~Left
    BY <2>1, Busy, Places
  <2>3. SUFFICES ASSUME NoError, NEW d \in Streams
                 PROVE  /\ d < stream => Done(d)'
                        /\ d = stream /\ Left => Done(d)'
                        /\ at'[d] = "deliverErr" => Done(d)'
    BY <2>1 DEF Turns, NoError, Left
  <2>4. CASE d # c
    BY <2>1, <2>3, <2>4 DEF Turns, Done
  <2>5. CASE d = c
    BY <2>1, <2>2, <2>3, <2>5, StreamNumbers
  <2>6. QED
    BY <2>4, <2>5
<1>14. ASSUME NEW c \in Streams, Deliver(c) PROVE Turns'
  <2>1. UNCHANGED <<stream, open, quit, events, inFlight>>
    BY <1>14 DEF Deliver
  <2>2. SUFFICES ASSUME NoError, NEW d \in Streams
                 PROVE  /\ d < stream => Done(d)'
                        /\ d = stream /\ Left' => Done(d)'
                        /\ at'[d] = "deliverErr" => Done(d)'
    BY <2>1 DEF Turns, NoError
  <2>3. CASE at[c] = "deliverErr"
    <3>1. Done(c) /\ Done(c)'
      BY <1>14, <2>1, <2>2, <2>3, Moves DEF Turns, Done
    <3>2. d # c => (Left' => Left) \/ c = stream
      BY <1>14, <2>1 DEF Deliver, Left
    <3>3. QED
      BY <1>14, <2>1, <2>2, <3>1, <3>2, Moves DEF Turns, Done
  <2>4. CASE at[c] = "deliver"
    <3>1. c = stream /\ ~Left
      BY <2>2, <2>4, Busy
    <3>2. run' = run
      BY <1>14, <2>4 DEF Deliver
    <3>3. QED
      BY <1>14, <2>1, <2>2, <3>1, <3>2, Moves DEF Turns, Done, Left
  <2>5. QED
    BY <1>14, <2>3, <2>4, Moves
<1>15. ASSUME NEW g \in {Monitor} \cup Streams, NEW u \in Updates, Send(g, u)
      PROVE  Turns'
  <2>1. UNCHANGED <<stream, open, run, quit, events, inFlight>> /\ at[g] \in Senders
    BY <1>15, Places DEF Send
  <2>2. SUFFICES ASSUME NoError, NEW d \in Streams
                 PROVE  /\ d < stream => Done(d)'
                        /\ d = stream /\ Left => Done(d)'
                        /\ at'[d] = "deliverErr" => Done(d)'
    BY <2>1 DEF Turns, NoError, Left
  <2>3. CASE d # g
    BY <1>15, <2>1, <2>2, <2>3, Moves DEF Turns, Done
  <2>4. CASE d = g
    <3>1. d = stream /\ ~Left
      BY <2>1, <2>2, <2>4, Busy
    <3>2. at'[d] # "deliverErr"
      <4>1. at[g] = Sending[u] /\ at'[g] \in {at[g], Sent[u]}
        BY <1>15, <2>4, Moves, StreamNumbers
      <4>2. QED
        BY <2>4, <4>1, Places
    <3>3. QED
      BY <3>1, <3>2, StreamNumbers
  <2>5. QED
    BY <2>3, <2>4
<1>16. ASSUME NEW g \in {Monitor} \cup Streams, NEW u \in Updates, Record(g, u)
      PROVE  Turns'
  <2>1. UNCHANGED <<stream, open, run, quit, events, inFlight>> /\ at[g] \in Senders
    BY <1>16, Places DEF Record
  <2>2. SUFFICES ASSUME NoError, NEW d \in Streams
                 PROVE  /\ d < stream => Done(d)'
                        /\ d = stream /\ Left => Done(d)'
                        /\ at'[d] = "deliverErr" => Done(d)'
    BY <2>1 DEF Turns, NoError, Left
  <2>3. CASE d # g
    BY <1>16, <2>1, <2>2, <2>3, Moves DEF Turns, Done
  <2>4. CASE d = g
    <3>1. d = stream /\ ~Left
      BY <2>1, <2>2, <2>4, Busy
    <3>2. at'[d] # "deliverErr"
      <4>1. at'[g] \in {"stop", "sendFINAL", "deliver"}
        BY <1>16, <2>4, Moves, StreamNumbers
      <4>2. QED
        BY <2>4, <4>1, Places
    <3>3. QED
      BY <3>1, <3>2, StreamNumbers
  <2>5. QED
    BY <2>3, <2>4
<1>17. ASSUME NEW g \in {Monitor} \cup Streams, Stop(g) PROVE Turns'
  BY Places, StreamNumbers, <1>17
     DEF Stop, Goto, OneStream, Turns, NoError, Done, Left
<1>18. CASE RecoveryTimePasses
  BY Places, StreamNumbers, <1>18
     DEF RecoveryTimePasses, OneStream, Turns, NoError, Done, Left
<1>19. CASE MapRace
  BY Places, StreamNumbers, <1>19
     DEF MapRace, OneStream, Turns, NoError, Done, Left
<1>20. ASSUME NEW type \in {"LAUNCH", "ERROR", "SHUTDOWN"}, AgentSends(type)
      PROVE  Turns'
  <2>1. /\ stream \in Streams /\ open[stream] /\ type \in Events
        /\ UNCHANGED <<stream, open, run, quit, at>>
    BY <1>20, StreamNumbers, Places DEF AgentSends, Connected
  <2>2. NoError' => NoError
    BY <1>20 DEF AgentSends, NoError
  <2>3. \A d \in Streams : d # stream => inFlight'[d] = inFlight[d]
    BY <1>20, <2>1, QueueEmit DEF AgentSends
  <2>4. NoError => ~Left /\ at[stream] # "deliverErr"
    BY <2>1, Busy
  <2>5. QED
    BY <2>1, <2>2, <2>3, <2>4, StreamNumbers DEF Turns, Done, Left
<1>21. ASSUME NEW u \in Updates, AgentAcks(u) PROVE Turns'
  <2>1. /\ stream \in Streams /\ open[stream] /\ Ack[u] \in Events
        /\ UNCHANGED <<stream, open, run, quit, at>>
    BY <1>21, StreamNumbers, Places DEF AgentAcks, Connected
  <2>2. NoError' => NoError
    BY <1>21 DEF AgentAcks, NoError
  <2>3. \A d \in Streams : d # stream => inFlight'[d] = inFlight[d]
    BY <1>21, <2>1, QueueEmit DEF AgentAcks
  <2>4. NoError => ~Left /\ at[stream] # "deliverErr"
    BY <2>1, Busy
  <2>5. QED
    BY <2>1, <2>2, <2>3, <2>4, StreamNumbers DEF Turns, Done, Left
<1>22. CASE StreamBreaks
  <2>1. /\ UNCHANGED <<stream, run, quit, at, events>>
        /\ \A d \in Streams : open'[d] => open[d]
    BY <1>22 DEF StreamBreaks
  <2>2. \A d \in Streams : inFlight[d] = <<>> => inFlight'[d] = <<>>
    BY <1>22, QueueBreaks
  <2>3. QED
    BY <2>1, <2>2 DEF Turns, Done, Left, NoError
<1>23. CASE UNCHANGED vars
  BY <1>23 DEF vars, Turns, NoError, Done, Left
<1>24. QED
  BY <1>1, <1>2, <1>3, <1>4, <1>5, <1>6, <1>7, <1>8, <1>9, <1>10, <1>11,
     <1>12, <1>13, <1>14, <1>15, <1>16, <1>17, <1>18, <1>19, <1>20, <1>21,
     <1>22, <1>23 DEF Next, RunNext, ReaderNext, SenderNext, AgentNext, Ended

\* The agent acknowledges what it has saved.
LEMMA AckedSaved ==
  ASSUME TypeOK, OnlySendable, NEW c \in Streams, NEW u \in Updates, HandleAck(c, u)
  PROVE  u \in saved
<1>1. at[c] = Ack[u] /\ Ack[u] \in Events
  BY Places DEF HandleAck
<1>2. Ack[u] \in Sendable
  BY <1>1 DEF OnlySendable
<1>3. PICK v \in saved : Ack[u] = Ack[v]
  BY <1>2, Places DEF Sendable
<1>4. QED
  BY <1>3, Places DEF TypeOK

\* The agent knows what it acknowledges and is told what it does not.
LEMMA KnowsStep == TypeOK /\ OneStream /\ OnlySendable /\ Turns /\
      UnacknowledgedKept /\ Knows /\ [Next]_vars => Knows'
<1> SUFFICES ASSUME TypeOK, OneStream, OnlySendable, Turns,
      UnacknowledgedKept, Knows, [Next]_vars PROVE Knows'
  OBVIOUS
<1> USE DEF mesos, maps, loop, agentFrame, TypeOK, OneStream, Knows,
      Connected, NoError
<1>1. CASE Offer
  <2>1. offer'.updates = updates /\ run' = "send"
          /\ UNCHANGED <<saved, known, acked, events, returned>>
    BY <1>1 DEF Offer
  <2>2. QED
    BY <2>1 DEF UnacknowledgedKept
<1>2. CASE SubscribeFails
  BY Places, StreamNumbers, <1>2 DEF SubscribeFails
<1>3. CASE Subscribed
  BY Places, StreamNumbers, <1>3 DEF Subscribed, Goto
<1>4. CASE LoopQuits
  BY Places, StreamNumbers, <1>4 DEF LoopQuits, Canceled, AfterLoop
<1>5. CASE CloseStream
  BY Places, StreamNumbers, <1>5 DEF CloseStream
<1>6. CASE RunReturns
  BY Places, StreamNumbers, <1>6 DEF RunReturns, ToldToQuit
<1>7. CASE Reconnect
  BY Places, StreamNumbers, <1>7 DEF Reconnect, ToldToQuit
<1>8. CASE Retry
  BY Places, StreamNumbers, <1>8 DEF Retry
<1>9. ASSUME NEW c \in Streams, Decode(c) PROVE Knows'
  <2>1. UNCHANGED <<saved, known, acked, events, returned, run, offer, stream, open>>
    BY <1>9 DEF Decode
  <2>2. \A d \in Streams : at'[d] = "sentRUNNING" => at[d] = "sentRUNNING"
    <3>1. at'[c] \in Events \cup {"deliverErr"}
            /\ \A d \in Streams \ {c} : at'[d] = at[d]
      BY <1>9, QueueDecode
    <3>2. QED
      BY <3>1, Places
  <2>3. QED
    BY <2>1, <2>2, StreamNumbers
<1>10. ASSUME NEW c \in Streams, HandleLaunch(c) PROVE Knows'
  BY Places, StreamNumbers, <1>10 DEF HandleLaunch, Goto
<1>11. ASSUME NEW c \in Streams, NEW u \in Updates, HandleAck(c, u)
      PROVE  Knows'
  <2>2. u \in saved
    BY <1>11, AckedSaved
  <2>3. /\ UNCHANGED <<saved, known, events, returned, run, offer, stream, open>>
        /\ acked' = acked \cup {u}
        /\ \A d \in Streams : at'[d] = "sentRUNNING" => at[d] = "sentRUNNING"
    BY <1>11 DEF HandleAck, Goto
  <2>4. QED
    BY <2>2, <2>3, StreamNumbers
<1>12. ASSUME NEW c \in Streams, HandleError(c) PROVE Knows'
  BY Places, StreamNumbers, <1>12 DEF HandleError, Goto
<1>13. ASSUME NEW c \in Streams, HandleShutdown(c) PROVE Knows'
  BY Places, StreamNumbers, <1>13 DEF HandleShutdown, Goto
<1>14. ASSUME NEW c \in Streams, Deliver(c) PROVE Knows'
  <2>1. UNCHANGED <<saved, known, acked, events, returned, offer, stream, open>>
          /\ run' \in {run, "close"}
    BY <1>14 DEF Deliver
  <2>2. \A d \in Streams : at'[d] = "sentRUNNING" => at[d] = "sentRUNNING"
    BY <1>14, Moves
  <2>3. QED
    BY <2>1, <2>2, StreamNumbers
<1>15. ASSUME NEW g \in {Monitor} \cup Streams, NEW u \in Updates, Send(g, u)
      PROVE  Knows'
  <2>1. UNCHANGED <<saved, acked, events, returned, run, offer, stream, open>>
          /\ known \subseteq known'
    BY <1>15 DEF Send
  <2>2. \A d \in Streams : at'[d] = "sentRUNNING" =>
            at[d] = "sentRUNNING" \/ "RUNNING" \in known'
    BY <1>15, Moves, Places
  <2>3. QED
    BY <2>1, <2>2, StreamNumbers
<1>16. ASSUME NEW g \in {Monitor} \cup Streams, NEW u \in Updates, Record(g, u)
      PROVE  Knows'
  <2>1. /\ UNCHANGED <<saved, known, acked, events, run, offer, stream, open>>
        /\ returned' = returned \cup {u} /\ at[g] = Sent[u]
    BY <1>16 DEF Record
  <2>2. u = "RUNNING" /\ NoError => g = stream /\ run # "send" /\ at[g] = "sentRUNNING"
    <3>1. SUFFICES ASSUME u = "RUNNING", NoError
                   PROVE  g = stream /\ run # "send" /\ at[g] = "sentRUNNING"
      OBVIOUS
    <3>2. at[g] = "sentRUNNING" /\ g \in Streams
      BY <2>1, <3>1, Places
    <3>3. g = stream /\ ~Left
      BY <3>1, <3>2, Busy, Places
    <3>4. QED
      BY <3>2, <3>3 DEF Left
  <2>3. \A d \in Streams : at'[d] = "sentRUNNING" => at[d] = "sentRUNNING"
    <3>1. /\ g # Monitor => at'[g] \in {"stop", "sendFINAL", "deliver"}
          /\ \A d \in Streams \ {g} : at'[d] = at[d]
      BY <1>16, Moves
    <3>2. QED
      BY <3>1, StreamNumbers
  <2>4. QED
    BY <2>1, <2>2, <2>3, StreamNumbers
<1>17. ASSUME NEW g \in {Monitor} \cup Streams, Stop(g) PROVE Knows'
  BY Places, StreamNumbers, <1>17 DEF Stop, Goto
<1>18. CASE RecoveryTimePasses
  BY Places, StreamNumbers, <1>18 DEF RecoveryTimePasses
<1>19. CASE MapRace
  BY Places, StreamNumbers, <1>19 DEF MapRace
<1>20. ASSUME NEW type \in {"LAUNCH", "ERROR", "SHUTDOWN"}, AgentSends(type)
      PROVE  Knows'
  <2>1. UNCHANGED <<saved, known, acked, returned, run, offer, stream, open, at>>
    BY <1>20 DEF AgentSends
  <2>2. events'["ERROR"] = 0 => events["ERROR"] = 0
    BY <1>20 DEF AgentSends
  <2>3. QED
    BY <2>1, <2>2
<1>21. ASSUME NEW u \in Updates, AgentAcks(u) PROVE Knows'
  BY Places, StreamNumbers, <1>21 DEF AgentAcks, Emit
<1>22. CASE StreamBreaks
  <2>1. /\ UNCHANGED <<saved, acked, events, returned, run, offer, stream, at>>
        /\ known' \in {known, saved}
        /\ ~open'[stream]
    BY <1>22, QueueBreaks DEF StreamBreaks
  <2>2. QED
    BY <2>1
<1>23. CASE UNCHANGED vars
  BY <1>23 DEF vars
<1>24. QED
  BY <1>1, <1>2, <1>3, <1>4, <1>5, <1>6, <1>7, <1>8, <1>9, <1>10, <1>11,
     <1>12, <1>13, <1>14, <1>15, <1>16, <1>17, <1>18, <1>19, <1>20, <1>21,
     <1>22, <1>23 DEF Next, RunNext, ReaderNext, SenderNext, AgentNext, Ended

\* The recovery timeout does not run while Run closes a stream.
LEMMA LateOnlyRefusedStep == TypeOK /\ LateOnlyRefused /\ [Next]_vars =>
      LateOnlyRefused'
<1> SUFFICES ASSUME TypeOK, LateOnlyRefused, [Next]_vars PROVE
      LateOnlyRefused'
  OBVIOUS
<1> USE DEF mesos, maps, loop, agentFrame, TypeOK, LateOnlyRefused
<1>1. CASE proc = "up" /\ Offer
  BY Places, <1>1 DEF Offer
<1>2. CASE proc = "up" /\ SubscribeFails
  BY Places, <1>2 DEF SubscribeFails
<1>3. CASE proc = "up" /\ Subscribed
  BY Places, <1>3 DEF Subscribed, Goto
<1>4. CASE proc = "up" /\ LoopQuits
  BY Places, <1>4 DEF LoopQuits, Canceled, AfterLoop
<1>5. CASE proc = "up" /\ CloseStream
  BY Places, <1>5 DEF CloseStream
<1>6. CASE proc = "up" /\ RunReturns
  BY Places, <1>6 DEF RunReturns, ToldToQuit
<1>7. CASE proc = "up" /\ Reconnect
  BY Places, <1>7 DEF Reconnect, ToldToQuit
<1>8. CASE proc = "up" /\ Retry
  BY Places, <1>8 DEF Retry
<1>9. ASSUME NEW c \in Streams, proc = "up" /\ Decode(c)
      PROVE  LateOnlyRefused'
  BY Places, <1>9 DEF Decode, Goto
<1>10. ASSUME NEW c \in Streams, proc = "up" /\ HandleLaunch(c)
      PROVE  LateOnlyRefused'
  BY Places, <1>10 DEF HandleLaunch, Goto
<1>11. ASSUME NEW c \in Streams, NEW u \in Updates, proc = "up" /\ HandleAck(c, u)
      PROVE  LateOnlyRefused'
  BY Places, <1>11 DEF HandleAck, Goto, Acknowledged
<1>12. ASSUME NEW c \in Streams, proc = "up" /\ HandleError(c)
      PROVE  LateOnlyRefused'
  BY Places, <1>12 DEF HandleError, Goto
<1>13. ASSUME NEW c \in Streams, proc = "up" /\ HandleShutdown(c)
      PROVE  LateOnlyRefused'
  BY Places, <1>13 DEF HandleShutdown, Goto
<1>14. ASSUME NEW c \in Streams, proc = "up" /\ Deliver(c)
      PROVE  LateOnlyRefused'
  BY Places, <1>14 DEF Deliver, Goto, AfterLoop
<1>15. ASSUME NEW g \in {Monitor} \cup Streams, NEW u \in Updates, proc = "up" /\ Send(g, u)
      PROVE  LateOnlyRefused'
  BY Places, <1>15 DEF Send, Goto
<1>16. ASSUME NEW g \in {Monitor} \cup Streams, NEW u \in Updates, proc = "up" /\ Record(g, u)
      PROVE  LateOnlyRefused'
  BY Places, <1>16 DEF Record, Goto, Kept, MonitorBegins
<1>17. ASSUME NEW g \in {Monitor} \cup Streams, proc = "up" /\ Stop(g)
      PROVE  LateOnlyRefused'
  BY Places, <1>17 DEF Stop, Goto
<1>18. CASE proc = "up" /\ RecoveryTimePasses
  BY Places, <1>18 DEF RecoveryTimePasses
<1>19. CASE proc = "up" /\ MapRace
  BY Places, <1>19 DEF MapRace
<1>20. ASSUME NEW type \in {"LAUNCH", "ERROR", "SHUTDOWN"}, proc = "up" /\ AgentSends(type)
      PROVE  LateOnlyRefused'
  BY Places, <1>20 DEF AgentSends, Emit
<1>21. ASSUME NEW u \in Updates, proc = "up" /\ AgentAcks(u)
      PROVE  LateOnlyRefused'
  BY Places, <1>21 DEF AgentAcks, Emit
<1>22. CASE proc = "up" /\ StreamBreaks
  BY Places, <1>22 DEF StreamBreaks
<1>23. CASE UNCHANGED vars
  BY <1>23 DEF vars
<1>24. QED
  BY <1>1, <1>2, <1>3, <1>4, <1>5, <1>6, <1>7, <1>8, <1>9, <1>10, <1>11,
     <1>12, <1>13, <1>14, <1>15, <1>16, <1>17, <1>18, <1>19, <1>20, <1>21,
     <1>22, <1>23 DEF Next, RunNext, ReaderNext, SenderNext, AgentNext, Ended

\* The maps are in no danger before.
LEMMA MapRaceNeedsMonitorStep == TypeOK /\ OneStream /\ Turns /\
      MapRaceNeedsMonitor /\ [Next]_vars => MapRaceNeedsMonitor'
<1> SUFFICES ASSUME TypeOK, OneStream, Turns, MapRaceNeedsMonitor,
      [Next]_vars PROVE MapRaceNeedsMonitor'
  OBVIOUS
<1> USE DEF mesos, maps, loop, agentFrame, TypeOK, MapRaceNeedsMonitor
<1>1. CASE proc = "up" /\ Offer
  BY Places, StreamNumbers, <1>1 DEF Offer
<1>2. CASE proc = "up" /\ SubscribeFails
  BY Places, StreamNumbers, <1>2 DEF SubscribeFails
<1>3. CASE proc = "up" /\ Subscribed
  BY Places, StreamNumbers, <1>3 DEF Subscribed, Goto
<1>4. CASE proc = "up" /\ LoopQuits
  BY Places, StreamNumbers, <1>4 DEF LoopQuits, Canceled, AfterLoop
<1>5. CASE proc = "up" /\ CloseStream
  BY Places, StreamNumbers, <1>5 DEF CloseStream
<1>6. CASE proc = "up" /\ RunReturns
  BY Places, StreamNumbers, <1>6 DEF RunReturns, ToldToQuit
<1>7. CASE proc = "up" /\ Reconnect
  BY Places, StreamNumbers, <1>7 DEF Reconnect, ToldToQuit
<1>8. CASE proc = "up" /\ Retry
  BY Places, StreamNumbers, <1>8 DEF Retry
<1>9. ASSUME NEW c \in Streams, proc = "up" /\ Decode(c)
      PROVE  MapRaceNeedsMonitor'
  BY Places, StreamNumbers, <1>9 DEF Decode, Goto
<1>10. ASSUME NEW c \in Streams, proc = "up" /\ HandleLaunch(c)
      PROVE  MapRaceNeedsMonitor'
  BY Places, StreamNumbers, <1>10 DEF HandleLaunch, Goto
<1>11. ASSUME NEW c \in Streams, NEW u \in Updates, proc = "up" /\ HandleAck(c, u)
      PROVE  MapRaceNeedsMonitor'
  BY Places, StreamNumbers, <1>11 DEF HandleAck, Goto, Acknowledged
<1>12. ASSUME NEW c \in Streams, proc = "up" /\ HandleError(c)
      PROVE  MapRaceNeedsMonitor'
  BY Places, StreamNumbers, <1>12 DEF HandleError, Goto
<1>13. ASSUME NEW c \in Streams, proc = "up" /\ HandleShutdown(c)
      PROVE  MapRaceNeedsMonitor'
  BY Places, StreamNumbers, <1>13 DEF HandleShutdown, Goto
<1>14. ASSUME NEW c \in Streams, proc = "up" /\ Deliver(c)
      PROVE  MapRaceNeedsMonitor'
  BY Places, StreamNumbers, <1>14 DEF Deliver, Goto, AfterLoop
<1>15. ASSUME NEW g \in {Monitor} \cup Streams, NEW u \in Updates, proc = "up" /\ Send(g, u)
      PROVE  MapRaceNeedsMonitor'
  BY Places, StreamNumbers, <1>15 DEF Send, Goto
<1>16. ASSUME NEW g \in {Monitor} \cup Streams, NEW u \in Updates, proc = "up" /\ Record(g, u)
      PROVE  MapRaceNeedsMonitor'
  BY Places, StreamNumbers, <1>16 DEF Record, Goto, Kept, MonitorBegins
<1>17. ASSUME NEW g \in {Monitor} \cup Streams, proc = "up" /\ Stop(g)
      PROVE  MapRaceNeedsMonitor'
  BY Places, StreamNumbers, <1>17 DEF Stop, Goto
<1>18. CASE proc = "up" /\ RecoveryTimePasses
  BY Places, StreamNumbers, <1>18 DEF RecoveryTimePasses
<1>19. CASE proc = "up" /\ MapRace
  <2>1. SUFFICES ASSUME NoError, at[Monitor] # "sentFINAL"
                 PROVE  FALSE
    BY <1>19, Places DEF MapRace, NoError
  <2>2. ASSUME NEW g \in {Monitor} \cup Streams, Writes(g)
        PROVE  g \in Streams /\ g = stream /\ run # "subscribe"
    <3>1. at[g] \in Senders \cup Events
      BY <2>2, Places DEF Writes
    <3>2. g # Monitor
      BY <2>1, <2>2, Places DEF Writes
    <3>3. QED
      BY <2>1, <2>2, <3>1, <3>2, Busy DEF Left
  <2>3. QED
    BY <1>19, <2>2 DEF MapRace
<1>20. ASSUME NEW type \in {"LAUNCH", "ERROR", "SHUTDOWN"}, proc = "up" /\ AgentSends(type)
      PROVE  MapRaceNeedsMonitor'
  BY Places, StreamNumbers, <1>20 DEF AgentSends, Emit
<1>21. ASSUME NEW u \in Updates, proc = "up" /\ AgentAcks(u)
      PROVE  MapRaceNeedsMonitor'
  BY Places, StreamNumbers, <1>21 DEF AgentAcks, Emit
<1>22. CASE proc = "up" /\ StreamBreaks
  BY Places, StreamNumbers, <1>22 DEF StreamBreaks
<1>23. CASE UNCHANGED vars
  BY <1>23 DEF vars
<1>24. QED
  BY <1>1, <1>2, <1>3, <1>4, <1>5, <1>6, <1>7, <1>8, <1>9, <1>10, <1>11,
     <1>12, <1>13, <1>14, <1>15, <1>16, <1>17, <1>18, <1>19, <1>20, <1>21,
     <1>22, <1>23 DEF Next, RunNext, ReaderNext, SenderNext, AgentNext, Ended

\* Run gives up when the agent refuses.
LEMMA GivesUpOnlyRefusedStep == TypeOK /\ OneStream /\ LateOnlyRefused /\
      GivesUpOnlyRefused /\ [Next]_vars => GivesUpOnlyRefused'
<1> SUFFICES ASSUME TypeOK, OneStream, LateOnlyRefused, GivesUpOnlyRefused,
      [Next]_vars PROVE GivesUpOnlyRefused'
  OBVIOUS
<1> USE DEF mesos, maps, loop, agentFrame, TypeOK, GivesUpOnlyRefused,
      Connected, OneStream, LateOnlyRefused
<1>1. CASE proc = "up" /\ Offer
  BY Places, StreamNumbers, <1>1 DEF Offer
<1>2. CASE proc = "up" /\ SubscribeFails
  BY Places, StreamNumbers, <1>2 DEF SubscribeFails
<1>3. CASE proc = "up" /\ Subscribed
  BY Places, StreamNumbers, <1>3 DEF Subscribed, Goto
<1>4. CASE proc = "up" /\ LoopQuits
  BY Places, StreamNumbers, <1>4 DEF LoopQuits, Canceled, AfterLoop
<1>5. CASE proc = "up" /\ CloseStream
  BY Places, StreamNumbers, <1>5 DEF CloseStream
<1>6. CASE proc = "up" /\ RunReturns
  BY Places, StreamNumbers, <1>6 DEF RunReturns, ToldToQuit
<1>7. CASE proc = "up" /\ Reconnect
  BY Places, StreamNumbers, <1>7 DEF Reconnect, ToldToQuit
<1>8. CASE proc = "up" /\ Retry
  BY Places, StreamNumbers, <1>8 DEF Retry
<1>9. ASSUME NEW c \in Streams, proc = "up" /\ Decode(c)
      PROVE  GivesUpOnlyRefused'
  BY Places, StreamNumbers, <1>9 DEF Decode, Goto
<1>10. ASSUME NEW c \in Streams, proc = "up" /\ HandleLaunch(c)
      PROVE  GivesUpOnlyRefused'
  BY Places, StreamNumbers, <1>10 DEF HandleLaunch, Goto
<1>11. ASSUME NEW c \in Streams, NEW u \in Updates, proc = "up" /\ HandleAck(c, u)
      PROVE  GivesUpOnlyRefused'
  BY Places, StreamNumbers, <1>11 DEF HandleAck, Goto, Acknowledged
<1>12. ASSUME NEW c \in Streams, proc = "up" /\ HandleError(c)
      PROVE  GivesUpOnlyRefused'
  BY Places, StreamNumbers, <1>12 DEF HandleError, Goto
<1>13. ASSUME NEW c \in Streams, proc = "up" /\ HandleShutdown(c)
      PROVE  GivesUpOnlyRefused'
  BY Places, StreamNumbers, <1>13 DEF HandleShutdown, Goto
<1>14. ASSUME NEW c \in Streams, proc = "up" /\ Deliver(c)
      PROVE  GivesUpOnlyRefused'
  BY Places, StreamNumbers, <1>14 DEF Deliver, Goto, AfterLoop
<1>15. ASSUME NEW g \in {Monitor} \cup Streams, NEW u \in Updates, proc = "up" /\ Send(g, u)
      PROVE  GivesUpOnlyRefused'
  BY Places, StreamNumbers, <1>15 DEF Send, Goto
<1>16. ASSUME NEW g \in {Monitor} \cup Streams, NEW u \in Updates, proc = "up" /\ Record(g, u)
      PROVE  GivesUpOnlyRefused'
  BY Places, StreamNumbers, <1>16 DEF Record, Goto, Kept, MonitorBegins
<1>17. ASSUME NEW g \in {Monitor} \cup Streams, proc = "up" /\ Stop(g)
      PROVE  GivesUpOnlyRefused'
  BY Places, StreamNumbers, <1>17 DEF Stop, Goto
<1>18. CASE proc = "up" /\ RecoveryTimePasses
  BY Places, StreamNumbers, <1>18 DEF RecoveryTimePasses
<1>19. CASE proc = "up" /\ MapRace
  BY Places, StreamNumbers, <1>19 DEF MapRace
<1>20. ASSUME NEW type \in {"LAUNCH", "ERROR", "SHUTDOWN"}, proc = "up" /\ AgentSends(type)
      PROVE  GivesUpOnlyRefused'
  BY Places, StreamNumbers, <1>20 DEF AgentSends, Emit
<1>21. ASSUME NEW u \in Updates, proc = "up" /\ AgentAcks(u)
      PROVE  GivesUpOnlyRefused'
  BY Places, StreamNumbers, <1>21 DEF AgentAcks, Emit
<1>22. CASE proc = "up" /\ StreamBreaks
  BY Places, StreamNumbers, <1>22 DEF StreamBreaks
<1>23. CASE UNCHANGED vars
  BY <1>23 DEF vars
<1>24. QED
  BY <1>1, <1>2, <1>3, <1>4, <1>5, <1>6, <1>7, <1>8, <1>9, <1>10, <1>11,
     <1>12, <1>13, <1>14, <1>15, <1>16, <1>17, <1>18, <1>19, <1>20, <1>21,
     <1>22, <1>23 DEF Next, RunNext, ReaderNext, SenderNext, AgentNext, Ended

\* A launch that is taken from a queue, or lost with it, is not there any more.
LEMMA LaunchTaken ==
  ASSUME NEW S, NEW s \in Seq(S), s # <<>>
  PROVE  /\ HasLaunch(Tail(s)) => HasLaunch(s)
         /\ Head(s) = "LAUNCH" => HasLaunch(s)
         /\ OneLaunch(s) => OneLaunch(Tail(s))
         /\ OneLaunch(s) /\ Head(s) = "LAUNCH" => ~HasLaunch(Tail(s))
<1>1. /\ Len(s) \in Nat \ {0} /\ Len(Tail(s)) = Len(s) - 1 /\ Head(s) = s[1]
      /\ \A i \in 1..Len(Tail(s)) : Tail(s)[i] = s[i + 1]
  BY HeadTailProperties, LenProperties, EmptySeq
<1>2. \A i \in 1..Len(Tail(s)) : i + 1 \in 1..Len(s) /\ i + 1 # 1
  BY <1>1
<1>3. 1 \in 1..Len(s)
  BY <1>1
<1>4. HasLaunch(Tail(s)) => HasLaunch(s)
  BY <1>1, <1>2 DEF HasLaunch
<1>5. Head(s) = "LAUNCH" => HasLaunch(s)
  BY <1>1, <1>3 DEF HasLaunch
<1>6. ASSUME OneLaunch(s) PROVE OneLaunch(Tail(s))
  <2> SUFFICES ASSUME NEW i \in 1..Len(Tail(s)), NEW j \in 1..Len(Tail(s)),
                      Tail(s)[i] = "LAUNCH", Tail(s)[j] = "LAUNCH"
               PROVE  i = j
    BY DEF OneLaunch
  <2>1. i + 1 = j + 1
    BY <1>1, <1>2, <1>6 DEF OneLaunch
  <2>2. i \in Int /\ j \in Int
    BY <1>1
  <2>3. QED
    BY <2>1, <2>2
<1>7. ASSUME OneLaunch(s), Head(s) = "LAUNCH" PROVE ~HasLaunch(Tail(s))
  BY <1>1, <1>2, <1>3, <1>7 DEF OneLaunch, HasLaunch
<1>8. QED
  BY <1>4, <1>5, <1>6, <1>7

LEMMA LaunchLost ==
  ASSUME NEW S, NEW s \in Seq(S), NEW n \in 0..Len(s)
  PROVE  /\ HasLaunch(SubSeq(s, 1, n)) => HasLaunch(s)
         /\ OneLaunch(s) => OneLaunch(SubSeq(s, 1, n))
<1>1. Len(s) \in Nat
  BY LenProperties
<1>2. /\ Len(SubSeq(s, 1, n)) = n
      /\ \A i \in 1..n : i \in 1..Len(s) /\ SubSeq(s, 1, n)[i] = s[i]
  BY <1>1
<1>3. QED
  BY <1>2 DEF HasLaunch, OneLaunch

LEMMA LaunchAdded ==
  ASSUME NEW S, NEW s \in Seq(S), NEW e \in S, OneLaunch(s)
  PROVE  /\ HasLaunch(Append(s, e)) => HasLaunch(s) \/ e = "LAUNCH"
         /\ e # "LAUNCH" \/ ~HasLaunch(s) => OneLaunch(Append(s, e))
<1>1. /\ Len(s) \in Nat /\ Len(Append(s, e)) = Len(s) + 1
      /\ \A i \in 1..Len(s) : Append(s, e)[i] = s[i]
      /\ Append(s, e)[Len(s) + 1] = e
  BY AppendProperties, LenProperties
<1>2. \A i \in 1..Len(s) + 1 : i \in 1..Len(s) \/ i = Len(s) + 1
  BY <1>1
<1>3. QED
  BY <1>1, <1>2 DEF HasLaunch, OneLaunch

\* A step that launches nothing and returns nothing.
LEMMA NothingReported ==
  ASSUME OneReporter, returned' = returned, updates' \subseteq updates,
         events'["LAUNCH"] = events["LAUNCH"],
         \A c \in Streams : /\ OneLaunch(inFlight'[c])
                            /\ HasLaunch(inFlight'[c]) => HasLaunch(inFlight[c]),
         \A g \in Goroutines : /\ at'[g] \in ReportsRunning => at[g] \in ReportsRunning
                               /\ at'[g] \in ReportsFinal => at[g] \in ReportsFinal
  PROVE  OneReporter'
<1>1. \A g \in Goroutines : at'[g] \in ReportsRunning \cup ReportsFinal =>
          at[g] \in ReportsRunning \cup ReportsFinal
  OBVIOUS
<1>2. QED
  BY <1>1 DEF OneReporter

\* The place a goroutine goes to, when it is no place to report from.
LEMMA OneReporterStep ==
  TypeOK /\ OneReporter /\ [Next]_vars => OneReporter'
<1> SUFFICES ASSUME TypeOK, OneReporter, [Next]_vars PROVE OneReporter'
  OBVIOUS
<1> USE DEF mesos, maps, loop, agentFrame
<1> DEFINE Kept1 == /\ returned' = returned /\ updates' \subseteq updates
                    /\ events'["LAUNCH"] = events["LAUNCH"]
           SameQueues == \A c \in Streams : /\ OneLaunch(inFlight'[c])
                                            /\ HasLaunch(inFlight'[c]) => HasLaunch(inFlight[c])
           SamePlaces == \A g \in Goroutines :
                            /\ at'[g] \in ReportsRunning => at[g] \in ReportsRunning
                            /\ at'[g] \in ReportsFinal => at[g] \in ReportsFinal
<1>a. Kept1 /\ SameQueues /\ SamePlaces => OneReporter'
  BY NothingReported
<1>b. UNCHANGED inFlight => SameQueues
  BY DEF OneReporter
<1>c. UNCHANGED at => SamePlaces
  OBVIOUS
<1>d. ASSUME NEW g \in Goroutines, NEW l, at' = [at EXCEPT ![g] = l],
             l \notin ReportsRunning \/ at[g] \in ReportsRunning,
             l \notin ReportsFinal \/ at[g] \in ReportsFinal
      PROVE  SamePlaces
  BY <1>d DEF TypeOK, Goroutines
<1>e. ASSUME UNCHANGED <<returned, updates, events>> PROVE Kept1
  BY <1>e
<1> HIDE DEF Kept1, SameQueues, SamePlaces
<1>1. CASE Offer \/ SubscribeFails \/ LoopQuits \/ RunReturns \/ Reconnect \/ Retry
             \/ RecoveryTimePasses \/ MapRace
  <2>1. UNCHANGED <<inFlight, at, returned, updates, events>>
    BY <1>1 DEF Offer, SubscribeFails, LoopQuits, RunReturns, Reconnect, Retry,
                RecoveryTimePasses, MapRace
  <2>2. QED
    BY <2>1, <1>a, <1>b, <1>c, <1>e
<1>2. CASE Subscribed
  <2>1. /\ stream' \in Goroutines /\ at' = [at EXCEPT ![stream'] = "decode"]
        /\ UNCHANGED <<inFlight, returned, updates, events>>
    BY <1>2, StreamNumbers DEF Subscribed, Goto, TypeOK, Goroutines
  <2>2. SamePlaces
    BY <2>1, <1>d DEF ReportsRunning, ReportsFinal
  <2>3. QED
    BY <2>1, <2>2, <1>a, <1>b, <1>e
<1>3. CASE CloseStream
  <2>1. /\ UNCHANGED <<at, returned, updates, events>>
        /\ inFlight' = [inFlight EXCEPT ![stream] = <<>>]
    BY <1>3 DEF CloseStream
  <2>2. \A c \in Streams : inFlight'[c] = inFlight[c] \/ inFlight'[c] = <<>>
    BY <2>1 DEF TypeOK
  <2>3. OneLaunch(<<>>) /\ ~HasLaunch(<<>>)
    BY EmptySeq DEF OneLaunch, HasLaunch
  <2>4. SameQueues
    BY <2>2, <2>3 DEF SameQueues, OneReporter
  <2>5. QED
    BY <2>1, <2>4, <1>a, <1>c, <1>e
<1>4. ASSUME NEW c \in Streams, Decode(c) PROVE OneReporter'
  <2>1. UNCHANGED <<returned, updates, events>> /\ c \in Goroutines
    BY <1>4 DEF Decode, Goroutines
  <2>2. CASE inFlight[c] = <<>>
    <3>1. at' = [at EXCEPT ![c] = "deliverErr"] /\ UNCHANGED inFlight
      BY <1>4, <2>2 DEF Decode, Goto
    <3>2. SamePlaces
      BY <2>1, <3>1, <1>d DEF ReportsRunning, ReportsFinal
    <3>3. QED
      BY <2>1, <3>1, <3>2, <1>a, <1>b, <1>e
  <2>3. CASE inFlight[c] # <<>>
    <3> DEFINE s == inFlight[c]
    <3>1. /\ at' = [at EXCEPT ![c] = Head(s)]
          /\ inFlight' = [inFlight EXCEPT ![c] = Tail(s)]
          /\ s \in Seq(Events) /\ s # <<>> /\ OneLaunch(s)
      BY <1>4, <2>3 DEF Decode, Goto, TypeOK, OneReporter
    <3>2. /\ inFlight'[c] = Tail(s)
          /\ \A d \in Streams \ {c} : inFlight'[d] = inFlight[d]
          /\ at'[c] = Head(s) /\ \A g \in Goroutines \ {c} : at'[g] = at[g]
      BY <2>1, <3>1 DEF TypeOK, Goroutines
    <3> HIDE DEF s
    <3>3. Head(s) \in Events
      BY <3>1, HeadTailProperties
    <3>4. Head(s) \notin ReportsFinal /\ (Head(s) \in ReportsRunning => Head(s) = "LAUNCH")
      BY <3>3, Places DEF ReportsRunning, ReportsFinal
    <3>5. /\ HasLaunch(Tail(s)) => HasLaunch(s)
          /\ Head(s) = "LAUNCH" => HasLaunch(s) /\ ~HasLaunch(Tail(s))
          /\ OneLaunch(Tail(s))
      BY <3>1, LaunchTaken
    <3>6. SameQueues
      BY <3>2, <3>5 DEF SameQueues, OneReporter, s
    <3>7. CASE Head(s) # "LAUNCH"
      <4>1. SamePlaces
        BY <2>1, <3>1, <3>4, <3>7, <1>d
      <4>2. QED
        BY <2>1, <3>6, <4>1, <1>a, <1>e
    <3>8. CASE Head(s) = "LAUNCH"
      <4>1. /\ HasLaunch(inFlight[c]) /\ ~HasLaunch(inFlight'[c])
            /\ events["LAUNCH"] # 0 /\ returned = {}
            /\ \A g \in Goroutines : at[g] \notin ReportsRunning \cup ReportsFinal
        BY <3>2, <3>5, <3>8 DEF OneReporter, s
      <4>2. \A d \in Streams : ~HasLaunch(inFlight'[d]) /\ OneLaunch(inFlight'[d])
        BY <3>2, <3>5, <4>1 DEF OneReporter
      <4>3. \A g \in Goroutines : /\ at'[g] \in ReportsRunning => g = c
                                  /\ at'[g] \notin ReportsFinal
        BY <3>2, <3>4, <4>1
      <4>4. QED
        BY <2>1, <4>1, <4>2, <4>3 DEF OneReporter
    <3>9. QED
      BY <3>7, <3>8
  <2>4. QED
    BY <2>2, <2>3
<1>5. ASSUME NEW c \in Streams, HandleLaunch(c) PROVE OneReporter'
  <2>1. /\ c \in Goroutines /\ at' = [at EXCEPT ![c] = "sendRUNNING"] /\ at[c] = "LAUNCH"
        /\ UNCHANGED <<inFlight, returned, updates, events>>
    BY <1>5 DEF HandleLaunch, Goto, Goroutines
  <2>2. SamePlaces
    BY <2>1, <1>d DEF ReportsRunning, ReportsFinal
  <2>3. QED
    BY <2>1, <2>2, <1>a, <1>b, <1>e
<1>6. ASSUME NEW c \in Streams, NEW u \in Updates, HandleAck(c, u) PROVE OneReporter'
  <2>1. /\ c \in Goroutines /\ at' = [at EXCEPT ![c] = "deliver"]
        /\ UNCHANGED <<inFlight, returned, events>> /\ updates' \subseteq updates
    BY <1>6 DEF HandleAck, Goto, Goroutines, Acknowledged
  <2>2. SamePlaces
    BY <2>1, <1>d DEF ReportsRunning, ReportsFinal
  <2>3. Kept1
    BY <2>1 DEF Kept1
  <2>4. QED
    BY <2>1, <2>2, <2>3, <1>a, <1>b
<1>7. ASSUME NEW c \in Streams, HandleError(c) \/ HandleShutdown(c) \/ Deliver(c)
      PROVE  OneReporter'
  <2>1. /\ c \in Goroutines
        /\ UNCHANGED <<inFlight, returned, updates, events>>
        /\ \E l \in {"deliverErr", "stop", "decode", "ended"} : at' = [at EXCEPT ![c] = l]
    BY <1>7 DEF HandleError, HandleShutdown, Deliver, Goto, Goroutines
  <2>2. SamePlaces
    BY <2>1, <1>d DEF ReportsRunning, ReportsFinal
  <2>3. QED
    BY <2>1, <2>2, <1>a, <1>b, <1>e
<1>8. ASSUME NEW g \in Goroutines, Stop(g) PROVE OneReporter'
  <2>1. /\ UNCHANGED <<inFlight, returned, updates, events>>
        /\ \E l \in {"deliver", "ended"} : at' = [at EXCEPT ![g] = l]
    BY <1>8 DEF Stop, Goto
  <2>2. SamePlaces
    BY <2>1, <1>d DEF ReportsRunning, ReportsFinal
  <2>3. QED
    BY <2>1, <2>2, <1>a, <1>b, <1>e
<1>9. ASSUME NEW g \in Goroutines, NEW u \in Updates, Send(g, u) PROVE OneReporter'
  <2>1. /\ UNCHANGED <<inFlight, returned, updates, events>> /\ at[g] = Sending[u]
        /\ UNCHANGED at \/ at' = [at EXCEPT ![g] = Sent[u]]
    BY <1>9 DEF Send, Goto
  <2>2. /\ Sent[u] \in ReportsRunning => Sending[u] \in ReportsRunning
        /\ Sent[u] \in ReportsFinal => Sending[u] \in ReportsFinal
    BY Places DEF ReportsRunning, ReportsFinal
  <2>3. SamePlaces
    BY <2>1, <2>2, <1>c, <1>d
  <2>4. QED
    BY <2>1, <2>3, <1>a, <1>b, <1>e
<1>10. ASSUME NEW g \in Goroutines, NEW u \in Updates, Record(g, u) PROVE OneReporter'
  <2>1. /\ UNCHANGED <<inFlight, events>> /\ at[g] = Sent[u]
        /\ returned' = returned \cup {u} /\ updates' = updates \cup {u}
    BY <1>10 DEF Record, Kept
  <2>2. /\ at[g] \in ReportsRunning \cup ReportsFinal
        /\ u = "RUNNING" => at[g] \in ReportsRunning
        /\ u = "FINAL" => at[g] \in ReportsFinal
    BY <2>1, Places DEF ReportsRunning, ReportsFinal
  <2>3. /\ events["LAUNCH"] # 0 /\ updates' \subseteq returned'
        /\ u = "RUNNING" => returned = {}
        /\ \A c \in Streams : ~HasLaunch(inFlight[c]) /\ OneLaunch(inFlight[c])
        /\ \A h \in Goroutines : at[h] \in ReportsRunning \cup ReportsFinal => h = g
    BY <2>1, <2>2, Places DEF OneReporter
  <2>4. CASE \E l \in {"stop", "deliver"} : at' = [at EXCEPT ![g] = l]
    <3>1. \A h \in Goroutines : at'[h] \notin ReportsRunning \cup ReportsFinal
      BY <2>3, <2>4 DEF ReportsRunning, ReportsFinal, TypeOK, Goroutines
    <3>2. QED
      BY <2>1, <2>3, <3>1 DEF OneReporter
  <2>5. CASE u = "RUNNING" /\ at' = [at EXCEPT ![g] = "sendFINAL"]
    <3>1. \A h \in Goroutines : /\ at'[h] \notin ReportsRunning
                                /\ at'[h] \in ReportsFinal => h = g
      BY <2>3, <2>5 DEF ReportsRunning, ReportsFinal, TypeOK, Goroutines
    <3>2. QED
      BY <2>1, <2>3, <2>5, <3>1 DEF OneReporter
  <2>6. CASE u = "RUNNING" /\ at' = [at EXCEPT ![g] = "deliver", ![Monitor] = "sendFINAL"]
    <3>1. \A h \in Goroutines : /\ at'[h] \notin ReportsRunning
                                /\ at'[h] \in ReportsFinal => h = Monitor
      BY <2>3, <2>6 DEF ReportsRunning, ReportsFinal, TypeOK, Goroutines
    <3>2. QED
      BY <2>1, <2>3, <2>6, <3>1 DEF OneReporter
  <2>7. QED
    BY <1>10, <2>4, <2>5, <2>6 DEF Record, Goto, MonitorBegins
<1>11. ASSUME NEW type \in {"LAUNCH", "ERROR", "SHUTDOWN"}, AgentSends(type)
       PROVE  OneReporter'
  <2> DEFINE s == inFlight[stream]
  <2>1. /\ UNCHANGED <<at, returned, updates>> /\ stream \in Streams
        /\ events' = [events EXCEPT ![type] = @ + 1]
        /\ inFlight' = [inFlight EXCEPT ![stream] = Append(s, type)]
        /\ s \in Seq(Events) /\ type \in Events /\ OneLaunch(s)
    BY <1>11, StreamNumbers, Places DEF AgentSends, Connected, Emit, TypeOK, OneReporter
  <2>2. /\ inFlight'[stream] = Append(s, type)
        /\ \A d \in Streams \ {stream} : inFlight'[d] = inFlight[d]
    BY <2>1 DEF TypeOK
  <2>3. /\ HasLaunch(Append(s, type)) => HasLaunch(s) \/ type = "LAUNCH"
        /\ type # "LAUNCH" \/ ~HasLaunch(s) => OneLaunch(Append(s, type))
    <3> HIDE DEF s
    <3>1. QED
      BY <2>1, LaunchAdded
  <2>4. CASE type # "LAUNCH"
    <3>1. events'["LAUNCH"] = events["LAUNCH"]
      BY <2>1, <2>4 DEF TypeOK
    <3>2. Kept1
      BY <2>1, <3>1 DEF Kept1
    <3>3. SameQueues
      BY <2>2, <2>3, <2>4 DEF SameQueues, OneReporter
    <3>4. QED
      BY <2>1, <3>2, <3>3, <1>a, <1>c
  <2>5. CASE type = "LAUNCH"
    <3>1. events["LAUNCH"] = 0 /\ events'["LAUNCH"] # 0
      BY <1>11, <2>1, <2>5 DEF AgentSends, TypeOK
    <3>2. /\ returned = {}
          /\ \A c \in Streams : ~HasLaunch(inFlight[c])
          /\ \A g \in Goroutines : at[g] \notin ReportsRunning \cup ReportsFinal
      BY <3>1 DEF OneReporter
    <3>3. \A c \in Streams : /\ OneLaunch(inFlight'[c])
                             /\ HasLaunch(inFlight'[c]) => c = stream
      BY <2>2, <2>3, <3>2 DEF OneReporter
    <3> HIDE DEF s
    <3>4. updates \subseteq returned
      BY DEF OneReporter
    <3>5. QED
      BY <2>1, <3>1, <3>2, <3>3, <3>4 DEF OneReporter
  <2>6. QED
    BY <2>4, <2>5
<1>12. ASSUME NEW u \in Updates, AgentAcks(u) PROVE OneReporter'
  <2> DEFINE s == inFlight[stream]
  <2>1. /\ UNCHANGED <<at, returned, updates, events>> /\ stream \in Streams
        /\ inFlight' = [inFlight EXCEPT ![stream] = Append(s, Ack[u])]
        /\ s \in Seq(Events) /\ Ack[u] \in Events /\ OneLaunch(s) /\ Ack[u] # "LAUNCH"
    BY <1>12, StreamNumbers, Places DEF AgentAcks, Connected, Emit, TypeOK, OneReporter
  <2>2. /\ inFlight'[stream] = Append(s, Ack[u])
        /\ \A d \in Streams \ {stream} : inFlight'[d] = inFlight[d]
    BY <2>1 DEF TypeOK
  <2>3. /\ HasLaunch(Append(s, Ack[u])) => HasLaunch(s)
        /\ OneLaunch(Append(s, Ack[u]))
    <3> HIDE DEF s
    <3>1. QED
      BY <2>1, LaunchAdded
  <2>4. SameQueues
    BY <2>2, <2>3 DEF SameQueues, OneReporter
  <2>5. QED
    BY <2>1, <2>4, <1>a, <1>c, <1>e
<1>13. CASE StreamBreaks
  <2> DEFINE s == inFlight[stream]
  <2>1. UNCHANGED <<at, returned, updates, events>> /\ stream \in Streams
    BY <1>13, StreamNumbers DEF StreamBreaks, Connected, TypeOK
  <2>2. PICK n \in 0..Len(s) : inFlight' = [inFlight EXCEPT ![stream] = SubSeq(s, 1, n)]
    BY <1>13 DEF StreamBreaks
  <2>3. /\ inFlight'[stream] = SubSeq(s, 1, n)
        /\ \A d \in Streams \ {stream} : inFlight'[d] = inFlight[d]
        /\ s \in Seq(Events) /\ OneLaunch(s)
    BY <2>1, <2>2 DEF TypeOK, OneReporter
  <2>4. /\ HasLaunch(SubSeq(s, 1, n)) => HasLaunch(s)
        /\ OneLaunch(SubSeq(s, 1, n))
    <3> HIDE DEF s
    <3>1. QED
      BY <2>2, <2>3, LaunchLost
  <2>5. SameQueues
    BY <2>3, <2>4 DEF SameQueues, OneReporter
  <2>6. QED
    BY <2>1, <2>5, <1>a, <1>c, <1>e
<1>14. CASE UNCHANGED vars
  <2>1. UNCHANGED <<inFlight, at, returned, updates, events>>
    BY <1>14 DEF vars
  <2>2. QED
    BY <2>1, <1>a, <1>b, <1>c, <1>e
<1>15. QED
  BY <1>1, <1>2, <1>3, <1>4, <1>5, <1>6, <1>7, <1>8, <1>9, <1>10, <1>11, <1>12, <1>13, <1>14
     DEF Next, RunNext, ReaderNext, SenderNext, AgentNext, Ended, Goroutines

-----------------------------------------------------------------------------
(* Theorems *)

\* The invariant holds at first.
LEMMA InitIndInv == Init => IndInv
<1> SUFFICES ASSUME Init PROVE IndInv
  OBVIOUS
<1>1. TypeOK
  <2>1. inFlight \in [Streams -> Seq(Events)]
    BY EmptySeq DEF Init
  <2>2. /\ at \in [{Monitor} \cup Streams -> {"none"}]
        /\ open \in [Streams -> BOOLEAN] /\ stream \in 0..MaxStreams
        /\ events \in [{"LAUNCH", "ERROR", "SHUTDOWN"} -> Nat]
        /\ offer \in [task : BOOLEAN, updates : SUBSET Updates]
    BY StreamNumbers DEF Init
  <2>3. QED
    BY <2>1, <2>2 DEF Init, TypeOK
<1>2. OnlySendable
  BY Places, EmptySeq DEF Init, OnlySendable
<1>3. OneStream /\ UnacknowledgedKept /\ LateOnlyRefused
  BY StreamNumbers DEF Init, OneStream, UnacknowledgedKept, LateOnlyRefused
<1>4. Turns
  BY StreamNumbers DEF Init, Turns, Done
<1>5. Knows /\ MapRaceNeedsMonitor /\ GivesUpOnlyRefused
  BY DEF Init, Knows, MapRaceNeedsMonitor, GivesUpOnlyRefused
<1>6. OneReporter
  <2>1. OneLaunch(<<>>) /\ ~HasLaunch(<<>>)
    BY EmptySeq DEF OneLaunch, HasLaunch
  <2>2. /\ \A c \in Streams : inFlight[c] = <<>>
        /\ \A g \in Goroutines : at[g] = "none"
        /\ returned = {} /\ updates = {}
    BY DEF Init, Goroutines
  <2>3. QED
    BY <2>1, <2>2 DEF OneReporter, ReportsRunning, ReportsFinal
<1>7. QED
  BY <1>1, <1>2, <1>3, <1>4, <1>5, <1>6 DEF IndInv

\* The invariant holds in every reachable state.
THEOREM DriverInvariant == Spec => []IndInv
<1>1. IndInv /\ [Next]_vars => IndInv'
  BY TypeOKStep, OneStreamStep, UnacknowledgedKeptStep, OnlySendableStep,
     TurnsStep, KnowsStep, LateOnlyRefusedStep, MapRaceNeedsMonitorStep,
     GivesUpOnlyRefusedStep, OneReporterStep
     DEF IndInv
<1>2. QED
  BY <1>1, InitIndInv, PTL DEF Spec

\* Type correctness; the monitor sends nothing but the terminal update.
THEOREM TypeCorrect == Spec => []TypeOK
<1>1. IndInv => TypeOK
  BY DEF IndInv
<1>2. QED
  BY <1>1, DriverInvariant, PTL

\* However many streams are lost, what SendStatusUpdate has returned from stays
\* in unackedUpdates until its acknowledgement is handled.
THEOREM UpdatesKept == Spec => []UnacknowledgedKept
<1>1. IndInv => UnacknowledgedKept
  BY DEF IndInv
<1>2. QED
  BY <1>1, DriverInvariant, PTL

\* The readers of any number of streams take turns, unless an ERROR event ended
\* a loop whose stream was alive.
THEOREM HandlersTakeTurns == Spec => []TwoHandlersOnlyAfterError
<1>1. ASSUME IndInv, NEW c \in Streams, NEW d \in Streams,
             at[c] \in Senders \cup Events, at[d] \in Senders \cup Events, NoError
      PROVE  c = d
  BY <1>1, Busy DEF IndInv
<1>2. IndInv => TwoHandlersOnlyAfterError
  <2> SUFFICES ASSUME IndInv, NEW c \in Streams, NEW d \in Streams, c # d,
                      at[c] \in Senders \cup Events, at[d] \in Senders \cup Events
               PROVE  events["ERROR"] > 0
    BY DEF TwoHandlersOnlyAfterError
  <2>1. ~NoError
    BY <1>1
  <2>2. events["ERROR"] \in Nat
    BY DEF IndInv, TypeOK
  <2>3. QED
    BY <2>1, <2>2 DEF NoError
<1>3. QED
  BY <1>2, DriverInvariant, PTL

\* The unlocked maps are touched by one goroutine at a time until the monitor
\* sends its update, unless there was an ERROR event.
THEOREM MapsSafeUntilMonitor == Spec => []MapRaceNeedsMonitor
<1>1. IndInv => MapRaceNeedsMonitor
  BY DEF IndInv
<1>2. QED
  BY <1>1, DriverInvariant, PTL

\* Whenever the driver reads from a stream, the agent has the RUNNING update.
THEOREM AgentKnowsRunning == Spec => []AgentHasRunning
<1>1. IndInv => AgentHasRunning
  BY DEF IndInv, Knows, NoError, AgentHasRunning
<1>2. QED
  BY <1>1, DriverInvariant, PTL

\* Run gives up only on an agent that refused to be subscribed to.
THEOREM GivesUpRefused == Spec => []GivesUpOnlyRefused
<1>1. IndInv => GivesUpOnlyRefused
  BY DEF IndInv
<1>2. QED
  BY <1>1, DriverInvariant, PTL

-----------------------------------------------------------------------------
(* The refinement *)

\* What UpdateDelivery does not see.
Silent == UNCHANGED <<Link, offer.updates, known, saved, Calls, returned, acked>>

Delivers == [Delivery!Next]_(Delivery!vars)

LEMMA SilentDelivers == Silent => Delivers
BY DEF Silent, Delivers, Delivery!vars

\* The link is as far as Run is.
LEMMA LinkIs ==
  ASSUME TypeOK, OneStream
  PROVE  /\ run = "send" => Link = "asking"
         /\ run # "send" /\ Connected => Link = "on"
         /\ run # "send" /\ ~Connected => Link = "off"
         /\ Connected => run \in {"loop", "close"} /\ Link = "on"
<1>1. Connected => run \in {"loop", "close"}
  BY StreamNumbers DEF Connected, OneStream, TypeOK
<1>2. QED
  BY <1>1 DEF Link

\* A goroutine that goes from one place to another makes no call, or ends none.
LEMMA CallsKept ==
  ASSUME TypeOK, NEW g \in Goroutines, NEW l, at' = [at EXCEPT ![g] = l],
         at[g] \notin {"sentRUNNING", "sentFINAL"}, l \notin {"sentRUNNING", "sentFINAL"}
  PROVE  Calls' = Calls
<1>1. \A h \in Goroutines : \A u \in Updates : at'[h] = Sent[u] <=> at[h] = Sent[u]
  BY Places DEF TypeOK, Goroutines
<1>2. QED
  BY <1>1 DEF Calls, Goroutines

\* Run's own steps: it asks, is refused or subscribed, and leaves a stream.
LEMMA RunDelivers ==
  ASSUME IndInv, RunNext \/ RecoveryTimePasses \/ MapRace
  PROVE  Delivers
<1> USE DEF mesos, maps, loop
<1>0. TypeOK /\ OneStream /\ UnacknowledgedKept /\ OneReporter
  BY DEF IndInv
<1>1. CASE Offer
  <2>1. /\ run = "subscribe" /\ run' = "send" /\ offer'.updates = updates
        /\ UNCHANGED <<known, saved, at, returned, acked>>
    BY <1>1 DEF Offer
  <2>2. Link = "off" /\ Link' = "asking" /\ Calls' = Calls
    BY <1>0, <2>1, LinkIs DEF Link, Calls
  <2>3. updates \in SUBSET returned /\ returned \ acked \subseteq updates
    BY <1>0 DEF OneReporter, UnacknowledgedKept
  <2>4. Delivery!Ask
    BY <2>1, <2>2, <2>3 DEF Delivery!Ask
  <2>5. QED
    BY <2>4 DEF Delivers, Delivery!Next
<1>2. CASE SubscribeFails
  <2>1. /\ run = "send" /\ run' = "check"
        /\ UNCHANGED <<stream, open, offer, known, saved, at, returned, acked>>
    BY <1>2 DEF SubscribeFails
  <2>2. ~Connected
    BY <1>0, <2>1, LinkIs
  <2>3. Link = "asking" /\ Link' = "off" /\ Calls' = Calls
    BY <2>1, <2>2 DEF Link, Calls, Connected
  <2>4. Delivery!Refused
    BY <2>1, <2>3 DEF Delivery!Refused
  <2>5. QED
    BY <2>4 DEF Delivers, Delivery!Next
<1>3. CASE Subscribed
  <2>1. /\ run = "send" /\ run' = "loop" /\ stream' = stream + 1 /\ stream' \in Streams
        /\ at' = [at EXCEPT ![stream'] = "decode"]
        /\ open' = [open EXCEPT ![stream'] = TRUE] /\ known' = known \cup offer.updates
        /\ UNCHANGED <<offer, saved, returned, acked>>
    BY <1>0, <1>3, StreamNumbers DEF Subscribed, Goto, TypeOK
  <2>2. Link = "asking" /\ Link' = "on"
    BY <1>0, <2>1, StreamNumbers DEF Link, Connected, TypeOK
  <2>3. at[stream'] = "none"
    BY <1>0, <2>1 DEF OneStream, TypeOK
  <2>4. Calls' = Calls
    BY <1>0, <2>1, <2>3, CallsKept DEF Goroutines
  <2>5. Delivery!Subscribed
    BY <2>1, <2>2, <2>4 DEF Delivery!Subscribed
  <2>6. QED
    BY <2>5 DEF Delivers, Delivery!Next
<1>4. CASE LoopQuits \/ RunReturns \/ Reconnect \/ Retry \/ RecoveryTimePasses \/ MapRace
  <2>1. /\ UNCHANGED <<stream, open, offer, known, saved, at, returned, acked>>
        /\ run' = "send" <=> run = "send"
    BY <1>4 DEF LoopQuits, RunReturns, Reconnect, Retry, RecoveryTimePasses, MapRace
  <2>2. Silent
    BY <2>1 DEF Silent, Link, Connected, Calls
  <2>3. QED
    BY <2>2, SilentDelivers
<1>5. CASE CloseStream
  <2>1. /\ run = "close" /\ run' = "check" /\ open' = [open EXCEPT ![stream] = FALSE]
        /\ UNCHANGED <<stream, offer, known, saved, at, returned, acked>>
    BY <1>5 DEF CloseStream
  <2>2. Link' = "off" /\ Calls' = Calls
    BY <1>0, <2>1, StreamNumbers DEF Link, Connected, Calls, TypeOK, OneStream
  <2>3. CASE Connected
    <3>1. Delivery!Lost
      BY <1>0, <2>1, <2>2, <2>3, LinkIs DEF Delivery!Lost
    <3>2. QED
      BY <3>1 DEF Delivers, Delivery!Next
  <2>4. CASE ~Connected
    <3>1. Silent
      BY <1>0, <2>1, <2>2, <2>4, LinkIs DEF Silent
    <3>2. QED
      BY <3>1, SilentDelivers
  <2>5. QED
    BY <2>3, <2>4
<1>6. QED
  BY <1>1, <1>2, <1>3, <1>4, <1>5 DEF RunNext

\* A reader confirms what the agent has saved; its other steps are silent.
LEMMA ReaderDelivers ==
  ASSUME IndInv, NEW c \in Streams, ReaderNext(c)
  PROVE  Delivers
<1> USE DEF mesos, maps, loop
<1>0. TypeOK /\ OneStream /\ OnlySendable /\ c \in Goroutines
  BY DEF IndInv, Goroutines
<1>1. ASSUME NEW u \in Updates, HandleAck(c, u) PROVE Delivers
  <2>1. /\ at[c] = Ack[u] /\ at' = [at EXCEPT ![c] = "deliver"] /\ acked' = acked \cup {u}
        /\ UNCHANGED <<run, stream, open, offer, known, saved, returned>>
    BY <1>1 DEF HandleAck, Goto
  <2>2. u \in saved
    BY <1>0, <1>1, AckedSaved
  <2>3. Link' = Link
    BY <2>1 DEF Link, Connected
  <2>4. Calls' = Calls
    BY <1>0, <2>1, Places, CallsKept
  <2>5. Delivery!Confirm(u)
    BY <2>1, <2>2, <2>3, <2>4 DEF Delivery!Confirm
  <2>6. QED
    BY <2>5 DEF Delivers, Delivery!Next, Delivery!Updates, Updates
<1>2. CASE Decode(c)
  <2>1. /\ at[c] = "decode" /\ UNCHANGED <<run, stream, open, offer, known, saved, returned, acked>>
    BY <1>2 DEF Decode
  <2>2. at' = [at EXCEPT ![c] = at'[c]] /\ at'[c] \in Events \cup {"deliverErr"}
    BY <1>0, <1>2, QueueDecode DEF TypeOK
  <2>3. Calls' = Calls
    BY <1>0, <2>1, <2>2, Places, CallsKept
  <2>4. Silent
    BY <2>1, <2>3 DEF Silent, Link, Connected
  <2>5. QED
    BY <2>4, SilentDelivers
<1>3. CASE HandleLaunch(c) \/ HandleError(c) \/ HandleShutdown(c) \/ Deliver(c)
  <2>1. /\ at[c] \in {"LAUNCH", "ERROR", "SHUTDOWN", "deliver", "deliverErr"}
        /\ \E l \in {"sendRUNNING", "deliverErr", "stop", "decode", "ended"} :
              at' = [at EXCEPT ![c] = l]
        /\ run' = run \/ (run = "loop" /\ run' = "close")
        /\ UNCHANGED <<stream, open, offer, known, saved, returned, acked>>
    BY <1>3 DEF HandleLaunch, HandleError, HandleShutdown, Deliver, Goto
  <2>2. Calls' = Calls
    BY <1>0, <2>1, CallsKept
  <2>3. Silent
    BY <2>1, <2>2 DEF Silent, Link, Connected
  <2>4. QED
    BY <2>3, SilentDelivers
<1>4. QED
  BY <1>1, <1>2, <1>3 DEF ReaderNext

\* Whoever sends an update tells the agent, and returns.
LEMMA SenderDelivers ==
  ASSUME IndInv, NEW g \in Goroutines, SenderNext(g)
  PROVE  Delivers
<1> USE DEF mesos, maps, loop
<1>0. TypeOK /\ OneReporter
  BY DEF IndInv
<1>1. ASSUME NEW u \in Updates, Send(g, u) PROVE Delivers
  <2>1. /\ at[g] = Sending[u] /\ UNCHANGED <<run, stream, open, offer, saved, returned, acked>>
        /\ \/ known' = known \cup {u} /\ at' = [at EXCEPT ![g] = Sent[u]]
           \/ known' \in {known, known \cup {u}} /\ UNCHANGED at
    BY <1>1 DEF Send, Goto
  <2>2. Link' = Link
    BY <2>1 DEF Link, Connected
  <2>3. returned = (IF u = "RUNNING" THEN {} ELSE {"RUNNING"})
    BY <1>0, <2>1, Places DEF OneReporter, ReportsRunning, ReportsFinal
  <2>4. \A h \in Goroutines : \A v \in Updates : at[h] # Sent[v]
    BY <1>0, <2>1, Places DEF OneReporter, ReportsRunning, ReportsFinal
  <2>5. Calls = {}
    BY <2>4 DEF Calls, Goroutines
  <2>6. CASE known' = known \cup {u} /\ at' = [at EXCEPT ![g] = Sent[u]]
    <3>1. \A h \in Goroutines : \A v \in Updates : at'[h] = Sent[v] <=> h = g /\ v = u
      BY <1>0, <2>4, <2>6, Places DEF TypeOK, Goroutines
    <3>2. Calls' = {u}
      BY <3>1 DEF Calls, Goroutines
    <3>3. Delivery!Tell(u)
      BY <2>1, <2>2, <2>3, <2>5, <2>6, <3>2 DEF Delivery!Tell
    <3>4. QED
      BY <3>3 DEF Delivers, Delivery!Next, Delivery!Updates, Updates
  <2>7. CASE known' = known \cup {u} /\ UNCHANGED at
    <3>1. Calls' = {}
      BY <2>5, <2>7 DEF Calls
    <3>2. Delivery!Tell(u)
      BY <2>1, <2>2, <2>3, <2>5, <2>7, <3>1 DEF Delivery!Tell
    <3>3. QED
      BY <3>2 DEF Delivers, Delivery!Next, Delivery!Updates, Updates
  <2>8. CASE UNCHANGED <<known, at>>
    <3>1. Silent
      BY <2>1, <2>2, <2>8 DEF Silent, Calls
    <3>2. QED
      BY <3>1, SilentDelivers
  <2>9. QED
    BY <2>1, <2>6, <2>7, <2>8
<1>2. ASSUME NEW u \in Updates, Record(g, u) PROVE Delivers
  <2>1. /\ at[g] = Sent[u] /\ returned' = returned \cup {u}
        /\ UNCHANGED <<run, stream, open, offer, known, saved, acked>>
    BY <1>2 DEF Record
  <2>2. Link' = Link
    BY <2>1 DEF Link, Connected
  <2>3. \A h \in Goroutines : \A v \in Updates : at[h] = Sent[v] <=> h = g /\ v = u
    BY <1>0, <2>1, Places DEF OneReporter, ReportsRunning, ReportsFinal
  <2>4. \A h \in Goroutines : \A v \in Updates : at'[h] # Sent[v]
    <3>1. \A h \in Goroutines : at'[h] \in {at[h], "stop", "sendFINAL", "deliver"}
      BY <1>0, <1>2 DEF Record, Goto, MonitorBegins, TypeOK, Goroutines
    <3>2. at'[g] \in {"stop", "sendFINAL", "deliver"}
      BY <1>0, <1>2, StreamNumbers DEF Record, Goto, MonitorBegins, TypeOK, Goroutines
    <3>3. QED
      BY <2>3, <3>1, <3>2, Places
  <2>5. Calls = {u} /\ Calls' = {}
    BY <2>3, <2>4 DEF Calls, Goroutines
  <2>6. Delivery!Return(u)
    BY <2>1, <2>2, <2>5 DEF Delivery!Return
  <2>7. QED
    BY <2>6 DEF Delivers, Delivery!Next, Delivery!Updates, Updates
<1>3. CASE Stop(g)
  <2>1. /\ at[g] = "stop" /\ \E l \in {"ended", "deliver"} : at' = [at EXCEPT ![g] = l]
        /\ UNCHANGED <<run, stream, open, offer, known, saved, returned, acked>>
    BY <1>3 DEF Stop, Goto
  <2>2. Calls' = Calls
    BY <1>0, <2>1, CallsKept
  <2>3. Silent
    BY <2>1, <2>2 DEF Silent, Link, Connected
  <2>4. QED
    BY <2>3, SilentDelivers
<1>4. QED
  BY <1>1, <1>2, <1>3 DEF SenderNext

\* The agent saves what it has heard before it acknowledges it.
LEMMA AgentDelivers ==
  ASSUME IndInv, AgentNext
  PROVE  Delivers
<1> USE DEF mesos, maps, loop, agentFrame
<1>0. TypeOK /\ OneStream
  BY DEF IndInv
<1>1. ASSUME NEW type \in {"LAUNCH", "ERROR", "SHUTDOWN"}, AgentSends(type) PROVE Delivers
  <2>1. UNCHANGED <<run, stream, open, offer, known, saved, at, returned, acked>>
    BY <1>1 DEF AgentSends
  <2>2. Silent
    BY <2>1 DEF Silent, Link, Connected, Calls
  <2>3. QED
    BY <2>2, SilentDelivers
<1>2. ASSUME NEW u \in Updates, AgentAcks(u) PROVE Delivers
  <2>1. /\ Connected /\ u \in known /\ saved' = saved \cup {u}
        /\ UNCHANGED <<run, stream, open, offer, known, at, returned, acked>>
    BY <1>2 DEF AgentAcks
  <2>2. Link = "on" /\ Link' = Link /\ Calls' = Calls
    <3>1. Link = "on"
      BY <1>0, <2>1, LinkIs
    <3>2. QED
      BY <2>1, <3>1 DEF Link, Connected, Calls
  <2>3. Delivery!Save(u)
    BY <2>1, <2>2 DEF Delivery!Save
  <2>4. QED
    BY <2>3 DEF Delivers, Delivery!Next, Delivery!Updates, Updates
<1>3. CASE StreamBreaks
  <2>1. /\ Connected /\ open' = [open EXCEPT ![stream] = FALSE] /\ known' \in {known, saved}
        /\ UNCHANGED <<run, stream, offer, saved, at, returned, acked>>
    BY <1>3 DEF StreamBreaks
  <2>2. Link = "on" /\ run # "send"
    BY <1>0, <2>1, LinkIs
  <2>3. Link' = "off" /\ Calls' = Calls
    BY <1>0, <2>1, <2>2, StreamNumbers DEF Link, Connected, Calls, TypeOK
  <2>4. Delivery!Lost
    BY <2>1, <2>2, <2>3 DEF Delivery!Lost
  <2>5. QED
    BY <2>4 DEF Delivers, Delivery!Next
<1>4. QED
  BY <1>1, <1>2, <1>3 DEF AgentNext

\* Whatever streams are lost and whoever restarts, the agent hears of each
\* update in its turn, and all that it has not acknowledged is offered again.
THEOREM DeliveryRefined == Spec => ImplementsDelivery
<1>1. Init => Delivery!Init
  <2> SUFFICES ASSUME Init PROVE Delivery!Init
    OBVIOUS
  <2>1. /\ run = "subscribe" /\ stream = 0 /\ offer.updates = {} /\ known = {} /\ saved = {}
        /\ returned = {} /\ acked = {} /\ \A g \in Goroutines : at[g] = "none"
    BY DEF Init, Goroutines
  <2>2. Link = "off"
    BY <2>1 DEF Link, Connected
  <2>3. Calls = {}
    BY <2>1, Places DEF Calls, Goroutines
  <2>4. QED
    BY <2>1, <2>2, <2>3 DEF Delivery!Init
<1>2. IndInv /\ [Next]_vars => Delivers
  <2>1. CASE UNCHANGED vars
    <3>1. Silent
      BY <2>1 DEF vars, mesos, maps, loop, Silent, Link, Connected, Calls
    <3>2. QED
      BY <3>1, SilentDelivers
  <2>2. QED
    BY <2>1, RunDelivers, ReaderDelivers, SenderDelivers, AgentDelivers
       DEF Next, Ended, Goroutines
<1>3. QED
  BY <1>1, <1>2, DriverInvariant, PTL
     DEF Spec, ImplementsDelivery, Delivery!Spec, Delivers

=============================================================================
