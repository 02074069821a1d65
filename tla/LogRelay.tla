------------------------------ MODULE LogRelay ------------------------------
(***************************************************************************)
(* relayLogs: the container's output on its way to syslog.  Docker's       *)
(* client copies the frames of the log, in the order Docker has them, into *)
(* one of two pipes; each pipe has a scanner that puts lines together and  *)
(* sends them on.  A pipe holds nothing: a write returns when the scanner  *)
(* has read it all, and nobody closes a pipe, at either end.               *)
(*                                                                         *)
(* A frame is a piece of a line of one stream, and may end it.  It is      *)
(* named after its place in Docker's log.                                  *)
(***************************************************************************)
EXTENDS Integers, SequencesExt

CONSTANTS
    MaxFrames,     \* bound on the frames a container writes
    LineLimit,     \* frames the buffer of a scanner holds
    StartupOnly    \* RelaySyslogStartupOnly

ASSUME RelayAssumption ==
    /\ {MaxFrames, LineLimit} \subseteq Nat \ {0}
    /\ StartupOnly \in BOOLEAN

Streams == {"stdout", "stderr"}

Frames == [stream : Streams, eol : BOOLEAN]

VARIABLES
    log,        \* the container's log in Docker
    running,    \* the container is
    relay,      \* where relayLogs is; "fatal" ends the process
    pump,       \* where Docker's client is with the frame "next"
    next,
    scanner,    \* where each stream's handleOneStream is
    buf,        \* frames in each scanner's buffer
    lines,      \* lines each scanner has sent to syslog
    quit,       \* quitChan is closed
    late        \* history: lines sent since then

docker == <<log, running>>
pumped == <<pump, next>>
scans  == <<scanner, buf, lines, late>>

vars == <<docker, relay, pumped, scans, quit>>

Init ==
    /\ log = <<>> /\ running = TRUE
    /\ relay = "configure"
    /\ pump = "none" /\ next = 1
    /\ scanner = [s \in Streams |-> "none"]
    /\ buf = [s \in Streams |-> <<>>]
    /\ lines = [s \in Streams |-> <<>>]
    /\ quit = FALSE
    /\ late = [s \in Streams |-> 0]

-----------------------------------------------------------------------------
(* The container and Docker *)

Write(f) ==
    /\ running /\ Len(log) < MaxFrames
    /\ log' = Append(log, f)
    /\ UNCHANGED <<running, relay, pumped, scans, quit>>

ContainerExits ==
    /\ running
    /\ running' = FALSE
    /\ UNCHANGED <<log, relay, pumped, scans, quit>>

-----------------------------------------------------------------------------
(* relayLogs *)

\* The syslog hook, then one goroutine for Docker's log and one for each pipe.
StartRelay ==
    /\ relay = "configure"
    /\ relay' = "wait"
    /\ pump' = "read"
    /\ scanner' = [s \in Streams |-> "scan"]
    /\ UNCHANGED <<docker, next, buf, lines, late, quit>>

\* Without the hook log.Fatalf ends the process.
StartFails ==
    /\ relay = "configure"
    /\ relay' = "fatal"
    /\ UNCHANGED <<docker, pumped, scans, quit>>

RelayLeaves ==
    /\ relay = "wait" /\ quit
    /\ relay' = "left"
    /\ UNCHANGED <<docker, pumped, scans, quit>>

\* FollowLogs: the next frame is written into its pipe ...
PumpNext ==
    /\ pump = "read" /\ next <= Len(log)
    /\ pump' = "write"
    /\ UNCHANGED <<docker, relay, next, scans, quit>>

\* ... until the container has exited and all was copied.
PumpEnds ==
    /\ pump = "read" /\ ~running /\ next > Len(log)
    /\ pump' = "ended"
    /\ UNCHANGED <<docker, relay, next, scans, quit>>

\* Logs returns an error, which is only logged.
PumpFails ==
    /\ pump = "read"
    /\ pump' = "failed"
    /\ UNCHANGED <<docker, relay, next, scans, quit>>

-----------------------------------------------------------------------------
(* handleOneStream *)

\* Mutant: the buffer is looked at before the frame is added to it.
ScanOneMore(s) ==
    /\ scanner[s] = "scan"
    /\ pump = "write" /\ log[next].stream = s
    /\ buf' = [buf EXCEPT ![s] = Append(@, next)]
    /\ scanner' = [scanner EXCEPT ![s] =
                      IF log[next].eol THEN "check"
                      ELSE IF Len(buf[s]) >= LineLimit THEN "ended" ELSE "scan"]
    /\ pump' = "read" /\ next' = next + 1
    /\ UNCHANGED <<docker, relay, lines, late, quit>>

\* scanner.Scan reads the frame in the pipe.  A buffer that is full without
\* an end of line ends the scanner, perhaps in the middle of the frame.
Scan(s) ==
    /\ scanner[s] = "scan"
    /\ pump = "write" /\ log[next].stream = s
    /\ buf' = [buf EXCEPT ![s] = Append(@, next)]
    /\ LET tooLong == ~log[next].eol /\ Len(buf[s]) + 1 >= LineLimit IN
         /\ scanner' = [scanner EXCEPT ![s] =
                          IF log[next].eol THEN "check"
                          ELSE IF tooLong THEN "ended" ELSE "scan"]
         /\ \/ pump' = "read" /\ next' = next + 1
            \/ tooLong /\ UNCHANGED pumped
    /\ UNCHANGED <<docker, relay, lines, late, quit>>

\* Mutant: the scanner does not look at quitChan.
CheckNothing(s) ==
    /\ scanner[s] = "check"
    /\ scanner' = [scanner EXCEPT ![s] = "send"]
    /\ UNCHANGED <<docker, relay, pumped, buf, lines, late, quit>>

\* The line in hand is dropped once quitChan is closed.
Check(s) ==
    /\ scanner[s] = "check"
    /\ scanner' = [scanner EXCEPT ![s] = IF quit THEN "ended" ELSE "send"]
    /\ UNCHANGED <<docker, relay, pumped, buf, lines, late, quit>>

\* Mutant: the text of the line before is kept.
SendAgain(s) ==
    /\ scanner[s] = "send"
    /\ lines' = [lines EXCEPT ![s] = Append(@, buf[s])]
    /\ scanner' = [scanner EXCEPT ![s] = "scan"]
    /\ late' = [late EXCEPT ![s] = IF quit THEN @ + 1 ELSE @]
    /\ UNCHANGED <<docker, relay, pumped, buf, quit>>

\* Mutant: a line on stderr ends its scanner.
SendAndStop(s) ==
    /\ scanner[s] = "send"
    /\ lines' = [lines EXCEPT ![s] = Append(@, buf[s])]
    /\ buf' = [buf EXCEPT ![s] = <<>>]
    /\ scanner' = [scanner EXCEPT ![s] = IF s = "stderr" THEN "ended" ELSE "scan"]
    /\ late' = [late EXCEPT ![s] = IF quit THEN @ + 1 ELSE @]
    /\ UNCHANGED <<docker, relay, pumped, quit>>

Send(s) ==
    /\ scanner[s] = "send"
    /\ lines' = [lines EXCEPT ![s] = Append(@, buf[s])]
    /\ buf' = [buf EXCEPT ![s] = <<>>]
    /\ scanner' = [scanner EXCEPT ![s] = "scan"]
    /\ late' = [late EXCEPT ![s] = IF quit THEN @ + 1 ELSE @]
    /\ UNCHANGED <<docker, relay, pumped, quit>>

-----------------------------------------------------------------------------
(* Who closes quitChan *)

\* cancelAfterStartup; a second close panics, see Executor.
CancelAfterStartup ==
    /\ StartupOnly
    /\ relay \in {"wait", "left"} /\ ~quit
    /\ quit' = TRUE
    /\ UNCHANGED <<docker, relay, pumped, scans>>

\* handleSignals, which may do so before relayLogs has begun.
SignalCloses ==
    /\ ~quit
    /\ quit' = TRUE
    /\ UNCHANGED <<docker, relay, pumped, scans>>

Up == relay # "fatal"

Stream(s) == Scan(s) \/ Check(s) \/ Send(s)

Next ==
    \/ \E f \in Frames : Write(f)
    \/ ContainerExits
    \/ /\ Up
       /\ \/ StartRelay \/ StartFails \/ RelayLeaves
          \/ PumpNext \/ PumpEnds \/ PumpFails
          \/ \E s \in Streams : Stream(s)
          \/ CancelAfterStartup \/ SignalCloses

Spec == Init /\ [][Next]_vars

\* The goroutines run; the container, Docker and the signal need not.
FairSpec ==
    /\ Spec
    /\ WF_vars(StartRelay \/ StartFails)
    /\ WF_vars(PumpNext)
    /\ \A s \in Streams : WF_vars(Stream(s))

-----------------------------------------------------------------------------
(* Properties *)

\* Type correctness; a scanner's buffer is never over its limit.
TypeOK ==
    /\ log \in Seq(Frames) /\ Len(log) <= MaxFrames
    /\ {running, quit} \subseteq BOOLEAN
    /\ relay \in {"configure", "wait", "left", "fatal"}
    /\ pump \in {"none", "read", "write", "ended", "failed"}
    /\ next \in 1..Len(log) + 1 /\ (pump = "write" => next <= Len(log))
    /\ scanner \in [Streams -> {"none", "scan", "check", "send", "ended"}]
    /\ buf \in [Streams -> Seq(1..Len(log))]
    /\ \A s \in Streams : Len(buf[s]) <= LineLimit
    /\ lines \in [Streams -> Seq(Seq(1..Len(log)))]
    /\ late \in [Streams -> Nat]

Seen(s) == FlattenSeq(lines[s]) \o buf[s]

Increasing(l) == \A i, j \in 1..Len(l) : i < j => l[i] < l[j]

\* The frames of s up to the c-th of the log.
FramesTo(s, c) == {n \in 1..c : log[n].stream = s}

\* A line in syslog is one whole line of the container.
WholeLine(l) ==
    /\ l # <<>>
    /\ \A i \in 1..Len(l) : log[l[i]].eol <=> i = Len(l)

\* However the two streams are mixed, syslog has whole lines of each stream,
\* in their order, none missing and none twice, up to the one in the scanner.
RelaysLinesInOrder ==
    \A s \in Streams :
        /\ Increasing(Seen(s))
        /\ \E c \in 0..Len(log) : ToSet(Seen(s)) = FramesTo(s, c)
        /\ \A i \in 1..Len(lines[s]) : WholeLine(lines[s][i])

\* Once quitChan is closed a stream sends one line more at most: the one whose
\* scanner had looked at the channel before.
OneLineAfterQuit == \A s \in Streams : late[s] <= 1

\* What may keep a line from syslog.
Hindered ==
    \/ quit \/ relay = "fatal" \/ pump = "failed"
    \/ \E s \in Streams : scanner[s] = "ended" /\ Len(buf[s]) = LineLimit

Sent(n) == \E s \in Streams : \E i \in 1..Len(lines[s]) : n = Last(lines[s][i])

\* Every line is relayed - a chatty stream does not keep the other's lines
\* back - unless the pump is told to quit, fails, or meets a line over the
\* scanner's limit on either of the streams.
EveryLineRelayed ==
    \A n \in 1..MaxFrames :
        (n <= Len(log) /\ log[n].eol) ~> (Sent(n) \/ Hindered)

=============================================================================
