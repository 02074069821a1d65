--------------------------- MODULE LogRelayProofs ---------------------------
(***************************************************************************)
(* Proofs about LogRelay, for logs and scanner buffers of any length.      *)
(***************************************************************************)
EXTENDS LogRelay, LoopLemmas

\* A whole line, and one without an end yet, in a log.
Whole(lg, l) == l # <<>> /\ \A i \in 1..Len(l) : lg[l[i]].eol <=> i = Len(l)

Open(lg, l) == \A i \in 1..Len(l) : ~lg[l[i]].eol

\* Where a scanner is tells what its buffer holds.
Holds(lg, where, b, sent) ==
    /\ where = "none" => b = <<>>
    /\ where = "scan" => Len(b) < LineLimit /\ Open(lg, b)
    /\ where \in {"check", "send"} => Whole(lg, b)
    /\ \A i \in 1..Len(sent) : Whole(lg, sent[i])

Buffered ==
    /\ relay = "configure" => \A s \in Streams : scanner[s] = "none"
    /\ \A s \in Streams : Holds(log, scanner[s], buf[s], lines[s])

\* The pump waits for a scanner that ended in the middle of the frame.
StuckOn(s) ==
    /\ pump = "write" /\ log[next].stream = s /\ scanner[s] = "ended"
    /\ ToSet(Seen(s)) = FramesTo(s, next)

\* A scanner has seen what was pumped to it.
Ordered ==
    \A s \in Streams :
        /\ Increasing(Seen(s))
        /\ ToSet(Seen(s)) = FramesTo(s, next - 1) \/ StuckOn(s)

\* Only a scanner that is past quitChan may still send, and then sends once.
Quitting ==
    \A s \in Streams :
        /\ late[s] \in {0, 1}
        /\ ~quit \/ scanner[s] = "send" => late[s] = 0

IndInv == TypeOK /\ Buffered /\ Ordered /\ Quitting

-----------------------------------------------------------------------------
(* Types *)

LEMMA SeqMono ==
  ASSUME NEW S, NEW T, S \subseteq T, NEW l \in Seq(S)
  PROVE  l \in Seq(T)
OBVIOUS

\* A frame that a sequence may name, it may name when the log is longer.
LEMMA NamesMono ==
  ASSUME NEW n \in Nat
  PROVE  /\ \A l \in Seq(1..n) : l \in Seq(1..n+1)
         /\ \A ll \in Seq(Seq(1..n)) : ll \in Seq(Seq(1..n+1))
<1>1. \A l \in Seq(1..n) : l \in Seq(1..n+1)
  BY SeqMono, 1..n \subseteq 1..n+1
<1>2. Seq(1..n) \subseteq Seq(1..n+1)
  BY <1>1
<1>3. QED
  BY <1>1, <1>2, SeqMono

LEMMA TypeInit == Init => TypeOK
<1> SUFFICES ASSUME Init PROVE TypeOK
  OBVIOUS
<1>1. log \in Seq(Frames) /\ Len(log) = 0
  BY DEF Init
<1>2. <<>> \in Seq(1..Len(log)) /\ <<>> \in Seq(Seq(1..Len(log))) /\ Len(<<>>) = 0
  OBVIOUS
<1>3. /\ buf \in [Streams -> Seq(1..Len(log))]
      /\ \A s \in Streams : Len(buf[s]) <= LineLimit
      /\ lines \in [Streams -> Seq(Seq(1..Len(log)))]
  BY <1>2, RelayAssumption DEF Init
<1>4. /\ scanner \in [Streams -> {"none", "scan", "check", "send", "ended"}]
      /\ late \in [Streams -> Nat]
  BY DEF Init
<1>5. /\ Len(log) <= MaxFrames /\ next \in 1..Len(log) + 1
      /\ {running, quit} \subseteq BOOLEAN /\ relay = "configure" /\ pump = "none"
  <2>1. 0 <= MaxFrames /\ 1 \in 1..0 + 1
    BY RelayAssumption
  <2>2. next = 1 /\ running = TRUE /\ quit = FALSE /\ relay = "configure" /\ pump = "none"
    BY DEF Init
  <2>3. QED
    BY <1>1, <2>1, <2>2
<1>6. QED
  BY <1>1, <1>3, <1>4, <1>5 DEF TypeOK

LEMMA TypeStep ==
  TypeOK /\ Buffered /\ [Next]_vars => TypeOK'
<1> SUFFICES ASSUME TypeOK, Buffered, [Next]_vars PROVE TypeOK'
  OBVIOUS
<1>1. CASE UNCHANGED vars
  BY <1>1 DEF TypeOK, vars, docker, pumped, scans
<1>2. ASSUME NEW f \in Frames, Write(f) PROVE TypeOK'
  <2>1. /\ log' \in Seq(Frames) /\ Len(log') = Len(log) + 1 /\ Len(log) \in Nat
        /\ Len(log') <= MaxFrames
    BY <1>2, RelayAssumption DEF TypeOK, Write
  <2>2. /\ buf \in [Streams -> Seq(1..Len(log'))]
        /\ lines \in [Streams -> Seq(Seq(1..Len(log')))]
    BY <2>1, NamesMono DEF TypeOK
  <2>3. QED
    BY <1>2, <2>1, <2>2 DEF TypeOK, Write, pumped, scans
<1>3. CASE ContainerExits
  BY <1>3 DEF TypeOK, ContainerExits, pumped, scans
<1>4. CASE StartRelay
  BY <1>4 DEF TypeOK, StartRelay, docker, Streams
<1>5. CASE StartFails \/ RelayLeaves \/ CancelAfterStartup \/ SignalCloses
  BY <1>5 DEF TypeOK, StartFails, RelayLeaves, CancelAfterStartup, SignalCloses,
              docker, pumped, scans
<1>6. CASE PumpNext \/ PumpEnds \/ PumpFails
  BY <1>6 DEF TypeOK, PumpNext, PumpEnds, PumpFails, docker, scans
<1>7. ASSUME NEW s \in Streams, Scan(s) PROVE TypeOK'
  <2>1. next \in 1..Len(log) /\ Len(buf[s]) < LineLimit /\ Len(log) \in Nat
    BY <1>7 DEF TypeOK, Buffered, Holds, Scan
  <2>2. /\ Append(buf[s], next) \in Seq(1..Len(log))
        /\ Len(Append(buf[s], next)) = Len(buf[s]) + 1
    BY <2>1, AppendProperties DEF TypeOK
  <2>3. buf' \in [Streams -> Seq(1..Len(log))]
    BY <1>7, <2>2 DEF TypeOK, Scan
  <2>4. \A t \in Streams : Len(buf'[t]) <= LineLimit
    BY <1>7, <2>1, <2>2, RelayAssumption DEF TypeOK, Scan
  <2>5. /\ pump' \in {"read", "write"} /\ next' \in 1..Len(log) + 1
        /\ pump' = "write" => next' <= Len(log)
    BY <1>7, <2>1 DEF Scan, pumped
  <2>6. scanner' \in [Streams -> {"none", "scan", "check", "send", "ended"}]
    BY <1>7 DEF TypeOK, Scan
  <2>7. QED
    BY <1>7, <2>3, <2>4, <2>5, <2>6 DEF TypeOK, Scan, docker
<1>8. ASSUME NEW s \in Streams, Check(s) PROVE TypeOK'
  BY <1>8 DEF TypeOK, Check, docker, pumped
<1>9. ASSUME NEW s \in Streams, Send(s) PROVE TypeOK'
  <2>1. Append(lines[s], buf[s]) \in Seq(Seq(1..Len(log)))
    BY AppendProperties DEF TypeOK
  <2>2. lines' \in [Streams -> Seq(Seq(1..Len(log)))]
    BY <1>9, <2>1 DEF TypeOK, Send
  <2>3. <<>> \in Seq(1..Len(log)) /\ Len(<<>>) <= LineLimit
    BY RelayAssumption
  <2>4. /\ buf' \in [Streams -> Seq(1..Len(log))]
        /\ \A t \in Streams : Len(buf'[t]) <= LineLimit
    BY <1>9, <2>3 DEF TypeOK, Send
  <2>5. /\ scanner' \in [Streams -> {"none", "scan", "check", "send", "ended"}]
        /\ late' \in [Streams -> Nat]
    BY <1>9 DEF TypeOK, Send
  <2>6. QED
    BY <1>9, <2>2, <2>4, <2>5 DEF TypeOK, Send, docker, pumped
<1>10. QED
  BY <1>1, <1>2, <1>3, <1>4, <1>5, <1>6, <1>7, <1>8, <1>9 DEF Next, Stream

-----------------------------------------------------------------------------
(* Lines *)

\* A frame in the log stays what it is.
LEMMA LogKept ==
  ASSUME TypeOK, NEW f \in Frames, Write(f), NEW n \in 1..Len(log)
  PROVE  log'[n] = log[n]
BY AppendProperties DEF TypeOK, Write

\* So do the lines in it.
LEMMA LinesKept ==
  ASSUME TypeOK, NEW f \in Frames, Write(f), NEW l \in Seq(1..Len(log))
  PROVE  (Whole(log, l) => Whole(log', l)) /\ (Open(log, l) => Open(log', l))
<1>1. \A i \in 1..Len(l) : l[i] \in 1..Len(log)
  BY ElementOfSeq
<1>2. \A i \in 1..Len(l) : log'[l[i]] = log[l[i]]
  BY <1>1, LogKept
<1>3. QED
  BY <1>2 DEF Whole, Open

LEMMA BufferedInit == Init => Buffered
<1> SUFFICES ASSUME Init PROVE Buffered
  OBVIOUS
<1>1. Len(<<>>) = 0
  OBVIOUS
<1>2. QED
  BY <1>1 DEF Init, Buffered, Holds

LEMMA BufferedStep ==
  TypeOK /\ Buffered /\ [Next]_vars => Buffered'
<1> SUFFICES ASSUME TypeOK, Buffered, [Next]_vars PROVE Buffered'
  OBVIOUS
<1>1. CASE UNCHANGED vars
  BY <1>1 DEF Buffered, vars, docker, pumped, scans
<1>2. ASSUME NEW f \in Frames, Write(f) PROVE Buffered'
  <2>1. UNCHANGED <<relay, scanner, buf, lines>>
    BY <1>2 DEF Write, scans
  <2>2. ASSUME NEW s \in Streams PROVE Holds(log', scanner[s], buf[s], lines[s])
    <3>1. buf[s] \in Seq(1..Len(log)) /\ lines[s] \in Seq(Seq(1..Len(log)))
      BY DEF TypeOK
    <3>2. \A i \in 1..Len(lines[s]) : lines[s][i] \in Seq(1..Len(log))
      BY <3>1, ElementOfSeq
    <3>3. Holds(log, scanner[s], buf[s], lines[s])
      BY DEF Buffered
    <3>4. QED
      BY <1>2, <3>1, <3>2, <3>3, LinesKept DEF Holds
  <2>3. QED
    BY <2>1, <2>2 DEF Buffered
<1>3. CASE ContainerExits
  BY <1>3 DEF Buffered, ContainerExits, scans
<1>4. CASE StartRelay
  <2>1. ASSUME NEW s \in Streams PROVE Holds(log, "scan", buf[s], lines[s])
    <3>1. buf[s] = <<>> /\ Len(<<>>) = 0
      BY <1>4 DEF StartRelay, Buffered, Holds
    <3>2. Holds(log, scanner[s], buf[s], lines[s])
      BY DEF Buffered
    <3>3. QED
      BY <3>1, <3>2, RelayAssumption DEF Holds, Open
  <2>2. QED
    BY <1>4, <2>1 DEF Buffered, StartRelay, docker
<1>5. CASE StartFails \/ RelayLeaves \/ CancelAfterStartup \/ SignalCloses
  BY <1>5 DEF Buffered, StartFails, RelayLeaves, CancelAfterStartup,
              SignalCloses, docker, scans
<1>6. CASE PumpNext \/ PumpEnds \/ PumpFails
  BY <1>6 DEF Buffered, PumpNext, PumpEnds, PumpFails, docker, scans
<1>7. ASSUME NEW s \in Streams, Scan(s) PROVE Buffered'
  <2>1. next \in 1..Len(log) /\ Len(log) \in Nat /\ buf[s] \in Seq(1..Len(log))
    BY <1>7 DEF TypeOK, Scan
  <2> DEFINE b == Append(buf[s], next)
  <2>2. /\ Len(b) = Len(buf[s]) + 1 /\ b # <<>> /\ Len(buf[s]) \in Nat
        /\ b[Len(buf[s]) + 1] = next
        /\ \A i \in 1..Len(buf[s]) : b[i] = buf[s][i]
    BY <2>1, AppendProperties
  <2>3. buf'[s] = b /\ \A t \in Streams \ {s} : buf'[t] = buf[t] /\ scanner'[t] = scanner[t]
    BY <1>7 DEF Scan, TypeOK
  <2> HIDE DEF b
  <2>4. Holds(log, "scan", buf[s], lines[s])
    BY <1>7 DEF Scan, Buffered
  <2>5. Holds(log, scanner'[s], b, lines[s])
    <3>1. CASE log[next].eol
      <4>1. scanner'[s] = "check"
        BY <1>7, <3>1 DEF Scan, TypeOK
      <4>2. Whole(log, b)
        BY <2>2, <2>4, <3>1 DEF Whole, Open, Holds
      <4>3. QED
        BY <2>4, <4>1, <4>2 DEF Holds
    <3>2. CASE ~log[next].eol
      <4>1. scanner'[s] = IF Len(b) >= LineLimit THEN "ended" ELSE "scan"
        BY <1>7, <2>2, <3>2 DEF Scan, TypeOK
      <4>2. Open(log, b)
        BY <2>2, <2>4, <3>2 DEF Open, Holds
      <4>3. Len(b) >= LineLimit \/ Len(b) < LineLimit
        BY <2>2, RelayAssumption
      <4>4. QED
        BY <2>4, <4>1, <4>2, <4>3 DEF Holds
    <3>3. QED
      BY <3>1, <3>2
  <2>6. UNCHANGED <<log, relay, lines>> /\ relay # "configure"
    BY <1>7 DEF Scan, docker, Buffered
  <2>7. QED
    BY <2>3, <2>5, <2>6 DEF Buffered
<1>8. ASSUME NEW s \in Streams, Check(s) PROVE Buffered'
  <2>1. UNCHANGED <<log, relay, buf, lines>> /\ relay # "configure"
    BY <1>8 DEF Check, docker, Buffered
  <2>2. Holds(log, scanner'[s], buf[s], lines[s])
    BY <1>8 DEF Check, TypeOK, Buffered, Holds
  <2>3. \A t \in Streams \ {s} : scanner'[t] = scanner[t]
    BY <1>8 DEF Check, TypeOK
  <2>4. QED
    BY <2>1, <2>2, <2>3 DEF Buffered
<1>9. ASSUME NEW s \in Streams, Send(s) PROVE Buffered'
  <2>1. buf[s] \in Seq(1..Len(log)) /\ lines[s] \in Seq(Seq(1..Len(log)))
    BY DEF TypeOK
  <2> DEFINE ls == Append(lines[s], buf[s])
  <2>2. /\ Len(ls) = Len(lines[s]) + 1 /\ Len(lines[s]) \in Nat
        /\ ls[Len(lines[s]) + 1] = buf[s]
        /\ \A i \in 1..Len(lines[s]) : ls[i] = lines[s][i]
    BY <2>1, AppendProperties
  <2>3. /\ lines'[s] = ls /\ buf'[s] = <<>> /\ scanner'[s] = "scan"
        /\ \A t \in Streams \ {s} :
             buf'[t] = buf[t] /\ lines'[t] = lines[t] /\ scanner'[t] = scanner[t]
    BY <1>9 DEF Send, TypeOK
  <2> HIDE DEF ls
  <2>4. Holds(log, "send", buf[s], lines[s])
    BY <1>9 DEF Send, Buffered
  <2>5. \A i \in 1..Len(ls) : Whole(log, ls[i])
    BY <2>2, <2>4 DEF Holds
  <2>6. Holds(log, "scan", <<>>, ls)
    BY <2>5, RelayAssumption DEF Holds, Open
  <2>7. UNCHANGED <<log, relay>> /\ relay # "configure"
    BY <1>9 DEF Send, docker, Buffered
  <2>8. QED
    BY <2>3, <2>6, <2>7 DEF Buffered
<1>10. QED
  BY <1>1, <1>2, <1>3, <1>4, <1>5, <1>6, <1>7, <1>8, <1>9 DEF Next, Stream

-----------------------------------------------------------------------------
(* Order *)

\* What the scanners have seen are frames of the log.
LEMMA SeenType ==
  ASSUME TypeOK, NEW s \in Streams
  PROVE  /\ FlattenSeq(lines[s]) \in Seq(1..Len(log))
         /\ Seen(s) \in Seq(1..Len(log))
<1>1. FlattenSeq(lines[s]) \in Seq(1..Len(log))
  BY FlattenAppend, EmptySeq DEF TypeOK
<1>2. QED
  BY <1>1, ConcatProperties DEF Seen, TypeOK

\* A scanner adds the frame it reads.
LEMMA SeenScan ==
  ASSUME TypeOK, NEW s \in Streams, Scan(s)
  PROVE  Seen(s)' = Append(Seen(s), next)
<1>1. /\ next \in 1..Len(log) /\ buf[s] \in Seq(1..Len(log))
      /\ FlattenSeq(lines[s]) \in Seq(1..Len(log))
  BY SeenType DEF TypeOK, Scan
<1>2. buf'[s] = Append(buf[s], next) /\ lines' = lines
  BY DEF TypeOK, Scan
<1>3. FlattenSeq(lines[s]) \o Append(buf[s], next) = Append(FlattenSeq(lines[s]) \o buf[s], next)
  <2>1. \A a, b \in Seq(1..Len(log)) : \A n \in 1..Len(log) :
           a \o Append(b, n) = Append(a \o b, n)
    BY ConcatAppend
  <2>2. QED
    BY <1>1, <2>1, Zenon
<1>4. QED
  BY <1>2, <1>3 DEF Seen

\* Sending a line moves its frames from the buffer to the lines.
LEMMA SeenSend ==
  ASSUME TypeOK, NEW s \in Streams, Send(s)
  PROVE  Seen(s)' = Seen(s)
<1>1. buf[s] \in Seq(1..Len(log)) /\ lines[s] \in Seq(Seq(1..Len(log)))
  BY DEF TypeOK
<1>2. buf'[s] = <<>> /\ lines'[s] = Append(lines[s], buf[s])
  BY DEF TypeOK, Send
<1>3. FlattenSeq(lines'[s]) = FlattenSeq(lines[s]) \o buf[s]
  BY <1>1, <1>2, FlattenAppend
<1>4. Seen(s)' = Seen(s) \o <<>>
  BY <1>2, <1>3 DEF Seen
<1>5. QED
  BY <1>4, SeenType, ConcatEmptySeq

\* The frames up to the next one of the log.
LEMMA FramesToNext ==
  ASSUME NEW s \in Streams, NEW c \in Nat
  PROVE  FramesTo(s, c + 1) =
            IF log[c + 1].stream = s THEN FramesTo(s, c) \cup {c + 1} ELSE FramesTo(s, c)
BY DEF FramesTo

LEMMA OrderedInit == Init => Ordered
<1> SUFFICES ASSUME Init, NEW s \in Streams
             PROVE  Increasing(Seen(s)) /\ ToSet(Seen(s)) = FramesTo(s, next - 1)
  BY DEF Ordered
<1>1. lines[s] = <<>> /\ buf[s] = <<>> /\ next = 1
  BY DEF Init
<1>2. FlattenSeq(<<>>) = <<>>
  <2>1. Len(<<>>) = 0
    OBVIOUS
  <2>2. QED
    BY <2>1, Zenon DEF FlattenSeq
<1>3. Seen(s) = <<>>
  BY <1>1, <1>2 DEF Seen
<1>4. Increasing(<<>>) /\ ToSet(<<>>) = {}
  BY DEF Increasing, ToSet
<1>5. FramesTo(s, 1 - 1) = {}
  BY DEF FramesTo
<1>6. QED
  BY <1>1, <1>3, <1>4, <1>5

LEMMA OrderedStep ==
  TypeOK /\ Buffered /\ Ordered /\ [Next]_vars => Ordered'
<1> SUFFICES ASSUME TypeOK, Buffered, Ordered, [Next]_vars,
                    NEW s \in Streams
             PROVE  /\ Increasing(Seen(s))'
                    /\ (ToSet(Seen(s)) = FramesTo(s, next - 1))' \/ StuckOn(s)'
  BY DEF Ordered
<1> USE DEF Ordered
<1>1. CASE UNCHANGED vars
  BY <1>1 DEF vars, docker, pumped, scans, Increasing, Seen, FramesTo, StuckOn
<1>2. ASSUME NEW f \in Frames, Write(f)
      PROVE  /\ Increasing(Seen(s))'
             /\ (ToSet(Seen(s)) = FramesTo(s, next - 1))' \/ StuckOn(s)'
  <2>1. UNCHANGED <<pump, next, scanner, buf, lines>>
    BY <1>2 DEF Write, pumped, scans
  <2>2. Seen(s)' = Seen(s)
    BY <2>1 DEF Seen
  <2>3. ASSUME NEW c \in 0..Len(log) PROVE FramesTo(s, c)' = FramesTo(s, c)
    <3>1. \A n \in 1..c : log'[n] = log[n]
      BY <1>2, LogKept DEF TypeOK
    <3>2. QED
      BY <3>1 DEF FramesTo
  <2>4. next - 1 \in 0..Len(log) /\ (pump = "write" => next \in 1..Len(log))
    BY DEF TypeOK
  <2>5. pump = "write" => log'[next] = log[next] /\ FramesTo(s, next)' = FramesTo(s, next)
    BY <1>2, <2>1, <2>3, <2>4, LogKept
  <2>6. FramesTo(s, next - 1)' = FramesTo(s, next - 1)
    BY <2>1, <2>3, <2>4
  <2>7. StuckOn(s) => StuckOn(s)'
    BY <2>1, <2>2, <2>5 DEF StuckOn
  <2>8. QED
    BY <2>2, <2>6, <2>7 DEF Increasing
<1>3. ASSUME UNCHANGED <<log, next, buf, lines>>,
             StuckOn(s) => UNCHANGED pump /\ scanner'[s] = "ended"
      PROVE  /\ Increasing(Seen(s))'
             /\ (ToSet(Seen(s)) = FramesTo(s, next - 1))' \/ StuckOn(s)'
  <2>1. Seen(s)' = Seen(s) /\ FramesTo(s, next - 1)' = FramesTo(s, next - 1)
        /\ FramesTo(s, next)' = FramesTo(s, next)
    BY <1>3 DEF Seen, FramesTo
  <2>2. StuckOn(s) => StuckOn(s)'
    BY <1>3, <2>1 DEF StuckOn
  <2>3. QED
    BY <2>1, <2>2 DEF Increasing
<1>4. CASE ContainerExits
  BY <1>3, <1>4 DEF ContainerExits, pumped, scans, StuckOn
<1>5. CASE StartRelay
  BY <1>3, <1>5 DEF StartRelay, docker, StuckOn, Buffered
<1>6. CASE StartFails \/ RelayLeaves \/ CancelAfterStartup \/ SignalCloses
  BY <1>3, <1>6 DEF StartFails, RelayLeaves, CancelAfterStartup, SignalCloses,
                    docker, pumped, scans, StuckOn
<1>7. CASE PumpNext \/ PumpEnds \/ PumpFails
  BY <1>3, <1>7 DEF PumpNext, PumpEnds, PumpFails, docker, scans, StuckOn
<1>8. ASSUME NEW t \in Streams, Check(t)
      PROVE  /\ Increasing(Seen(s))'
             /\ (ToSet(Seen(s)) = FramesTo(s, next - 1))' \/ StuckOn(s)'
  BY <1>3, <1>8 DEF Check, TypeOK, docker, pumped, StuckOn
<1>9. ASSUME NEW t \in Streams, Scan(t)
      PROVE  /\ Increasing(Seen(s))'
             /\ (ToSet(Seen(s)) = FramesTo(s, next - 1))' \/ StuckOn(s)'
  <2>1. /\ ~StuckOn(s) /\ log' = log /\ log[next].stream = t /\ pump = "write"
        /\ next \in Nat /\ next - 1 \in Nat /\ (next - 1) + 1 = next /\ (next + 1) - 1 = next
    BY <1>9 DEF Scan, StuckOn, docker, TypeOK
  <2>2. /\ Increasing(Seen(s)) /\ ToSet(Seen(s)) = FramesTo(s, next - 1)
        /\ Seen(s) \in Seq(1..Len(log))
    BY <2>1, SeenType
  <2>3. \A c : FramesTo(s, c)' = FramesTo(s, c)
    BY <2>1 DEF FramesTo
  <2>4. CASE s # t
    <3>1. Seen(s)' = Seen(s)
      BY <1>9, <2>4 DEF Seen, Scan, TypeOK
    <3>2. FramesTo(s, next) = FramesTo(s, next - 1)
      BY <2>1, <2>4, FramesToNext
    <3>3. next' \in {next, next + 1}
      BY <1>9 DEF Scan, pumped
    <3>4. FramesTo(s, next - 1)' = FramesTo(s, next - 1)
      BY <2>1, <3>2, <3>3, <2>3 DEF FramesTo
    <3>5. QED
      BY <2>2, <3>1, <3>4 DEF Increasing
  <2>5. CASE s = t
    <3> DEFINE seen == Append(Seen(s), next)
               k == Len(Seen(s))
    <3>1. Seen(s)' = seen
      BY <1>9, <2>5, SeenScan
    <3>2. /\ seen \in Seq(1..Len(log)) /\ Len(seen) = k + 1 /\ k \in Nat
          /\ seen[k + 1] = next
          /\ \A i \in 1..k : seen[i] = Seen(s)[i]
      BY <2>1, <2>2, AppendProperties DEF TypeOK
    <3> HIDE DEF seen, k
    <3>3. \A i \in 1..k : Seen(s)[i] \in FramesTo(s, next - 1)
      BY <2>2 DEF ToSet, k
    <3>4. \A i \in 1..k : seen[i] \in Nat /\ seen[i] < next
      BY <2>1, <3>2, <3>3 DEF FramesTo
    <3>5. Increasing(seen)
      <4> SUFFICES ASSUME NEW i \in 1..k + 1, NEW j \in 1..k + 1, i < j
                   PROVE  seen[i] < seen[j]
        BY <3>2 DEF Increasing
      <4>1. CASE j = k + 1
        BY <3>2, <3>4, <4>1
      <4>2. CASE j # k + 1
        <5>1. i \in 1..k /\ j \in 1..k
          BY <3>2, <4>2
        <5>2. Seen(s)[i] < Seen(s)[j]
          BY <2>2, <5>1 DEF Increasing, k
        <5>3. QED
          BY <3>2, <5>1, <5>2
      <4>3. QED
        BY <4>1, <4>2
    <3>6. ToSet(seen) = FramesTo(s, next)
      <4>1. ToSet(seen) = ToSet(Seen(s)) \cup {next}
        BY <2>1, <2>2, ToSetAppend DEF seen, TypeOK
      <4>2. FramesTo(s, next) = FramesTo(s, next - 1) \cup {next}
        BY <2>1, <2>5, FramesToNext
      <4>3. QED
        BY <2>2, <4>1, <4>2
    <3>7. \/ pump' = "read" /\ next' = next + 1
          \/ pump' = pump /\ next' = next /\ scanner'[s] = "ended"
      BY <1>9, <2>5 DEF Scan, pumped, TypeOK
    <3>8. CASE pump' = "read" /\ next' = next + 1
      <4>1. FramesTo(s, next - 1)' = FramesTo(s, next)
        BY <2>1, <3>8 DEF FramesTo
      <4>2. QED
        BY <3>1, <3>5, <3>6, <4>1 DEF Increasing
    <3>9. CASE pump' = pump /\ next' = next /\ scanner'[s] = "ended"
      <4>1. FramesTo(s, next)' = FramesTo(s, next)
        BY <2>1, <3>9 DEF FramesTo
      <4>2. StuckOn(s)'
        BY <2>1, <2>5, <3>1, <3>6, <3>9, <4>1 DEF StuckOn
      <4>3. QED
        BY <3>1, <3>5, <4>2 DEF Increasing
    <3>10. QED
      BY <3>7, <3>8, <3>9
  <2>6. QED
    BY <2>4, <2>5
<1>10. ASSUME NEW t \in Streams, Send(t)
      PROVE  /\ Increasing(Seen(s))'
             /\ (ToSet(Seen(s)) = FramesTo(s, next - 1))' \/ StuckOn(s)'
  <2>1. Seen(s)' = Seen(s)
    <3>1. CASE s = t
      BY <1>10, <3>1, SeenSend
    <3>2. CASE s # t
      BY <1>10, <3>2 DEF Seen, Send, TypeOK
    <3>3. QED
      BY <3>1, <3>2
  <2>2. log' = log /\ next' = next /\ pump' = pump
    BY <1>10 DEF Send, docker, pumped
  <2>3. FramesTo(s, next - 1)' = FramesTo(s, next - 1) /\ FramesTo(s, next)' = FramesTo(s, next)
    BY <2>2 DEF FramesTo
  <2>4. StuckOn(s) => StuckOn(s)'
    BY <1>10, <2>1, <2>2, <2>3 DEF StuckOn, Send, TypeOK
  <2>5. QED
    BY <2>1, <2>3, <2>4 DEF Increasing
<1>11. QED
  BY <1>1, <1>2, <1>4, <1>5, <1>6, <1>7, <1>8, <1>9, <1>10 DEF Next, Stream

-----------------------------------------------------------------------------
(* The end of the relay *)

LEMMA QuittingInit == Init => Quitting
BY DEF Init, Quitting

LEMMA QuittingStep ==
  TypeOK /\ Quitting /\ [Next]_vars => Quitting'
<1> SUFFICES ASSUME TypeOK, Quitting, [Next]_vars PROVE Quitting'
  OBVIOUS
<1>1. CASE UNCHANGED <<scanner, late, quit>>
  BY <1>1 DEF Quitting
<1>2. CASE StartRelay
  BY <1>2 DEF Quitting, StartRelay
<1>3. CASE CancelAfterStartup \/ SignalCloses
  BY <1>3 DEF Quitting, CancelAfterStartup, SignalCloses, scans
<1>4. ASSUME NEW s \in Streams, Scan(s) PROVE Quitting'
  BY <1>4 DEF Quitting, Scan, TypeOK
<1>5. ASSUME NEW s \in Streams, Check(s) PROVE Quitting'
  BY <1>5 DEF Quitting, Check, TypeOK
<1>6. ASSUME NEW s \in Streams, Send(s) PROVE Quitting'
  <2>1. late[s] = 0
    BY <1>6 DEF Quitting, Send
  <2>2. /\ late'[s] = (IF quit THEN 1 ELSE 0) /\ scanner'[s] = "scan" /\ quit' = quit
        /\ \A t \in Streams \ {s} : late'[t] = late[t] /\ scanner'[t] = scanner[t]
    BY <1>6, <2>1 DEF Send, TypeOK
  <2>3. QED
    BY <2>2 DEF Quitting
<1>7. CASE (\E f \in Frames : Write(f)) \/ ContainerExits \/ UNCHANGED vars
  BY <1>1, <1>7 DEF Write, ContainerExits, scans, vars
<1>8. CASE StartFails \/ RelayLeaves \/ PumpNext \/ PumpEnds \/ PumpFails
  BY <1>1, <1>8 DEF StartFails, RelayLeaves, PumpNext, PumpEnds, PumpFails, scans
<1>9. QED
  BY <1>2, <1>3, <1>4, <1>5, <1>6, <1>7, <1>8 DEF Next, Stream

-----------------------------------------------------------------------------
(* Theorems *)

\* The types, what the buffers hold, the order of what was seen and how often
\* a line may still be sent: inductive together.
THEOREM RelayInvariant == Spec => []IndInv
<1>1. Init => IndInv
  BY TypeInit, BufferedInit, OrderedInit, QuittingInit DEF IndInv
<1>2. IndInv /\ [Next]_vars => IndInv'
  BY TypeStep, BufferedStep, OrderedStep, QuittingStep DEF IndInv
<1>3. QED
  BY <1>1, <1>2, PTL DEF Spec

\* Type correctness of LogRelay, and the bound on a scanner's buffer.
THEOREM TypeCorrect == Spec => []TypeOK
<1>1. IndInv => TypeOK
  BY DEF IndInv
<1>2. QED
  BY <1>1, RelayInvariant, PTL

\* handleOneStream sends whole lines, all of them and in order, to the line it
\* is at, however Docker mixes the streams and however long they are.
THEOREM OrderSafe == Spec => []RelaysLinesInOrder
<1>1. IndInv => RelaysLinesInOrder
  <2> SUFFICES ASSUME IndInv, NEW s \in Streams
               PROVE  /\ Increasing(Seen(s))
                      /\ \E c \in 0..Len(log) : ToSet(Seen(s)) = FramesTo(s, c)
                      /\ \A i \in 1..Len(lines[s]) : WholeLine(lines[s][i])
    BY DEF RelaysLinesInOrder
  <2>1. next - 1 \in 0..Len(log) /\ (pump = "write" => next \in 0..Len(log))
    BY DEF IndInv, TypeOK
  <2>2. \E c \in 0..Len(log) : ToSet(Seen(s)) = FramesTo(s, c)
    BY <2>1 DEF IndInv, Ordered, StuckOn
  <2>3. \A i \in 1..Len(lines[s]) : WholeLine(lines[s][i])
    BY DEF IndInv, Buffered, Holds, Whole, WholeLine
  <2>4. QED
    BY <2>2, <2>3 DEF IndInv, Ordered
<1>2. QED
  BY <1>1, RelayInvariant, PTL

\* A stream sends one line at most after quitChan was closed.
THEOREM QuitSafe == Spec => []OneLineAfterQuit
<1>1. IndInv => OneLineAfterQuit
  BY DEF IndInv, Quitting, OneLineAfterQuit
<1>2. QED
  BY <1>1, RelayInvariant, PTL

=============================================================================
