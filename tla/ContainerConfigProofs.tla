----------------------- MODULE ContainerConfigProofs ------------------------
(***************************************************************************)
(* Proofs about ContainerConfig: for any tasks with the types of a Mesos   *)
(* task, any settings of the executor and any machine.  First what the     *)
(* translation makes of a task, then the launch that uses it.              *)
(***************************************************************************)
EXTENDS ContainerConfig, LoopLemmas

\* What may be in an environment: parameters of the task, and variables whose
\* names and values come from the task or are the executor's own.  (To the
\* provers a literal or a number spelt out is no member of STRING.)
Names ==
    STRING \cup {"MESOS_PORT_" \o ToString(n) : n \in Nat}
      \cup {"MESOS_HOSTNAME", "SERVICE_NAME", "ENVIRONMENT", "SERVICE_VERSION",
            "SIDECAR_SEEDS", "AWS_ACCESS_KEY_ID", "AWS_SECRET_ACCESS_KEY"}

Texts == STRING \cup {ToString(n) : n \in Nat} \cup {"workers", "key", "secret"}

EnvEntries == [name : Names, value : Texts, eq : BOOLEAN] \cup Parameters

\* The environment that is planned for the container, before decryption ...
Planned(t, added) == Env(t, Without(Labels(t), ShellCommand), added)

\* ... and after that of its first k entries.
Secured(e) == IF e.value \in VaultPaths THEN [e EXCEPT !.value = Secret(@)] ELSE e

Resolved(env, k) == [i \in 1..Len(env) |-> IF i <= k THEN Secured(env[i]) ELSE env[i]]

ConfigWith(t, s, added, env) == [ConfigForTask(t, s, added) EXCEPT !.env = env]

\* The image is there from "seeds" on; a pull is tried while there are tries.
Launching ==
    /\ task \in Tasks /\ settings \in Settings
    /\ pc \in {"check", "pull", "seeds", "aws", "config", "decrypt", "created",
               "failed", "panic"}
    /\ present \in BOOLEAN /\ tries \in 0..PullImageNumRetries
    /\ addEnv \in Seq(EnvEntries)
    /\ pc = "pull" => tries < PullImageNumRetries
    /\ pc \in {"seeds", "aws", "config", "decrypt", "created"} =>
          present /\ (task.force => tries > 0)
    /\ pc = "failed" =>
          tries = PullImageNumRetries \/ settings.awsRole \/ config # NoConfig
    /\ pc \notin {"decrypt", "created", "failed", "panic"} => done = 0
    /\ pc = "check" => tries = 0

\* The configuration is what was made of the task, but for the variables that
\* are decrypted already.
Configured ==
    pc \in {"decrypt", "created"} =>
        LET env == Planned(task, addEnv) IN
        /\ done \in 0..Len(env)
        /\ config = ConfigWith(task, settings, addEnv, Resolved(env, done))
        /\ pc = "created" => done = Len(env)

IndInv == Launching /\ Configured
-----------------------------------------------------------------------------
(* Labels *)

LabelMaps == UNION {[D -> STRING] : D \in SUBSET STRING}

\* The labels after the first i parameters ps.
LabelsAfter(ps, h) ==
    h = [i \in 0..Len(ps) |->
          IF i = 0 THEN NoMap
          ELSE IF IsLabel(ps[i]) THEN Put(h[i - 1], ps[i].name, ps[i].value)
          ELSE h[i - 1]]

LEMMA PutType ==
  ASSUME NEW f \in LabelMaps, NEW k \in STRING, NEW v \in STRING
  PROVE  Put(f, k, v) \in LabelMaps
<1>1. PICK D \in SUBSET STRING : f \in [D -> STRING]
  BY DEF LabelMaps
<1>2. D \cup {k} \in SUBSET STRING
  OBVIOUS
<1>3. Put(f, k, v) \in [D \cup {k} -> STRING]
  BY <1>1 DEF Put
<1>4. QED
  BY <1>2, <1>3 DEF LabelMaps

\* The loop of LabelsForTask: its states are the h below.
LEMMA LabelsLoop ==
  ASSUME NEW t, t.params \in Seq(Parameters)
  PROVE  \E h \in [0..Len(t.params) -> LabelMaps] :
            LabelsAfter(t.params, h) /\ Labels(t) = h[Len(t.params)]
<1> DEFINE ps == t.params
           n == Len(ps)
           A == LabelMaps
           step == [i \in 1..n |-> [f \in A |->
                      IF IsLabel(ps[i]) THEN Put(f, ps[i].name, ps[i].value) ELSE f]]
<1>1. n \in Nat /\ \A i \in 1..n : ps[i] \in Parameters
  BY ElementOfSeq, LenProperties
<1>2. NoMap \in A
  <2>1. NoMap \in [{} -> STRING]
    BY DEF NoMap
  <2>2. QED
    BY <2>1 DEF LabelMaps
<1>3. \A i \in 1..n : \A f \in A : Put(f, ps[i].name, ps[i].value) \in A
  BY <1>1, PutType DEF Parameters
<1> HIDE DEF n, A, ps
<1>4. step \in [1..n -> [A -> A]]
  BY <1>3
<1>5. \A i \in 1..n : \A f \in A :
         step[i][f] = IF IsLabel(ps[i]) THEN Put(f, ps[i].name, ps[i].value) ELSE f
  OBVIOUS
<1> HIDE DEF step
<1>6. PICK f \in [0..n -> A] : Loop(f, n, NoMap, step)
  <2>1. n \in Nat
    BY <1>1
  <2>2. QED
    BY <1>2, <1>4, <2>1, LoopExists
<1>7. \A i \in 1..n : i \in 0..n /\ i # 0 /\ i - 1 \in 0..n
  BY <1>1
<1>8. f = [i \in 0..n |-> IF i = 0 THEN NoMap
                          ELSE IF IsLabel(ps[i]) THEN Put(f[i - 1], ps[i].name, ps[i].value)
                          ELSE f[i - 1]]
  <2>1. f[0] = NoMap /\ \A i \in 1..n : f[i] = step[i][f[i - 1]]
    BY <1>6 DEF Loop
  <2>2. \A i \in 1..n : f[i] = IF IsLabel(ps[i]) THEN Put(f[i - 1], ps[i].name, ps[i].value)
                               ELSE f[i - 1]
    BY <1>5, <1>7, <2>1
  <2>3. \A i \in 0..n : i # 0 => i \in 1..n
    BY <1>1
  <2>4. QED
    BY <2>1, <2>2, <2>3
<1> DEFINE h == CHOOSE h : h = [i \in 0..n |->
                              IF i = 0 THEN NoMap
                              ELSE IF IsLabel(ps[i]) THEN Put(h[i - 1], ps[i].name, ps[i].value)
                              ELSE h[i - 1]]
<1>9. LabelsAfter(ps, h)
  BY <1>8, Zenon DEF LabelsAfter, n
<1>10. Labels(t) = h[n]
  BY Zenon DEF Labels, n, ps
<1> HIDE DEF h
<1>11. \A i \in 0..n : h[i] = IF i = 0 THEN NoMap
                              ELSE IF IsLabel(ps[i]) THEN Put(h[i - 1], ps[i].name, ps[i].value)
                              ELSE h[i - 1]
  BY <1>9 DEF LabelsAfter, n
<1> DEFINE P == {i \in 0..n : h[i] \in A}
<1>12. 0 \in P
  BY <1>1, <1>2, <1>11
<1>13. \A i \in 1..n : i - 1 \in P => i \in P
  BY <1>3, <1>7, <1>11
<1>14. \A i \in 0..n : h[i] \in A
  <2>1. n \in Nat
    BY <1>1
  <2> HIDE DEF P
  <2>2. 0..n \subseteq P
    BY <1>12, <1>13, <2>1, UpTo
  <2>3. QED
    BY <2>2 DEF P
<1>15. h \in [0..n -> A]
  BY <1>9, <1>14 DEF LabelsAfter, n
<1>16. QED
  BY <1>9, <1>10, <1>15 DEF n, A, ps

\* The i-th of the first m parameters is a label, the last one named x.
LastTo(ps, i, x, m) ==
    /\ IsLabel(ps[i]) /\ ps[i].name = x
    /\ \A j \in 1..m : j > i /\ ps[j].name = x => ~IsLabel(ps[j])

\* The last label of a name is the one that counts.
LEMMA LabelsLast ==
  ASSUME NEW t, t.params \in Seq(Parameters), NEW x
  PROVE  /\ Labels(t) \in LabelMaps
         /\ x \in DOMAIN Labels(t) <=>
               \E i \in 1..Len(t.params) : LastTo(t.params, i, x, Len(t.params))
         /\ \A i \in 1..Len(t.params) :
               LastTo(t.params, i, x, Len(t.params)) => Labels(t)[x] = t.params[i].value
<1> DEFINE ps == t.params
           n == Len(ps)
<1>1. PICK h \in [0..n -> LabelMaps] : LabelsAfter(ps, h) /\ Labels(t) = h[n]
  BY LabelsLoop
<1>2. n \in Nat
  BY LenProperties
<1> HIDE DEF n, ps
<1>3. h[0] = NoMap /\ \A m \in 1..n :
         h[m] = IF IsLabel(ps[m]) THEN Put(h[m - 1], ps[m].name, ps[m].value) ELSE h[m - 1]
  <2>1. 0 \in 0..n /\ \A m \in 1..n : m \in 0..n /\ m # 0
    BY <1>2
  <2>2. \A m \in 0..n : h[m] = IF m = 0 THEN NoMap
          ELSE IF IsLabel(ps[m]) THEN Put(h[m - 1], ps[m].name, ps[m].value) ELSE h[m - 1]
    BY <1>1 DEF LabelsAfter, n
  <2>3. QED
    BY <2>1, <2>2
<1> DEFINE Right(m) == /\ x \in DOMAIN h[m] <=> \E i \in 1..m : LastTo(ps, i, x, m)
                       /\ \A i \in 1..m : LastTo(ps, i, x, m) => h[m][x] = ps[i].value
           P == {m \in 0..n : Right(m)}
<1>4. 0 \in P
  BY <1>2, <1>3 DEF NoMap
<1>5. ASSUME NEW m \in 1..n, m - 1 \in P PROVE m \in P
  <2>1. m \in 0..n /\ m \in Nat /\ Right(m - 1)
    BY <1>2, <1>5
  <2>2. CASE IsLabel(ps[m]) /\ ps[m].name = x
    <3>1. x \in DOMAIN h[m] /\ h[m][x] = ps[m].value
      BY <1>3, <2>2 DEF Put
    <3>2. LastTo(ps, m, x, m)
      BY <2>1, <2>2 DEF LastTo
    <3>3. ASSUME NEW i \in 1..m, LastTo(ps, i, x, m) PROVE i = m
      BY <2>1, <2>2, <3>3 DEF LastTo
    <3>4. Right(m)
      BY <2>1, <3>1, <3>2, <3>3
    <3>5. QED
      BY <2>1, <3>4
  <2>3. CASE ~(IsLabel(ps[m]) /\ ps[m].name = x)
    <3>1. /\ x \in DOMAIN h[m] <=> x \in DOMAIN h[m - 1]
          /\ x \in DOMAIN h[m - 1] => h[m][x] = h[m - 1][x]
      <4>1. CASE IsLabel(ps[m])
        <5>1. ps[m].name # x /\ h[m] = Put(h[m - 1], ps[m].name, ps[m].value)
          BY <1>3, <2>3, <4>1
        <5>2. QED
          BY <5>1 DEF Put
      <4>2. CASE ~IsLabel(ps[m])
        BY <1>3, <4>2
      <4>3. QED
        BY <4>1, <4>2
    <3>2. \A i \in 1..m : LastTo(ps, i, x, m) <=> i \in 1..m-1 /\ LastTo(ps, i, x, m - 1)
      BY <2>1, <2>3 DEF LastTo
    <3>3. \A i \in 1..m-1 : i \in 1..m
      BY <2>1
    <3> HIDE DEF P
    <3>4. Right(m)
      BY <2>1, <3>1, <3>2, <3>3
    <3>5. QED
      BY <2>1, <3>4 DEF P
  <2>4. QED
    BY <2>2, <2>3
<1>6. n \in P
  <2> HIDE DEF P
  <2>1. 0..n \subseteq P
    BY <1>2, <1>4, <1>5, UpTo
  <2>2. QED
    BY <1>2, <2>1
<1>7. n \in 0..n
  BY <1>2
<1>8. QED
  BY <1>1, <1>6, <1>7 DEF n, ps

-----------------------------------------------------------------------------
(* Ports *)

BindingMaps == UNION {[D -> Nat] : D \in SUBSET UNION {Mapped(m) : m \in Mappings}}

\* A mapping is added to the bindings b.
Bind(b, m) ==
    [x \in DOMAIN b \cup Mapped(m) |-> IF x \in Mapped(m) THEN m.host ELSE b[x]]

\* The bindings after the first i mappings ms.
BindingsAfter(ms, h) ==
    h = [i \in 0..Len(ms) |-> IF i = 0 THEN NoMap ELSE Bind(h[i - 1], ms[i])]

LEMMA BindType ==
  ASSUME NEW b \in BindingMaps, NEW m \in Mappings
  PROVE  Bind(b, m) \in BindingMaps
<1> DEFINE all == UNION {Mapped(k) : k \in Mappings}
<1>1. PICK D \in SUBSET all : b \in [D -> Nat]
  BY DEF BindingMaps
<1>2. D \cup Mapped(m) \in SUBSET all
  OBVIOUS
<1>3. m.host \in Nat
  BY DEF Mappings
<1>4. Bind(b, m) \in [D \cup Mapped(m) -> Nat]
  BY <1>1, <1>3 DEF Bind
<1>5. QED
  BY <1>2, <1>4 DEF BindingMaps

\* The loop of PortBindingsForTask.
LEMMA BindingsLoop ==
  ASSUME NEW t, t.ports \in Seq(Mappings)
  PROVE  \E h \in [0..Len(t.ports) -> BindingMaps] :
            BindingsAfter(t.ports, h) /\ PortBindings(t) = h[Len(t.ports)]
<1> DEFINE ms == t.ports
           n == Len(ms)
           A == BindingMaps
           step == [i \in 1..n |-> [b \in A |-> Bind(b, ms[i])]]
<1>1. n \in Nat /\ \A i \in 1..n : ms[i] \in Mappings
  BY ElementOfSeq, LenProperties
<1>2. NoMap \in A
  <2>1. NoMap \in [{} -> Nat]
    BY DEF NoMap
  <2>2. QED
    BY <2>1 DEF BindingMaps
<1>3. \A i \in 1..n : \A b \in A : Bind(b, ms[i]) \in A
  BY <1>1, BindType
<1> HIDE DEF n, A, ms
<1>4. step \in [1..n -> [A -> A]]
  BY <1>3
<1>5. \A i \in 1..n : \A b \in A : step[i][b] = Bind(b, ms[i])
  OBVIOUS
<1> HIDE DEF step
<1>6. PICK f \in [0..n -> A] : Loop(f, n, NoMap, step)
  <2>1. n \in Nat
    BY <1>1
  <2>2. QED
    BY <1>2, <1>4, <2>1, LoopExists
<1>7. \A i \in 1..n : i \in 0..n /\ i # 0 /\ i - 1 \in 0..n
  BY <1>1
<1>8. f = [i \in 0..n |-> IF i = 0 THEN NoMap ELSE Bind(f[i - 1], ms[i])]
  <2>1. f[0] = NoMap /\ \A i \in 1..n : f[i] = step[i][f[i - 1]]
    BY <1>6 DEF Loop
  <2>2. \A i \in 1..n : f[i] = Bind(f[i - 1], ms[i])
    BY <1>5, <1>7, <2>1
  <2>3. \A i \in 0..n : i # 0 => i \in 1..n
    BY <1>1
  <2>4. QED
    BY <2>1, <2>2, <2>3
<1> DEFINE h == CHOOSE h : h = [i \in 0..n |-> IF i = 0 THEN NoMap ELSE Bind(h[i - 1], ms[i])]
<1>9. BindingsAfter(ms, h)
  BY <1>8, Zenon DEF BindingsAfter, n
<1>10. PortBindings(t) = h[n]
  BY Zenon DEF PortBindings, Bind, n, ms
<1> HIDE DEF h
<1>11. \A i \in 0..n : h[i] = IF i = 0 THEN NoMap ELSE Bind(h[i - 1], ms[i])
  BY <1>9 DEF BindingsAfter, n
<1> DEFINE P == {i \in 0..n : h[i] \in A}
<1>12. 0 \in P
  BY <1>1, <1>2, <1>11
<1>13. \A i \in 1..n : i - 1 \in P => i \in P
  BY <1>3, <1>7, <1>11
<1>14. \A i \in 0..n : h[i] \in A
  <2>1. n \in Nat
    BY <1>1
  <2> HIDE DEF P
  <2>2. 0..n \subseteq P
    BY <1>12, <1>13, <2>1, UpTo
  <2>3. QED
    BY <2>2 DEF P
<1>15. h \in [0..n -> A]
  BY <1>9, <1>14 DEF BindingsAfter, n
<1>16. QED
  BY <1>9, <1>10, <1>15 DEF n, A, ms

\* A port is bound as the last of its mappings says.
LEMMA BindingsLast ==
  ASSUME NEW t, t.ports \in Seq(Mappings), NEW x,
         NEW i \in 1..Len(t.ports), x \in Mapped(t.ports[i]),
         \A j \in 1..Len(t.ports) : j > i => x \notin Mapped(t.ports[j])
  PROVE  x \in DOMAIN PortBindings(t) /\ PortBindings(t)[x] = t.ports[i].host
<1> DEFINE ms == t.ports
           n == Len(ms)
<1>1. PICK h \in [0..n -> BindingMaps] : BindingsAfter(ms, h) /\ PortBindings(t) = h[n]
  BY BindingsLoop
<1>2. n \in Nat /\ i \in 1..n /\ n \in 0..n
  BY LenProperties
<1>3. x \in Mapped(ms[i]) /\ \A j \in 1..n : j > i => x \notin Mapped(ms[j])
  OBVIOUS
<1> HIDE DEF n, ms
<1>4. \A m \in 1..n : h[m] = Bind(h[m - 1], ms[m])
  <2>1. \A m \in 1..n : m \in 0..n /\ m # 0
    BY <1>2
  <2>2. \A m \in 0..n : h[m] = IF m = 0 THEN NoMap ELSE Bind(h[m - 1], ms[m])
    BY <1>1 DEF BindingsAfter, n
  <2>3. QED
    BY <2>1, <2>2
<1> DEFINE Right(m) == x \in DOMAIN h[m] /\ h[m][x] = ms[i].host
           P == {m \in 0..n : m >= i => Right(m)}
<1>5. 0 \in P
  BY <1>2
<1>6. ASSUME NEW m \in 1..n, m - 1 \in P PROVE m \in P
  <2>1. m \in 0..n /\ m \in Nat
    BY <1>2
  <2>2. CASE m < i
    BY <1>2, <2>1, <2>2
  <2>3. CASE m = i
    <3>1. h[m] = Bind(h[m - 1], ms[m]) /\ x \in Mapped(ms[m])
      BY <1>3, <1>4, <2>3
    <3>2. x \in DOMAIN h[m] /\ h[m][x] = ms[m].host
      BY <3>1 DEF Bind
    <3>3. QED
      BY <2>1, <2>3, <3>2
  <2>4. CASE m > i
    <3>1. Right(m - 1)
      BY <1>2, <1>6, <2>4
    <3>2. x \notin Mapped(ms[m])
      BY <1>3, <2>4
    <3>3. h[m] = Bind(h[m - 1], ms[m])
      BY <1>4
    <3>4. x \in DOMAIN h[m] /\ h[m][x] = h[m - 1][x]
      BY <3>1, <3>2, <3>3 DEF Bind
    <3>5. QED
      BY <2>1, <3>1, <3>4
  <2>5. QED
    BY <1>2, <2>1, <2>2, <2>3, <2>4
<1>7. Right(n)
  <2> HIDE DEF P
  <2>1. 0..n \subseteq P
    BY <1>2, <1>5, <1>6, UpTo
  <2>2. QED
    BY <1>2, <2>1 DEF P
<1>8. QED
  BY <1>1, <1>7 DEF n, ms

-----------------------------------------------------------------------------
(* Limits *)

LEMMA DivBounds ==
  ASSUME NEW a \in Nat, NEW d \in Nat \ {0}
  PROVE  /\ a \div d \in Nat
         /\ a <= 1024 * d => a \div d <= 1024
         /\ a >= d => a \div d >= 1
OBVIOUS

\* A resource is named with its value, in hundredths, or is not.
LEMMA ResourceType ==
  ASSUME NEW t \in Tasks, NEW name
  PROVE  Resource(t, name) \in Nat \cup {-1}
<1> DEFINE S == [name : STRING, value : Nat]
           rs == Those(t.resources, LAMBDA r : r.name = name)
           K == {i \in DOMAIN t.resources : t.resources[i].name = name}
<1>1. t.resources \in Seq(S)
  BY TaskAssumption
<1>2. rs = FlattenSeq(Picked(t.resources, K))
  <2>1. Picked(t.resources, K) = [i \in DOMAIN t.resources |->
           IF t.resources[i].name = name THEN <<t.resources[i]>> ELSE <<>>]
    BY DEF Picked
  <2>2. QED
    BY <2>1 DEF Those
<1>3. rs \in Seq(S)
  <2> HIDE DEF rs, S, K
  <2>1. QED
    BY <1>1, <1>2, PickedElements
<1>4. Resource(t, name) = IF rs = <<>> THEN -1 ELSE rs[1].value
  BY DEF Resource
<1> HIDE DEF rs
<1>5. CASE rs # <<>>
  <2>1. 1 \in 1..Len(rs)
    BY <1>3, <1>5, EmptySeq
  <2>2. rs[1] \in S
    BY <1>3, <2>1, ElementOfSeq
  <2>3. QED
    BY <1>4, <1>5, <2>2
<1>6. QED
  BY <1>4, <1>5

LEMMA Limits ==
  ASSUME NEW t \in Tasks, NEW s \in Settings
  PROVE  /\ CpuLimit(t, s).shares \in 0..1024
         /\ CpuLimit(t, s).shares = 0 \/ CpuLimit(t, s).quota = 0
         /\ s.forceCpu /\ 1024 * Resource(t, "cpus") >= 100 * NumCPU =>
               CpuLimit(t, s).shares + CpuLimit(t, s).quota > 0
         /\ ~s.forceCpu => CpuLimit(t, s) = NoLimit
         /\ s.forceMemory /\ Resource(t, "mem") > 0 => Memory(t, s) > 0
<1> DEFINE cpus == Resource(t, "cpus")
           all == 100 * NumCPU
           cap == IF cpus > all THEN all ELSE cpus
           shares == (1024 * cap) \div all
           quota == (cpus * CpuPeriod) \div 100
<1>1. cpus \in Nat \cup {-1} /\ all \in Nat \ {0} /\ all >= 100
  BY ResourceType, ConfigAssumption
<1>2. CpuLimit(t, s) =
         IF cpus = -1 \/ ~s.forceCpu THEN NoLimit
         ELSE IF s.useShares THEN [NoLimit EXCEPT !.shares = shares]
         ELSE [NoLimit EXCEPT !.period = CpuPeriod, !.quota = quota]
  BY DEF CpuLimit
<1>3. ASSUME cpus # -1
      PROVE  shares \in 0..1024 /\ (1024 * cpus >= all => shares > 0)
  <2>1. cap \in Nat /\ cap <= all /\ (1024 * cpus >= all => 1024 * cap >= all)
    BY <1>1, <1>3
  <2> DEFINE a == 1024 * cap
  <2>2. a \in Nat /\ a <= 1024 * all /\ shares = a \div all
    BY <1>1, <2>1
  <2> HIDE DEF a, shares, all, cpus
  <2>3. a \div all \in Nat /\ a \div all <= 1024 /\ (a >= all => a \div all >= 1)
    BY <1>1, <2>2, DivBounds
  <2>4. 1024 * cpus >= all => a >= all
    BY <2>1 DEF a
  <2>5. QED
    BY <2>2, <2>3, <2>4
<1>4. ASSUME cpus # -1
      PROVE  quota \in Nat /\ (1024 * cpus >= all => quota > 0)
  <2>1. quota = 500 * cpus
    BY <1>1, <1>4 DEF CpuPeriod
  <2> HIDE DEF quota, cpus, all
  <2>2. QED
    BY <1>1, <1>4, <2>1
<1>5. Resource(t, "mem") > 0 => (Resource(t, "mem") * 1024 * 1024) \div 100 > 0
  <2> DEFINE mem == Resource(t, "mem")
  <2>1. mem \in Nat \cup {-1}
    BY ResourceType
  <2> HIDE DEF mem
  <2>2. mem > 0 => (mem * 1024 * 1024) \div 100 > 0
    BY <2>1
  <2>3. QED
    BY <2>2 DEF mem
<1> HIDE DEF shares, quota, all, cpus
<1>6. /\ CpuLimit(t, s).shares \in 0..1024
      /\ CpuLimit(t, s).shares = 0 \/ CpuLimit(t, s).quota = 0
      /\ s.forceCpu /\ 1024 * cpus >= all =>
            CpuLimit(t, s).shares + CpuLimit(t, s).quota > 0
      /\ ~s.forceCpu => CpuLimit(t, s) = NoLimit
  <2>1. CASE cpus = -1 \/ ~s.forceCpu
    BY <1>1, <1>2, <2>1 DEF NoLimit
  <2>2. CASE cpus # -1 /\ s.forceCpu /\ s.useShares
    BY <1>2, <1>3, <2>2 DEF NoLimit
  <2>3. CASE cpus # -1 /\ s.forceCpu /\ ~s.useShares
    BY <1>2, <1>4, <2>3 DEF NoLimit
  <2>4. QED
    BY <2>1, <2>2, <2>3
<1>7. s.forceMemory /\ Resource(t, "mem") > 0 => Memory(t, s) > 0
  BY <1>5 DEF Memory
<1>8. QED
  BY <1>6, <1>7 DEF cpus, all

-----------------------------------------------------------------------------
(* The environment *)

LEMMA ParamsType ==
  ASSUME NEW t \in Tasks, NEW key
  PROVE  Params(t, key) \in Seq(Parameters)
<1> DEFINE K == {i \in DOMAIN t.params : t.params[i].key = key}
<1>1. t.params \in Seq(Parameters)
  BY TaskAssumption
<1>2. Params(t, key) = FlattenSeq(Picked(t.params, K))
  <2>1. Picked(t.params, K) = [i \in DOMAIN t.params |->
           IF t.params[i].key = key THEN <<t.params[i]>> ELSE <<>>]
    BY DEF Picked
  <2>2. QED
    BY <2>1 DEF Params, Those
<1> HIDE DEF K
<1>3. QED
  BY <1>1, <1>2, PickedElements

\* Each mapping with a host port is announced by its numbers.
LEMMA PortVarsType ==
  ASSUME NEW t \in Tasks
  PROVE  /\ PortVars(t) \in Seq(EnvEntries)
         /\ \A i \in 1..Len(t.ports) :
               t.ports[i].container >= 1 /\ t.ports[i].host >= 1 =>
                  Contains(PortVars(t), Var("MESOS_PORT_" \o ToString(t.ports[i].container),
                                            ToString(t.ports[i].host)))
<1> DEFINE K == {i \in DOMAIN t.ports : t.ports[i].container >= 1 /\ t.ports[i].host >= 1}
           ms == FlattenSeq(Picked(t.ports, K))
           PortVar(m) == Var("MESOS_PORT_" \o ToString(m.container), ToString(m.host))
<1>1. t.ports \in Seq(Mappings)
  BY TaskAssumption
<1>2. PortVars(t) = [i \in DOMAIN ms |-> PortVar(ms[i])]
  <2>1. Picked(t.ports, K) = [i \in DOMAIN t.ports |->
           IF t.ports[i].container >= 1 /\ t.ports[i].host >= 1
             THEN <<t.ports[i]>> ELSE <<>>]
    BY DEF Picked
  <2>2. QED
    BY <2>1 DEF PortVars, Those
<1>3. /\ ms \in Seq(Mappings)
      /\ \A i \in (1..Len(t.ports)) \cap K : t.ports[i] \in ToSet(ms)
  <2> HIDE DEF K
  <2>1. QED
    BY <1>1, PickedElements
<1>4. \A m \in Mappings : PortVar(m) \in EnvEntries
  <2> SUFFICES ASSUME NEW m \in Mappings PROVE PortVar(m) \in EnvEntries
    OBVIOUS
  <2>1. m.container \in Nat /\ m.host \in Nat
    BY DEF Mappings
  <2>2. "MESOS_PORT_" \o ToString(m.container) \in Names /\ ToString(m.host) \in Texts
    BY <2>1 DEF Names, Texts
  <2>3. QED
    BY <2>2 DEF Var, EnvEntries
<1>5. DOMAIN t.ports = 1..Len(t.ports)
  BY <1>1, LenProperties
<1> DEFINE k == Len(ms)
<1>6. k \in Nat /\ DOMAIN ms = 1..k /\ \A i \in 1..k : ms[i] \in Mappings
  BY <1>3, LenProperties, ElementOfSeq
<1> HIDE DEF ms, PortVar, k
<1>7. PortVars(t) \in Seq(EnvEntries) /\ Len(PortVars(t)) = k
  <2>1. PortVars(t) \in [1..k -> EnvEntries]
    BY <1>2, <1>4, <1>6
  <2>2. QED
    BY <1>6, <2>1
<1>8. ASSUME NEW i \in 1..Len(t.ports),
             t.ports[i].container >= 1, t.ports[i].host >= 1
      PROVE  Contains(PortVars(t), PortVar(t.ports[i]))
  <2>1. t.ports[i] \in ToSet(ms)
    BY <1>3, <1>5, <1>8
  <2>2. PICK j \in 1..k : ms[j] = t.ports[i]
    BY <1>6, <2>1 DEF ToSet
  <2>3. PortVars(t)[j] = PortVar(t.ports[i])
    BY <1>2, <1>6, <2>2
  <2>4. QED
    BY <1>7, <2>3 DEF Contains
<1>9. QED
  BY <1>7, <1>8 DEF PortVar

LEMMA HostVarsType ==
  ASSUME NEW t \in Tasks
  PROVE  HostVars(t) \in Seq(EnvEntries)
<1> DEFINE S == [name : STRING, value : STRING, eq : {TRUE}]
           K == {i \in DOMAIN t.vars : t.vars[i].name = "TASK_HOST"}
           hosts == FlattenSeq(Picked(t.vars, K))
<1>1. t.vars \in Seq(S)
  BY TaskAssumption
<1>2. HostVars(t) = IF hosts = <<>> \/ hosts[1].value = "" THEN <<>>
                    ELSE <<Var("MESOS_HOSTNAME", hosts[1].value)>>
  <2>1. Picked(t.vars, K) = [i \in DOMAIN t.vars |->
           IF t.vars[i].name = "TASK_HOST" THEN <<t.vars[i]>> ELSE <<>>]
    BY DEF Picked
  <2>2. QED
    BY <2>1 DEF HostVars, Those
<1>3. hosts \in Seq(S)
  <2> HIDE DEF K, S
  <2>1. QED
    BY <1>1, PickedElements
<1> HIDE DEF hosts
<1>4. <<>> \in Seq(EnvEntries)
  OBVIOUS
<1>5. CASE hosts # <<>>
  <2>1. 1 \in 1..Len(hosts)
    BY <1>3, <1>5, EmptySeq
  <2>2. hosts[1] \in S
    BY <1>3, <2>1, ElementOfSeq
  <2>3. "MESOS_HOSTNAME" \in Names /\ hosts[1].value \in Texts
    BY <2>2 DEF Names, Texts
  <2>4. Var("MESOS_HOSTNAME", hosts[1].value) \in EnvEntries
    BY <2>3 DEF Var, EnvEntries
  <2>5. <<Var("MESOS_HOSTNAME", hosts[1].value)>> \in Seq(EnvEntries)
    BY <2>4
  <2>6. QED
    BY <1>2, <1>4, <2>5, Zenon
<1>6. CASE hosts = <<>>
  BY <1>2, <1>4, <1>6, Zenon
<1>7. QED
  BY <1>5, <1>6

LEMMA LabelVarType ==
  ASSUME NEW ls \in LabelMaps, NEW label, NEW name \in Names
  PROVE  LabelVar(ls, label, name) \in Seq(EnvEntries)
<1>1. ASSUME label \in DOMAIN ls PROVE Var(name, ls[label]) \in EnvEntries
  <2>1. ls[label] \in Texts
    <3>1. PICK D \in SUBSET STRING : ls \in [D -> STRING]
      BY DEF LabelMaps
    <3>2. ls[label] \in STRING
      BY <1>1, <3>1
    <3>3. QED
      BY <3>2 DEF Texts
  <2>2. QED
    BY <2>1 DEF Var, EnvEntries
<1>2. QED
  BY <1>1 DEF LabelVar

LEMMA VersionVarsType ==
  ASSUME NEW t \in Tasks
  PROVE  VersionVars(t) \in Seq(EnvEntries)
<1>1. t.image \in Seq(STRING)
  BY TaskAssumption
<1>2. ASSUME Len(t.image) >= 2 PROVE Var("SERVICE_VERSION", t.image[2]) \in EnvEntries
  <2>1. t.image[2] \in Texts
    BY <1>1, <1>2, ElementOfSeq DEF Texts
  <2>2. QED
    BY <2>1 DEF Var, EnvEntries, Names
<1>3. Len(t.image) \in Nat
  BY <1>1, LenProperties
<1>4. QED
  BY <1>2, <1>3 DEF VersionVars

LEMMA WithoutType ==
  ASSUME NEW ls \in LabelMaps, NEW k
  PROVE  Without(ls, k) \in LabelMaps
<1>1. PICK D \in SUBSET STRING : ls \in [D -> STRING]
  BY DEF LabelMaps
<1>2. Without(ls, k) \in [D \ {k} -> STRING]
  BY <1>1 DEF Without
<1>3. QED
  BY <1>1, <1>2 DEF LabelMaps

\* The environment that is planned, and what it says of the ports.
LEMMA PlannedType ==
  ASSUME NEW t \in Tasks, NEW added \in Seq(EnvEntries)
  PROVE  /\ Planned(t, added) \in Seq(EnvEntries)
         /\ \A i \in 1..Len(t.ports) :
               t.ports[i].container >= 1 /\ t.ports[i].host >= 1 =>
                  Contains(Planned(t, added),
                           Var("MESOS_PORT_" \o ToString(t.ports[i].container),
                               ToString(t.ports[i].host)))
<1> DEFINE E == EnvEntries
           ls == Without(Labels(t), ShellCommand)
           a == t.vars
           b == Params(t, "env")
           d == PortVars(t)
           e == HostVars(t)
           f == LabelVar(ls, "ServiceName", "SERVICE_NAME")
           g == LabelVar(ls, "Environment", "ENVIRONMENT")
           v == VersionVars(t)
<1>1. a \in Seq(E)
  <2>1. a \in Seq([name : STRING, value : STRING, eq : {TRUE}])
    BY TaskAssumption
  <2>2. \A i \in 1..Len(a) : a[i] \in E
    <3> SUFFICES ASSUME NEW i \in 1..Len(a) PROVE a[i] \in E
      OBVIOUS
    <3>1. a[i] \in [name : STRING, value : STRING, eq : {TRUE}]
      BY <2>1, ElementOfSeq
    <3>2. STRING \subseteq Names /\ STRING \subseteq Texts
      BY DEF Names, Texts
    <3>3. QED
      BY <3>1, <3>2 DEF EnvEntries
  <2>3. QED
    BY <2>1, <2>2
<1>2. b \in Seq(E)
  <2>1. b \in Seq(Parameters) /\ Parameters \subseteq E
    BY ParamsType DEF EnvEntries
  <2> HIDE DEF b, E
  <2>2. QED
    BY <2>1
<1>3. d \in Seq(E) /\ e \in Seq(E) /\ v \in Seq(E)
  BY PortVarsType, HostVarsType, VersionVarsType
<1>4. f \in Seq(E) /\ g \in Seq(E)
  <2>1. t.params \in Seq(Parameters)
    BY TaskAssumption
  <2>2. ls \in LabelMaps
    BY <2>1, LabelsLast, WithoutType
  <2>3. "SERVICE_NAME" \in Names /\ "ENVIRONMENT" \in Names
    BY DEF Names
  <2> HIDE DEF ls
  <2>4. QED
    BY <2>2, <2>3, LabelVarType
<1>5. Planned(t, added) = ((((((a \o b) \o added) \o d) \o e) \o f) \o g) \o v
  BY DEF Planned, Env
<1> HIDE DEF a, b, d, e, f, g, v, E
<1>6. \A p, q \in Seq(E) : p \o q \in Seq(E)
  BY ConcatProperties
<1>7. added \in Seq(E)
  BY DEF E
<1>8. /\ (a \o b) \o added \in Seq(E)
      /\ ((a \o b) \o added) \o d \in Seq(E)
      /\ (((a \o b) \o added) \o d) \o e \in Seq(E)
      /\ ((((a \o b) \o added) \o d) \o e) \o f \in Seq(E)
      /\ (((((a \o b) \o added) \o d) \o e) \o f) \o g \in Seq(E)
      /\ ((((((a \o b) \o added) \o d) \o e) \o f) \o g) \o v \in Seq(E)
  BY <1>1, <1>2, <1>3, <1>4, <1>6, <1>7, Zenon
<1>9. ToSet(d) \subseteq ToSet(Planned(t, added))
  <2>1. \A p, q \in Seq(E) : ToSet(p) \subseteq ToSet(p \o q) /\ ToSet(q) \subseteq ToSet(p \o q)
    BY ToSetConcat
  <2>2. ToSet(d) \subseteq ToSet(((a \o b) \o added) \o d)
    BY <1>3, <1>8, <2>1, Zenon
  <2>3. ToSet(((a \o b) \o added) \o d) \subseteq ToSet((((a \o b) \o added) \o d) \o e)
    BY <1>3, <1>8, <2>1, Zenon
  <2>4. ToSet((((a \o b) \o added) \o d) \o e)
          \subseteq ToSet(((((a \o b) \o added) \o d) \o e) \o f)
    BY <1>4, <1>8, <2>1, Zenon
  <2>5. ToSet(((((a \o b) \o added) \o d) \o e) \o f)
          \subseteq ToSet((((((a \o b) \o added) \o d) \o e) \o f) \o g)
    BY <1>4, <1>8, <2>1, Zenon
  <2>6. ToSet((((((a \o b) \o added) \o d) \o e) \o f) \o g) \subseteq ToSet(Planned(t, added))
    BY <1>3, <1>5, <1>8, <2>1, Zenon
  <2>7. QED
    BY <2>2, <2>3, <2>4, <2>5, <2>6, Zenon
<1>10. Planned(t, added) \in Seq(E)
  BY <1>5, <1>8
<1>11. \A x : Contains(d, x) => Contains(Planned(t, added), x)
  <2>1. \A s \in Seq(E) : \A x : Contains(s, x) <=> x \in ToSet(s)
    BY LenProperties DEF Contains, ToSet
  <2>2. QED
    BY <1>3, <1>9, <1>10, <2>1
<1>12. QED
  BY <1>10, <1>11, PortVarsType DEF d, E

\* Decryption of the next entry.
LEMMA ResolvedSteps ==
  ASSUME NEW env \in Seq(EnvEntries)
  PROVE  /\ Resolved(env, 0) = env
         /\ \A k \in 0..Len(env) : Len(Resolved(env, k)) = Len(env)
         /\ \A k \in 0..Len(env) : k + 1 <= Len(env) =>
              /\ Resolved(env, k)[k + 1] = env[k + 1]
              /\ env[k + 1].value \notin VaultPaths => Resolved(env, k + 1) = Resolved(env, k)
              /\ env[k + 1].value \in VaultPaths =>
                    Resolved(env, k + 1) = [Resolved(env, k) EXCEPT ![k + 1].value = Secret(@)]
<1> DEFINE n == Len(env)
<1>1. n \in Nat /\ env = [i \in 1..n |-> env[i]]
  BY LenProperties
<1>2. \A k : Resolved(env, k) = [i \in 1..n |-> IF i <= k THEN Secured(env[i]) ELSE env[i]]
  BY DEF Resolved
<1> HIDE DEF n
<1>3. Resolved(env, 0) = env
  <2>1. Resolved(env, 0) = [i \in 1..n |-> env[i]]
    BY <1>1, <1>2
  <2>2. QED
    BY <1>1, <2>1
<1>4. ASSUME NEW k \in 0..n PROVE Len(Resolved(env, k)) = n
  <2> DEFINE e(i) == IF i <= k THEN Secured(env[i]) ELSE env[i]
  <2>1. Resolved(env, k) = [i \in 1..n |-> e(i)]
    BY <1>2
  <2>2. n \in Nat
    BY <1>1
  <2> HIDE DEF e
  <2>3. QED
    BY <2>1, <2>2
<1>5. ASSUME NEW k \in 0..n, k + 1 <= n
      PROVE  /\ Resolved(env, k)[k + 1] = env[k + 1]
             /\ Resolved(env, k + 1) = [Resolved(env, k) EXCEPT ![k + 1] = Secured(env[k + 1])]
             /\ Resolved(env, k) = [Resolved(env, k) EXCEPT ![k + 1] = env[k + 1]]
  <2>1. n \in Nat
    BY <1>1
  <2>2. /\ k + 1 \in 1..n /\ ~(k + 1 <= k) /\ k + 1 <= k + 1
        /\ \A i \in 1..n : i # k + 1 => (i <= k + 1 <=> i <= k)
    BY <1>5, <2>1
  <2>3. Resolved(env, k)[k + 1] = env[k + 1]
    BY <1>2, <2>2
  <2>4. Resolved(env, k + 1) = [Resolved(env, k) EXCEPT ![k + 1] = Secured(env[k + 1])]
    BY <1>2, <2>2
  <2>5. Resolved(env, k) = [Resolved(env, k) EXCEPT ![k + 1] = env[k + 1]]
    BY <1>2, <2>2, <2>3
  <2>6. QED
    BY <2>3, <2>4, <2>5
<1>6. ASSUME NEW k \in 0..n, k + 1 <= n
      PROVE  /\ Resolved(env, k)[k + 1] = env[k + 1]
             /\ env[k + 1].value \notin VaultPaths => Resolved(env, k + 1) = Resolved(env, k)
             /\ env[k + 1].value \in VaultPaths =>
                   Resolved(env, k + 1) = [Resolved(env, k) EXCEPT ![k + 1].value = Secret(@)]
  BY <1>5, <1>6 DEF Secured
<1>7. QED
  BY <1>3, <1>4, <1>6 DEF n

LEMMA ConfigIsMade ==
  ASSUME NEW t, NEW s, NEW added, NEW e
  PROVE  ConfigWith(t, s, added, e) # NoConfig
<1>1. "labels" \in DOMAIN ConfigWith(t, s, added, e)
  BY DEF ConfigWith, ConfigForTask
<1>2. "labels" \notin DOMAIN NoConfig
  BY DEF NoConfig
<1>3. QED
  BY <1>1, <1>2

\* What the configuration is made of, whatever became of its environment.
LEMMA ConfigLimits ==
  ASSUME NEW t, NEW s, NEW added, NEW e
  PROVE  /\ ConfigWith(t, s, added, e).cpu = CpuLimit(t, s)
         /\ ConfigWith(t, s, added, e).memory = Memory(t, s)
BY DEF ConfigWith, ConfigForTask

LEMMA ConfigPorts ==
  ASSUME NEW t, NEW s, NEW added, NEW e
  PROVE  /\ ConfigWith(t, s, added, e).ports = Ports(t)
         /\ ConfigWith(t, s, added, e).bindings = PortBindings(t)
BY DEF ConfigWith, ConfigForTask

LEMMA ConfigLabels ==
  ASSUME NEW t, NEW s, NEW added, NEW e
  PROVE  /\ ConfigWith(t, s, added, e).labels = Without(Labels(t), ShellCommand)
         /\ ShellCommand \in DOMAIN Labels(t) =>
               ConfigWith(t, s, added, e).cmd = Labels(t)[ShellCommand]
BY DEF ConfigWith, ConfigForTask

LEMMA ConfigUpdated ==
  ASSUME NEW t, NEW s, NEW added, NEW e, NEW e2
  PROVE  /\ ConfigWith(t, s, added, e).env = e
         /\ [ConfigWith(t, s, added, e) EXCEPT !.env = e2] = ConfigWith(t, s, added, e2)
BY DEF ConfigWith, ConfigForTask

\* Before decryption the environment is as planned.
LEMMA ConfigPlanned ==
  ASSUME NEW t, NEW s, NEW added
  PROVE  ConfigForTask(t, s, added) = ConfigWith(t, s, added, Planned(t, added))
<1> DEFINE c == ConfigForTask(t, s, added)
<1>1. c.env = Planned(t, added) /\ "env" \in DOMAIN c
  BY DEF ConfigForTask, Planned
<1>2. c = [x \in DOMAIN c |-> c[x]]
  BY DEF ConfigForTask
<1> HIDE DEF c
<1>3. c = [c EXCEPT !.env = Planned(t, added)]
  BY <1>1, <1>2
<1>4. QED
  BY <1>3 DEF c, ConfigWith

-----------------------------------------------------------------------------
(* The launch *)

LEMMA InitInv == Init => IndInv
<1> SUFFICES ASSUME Init PROVE IndInv
  OBVIOUS
<1>1. addEnv \in Seq(EnvEntries)
  BY DEF Init
<1>2. QED
  BY <1>1, ConfigAssumption DEF Init, IndInv, Launching, Configured

\* The variables that the executor adds are entries.
LEMMA AddedType ==
  ASSUME NEW added \in Seq(EnvEntries)
  PROVE  /\ added \o <<Var("SIDECAR_SEEDS", "workers")>> \in Seq(EnvEntries)
         /\ added \o <<Var("AWS_ACCESS_KEY_ID", "key"),
                       Var("AWS_SECRET_ACCESS_KEY", "secret")>> \in Seq(EnvEntries)
<1>1. /\ Var("SIDECAR_SEEDS", "workers") \in EnvEntries
      /\ Var("AWS_ACCESS_KEY_ID", "key") \in EnvEntries
      /\ Var("AWS_SECRET_ACCESS_KEY", "secret") \in EnvEntries
  BY DEF Var, EnvEntries, Names, Texts
<1>2. /\ <<Var("SIDECAR_SEEDS", "workers")>> \in Seq(EnvEntries)
      /\ <<Var("AWS_ACCESS_KEY_ID", "key"),
           Var("AWS_SECRET_ACCESS_KEY", "secret")>> \in Seq(EnvEntries)
  BY <1>1
<1>3. \A a, b \in Seq(EnvEntries) : a \o b \in Seq(EnvEntries)
  BY ConcatProperties
<1>4. QED
  BY <1>2, <1>3, Zenon

LEMMA LaunchingStep ==
  IndInv /\ [Next]_vars => Launching'
<1> SUFFICES ASSUME IndInv, [Next]_vars PROVE Launching'
  OBVIOUS
<1> USE DEF Goto
<1>0. PullImageNumRetries \in Nat \ {0}
  BY ConfigAssumption
<1>1. CASE CheckImage
  <2>1. /\ pc = "check" /\ UNCHANGED <<task, settings, present, tries, addEnv, config, done>>
        /\ pc' = "pull" \/ (pc' = "seeds" /\ present /\ ~task.force)
    BY <1>1 DEF CheckImage
  <2>2. tries = 0
    BY <2>1 DEF IndInv, Launching
  <2>3. QED
    BY <1>0, <2>1, <2>2 DEF IndInv, Launching
<1>2. CASE PullImage
  <2>1. /\ pc = "pull" /\ tries' = tries + 1
        /\ UNCHANGED <<task, settings, addEnv, config, done>>
    BY <1>2 DEF PullImage
  <2>2. tries \in Nat /\ tries < PullImageNumRetries /\ done = 0
    BY <2>1 DEF IndInv, Launching
  <2>3. \/ pc' = "seeds" /\ present' = TRUE
        \/ pc' = "pull" /\ tries' < PullImageNumRetries /\ present' = present
        \/ pc' = "failed" /\ tries' = PullImageNumRetries /\ present' = present
    BY <1>0, <1>2, <2>1, <2>2 DEF PullImage
  <2>4. tries' \in 1..PullImageNumRetries /\ present' \in BOOLEAN
    <3>1. tries' \in 1..PullImageNumRetries
      BY <1>0, <2>1, <2>2
    <3>2. present' \in BOOLEAN
      BY <2>3 DEF IndInv, Launching
    <3>3. QED
      BY <3>1, <3>2
  <2>5. pc' \in {"seeds", "pull", "failed"} /\ (pc' = "seeds" => present' /\ tries' > 0)
    BY <2>3, <2>4
  <2>6. QED
    BY <2>1, <2>2, <2>3, <2>4, <2>5 DEF IndInv, Launching
<1>3. CASE AddSidecarSeeds
  <2>1. addEnv' \in Seq(EnvEntries)
    BY <1>3, AddedType DEF IndInv, Launching, AddSidecarSeeds
  <2>2. QED
    BY <1>3, <2>1 DEF IndInv, Launching, AddSidecarSeeds
<1>4. CASE AddAWSKeys
  <2>1. addEnv' \in Seq(EnvEntries)
    BY <1>4, AddedType DEF IndInv, Launching, AddAWSKeys
  <2>2. QED
    BY <1>4, <2>1 DEF IndInv, Launching, AddAWSKeys
<1>5. CASE MakeConfig
  BY <1>5 DEF IndInv, Launching, MakeConfig
<1>6. CASE Decrypt
  <2>1. config # NoConfig
    <3>1. \E e : config = ConfigWith(task, settings, addEnv, e)
      BY <1>6 DEF IndInv, Configured, Decrypt
    <3>2. PICK e : config = ConfigWith(task, settings, addEnv, e)
      BY <3>1
    <3>3. QED
      BY <3>2, ConfigIsMade
  <2>2. /\ pc = "decrypt" /\ UNCHANGED <<task, settings, present, tries, addEnv>>
        /\ pc' \in {"decrypt", "panic"} \/ (pc' = "failed" /\ config' = config)
    BY <1>6 DEF Decrypt
  <2>3. QED
    BY <2>1, <2>2 DEF IndInv, Launching
<1>7. CASE CreateContainer
  BY <1>7 DEF IndInv, Launching, CreateContainer
<1>8. CASE UNCHANGED vars
  BY <1>8 DEF IndInv, Launching, vars
<1>9. QED
  BY <1>1, <1>2, <1>3, <1>4, <1>5, <1>6, <1>7, <1>8 DEF Next

\* Decryption leaves the other entries of the configuration alone.
LEMMA DecryptStep ==
  ASSUME Configured, Launching, Decrypt
  PROVE  Configured'
<1> DEFINE env == Planned(task, addEnv)
           n == Len(env)
<1>1. /\ pc = "decrypt" /\ UNCHANGED <<task, settings, addEnv>>
      /\ done < Len(config.env)
      /\ task \in Tasks /\ addEnv \in Seq(EnvEntries)
  BY DEF Decrypt, Launching
<1>2. /\ done \in 0..n
      /\ config = ConfigWith(task, settings, addEnv, Resolved(env, done))
  BY <1>1 DEF Configured
<1>3. env \in Seq(EnvEntries)
  BY <1>1, PlannedType
<1> HIDE DEF env
<1>4. n \in Nat
  BY <1>3, LenProperties
<1>5. /\ config.env = Resolved(env, done)
      /\ \A e : [config EXCEPT !.env = e] = ConfigWith(task, settings, addEnv, e)
  <2>1. \A e : ConfigWith(task, settings, addEnv, e).env = e
    BY ConfigUpdated
  <2>2. config.env = Resolved(env, done)
    BY <1>2, <2>1
  <2>3. QED
    BY <1>2, <2>2, ConfigUpdated
<1>6. Len(Resolved(env, done)) = n
  BY <1>2, <1>3, ResolvedSteps
<1>7. done + 1 \in 0..n /\ done + 1 <= n
  BY <1>1, <1>2, <1>4, <1>5, <1>6
<1>8. /\ Resolved(env, done)[done + 1] = env[done + 1]
      /\ env[done + 1].value \notin VaultPaths =>
            Resolved(env, done + 1) = Resolved(env, done)
      /\ env[done + 1].value \in VaultPaths =>
            Resolved(env, done + 1) = [Resolved(env, done) EXCEPT ![done + 1].value = Secret(@)]
  BY <1>2, <1>3, <1>7, ResolvedSteps
<1>9. config.env[done + 1] = env[done + 1]
  BY <1>5, <1>8
<1>10. \/ pc' \in {"panic", "failed"}
       \/ pc' = "decrypt" /\ done' = done + 1
          /\ config' = ConfigWith(task, settings, addEnv, Resolved(env, done + 1))
  <2>1. CASE pc' \in {"panic", "failed"}
    BY <2>1
  <2>2. CASE /\ env[done + 1].value \notin VaultPaths
             /\ done' = done + 1 /\ UNCHANGED <<pc, config>>
    BY <1>1, <1>2, <1>8, <2>2
  <2>3. CASE /\ env[done + 1].value \in VaultPaths
             /\ config' = [config EXCEPT !.env[done + 1].value = Secret(@)]
             /\ done' = done + 1 /\ UNCHANGED pc
    <3>1. [config EXCEPT !.env[done + 1].value = Secret(@)]
            = [config EXCEPT !.env = [config.env EXCEPT ![done + 1].value = Secret(@)]]
      OBVIOUS
    <3>2. config' = [config EXCEPT !.env = Resolved(env, done + 1)]
      BY <1>5, <1>8, <2>3, <3>1
    <3>3. config' = ConfigWith(task, settings, addEnv, Resolved(env, done + 1))
      BY <1>5, <3>2
    <3>4. QED
      BY <1>1, <2>3, <3>3
  <2>4. QED
    BY <1>9, <2>1, <2>2, <2>3 DEF Decrypt, Goto
<1>11. QED
  <2>1. CASE pc' \in {"panic", "failed"}
    BY <2>1 DEF Configured
  <2>2. CASE /\ pc' = "decrypt" /\ done' = done + 1
             /\ config' = ConfigWith(task, settings, addEnv, Resolved(env, done + 1))
    <3>1. Planned(task, addEnv)' = env
      BY <1>1 DEF env
    <3>2. QED
      BY <1>1, <1>7, <2>2, <3>1 DEF Configured
  <2>3. QED
    BY <1>10, <2>1, <2>2

LEMMA ConfiguredStep ==
  IndInv /\ [Next]_vars => Configured'
<1> SUFFICES ASSUME IndInv, [Next]_vars PROVE Configured'
  OBVIOUS
<1> USE DEF Goto
<1>1. CASE CheckImage \/ PullImage \/ AddSidecarSeeds \/ AddAWSKeys
  <2>1. pc' \notin {"decrypt", "created"}
    BY <1>1 DEF CheckImage, PullImage, AddSidecarSeeds, AddAWSKeys
  <2>2. QED
    BY <2>1 DEF Configured
<1>2. CASE MakeConfig
  <2> DEFINE env == Planned(task, addEnv)
             c(e) == ConfigWith(task, settings, addEnv, e)
  <2>1. /\ pc' = "decrypt" /\ config' = ConfigForTask(task, settings, addEnv) /\ done = 0
        /\ UNCHANGED <<task, settings, addEnv, done>>
        /\ task \in Tasks /\ addEnv \in Seq(EnvEntries)
    BY <1>2 DEF MakeConfig, IndInv, Launching
  <2>2. env \in Seq(EnvEntries)
    BY <2>1, PlannedType
  <2>3. config' = c(env)
    BY <2>1, ConfigPlanned
  <2> HIDE DEF env, c
  <2>4. Resolved(env, 0) = env /\ Len(env) \in Nat
    BY <2>2, ResolvedSteps, LenProperties
  <2>5. config' = c(Resolved(env, 0)) /\ 0 \in 0..Len(env)
    BY <2>3, <2>4
  <2>6. env' = env
    BY <2>1 DEF env
  <2>7. QED
    BY <2>1, <2>5, <2>6 DEF Configured, env, c
<1>3. CASE Decrypt
  BY <1>3, DecryptStep DEF IndInv
<1>4. CASE CreateContainer
  <2> DEFINE env == Planned(task, addEnv)
             c(e) == ConfigWith(task, settings, addEnv, e)
  <2>1. /\ pc = "decrypt" /\ pc' = "created" /\ done = Len(config.env)
        /\ UNCHANGED <<task, settings, addEnv, config, done>>
        /\ task \in Tasks /\ addEnv \in Seq(EnvEntries)
    BY <1>4 DEF CreateContainer, IndInv, Launching
  <2>2. env \in Seq(EnvEntries)
    BY <2>1, PlannedType
  <2>3. done \in 0..Len(env) /\ config = c(Resolved(env, done))
    BY <2>1 DEF IndInv, Configured
  <2>4. config.env = Resolved(env, done)
    <3>1. \A e : c(e).env = e
      BY ConfigUpdated
    <3>2. QED
      BY <2>3, <3>1
  <2> HIDE DEF env, c
  <2>5. Len(Resolved(env, done)) = Len(env)
    BY <2>2, <2>3, ResolvedSteps
  <2>6. done = Len(env)
    BY <2>1, <2>4, <2>5
  <2>7. env' = env
    BY <2>1 DEF env
  <2>8. QED
    BY <2>1, <2>3, <2>6, <2>7 DEF Configured, env, c
<1>5. CASE UNCHANGED vars
  BY <1>5 DEF IndInv, Configured, vars
<1>6. QED
  BY <1>1, <1>2, <1>3, <1>4, <1>5 DEF Next

-----------------------------------------------------------------------------
(* Theorems *)

\* The launch keeps to its phases, and the configuration is always that of
\* the task with the first variables of its environment decrypted.
THEOREM LaunchInvariant == Spec => []IndInv
<1>1. IndInv /\ [Next]_vars => IndInv'
  BY LaunchingStep, ConfiguredStep DEF IndInv
<1>2. QED
  BY InitInv, <1>1, PTL DEF Spec

\* A container is only created of an image that Docker has, freshly pulled if
\* the task says so, and a pull is given up after its last attempt only.
THEOREM ImageSafe == Spec => []CreatesFromImage
<1>1. IndInv => CreatesFromImage
  BY ConfigAssumption DEF IndInv, Launching, CreatesFromImage, Created
<1>2. QED
  BY LaunchInvariant, <1>1, PTL

\* What a created container was made with.
LEMMA CreatedWith ==
  ASSUME IndInv, Created
  PROVE  LET env == Planned(task, addEnv) IN
         /\ task \in Tasks /\ settings \in Settings
         /\ env \in Seq(EnvEntries)
         /\ config = ConfigWith(task, settings, addEnv, Resolved(env, Len(env)))
         /\ config.env = Resolved(env, Len(env))
<1>1. /\ task \in Tasks /\ settings \in Settings /\ addEnv \in Seq(EnvEntries)
      /\ config = ConfigWith(task, settings, addEnv,
                             Resolved(Planned(task, addEnv), Len(Planned(task, addEnv))))
  BY DEF IndInv, Launching, Configured, Created
<1>2. QED
  BY <1>1, PlannedType, ConfigUpdated

\* Limits that are forced are limits, whatever the task asks for and however
\* many CPUs there are.
THEOREM LimitsSafe == Spec => []LimitsAreLimits
<1>1. ASSUME IndInv, Created
      PROVE  config.cpu = CpuLimit(task, settings) /\ config.memory = Memory(task, settings)
  BY <1>1, CreatedWith, ConfigLimits
<1>2. IndInv => LimitsAreLimits
  <2> SUFFICES ASSUME IndInv, Created PROVE LimitsAreLimits
    BY DEF LimitsAreLimits
  <2>1. task \in Tasks /\ settings \in Settings
    BY CreatedWith
  <2>2. config.cpu = CpuLimit(task, settings) /\ config.memory = Memory(task, settings)
    BY <1>1
  <2>3. QED
    BY <2>1, <2>2, Limits DEF LimitsAreLimits
<1>3. QED
  BY LaunchInvariant, <1>2, PTL

\* A decrypted variable keeps its name, and its value is no path.
LEMMA SecuredEntry ==
  ASSUME NEW e \in EnvEntries
  PROVE  /\ Secured(e).name = e.name
         /\ Secured(e).value = IF e.value \in VaultPaths THEN Secret(e.value) ELSE e.value
         /\ Secured(e).value \notin VaultPaths
<1>1. CASE e.value \in VaultPaths
  <2>1. Secured(e) = [e EXCEPT !.value = Secret(e.value)]
    BY <1>1 DEF Secured
  <2>2. Secured(e).name = e.name /\ Secured(e).value = Secret(e.value)
    BY <2>1 DEF EnvEntries, Parameters
  <2>3. QED
    BY <1>1, <2>2, PathAssumption
<1>2. CASE e.value \notin VaultPaths
  BY <1>2 DEF Secured
<1>3. QED
  BY <1>1, <1>2

\* The container gets every planned variable, in order, with the secrets in
\* the place of their paths.
THEOREM SecretsSafe == Spec => []SecretsResolved
<1>1. IndInv => SecretsResolved
  <2> SUFFICES ASSUME IndInv, Created PROVE SecretsResolved
    BY DEF SecretsResolved
  <2> DEFINE env == Planned(task, addEnv)
             n == Len(env)
  <2>1. env \in Seq(EnvEntries) /\ config.env = Resolved(env, n)
    BY CreatedWith
  <2> HIDE DEF env
  <2>2. n \in Nat /\ DOMAIN env = 1..n /\ \A i \in 1..n : env[i] \in EnvEntries
    BY <2>1, LenProperties, ElementOfSeq
  <2>3. \A i \in 1..n : config.env[i] = Secured(env[i])
    BY <2>1, <2>2 DEF Resolved
  <2>4. Len(config.env) = n
    BY <2>1, <2>2, ResolvedSteps
  <2>5. /\ Len(config.env) = Len(env)
        /\ \A i \in DOMAIN env :
             /\ config.env[i].name = env[i].name
             /\ config.env[i].value = IF env[i].value \in VaultPaths
                                        THEN Secret(env[i].value) ELSE env[i].value
             /\ config.env[i].value \notin VaultPaths
    BY <2>2, <2>3, <2>4, SecuredEntry
  <2>6. QED
    BY <2>5 DEF SecretsResolved, env, Planned
<1>2. QED
  BY LaunchInvariant, <1>1, PTL

\* A bound port goes where its last mapping says, is exposed and announced.
THEOREM PortsSafe == Spec => []PortsAgree
<1>1. ASSUME IndInv, Created, NEW i \in DOMAIN task.ports, NEW p \in {"tcp", "udp"},
             LastFor(i, p)
      PROVE  LET key == <<task.ports[i].container, p>> IN
             /\ key \in DOMAIN config.bindings
             /\ config.bindings[key] = task.ports[i].host
             /\ key[1] # 0 =>
                  /\ key \in config.ports
                  /\ Contains(config.env, Var("MESOS_PORT_" \o ToString(key[1]),
                                              ToString(config.bindings[key])))
  <2> DEFINE ms == task.ports
             m == task.ports[i]
             key == <<m.container, p>>
             env == Planned(task, addEnv)
             v == Var("MESOS_PORT_" \o ToString(m.container), ToString(m.host))
  <2>1. /\ task \in Tasks /\ addEnv \in Seq(EnvEntries) /\ env \in Seq(EnvEntries)
        /\ config.env = Resolved(env, Len(env))
        /\ config.ports = Ports(task) /\ config.bindings = PortBindings(task)
    <3>1. addEnv \in Seq(EnvEntries)
      BY <1>1 DEF IndInv, Launching
    <3>2. QED
      BY <1>1, <3>1, CreatedWith, ConfigPorts
  <2>2. ms \in Seq(Mappings)
    BY <2>1, TaskAssumption
  <2>3. i \in 1..Len(ms) /\ DOMAIN ms = 1..Len(ms) /\ \A j \in 1..Len(ms) : ms[j] \in Mappings
    BY <1>1, <2>2, LenProperties, ElementOfSeq
  <2>4. key \in Mapped(ms[i])
    BY <1>1 DEF LastFor, Mapped
  <2>5. \A j \in 1..Len(ms) : j > i => key \notin Mapped(ms[j])
    BY <1>1, <2>3 DEF LastFor, Mapped
  <2>6. key \in DOMAIN PortBindings(task) /\ PortBindings(task)[key] = m.host
    <3> HIDE DEF key
    <3>1. QED
      BY <2>2, <2>3, <2>4, <2>5, BindingsLast
  <2>7. ASSUME m.container # 0 PROVE key \in Ports(task)
    BY <1>1, <2>3, <2>7 DEF Ports, LastFor
  <2>8. ASSUME m.container # 0 PROVE Contains(config.env, v)
    <3>1. m.container >= 1 /\ m.host >= 1
      BY <1>1, <2>3, <2>8 DEF LastFor, Mappings
    <3>2. Contains(env, v)
      BY <2>1, <2>3, <3>1, PlannedType
    <3>3. v.value = ToString(m.host)
      BY DEF Var
    <3>4. v.value \notin VaultPaths
      BY <1>1, <2>1, <3>3, PathAssumption
    <3> HIDE DEF env, v
    <3>5. Len(env) \in Nat
      BY <2>1, LenProperties
    <3>6. PICK k \in 1..Len(env) : env[k] = v
      BY <3>2 DEF Contains
    <3>7. Resolved(env, Len(env))[k] = v
      BY <3>4, <3>5, <3>6 DEF Resolved, Secured
    <3>8. Len(Resolved(env, Len(env))) = Len(env)
      BY <2>1, <3>5, ResolvedSteps
    <3>9. QED
      BY <2>1, <3>7, <3>8 DEF Contains
  <2>9. QED
    BY <2>1, <2>6, <2>7, <2>8
<1>2. IndInv => PortsAgree
  BY <1>1 DEF PortsAgree
<1>3. QED
  BY LaunchInvariant, <1>2, PTL

\* Of several labels of one name the last one counts, everywhere.
THEOREM LabelsSafe == Spec => []LabelsAgree
<1>1. IndInv => LabelsAgree
  <2> SUFFICES ASSUME IndInv, Created PROVE LabelsAgree
    BY DEF LabelsAgree
  <2> DEFINE ps == task.params
             n == Len(ps)
             ls == Labels(task)
             LastOf(name) == {i \in DOMAIN ps :
                                /\ IsLabel(ps[i]) /\ ps[i].name = name
                                /\ \A j \in DOMAIN ps :
                                      j > i /\ ps[j].name = name => ~IsLabel(ps[j])}
  <2>1. /\ task \in Tasks
        /\ config.labels = Without(ls, ShellCommand)
        /\ ShellCommand \in DOMAIN ls => config.cmd = ls[ShellCommand]
    BY CreatedWith, ConfigLabels
  <2>2. ps \in Seq(Parameters)
    BY <2>1, TaskAssumption
  <2>3. DOMAIN ps = 1..n
    BY <2>2, LenProperties
  <2>4. \A x : /\ x \in DOMAIN ls <=> \E i \in 1..n : LastTo(ps, i, x, n)
               /\ \A i \in 1..n : LastTo(ps, i, x, n) => ls[x] = ps[i].value
    BY <2>2, LabelsLast
  <2>5. \A x : LastOf(x) = {i \in 1..n : LastTo(ps, i, x, n)}
    BY <2>3 DEF LastTo
  <2>6. \A x : /\ x \in DOMAIN ls <=> LastOf(x) # {}
               /\ \A i \in LastOf(x) : ls[x] = ps[i].value
    BY <2>4, <2>5
  <2> HIDE DEF LastOf, ls, n, ps
  <2>7. /\ ShellCommand \notin DOMAIN config.labels
        /\ \A x : x # ShellCommand =>
              /\ x \in DOMAIN config.labels <=> LastOf(x) # {}
              /\ \A i \in LastOf(x) : config.labels[x] = ps[i].value
        /\ \A i \in LastOf(ShellCommand) : config.cmd = ps[i].value
    BY <2>1, <2>6 DEF Without
  <2>8. ~ShouldCheckSidecar(config) <=> \E i \in LastOf("SidecarDiscover") : ps[i].value = "false"
    <3>1. "SidecarDiscover" # ShellCommand
      BY DEF ShellCommand
    <3>2. QED
      BY <2>7, <3>1 DEF ShouldCheckSidecar
  <2>9. \A i \in DOMAIN ps : i \in LastOf(ps[i].name) =>
           IF ps[i].name = ShellCommand
             THEN config.cmd = ps[i].value
             ELSE /\ ps[i].name \in DOMAIN config.labels
                  /\ config.labels[ps[i].name] = ps[i].value
    BY <2>7
  <2>10. QED
    BY <2>7, <2>8, <2>9 DEF LabelsAgree, LastOf, ps
<1>2. QED
  BY LaunchInvariant, <1>1, PTL

=============================================================================
