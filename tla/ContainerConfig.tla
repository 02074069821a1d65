-------------------------- MODULE ContainerConfig ---------------------------
(***************************************************************************)
(* What LaunchTask makes of a task before there is a container: the image  *)
(* is looked for and pulled, the environment is collected and its secrets  *)
(* are read from Vault, and the task is translated into Docker's           *)
(* configuration.                                                          *)
(*                                                                         *)
(* A parameter "name=value" is a record; the strings in it are opaque, but *)
(* for the values in VaultPaths, which stand for vault:// addresses.       *)
(***************************************************************************)
EXTENDS Integers, SequencesExt

CONSTANTS
    Tasks,          \* tasks to launch
    Settings,       \* settings of the executor
    NumCPU,         \* runtime.NumCPU()
    PullImageNumRetries,
    VaultPaths      \* values of variables that are paths in Vault

ASSUME ConfigAssumption == {NumCPU, PullImageNumRetries} \subseteq Nat \ {0}

Parameters == [key : STRING, name : STRING, value : STRING, eq : BOOLEAN]

Mappings == [container : Nat, host : Nat, protocols : Seq(STRING)]

ASSUME TaskAssumption ==
    /\ Tasks \subseteq
          [image : Seq(STRING), force : BOOLEAN, params : Seq(Parameters),
           ports : Seq(Mappings),
           vars : Seq([name : STRING, value : STRING, eq : {TRUE}]),
           volumes : Seq([host : STRING, container : STRING, mode : STRING]),
           network : STRING, resources : Seq([name : STRING, value : Nat])]
    /\ Settings \subseteq
          [forceCpu : BOOLEAN, forceMemory : BOOLEAN, useShares : BOOLEAN,
           seed : BOOLEAN, awsRole : BOOLEAN]

VARIABLES
    task, settings,
    pc,         \* where the launch is
    present,    \* Docker has the task's image
    tries,      \* attempts at pulling it
    addEnv,     \* variables the executor adds of its own
    config,     \* the container's configuration, once made
    done        \* how much of its environment is decrypted

vars == <<task, settings, pc, present, tries, addEnv, config, done>>

-----------------------------------------------------------------------------
(* Translation of the task.  "Parameters" are docker run's.                *)

\* The elements of l with P, in their order.
Those(l, P(_)) == FlattenSeq([i \in DOMAIN l |-> IF P(l[i]) THEN <<l[i]>> ELSE <<>>])

Params(t, key) == Those(t.params, LAMBDA p : p.key = key)

Values(t, key) == [i \in 1..Len(Params(t, key)) |-> Params(t, key)[i].value]

Put(f, k, v) == [x \in DOMAIN f \cup {k} |-> IF x = k THEN v ELSE f[x]]

NoMap == [x \in {} |-> ""]

IsLabel(p) == p.key = "label" /\ p.eq

\* One parameter after the other; a label without "=" is no label.
Labels(t) ==
    LET after[i \in 0..Len(t.params)] ==
          IF i = 0 THEN NoMap
          ELSE IF IsLabel(t.params[i])
            THEN Put(after[i - 1], t.params[i].name, t.params[i].value)
          ELSE after[i - 1]
    IN  after[Len(t.params)]

ShellCommand == "executor.ShellCommand"

Without(f, k) == [x \in DOMAIN f \ {k} |-> f[x]]

\* The protocols of a port mapping: with an empty one in the list - and an
\* unset list is a list of an empty one - only tcp.
Protocols(m) == IF \E i \in DOMAIN m.protocols : m.protocols[i] = ""
                  THEN {"tcp"} ELSE ToSet(m.protocols)

\* EXPOSE.
Ports(t) ==
    UNION {{<<t.ports[i].container, p>> : p \in Protocols(t.ports[i])} :
              i \in {j \in DOMAIN t.ports : t.ports[j].container # 0}}

\* The ports of a mapping that has a host port.
Mapped(m) == IF m.host >= 1 THEN {m.container} \X Protocols(m) ELSE {}

\* Mutant: the first mapping of a port is the one that counts.
PortBindingsFirst(t) ==
    LET after[i \in 0..Len(t.ports)] ==
          IF i = 0 THEN NoMap
          ELSE [x \in DOMAIN after[i - 1] \cup Mapped(t.ports[i]) |->
                  IF x \in DOMAIN after[i - 1] THEN after[i - 1][x] ELSE t.ports[i].host]
    IN  after[Len(t.ports)]

\* -P, one mapping after the other into a map.
PortBindings(t) ==
    LET after[i \in 0..Len(t.ports)] ==
          IF i = 0 THEN NoMap
          ELSE [x \in DOMAIN after[i - 1] \cup Mapped(t.ports[i]) |->
                  IF x \in Mapped(t.ports[i]) THEN t.ports[i].host ELSE after[i - 1][x]]
    IN  after[Len(t.ports)]

\* -v
Binds(t) == [i \in DOMAIN t.volumes |->
               [host |-> t.volumes[i].host, container |-> t.volumes[i].container,
                ro |-> t.volumes[i].mode \notin {"", "RW"}]]

NetworkMode(t) == IF t.network \in {"HOST", "NONE"} THEN t.network ELSE "default"

VolumeDriver(t) == LET vs == Values(t, "volume-driver")
                   IN  IF vs = <<>> THEN "" ELSE Last(vs)

\* The first resource of that name, in hundredths, and -1 if there is none.
Resource(t, name) ==
    LET rs == Those(t.resources, LAMBDA r : r.name = name)
    IN  IF rs = <<>> THEN -1 ELSE rs[1].value

NoLimit == [shares |-> 0, period |-> 0, quota |-> 0]

CpuPeriod == 50000

\* Mutant: a value over the number of CPUs is not scaled down.
CpuLimitUnscaled(t, s) ==
    LET cpus == Resource(t, "cpus") IN
    IF cpus = -1 \/ ~s.forceCpu THEN NoLimit
    ELSE IF s.useShares
      THEN [NoLimit EXCEPT !.shares = (1024 * cpus) \div (100 * NumCPU)]
    ELSE [NoLimit EXCEPT !.period = CpuPeriod, !.quota = (cpus * CpuPeriod) \div 100]

CpuLimit(t, s) ==
    LET cpus == Resource(t, "cpus")
        cap  == IF cpus > 100 * NumCPU THEN 100 * NumCPU ELSE cpus
    IN
    IF cpus = -1 \/ ~s.forceCpu THEN NoLimit
    ELSE IF s.useShares
      THEN [NoLimit EXCEPT !.shares = (1024 * cap) \div (100 * NumCPU)]
    ELSE [NoLimit EXCEPT !.period = CpuPeriod, !.quota = (cpus * CpuPeriod) \div 100]

Memory(t, s) ==
    IF Resource(t, "mem") = -1 \/ ~s.forceMemory THEN 0
    ELSE (Resource(t, "mem") * 1024 * 1024) \div 100

-----------------------------------------------------------------------------
(* Environment *)

Var(name, value) == [name |-> name, value |-> value, eq |-> TRUE]

\* MESOS_PORT_<container>=<host>
PortVars(t) ==
    LET ms == Those(t.ports, LAMBDA m : m.container >= 1 /\ m.host >= 1)
    IN  [i \in DOMAIN ms |-> Var("MESOS_PORT_" \o ToString(ms[i].container),
                                 ToString(ms[i].host))]

HostVars(t) ==
    LET hosts == Those(t.vars, LAMBDA v : v.name = "TASK_HOST")
    IN  IF hosts = <<>> \/ hosts[1].value = "" THEN <<>>
        ELSE <<Var("MESOS_HOSTNAME", hosts[1].value)>>

LabelVar(ls, label, name) ==
    IF label \in DOMAIN ls THEN <<Var(name, ls[label])>> ELSE <<>>

\* The image's name is cut at every colon; the second part is the version.
VersionVars(t) ==
    IF Len(t.image) < 2 THEN <<>> ELSE <<Var("SERVICE_VERSION", t.image[2])>>

Env(t, ls, added) ==
    t.vars \o Params(t, "env") \o added \o PortVars(t) \o HostVars(t)
      \o LabelVar(ls, "ServiceName", "SERVICE_NAME")
      \o LabelVar(ls, "Environment", "ENVIRONMENT")
      \o VersionVars(t)

-----------------------------------------------------------------------------

\* Mutant: the shell command stays among the labels.
ConfigWithCommandLabel(t, s, added) ==
    LET ls == Labels(t) IN
    [env |-> Env(t, ls, added), labels |-> ls,
     cmd |-> IF ShellCommand \in DOMAIN ls THEN ls[ShellCommand] ELSE "",
     ports |-> Ports(t), bindings |-> PortBindings(t), binds |-> Binds(t),
     network |-> NetworkMode(t), driver |-> VolumeDriver(t),
     capAdd |-> Values(t, "cap-add"), capDrop |-> Values(t, "cap-drop"),
     cpu |-> CpuLimit(t, s), memory |-> Memory(t, s)]

ConfigForTask(t, s, added) ==
    LET all == Labels(t)
        ls  == Without(all, ShellCommand)
    IN
    [env |-> Env(t, ls, added), labels |-> ls,
     cmd |-> IF ShellCommand \in DOMAIN all THEN all[ShellCommand] ELSE "",
     ports |-> Ports(t), bindings |-> PortBindings(t), binds |-> Binds(t),
     network |-> NetworkMode(t), driver |-> VolumeDriver(t),
     capAdd |-> Values(t, "cap-add"), capDrop |-> Values(t, "cap-drop"),
     cpu |-> CpuLimit(t, s), memory |-> Memory(t, s)]

\* shouldCheckSidecar: only a label that says false turns it off.
ShouldCheckSidecar(c) ==
    ~("SidecarDiscover" \in DOMAIN c.labels /\ c.labels["SidecarDiscover"] = "false")

NoConfig == [env |-> <<>>]

Init ==
    /\ task \in Tasks /\ settings \in Settings
    /\ present \in BOOLEAN
    /\ pc = "check"
    /\ tries = 0 /\ addEnv = <<>> /\ config = NoConfig /\ done = 0

Goto(l) == pc' = l

\* CheckImage; a list that fails is a list without the image.
CheckImage ==
    /\ pc = "check"
    /\ \/ Goto(IF present /\ ~task.force THEN "seeds" ELSE "pull")
       \/ Goto("pull")
    /\ UNCHANGED <<task, settings, present, tries, addEnv, config, done>>

\* Mutant: an image that could not be pulled may be there all the same.
PullImageOrNot ==
    /\ pc = "pull"
    /\ tries' = tries + 1
    /\ \/ present' = TRUE /\ Goto("seeds")
       \/ Goto(IF tries' < PullImageNumRetries THEN "pull" ELSE "seeds")
          /\ UNCHANGED present
    /\ UNCHANGED <<task, settings, addEnv, config, done>>

PullImage ==
    /\ pc = "pull"
    /\ tries' = tries + 1
    /\ \/ present' = TRUE /\ Goto("seeds")
       \/ Goto(IF tries' < PullImageNumRetries THEN "pull" ELSE "failed")
          /\ UNCHANGED present
    /\ UNCHANGED <<task, settings, addEnv, config, done>>

\* addSidecarSeeds; whatever goes wrong with either request, the launch goes
\* on without the seeds.
AddSidecarSeeds ==
    /\ pc = "seeds"
    /\ addEnv' \in {addEnv} \cup
          (IF settings.seed THEN {addEnv \o <<Var("SIDECAR_SEEDS", "workers")>>} ELSE {})
    /\ Goto("aws")
    /\ UNCHANGED <<task, settings, present, tries, config, done>>

\* AddAndMonitorVaultAWSKeys; the rest of the lease is Vault's and Executor's.
AddAWSKeys ==
    /\ pc = "aws"
    /\ \/ ~settings.awsRole /\ Goto("config") /\ UNCHANGED addEnv
       \/ settings.awsRole /\ Goto("config")
          /\ addEnv' = addEnv \o <<Var("AWS_ACCESS_KEY_ID", "key"),
                                   Var("AWS_SECRET_ACCESS_KEY", "secret")>>
       \/ settings.awsRole /\ Goto("failed") /\ UNCHANGED addEnv
    /\ UNCHANGED <<task, settings, present, tries, config, done>>

MakeConfig ==
    /\ pc = "config"
    /\ config' = ConfigForTask(task, settings, addEnv)
    /\ Goto("decrypt")
    /\ UNCHANGED <<task, settings, present, tries, addEnv, done>>

\* What ReadSecretValue returns for a path.
Secret(path) == "secret of " \o path

\* No secret is the path of another one, and no number is a path.
ASSUME PathAssumption ==
    /\ \A p \in VaultPaths : Secret(p) \notin VaultPaths
    /\ \A t \in Tasks : \A i \in DOMAIN t.ports : ToString(t.ports[i].host) \notin VaultPaths

\* Mutant: a secret that cannot be read leaves its path in the environment.
DecryptLeniently ==
    /\ pc = "decrypt" /\ done < Len(config.env)
    /\ config' \in {config, [config EXCEPT !.env[done + 1].value = Secret(@)]}
    /\ done' = done + 1
    /\ UNCHANGED <<task, settings, pc, present, tries, addEnv>>

\* DecryptAllEnv, one variable after the other.  A variable without "=", as
\* docker run -e allows, is more than the split of it takes.
Decrypt ==
    /\ pc = "decrypt" /\ done < Len(config.env)
    /\ LET v == config.env[done + 1] IN
         \/ ~v.eq /\ Goto("panic") /\ UNCHANGED <<config, done>>
         \/ v.eq /\ v.value \notin VaultPaths
            /\ done' = done + 1 /\ UNCHANGED <<pc, config>>
         \/ v.eq /\ v.value \in VaultPaths
            /\ config' = [config EXCEPT !.env[done + 1].value = Secret(@)]
            /\ done' = done + 1 /\ UNCHANGED pc
         \/ v.eq /\ v.value \in VaultPaths
            /\ Goto("failed") /\ UNCHANGED <<config, done>>
    /\ UNCHANGED <<task, settings, present, tries, addEnv>>

CreateContainer ==
    /\ pc = "decrypt" /\ done = Len(config.env)
    /\ Goto("created")
    /\ UNCHANGED <<task, settings, present, tries, addEnv, config, done>>

Next ==
    \/ CheckImage \/ PullImage \/ AddSidecarSeeds \/ AddAWSKeys
    \/ MakeConfig \/ Decrypt \/ CreateContainer

Spec == Init /\ [][Next]_vars

-----------------------------------------------------------------------------
(* Properties *)

Created == pc = "created"

\* A container is only created of an image that Docker has - freshly pulled
\* if the task says so - and a pull is given up after its last attempt only.
CreatesFromImage ==
    /\ Created => present /\ (task.force => tries > 0)
    /\ tries <= PullImageNumRetries
    /\ pc = "failed" /\ config = NoConfig =>
          tries = PullImageNumRetries \/ settings.awsRole

\* The container gets every variable that was planned for it, in that order,
\* with the secrets in the place of their paths and no path left.
SecretsResolved ==
    Created =>
        LET planned == Env(task, Without(Labels(task), ShellCommand), addEnv) IN
        /\ Len(config.env) = Len(planned)
        /\ \A i \in DOMAIN planned :
             /\ config.env[i].name = planned[i].name
             /\ config.env[i].value = IF planned[i].value \in VaultPaths
                                        THEN Secret(planned[i].value)
                                        ELSE planned[i].value
             /\ config.env[i].value \notin VaultPaths

\* A mapping i that no later one of the same port and protocol replaces.
LastFor(i, proto) ==
    /\ proto \in Protocols(task.ports[i])
    /\ task.ports[i].host >= 1
    /\ \A j \in DOMAIN task.ports :
         /\ j > i /\ task.ports[j].host >= 1
         /\ task.ports[j].container = task.ports[i].container
         => proto \notin Protocols(task.ports[j])

\* A bound port goes to the host port its last mapping says, it is exposed
\* unless it is port 0, and it is announced to the container by its number.
PortsAgree ==
    Created =>
        \A i \in DOMAIN task.ports : \A p \in {"tcp", "udp"} :
            LastFor(i, p) =>
                LET key == <<task.ports[i].container, p>> IN
                /\ key \in DOMAIN config.bindings
                /\ config.bindings[key] = task.ports[i].host
                /\ key[1] # 0 =>
                     /\ key \in config.ports
                     /\ Contains(config.env, Var("MESOS_PORT_" \o ToString(key[1]),
                                                 ToString(config.bindings[key])))

\* Limits that are forced are limits: shares of no more than the whole
\* machine or a quota, not both, and not 0 - which means no limit to Docker -
\* unless a share is less than a 1024th of the machine.
LimitsAreLimits ==
    Created =>
        LET cpus == Resource(task, "cpus") IN
        /\ config.cpu.shares \in 0..1024
        /\ config.cpu.shares = 0 \/ config.cpu.quota = 0
        /\ settings.forceCpu /\ 1024 * cpus >= 100 * NumCPU =>
              config.cpu.shares + config.cpu.quota > 0
        /\ ~settings.forceCpu => config.cpu = NoLimit
        /\ settings.forceMemory /\ Resource(task, "mem") > 0 => config.memory > 0

\* Of several labels of one name the last counts, for the container, for what
\* the executor derives from them, and for whether Sidecar is asked; the shell
\* command becomes the command and no label.
LabelsAgree ==
    Created =>
        LET ps == task.params
            LastOf(name) == {i \in DOMAIN ps :
                               /\ IsLabel(ps[i]) /\ ps[i].name = name
                               /\ \A j \in DOMAIN ps : j > i /\ ps[j].name = name => ~IsLabel(ps[j])}
        IN  /\ \A i \in DOMAIN ps : i \in LastOf(ps[i].name) =>
                  IF ps[i].name = ShellCommand
                    THEN config.cmd = ps[i].value
                    ELSE /\ ps[i].name \in DOMAIN config.labels
                         /\ config.labels[ps[i].name] = ps[i].value
            /\ ShellCommand \notin DOMAIN config.labels
            /\ ~ShouldCheckSidecar(config) <=>
                  \E i \in LastOf("SidecarDiscover") : ps[i].value = "false"

=============================================================================
