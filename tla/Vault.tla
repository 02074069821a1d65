------------------------------- MODULE Vault --------------------------------
(***************************************************************************)
(* The executors of one host and their credentials in Vault: the token     *)
(* that most of them share through VAULT_TOKEN_FILE, the token of its own  *)
(* that an executor with an AWS role asks for, the lease on that role's    *)
(* credentials, and what is left in Vault when the executor has ended.     *)
(* Time is a clock that passes between the steps: tokens and leases expire *)
(* by it, and the code compares it with file times and padded expiries.    *)
(*                                                                         *)
(* Vault gives every login a new token; an executor logs in once at most,  *)
(* so a token is named after the executor that logged in for it.           *)
(***************************************************************************)
EXTENDS Integers

CONSTANTS
    Executors,           \* processes on the host
    RoleExecutors,       \* ... of which these may have an AWS role
    TTL,                 \* VAULT_TTL
    RoleTTLs,            \* values AWSRoleTTL may have; 0 is "not set"
    RoleMaxTTL,          \* AWSRoleMaxTTL
    DefaultRoleTTL,      \* DefaultAWSRoleTTL
    TokenGracePeriod,    \* a cached token this close to expiry is not used
    StartupGracePeriod,  \* what is added to every token's TTL
    Padding,             \* the 360 seconds added to or taken off a lease
    LoginTTL,            \* Vault: life of a token before it is renewed
    TokenMaxTTL,         \* Vault: longest life a renewal gives to a token
    LeaseTTL,            \* Vault: life of a new lease on the role
    LeaseMaxTTL,         \* Vault: longest life a renewal gives to a lease
    StartupTime,         \* longest time from the start to the container's
    VaultTime,           \* longest time Vault's answer takes
    StopTime,            \* longest time from the order to stop to the stop
    MaxTime              \* bound on the clock

None == "none"

Empty == "empty"

Garbled == "garbled"

ASSUME VaultAssumption ==
    /\ {None, Empty, Garbled} \cap Executors = {}
    /\ RoleExecutors \subseteq Executors
    /\ RoleTTLs \subseteq Nat
    /\ {TTL, RoleMaxTTL, DefaultRoleTTL, LoginTTL, TokenMaxTTL} \subseteq Nat
    /\ {TokenGracePeriod, StartupGracePeriod, Padding} \subseteq Nat
    /\ {LeaseTTL, LeaseMaxTTL, MaxTime} \subseteq Nat
    /\ {StartupTime, VaultTime, StopTime} \subseteq Nat

\* The timing the grace periods and the padding are made for.
ASSUME TimingAssumption ==
    /\ 2 * StartupTime <= StartupGracePeriod
    /\ StartupTime + StopTime <= StartupGracePeriod
    /\ VaultTime + StopTime <= Padding
    /\ Padding <= LeaseMaxTTL

VARIABLES
    clock,
    content,   \* the token file: None (no file), Empty, Garbled or a token
    mtime,     \* ... and when it was last modified
    expiry,    \* Vault: the last moment of a token, -1 if there is none
    lease,     \* Vault: the last moment of an executor's lease, or -1
    pc,        \* where each executor is
    role,      \* executors with an AWS role
    ttl,       \* GetTTL() or AWSRoleTTL of an executor
    held,      \* the token on an executor's client
    own,       \* envVault.token is set
    expires,   \* awsCredsLease.LeaseExpiryTime
    began,     \* when an executor started, until its start-up ends
    since,     \* when it began to wait for Vault or for the stop
    failed     \* history: executors that Vault refused or did not answer

file  == <<content, mtime>>
conf  == <<role, ttl>>
timers == <<began, since>>
vault == <<expiry, lease>>

vars == <<clock, file, vault, pc, conf, held, own, expires, timers, failed>>

\* From the start of the process to that of the container.
StartupStages ==
    {"stat", "read", "validate", "login", "renew", "open", "write", "ready",
     "leased", "extend", "extended", "start"}

\* Waiting for Vault to answer.
WaitStages == {"leased", "extended"}

\* The watcher of the lease is up, and has not sent its signal.
WatchStages == {"start", "backoff", "run"}

\* The container is being stopped: by monitorTask, or by the wrapper's trap
\* after the executor's end.
StopStages == {"stop", "dying"}

\* The container may be running.
ContainerStages == {"backoff", "run"} \cup StopStages

Stages == StartupStages \cup ContainerStages
            \cup {"new", "revokeLease", "revokeToken", "concluded", "gone"}

Init ==
    /\ clock = 0
    /\ content = None /\ mtime = 0
    /\ expiry = [e \in Executors |-> -1]
    /\ lease = [e \in Executors |-> -1]
    /\ pc = [e \in Executors |-> "new"]
    /\ role = {}
    /\ ttl = [e \in Executors |-> 0]
    /\ held = [e \in Executors |-> None]
    /\ own = [e \in Executors |-> FALSE]
    /\ expires = [e \in Executors |-> 0]
    /\ began = [e \in Executors |-> 0]
    /\ since = [e \in Executors |-> 0]
    /\ failed = {}

-----------------------------------------------------------------------------
(* Vocabulary *)

\* A move of e, with the two timers its stages need.
Goto(e, l) ==
    /\ pc' = [pc EXCEPT ![e] = l]
    /\ began' = [began EXCEPT ![e] =
                    IF l \notin StartupStages THEN 0
                    ELSE IF pc[e] = "new" THEN clock ELSE @]
    /\ since' = [since EXCEPT ![e] =
                    IF l \notin WaitStages \cup StopStages THEN 0
                    ELSE IF pc[e] \in StopStages THEN @ ELSE clock]

Move(e, from, to) == pc[e] = from /\ Goto(e, to)

TokenLive(t) == t \in Executors /\ clock <= expiry[t]

\* Vault ends a lease with the token it was asked with.
CredsLive(e) == clock <= lease[e] /\ TokenLive(held[e])

Smaller(a, b) == IF a <= b THEN a ELSE b

\* The TTL an executor asks for its token.
Ask(e) == (IF e \in role /\ ttl[e] = 0 THEN DefaultRoleTTL ELSE ttl[e])
              + StartupGracePeriod

\* Vault gives a token that TTL, or its own maximum.
Grant(e) == Smaller(Ask(e), TokenMaxTTL)

\* What a renewal makes of a lease.
RenewedTTL(e) == Smaller(ttl[e] + Padding, LeaseMaxTTL)

-----------------------------------------------------------------------------
(* NewDefaultVault: the shared token *)

Start(e) ==
    /\ Move(e, "new", "stat")
    /\ ttl' = [ttl EXCEPT ![e] = TTL]
    /\ UNCHANGED <<clock, file, vault, role, held, own, expires, failed>>

\* Mutant: the age of the token file does not matter.
StatFileAnyAge(e) ==
    /\ Move(e, "stat", IF content = None THEN "login" ELSE "read")
    /\ UNCHANGED <<clock, file, vault, conf, held, own, expires, failed>>

\* A file is too old once its token may be in its last grace period.
StatFile(e) ==
    /\ Move(e, "stat", IF content = None \/ mtime + TTL < clock + TokenGracePeriod
                         THEN "login" ELSE "read")
    /\ UNCHANGED <<clock, file, vault, conf, held, own, expires, failed>>

\* Mutant: an empty file is a token like any other.
ReadFileEvenEmpty(e) ==
    /\ Move(e, "read", "validate")
    /\ held' = [held EXCEPT ![e] = content]
    /\ UNCHANGED <<clock, file, vault, conf, own, expires, failed>>

\* An empty file is no token; any other is put on the client to be tried.
ReadFile(e) ==
    /\ \/ content # Empty /\ Move(e, "read", "validate")
          /\ held' = [held EXCEPT ![e] = content]
       \/ Move(e, "read", "login") /\ UNCHANGED held
    /\ UNCHANGED <<clock, file, vault, conf, own, expires, failed>>

\* LookupSelf; a token that Vault does not know, or cannot be asked about,
\* stays on the client until the login.
Validate(e) ==
    /\ \/ TokenLive(held[e]) /\ Move(e, "validate", "ready")
       \/ Move(e, "validate", "login")
    /\ UNCHANGED <<clock, file, vault, conf, held, own, expires, failed>>

\* A failed login is only logged.
Login(e) ==
    /\ \/ /\ Move(e, "login", "renew")
          /\ expiry' = [expiry EXCEPT ![e] = clock + LoginTTL]
          /\ held' = [held EXCEPT ![e] = e]
       \/ Move(e, "login", "ready") /\ UNCHANGED <<expiry, held>>
    /\ UNCHANGED <<clock, file, lease, conf, own, expires, failed>>

\* Mutant: every executor remembers its token as its own.
RenewAsOwn(e) ==
    /\ pc[e] = "renew"
    /\ TokenLive(e)
    /\ expiry' = [expiry EXCEPT ![e] = clock + Grant(e)]
    /\ Goto(e, IF e \in role THEN "ready" ELSE "open")
    /\ own' = [own EXCEPT ![e] = TRUE]
    /\ UNCHANGED <<clock, file, lease, conf, held, expires, failed>>

\* The token gets its TTL.  If that fails, or its answer is lost, the token
\* stays on the client, and is neither cached nor remembered as one's own.
Renew(e) ==
    /\ pc[e] = "renew"
    /\ \/ /\ TokenLive(e)
          /\ expiry' = [expiry EXCEPT ![e] = clock + Grant(e)]
          /\ Goto(e, IF e \in role THEN "ready" ELSE "open")
          /\ own' = [own EXCEPT ![e] = e \in role]
          /\ UNCHANGED failed
       \/ /\ \/ UNCHANGED expiry
             \/ TokenLive(e) /\ expiry' = [expiry EXCEPT ![e] = clock + Grant(e)]
          /\ Goto(e, "ready")
          /\ failed' = failed \cup {e}
          /\ UNCHANGED own
    /\ UNCHANGED <<clock, file, lease, conf, held, expires>>

\* WriteFile truncates before it writes; either may fail.
TruncateFile(e) ==
    /\ \/ Move(e, "open", "write") /\ content' = Empty /\ mtime' = clock
       \/ Move(e, "open", "ready") /\ UNCHANGED file
    /\ UNCHANGED <<clock, vault, conf, held, own, expires, failed>>

\* A write over that of another executor may leave some of it.
WriteFile(e) ==
    /\ \/ /\ Move(e, "write", "ready")
          /\ content' \in {e} \cup (IF content = Empty THEN {} ELSE {Garbled})
          /\ mtime' = clock
       \/ Move(e, "write", "ready") /\ UNCHANGED file
    /\ UNCHANGED <<clock, vault, conf, held, own, expires, failed>>

-----------------------------------------------------------------------------
(* The role's token and lease *)

\* getAWSRoleVaultToken; a TTL over the maximum leaves the client tokenless.
StartRole(e) ==
    /\ e \in RoleExecutors /\ pc[e] = "new"
    /\ role' = role \cup {e}
    /\ \E t \in RoleTTLs :
         /\ ttl' = [ttl EXCEPT ![e] = t]
         /\ Goto(e, IF t > RoleMaxTTL /\ RoleMaxTTL # 0 THEN "ready" ELSE "login")
    /\ UNCHANGED <<clock, file, vault, held, own, expires, failed>>

\* GetAWSCredsLease: Vault grants the lease, or the launch fails.
RequestLease(e) ==
    /\ e \in role
    /\ \/ /\ TokenLive(held[e])
          /\ Move(e, "ready", "leased")
          /\ lease' = [lease EXCEPT ![e] = clock + LeaseTTL]
       \/ Move(e, "ready", "gone") /\ UNCHANGED lease
    /\ UNCHANGED <<clock, file, expiry, conf, held, own, expires, failed>>

\* Its answer, or an answer nobody can use.
ReceiveLease(e) ==
    /\ \/ /\ Move(e, "leased", IF ttl[e] = 0 THEN "start" ELSE "extend")
          /\ expires' = [expires EXCEPT ![e] = clock + LeaseTTL - Padding]
       \/ Move(e, "leased", "gone") /\ UNCHANGED expires
    /\ UNCHANGED <<clock, file, vault, conf, held, own, failed>>

\* RenewAWSCredsLease.
RequestRenewal(e) ==
    /\ \/ /\ CredsLive(e)
          /\ Move(e, "extend", "extended")
          /\ lease' = [lease EXCEPT ![e] = clock + RenewedTTL(e)]
       \/ Move(e, "extend", "gone") /\ UNCHANGED lease
    /\ UNCHANGED <<clock, file, expiry, conf, held, own, expires, failed>>

\* Mutant: the padding is not taken off the renewed lease.
ReceiveRenewalUnpadded(e) ==
    /\ \/ /\ Move(e, "extended", "start")
          /\ expires' = [expires EXCEPT ![e] = clock + RenewedTTL(e)]
       \/ Move(e, "extended", "gone") /\ UNCHANGED expires
    /\ UNCHANGED <<clock, file, vault, conf, held, own, failed>>

ReceiveRenewal(e) ==
    /\ \/ /\ Move(e, "extended", "start")
          /\ expires' = [expires EXCEPT ![e] = clock + RenewedTTL(e) - Padding]
       \/ Move(e, "extended", "gone") /\ UNCHANGED expires
    /\ UNCHANGED <<clock, file, vault, conf, held, own, failed>>

-----------------------------------------------------------------------------
(* The task *)

\* The rest of LaunchTask, which may fail.
Launch(e) ==
    /\ pc[e] = IF e \in role THEN "start" ELSE "ready"
    /\ Goto(e, "backoff") \/ Goto(e, "gone")
    /\ UNCHANGED <<clock, file, vault, conf, held, own, expires, failed>>

BackoffEnds(e) ==
    /\ Move(e, "backoff", "run")
    /\ UNCHANGED <<clock, file, vault, conf, held, own, expires, failed>>

\* monitorAWSCredsLease: USR1 stops the watched task, and before there is a
\* watcher it ends the process at once.
LeaseExpires(e) ==
    /\ e \in role /\ pc[e] \in WatchStages
    /\ clock >= expires[e]
    /\ Goto(e, IF pc[e] = "run" THEN "stop" ELSE "dying")
    /\ UNCHANGED <<clock, file, vault, conf, held, own, expires, failed>>

\* The task is killed, fails or ends.
TaskEnds(e) ==
    /\ Move(e, "run", "stop")
    /\ UNCHANGED <<clock, file, vault, conf, held, own, expires, failed>>

Stopped(e) ==
    /\ Move(e, "stop", "revokeLease")
    /\ UNCHANGED <<clock, file, vault, conf, held, own, expires, failed>>

\* maybeCleanupAWSCredsLease; without a lease it does nothing.
RevokeLease(e) ==
    /\ Move(e, "revokeLease", "revokeToken")
    /\ \/ e \notin role /\ UNCHANGED <<lease, failed>>
       \/ e \in role /\ TokenLive(held[e])
          /\ lease' = [lease EXCEPT ![e] = -1] /\ UNCHANGED failed
       \/ e \in role /\ failed' = failed \cup {e} /\ UNCHANGED lease
    /\ UNCHANGED <<clock, file, expiry, conf, held, own, expires>>

\* Mutant: the token is not revoked.
RevokeTokenNever(e) ==
    /\ Move(e, "revokeToken", "concluded")
    /\ UNCHANGED <<clock, file, vault, conf, held, own, expires, failed>>

\* MaybeRevokeToken: the token on the client, if it is the executor's own.
RevokeToken(e) ==
    /\ Move(e, "revokeToken", "concluded")
    /\ \/ ~own[e] /\ UNCHANGED <<expiry, failed>>
       \/ own[e] /\ TokenLive(held[e])
          /\ expiry' = [expiry EXCEPT ![held[e]] = -1] /\ UNCHANGED failed
       \/ own[e] /\ failed' = failed \cup {e} /\ UNCHANGED expiry
    /\ UNCHANGED <<clock, file, lease, conf, held, own, expires>>

\* The process is killed; a container is left to the wrapper.
Crash(e) ==
    /\ pc[e] \in Stages \ {"new", "dying", "concluded", "gone"}
    /\ Goto(e, IF pc[e] \in ContainerStages THEN "dying" ELSE "gone")
    /\ UNCHANGED <<clock, file, vault, conf, held, own, expires, failed>>

\* The wrapper's trap has stopped the container.
Trap(e) ==
    /\ Move(e, "dying", "gone")
    /\ UNCHANGED <<clock, file, vault, conf, held, own, expires, failed>>

\* Time may pass without a step of e: the timer of the lease fires when it is
\* due, and the start, Vault's answers and the stop take a bounded time.
MayWait(e) ==
    /\ pc[e] \in StartupStages => clock < began[e] + StartupTime
    /\ pc[e] \in WaitStages => clock < since[e] + VaultTime
    /\ e \in role /\ pc[e] \in WatchStages => clock < expires[e]
    /\ pc[e] \in StopStages => clock < since[e] + StopTime

Tick ==
    /\ clock < MaxTime
    /\ \A e \in Executors : MayWait(e)
    /\ clock' = clock + 1
    /\ UNCHANGED <<file, vault, pc, conf, held, own, expires, timers, failed>>

Next ==
    \/ Tick
    \/ \E e \in Executors :
         \/ Start(e) \/ StatFile(e) \/ ReadFile(e) \/ Validate(e)
         \/ Login(e) \/ Renew(e) \/ TruncateFile(e) \/ WriteFile(e)
         \/ StartRole(e) \/ RequestLease(e) \/ ReceiveLease(e)
         \/ RequestRenewal(e) \/ ReceiveRenewal(e)
         \/ Launch(e) \/ BackoffEnds(e) \/ LeaseExpires(e) \/ TaskEnds(e)
         \/ Stopped(e) \/ RevokeLease(e) \/ RevokeToken(e)
         \/ Crash(e) \/ Trap(e)

Spec == Init /\ [][Next]_vars

-----------------------------------------------------------------------------
(* Properties *)

\* Type correctness of the executors' state and of Vault's.
TypeOK ==
    /\ clock \in Nat
    /\ content \in Executors \cup {None, Empty, Garbled} /\ mtime \in Nat
    /\ expiry \in [Executors -> Int] /\ lease \in [Executors -> Int]
    /\ pc \in [Executors -> Stages]
    /\ role \subseteq Executors /\ failed \subseteq Executors
    /\ ttl \in [Executors -> Nat]
    /\ held \in [Executors -> Executors \cup {None, Garbled}]
    /\ own \in [Executors -> BOOLEAN]
    /\ expires \in [Executors -> Int]
    /\ began \in [Executors -> Nat] /\ since \in [Executors -> Nat]

\* Whatever two executors do to the file at a time, and whenever one of them
\* is killed in the middle of it, a token that GetToken takes from the file is
\* live and outlives its grace period, if Vault gives tokens the TTL they are
\* asked for: the age of the file says enough about the age of the token.
ReusedTokenHasGrace ==
    [][\A e \in Executors :
          pc[e] = "validate" /\ pc'[e] = "ready" =>
              /\ held[e] \in Executors
              /\ clock <= expiry[held[e]]
              /\ TTL + StartupGracePeriod <= TokenMaxTTL =>
                     clock + TokenGracePeriod <= expiry[held[e]]]_vars

\* A token that reached another executor through the file is never one that
\* its first owner revokes when its task ends.
SharedTokenNotRevoked ==
    \A e, f \in Executors : e # f /\ held[f] = e => ~own[e] /\ e \notin role

\* While the container of a role with its own TTL may be running, its
\* credentials are good: the watcher's signal comes early enough to stop it
\* before the lease ends, and before the token does that the lease hangs on.
RenewedCredsOutliveContainer ==
    \A e \in role :
        /\ pc[e] \in ContainerStages
        /\ own[e] /\ ttl[e] # 0
        /\ Ask(e) <= TokenMaxTTL
        => CredsLive(e)

\* The same of every role, with a TTL of its own or not.
CredsOutliveContainer ==
    \A e \in role :
        pc[e] \in ContainerStages /\ own[e] /\ Ask(e) <= TokenMaxTTL => CredsLive(e)

\* An executor whose requests Vault all answered leaves neither a lease nor a
\* token of its own behind when monitorTask has concluded its task.
ConcludedLeavesNothing ==
    \A e \in role : pc[e] = "concluded" /\ e \notin failed =>
        lease[e] < clock /\ ~TokenLive(e)

=============================================================================
