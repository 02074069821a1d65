---------------------------- MODULE VaultProofs -----------------------------
(***************************************************************************)
(* Proofs about Vault, for any number of executors and any TTLs.  The      *)
(* inductive invariant is built in layers, each proved from those before:  *)
(* the types, the timers, who may hold whose token, how long the shared    *)
(* token lives, how long a role's credentials do, and what is left behind. *)
(***************************************************************************)
EXTENDS Vault, TLAPS

\* The stages of an executor whose own token nobody else can have seen.
EarlyStages == {"new", "stat", "read", "validate", "login", "renew", "open", "write"}

\* The start takes no longer than StartupTime, an answer no longer than
\* VaultTime, a stop no longer than StopTime.
Timers ==
    /\ mtime <= clock
    /\ \A e \in Executors :
         /\ pc[e] \in StartupStages =>
               began[e] <= clock /\ clock <= began[e] + StartupTime
         /\ pc[e] \in WaitStages =>
               since[e] <= clock /\ clock <= since[e] + VaultTime
         /\ pc[e] \in StopStages =>
               since[e] <= clock /\ clock <= since[e] + StopTime

\* A token leaves its executor through the file only, after the executor has
\* written it, and an executor with a role writes none.
Sharing ==
    /\ \A e \in Executors :
         /\ content = e => e \notin role /\ pc[e] \notin EarlyStages
         /\ pc[e] \in {"new", "stat", "read", "validate", "open", "write"} => e \notin role
         /\ pc[e] \in {"new", "stat", "read", "validate", "login"} => held[e] # e
         /\ pc[e] = "renew" => held[e] = e
         /\ own[e] => e \in role /\ held[e] = e /\ pc[e] \notin EarlyStages
    /\ \A e, f \in Executors :
         e # f /\ held[f] = e => e \notin role /\ pc[e] \notin EarlyStages

\* Vault gives the shared token all of the TTL that it is asked for.
Honoured == TTL + StartupGracePeriod <= TokenMaxTTL

\* From the age of the file to the life of its token.
Grace ==
    /\ \A e \in Executors :
         /\ pc[e] \in EarlyStages \ {"new"} /\ e \notin role => ttl[e] = TTL
         /\ pc[e] \in {"open", "write"} /\ Honoured =>
               expiry[e] >= began[e] + TTL + StartupGracePeriod
         /\ content = e /\ Honoured =>
               expiry[e] >= mtime - StartupTime + TTL + StartupGracePeriod
         /\ pc[e] = "read" => mtime + TTL >= began[e] + TokenGracePeriod
    /\ \A e, f \in Executors :
         pc[f] = "validate" /\ held[f] = e /\ Honoured =>
             expiry[e] >= began[f] + TokenGracePeriod + StartupGracePeriod - StartupTime

\* The executors that RenewedCredsOutliveContainer is about.
Renewed(e) == own[e] /\ ttl[e] # 0 /\ Ask(e) <= TokenMaxTTL

\* From the grant of the token to the end of the stop.
Creds ==
    \A e \in Executors :
        /\ pc[e] = "extended" /\ e \in role => lease[e] >= since[e] + RenewedTTL(e)
        /\ Renewed(e) =>
             /\ pc[e] \in StartupStages =>
                   expiry[e] >= began[e] + ttl[e] + StartupGracePeriod
             /\ pc[e] \in WatchStages => clock <= expires[e]
             /\ pc[e] \in StopStages => since[e] <= expires[e]
             /\ pc[e] \in WatchStages \cup StopStages =>
                   /\ expires[e] + StopTime <= lease[e]
                   /\ expires[e] + StopTime <= expiry[e]

\* An executor without a token of its own has none in Vault, unless something
\* failed, and monitorTask gives back what there is.
Leavings ==
    \A e \in Executors :
        /\ pc[e] \in {"new", "stat", "read", "validate", "login"} => expiry[e] = -1
        /\ e \in role /\ e \notin failed =>
             /\ ~own[e] /\ pc[e] \notin {"renew", "dying", "gone"} => expiry[e] = -1
             /\ pc[e] \in {"revokeToken", "concluded"} => lease[e] = -1
             /\ pc[e] = "concluded" => expiry[e] = -1

IndInv == TypeOK /\ Timers /\ Sharing /\ Grace /\ Creds /\ Leavings

-----------------------------------------------------------------------------
(* One step. *)

\* The TTLs that Vault is asked for and grants.
LEMMA Values ==
  ASSUME TypeOK, NEW e \in Executors
  PROVE  /\ Ask(e) \in Nat /\ Grant(e) \in Nat /\ RenewedTTL(e) \in Nat
         /\ Honoured /\ ttl[e] = TTL /\ e \notin role =>
               Grant(e) = TTL + StartupGracePeriod
  BY VaultAssumption DEF TypeOK, Ask, Grant, RenewedTTL, Smaller, Honoured

\* Whether a renewal makes a token one's own is known.
LEMMA RenewOwn ==
  ASSUME TypeOK, NEW e \in Executors, Renew(e)
  PROVE  /\ own' \in [Executors -> BOOLEAN]
         /\ own'[e] => own[e] \/ e \in role
         /\ ~own'[e] /\ e \in role /\ e \notin failed' => own[e]
         /\ \A f \in Executors \ {e} : own'[f] = own[f]
<1>1. CASE UNCHANGED own /\ failed' = failed \cup {e}
  BY <1>1 DEF TypeOK
<1>2. CASE own' = [own EXCEPT ![e] = e \in role]
  <2>1. (e \in role) \in BOOLEAN
    OBVIOUS
  <2>2. own'[e] = (e \in role)
    BY <1>2, Zenon DEF TypeOK
  <2>3. QED
    BY <1>2, <2>1, <2>2, Zenon DEF TypeOK
<1>3. QED
  BY <1>1, <1>2, Zenon DEF Renew

\* Every step keeps the types of the executors' state and of Vault's.
LEMMA TypeOKStep == TypeOK /\ [Next]_vars => TypeOK'
<1> SUFFICES ASSUME TypeOK, [Next]_vars PROVE TypeOK'
  OBVIOUS
<1> USE DEF file, conf, timers, vault, StartupStages, WaitStages,
      WatchStages, StopStages, ContainerStages, Stages, TypeOK
<1>1. ASSUME NEW e \in Executors, Start(e) PROVE TypeOK'
  BY VaultAssumption, Values, <1>1 DEF Start, Move, Goto
<1>2. ASSUME NEW e \in Executors, StatFile(e) PROVE TypeOK'
  BY VaultAssumption, Values, <1>2 DEF StatFile, Move, Goto
<1>3. ASSUME NEW e \in Executors, ReadFile(e) PROVE TypeOK'
  BY VaultAssumption, Values, <1>3 DEF ReadFile, Move, Goto
<1>4. ASSUME NEW e \in Executors, Validate(e) PROVE TypeOK'
  BY VaultAssumption, Values, <1>4 DEF Validate, Move, Goto
<1>5. ASSUME NEW e \in Executors, Login(e) PROVE TypeOK'
  BY VaultAssumption, Values, <1>5 DEF Login, Move, Goto
<1>6. ASSUME NEW e \in Executors, Renew(e) PROVE TypeOK'
  <2>1. TokenLive(e) \/ UNCHANGED expiry
    BY <1>6 DEF Renew
  <2>2. expiry' \in [Executors -> Int] /\ failed' \subseteq Executors
    BY <1>6, Values DEF Renew
  <2>3. pc' \in [Executors -> Stages] /\ began' \in [Executors -> Nat]
          /\ since' \in [Executors -> Nat]
    BY <1>6 DEF Renew, Goto
  <2>4. UNCHANGED <<clock, content, mtime, lease, role, ttl, held, expires>>
    BY <1>6 DEF Renew
  <2>5. QED
    BY <2>2, <2>3, <2>4, <1>6, RenewOwn
<1>7. ASSUME NEW e \in Executors, TruncateFile(e) PROVE TypeOK'
  BY VaultAssumption, Values, <1>7 DEF TruncateFile, Move, Goto
<1>8. ASSUME NEW e \in Executors, WriteFile(e) PROVE TypeOK'
  BY VaultAssumption, Values, <1>8 DEF WriteFile, Move, Goto
<1>9. ASSUME NEW e \in Executors, StartRole(e) PROVE TypeOK'
  BY VaultAssumption, Values, <1>9 DEF StartRole, Move, Goto
<1>10. ASSUME NEW e \in Executors, RequestLease(e) PROVE TypeOK'
  BY VaultAssumption, Values, <1>10 DEF RequestLease, Move, Goto
<1>11. ASSUME NEW e \in Executors, ReceiveLease(e) PROVE TypeOK'
  BY VaultAssumption, Values, <1>11 DEF ReceiveLease, Move, Goto
<1>12. ASSUME NEW e \in Executors, RequestRenewal(e) PROVE TypeOK'
  BY VaultAssumption, Values, <1>12 DEF RequestRenewal, Move, Goto
<1>13. ASSUME NEW e \in Executors, ReceiveRenewal(e) PROVE TypeOK'
  BY VaultAssumption, Values, <1>13 DEF ReceiveRenewal, Move, Goto
<1>14. ASSUME NEW e \in Executors, Launch(e) PROVE TypeOK'
  BY VaultAssumption, Values, <1>14 DEF Launch, Move, Goto
<1>15. ASSUME NEW e \in Executors, BackoffEnds(e) PROVE TypeOK'
  BY VaultAssumption, Values, <1>15 DEF BackoffEnds, Move, Goto
<1>16. ASSUME NEW e \in Executors, LeaseExpires(e) PROVE TypeOK'
  BY VaultAssumption, Values, <1>16 DEF LeaseExpires, Move, Goto
<1>17. ASSUME NEW e \in Executors, TaskEnds(e) PROVE TypeOK'
  BY VaultAssumption, Values, <1>17 DEF TaskEnds, Move, Goto
<1>18. ASSUME NEW e \in Executors, Stopped(e) PROVE TypeOK'
  BY VaultAssumption, Values, <1>18 DEF Stopped, Move, Goto
<1>19. ASSUME NEW e \in Executors, RevokeLease(e) PROVE TypeOK'
  BY VaultAssumption, Values, <1>19 DEF RevokeLease, Move, Goto
<1>20. ASSUME NEW e \in Executors, RevokeToken(e) PROVE TypeOK'
  BY VaultAssumption, Values, <1>20 DEF RevokeToken, Move, Goto
<1>21. ASSUME NEW e \in Executors, Crash(e) PROVE TypeOK'
  BY VaultAssumption, Values, <1>21 DEF Crash, Move, Goto
<1>22. ASSUME NEW e \in Executors, Trap(e) PROVE TypeOK'
  BY VaultAssumption, Values, <1>22 DEF Trap, Move, Goto
<1>23. CASE Tick
  BY VaultAssumption, Values, <1>23 DEF Tick, MayWait
<1>24. CASE UNCHANGED vars
  BY <1>24 DEF vars
<1>25. QED
  BY <1>1, <1>2, <1>3, <1>4, <1>5, <1>6, <1>7, <1>8, <1>9, <1>10, <1>11,
     <1>12, <1>13, <1>14, <1>15, <1>16, <1>17, <1>18, <1>19, <1>20, <1>21,
     <1>22, <1>23, <1>24 DEF Next

\* Nothing takes longer than its time, for time does not pass before.
LEMMA TimersStep == TypeOK /\ Timers /\ [Next]_vars => Timers'
<1> SUFFICES ASSUME TypeOK, Timers, [Next]_vars PROVE Timers'
  OBVIOUS
<1> USE DEF file, conf, timers, vault, StartupStages, WaitStages,
      WatchStages, StopStages, ContainerStages, Stages, TypeOK, Timers
<1>1. ASSUME NEW e \in Executors, Start(e) PROVE Timers'
  BY VaultAssumption, <1>1 DEF Start, Move, Goto
<1>2. ASSUME NEW e \in Executors, StatFile(e) PROVE Timers'
  BY VaultAssumption, <1>2 DEF StatFile, Move, Goto
<1>3. ASSUME NEW e \in Executors, ReadFile(e) PROVE Timers'
  BY VaultAssumption, <1>3 DEF ReadFile, Move, Goto
<1>4. ASSUME NEW e \in Executors, Validate(e) PROVE Timers'
  BY VaultAssumption, <1>4 DEF Validate, Move, Goto
<1>5. ASSUME NEW e \in Executors, Login(e) PROVE Timers'
  BY VaultAssumption, <1>5 DEF Login, Move, Goto
<1>6. ASSUME NEW e \in Executors, Renew(e) PROVE Timers'
  BY VaultAssumption, <1>6 DEF Renew, Move, Goto
<1>7. ASSUME NEW e \in Executors, TruncateFile(e) PROVE Timers'
  BY VaultAssumption, <1>7 DEF TruncateFile, Move, Goto
<1>8. ASSUME NEW e \in Executors, WriteFile(e) PROVE Timers'
  BY VaultAssumption, <1>8 DEF WriteFile, Move, Goto
<1>9. ASSUME NEW e \in Executors, StartRole(e) PROVE Timers'
  BY VaultAssumption, <1>9 DEF StartRole, Move, Goto
<1>10. ASSUME NEW e \in Executors, RequestLease(e) PROVE Timers'
  BY VaultAssumption, <1>10 DEF RequestLease, Move, Goto
<1>11. ASSUME NEW e \in Executors, ReceiveLease(e) PROVE Timers'
  BY VaultAssumption, <1>11 DEF ReceiveLease, Move, Goto
<1>12. ASSUME NEW e \in Executors, RequestRenewal(e) PROVE Timers'
  BY VaultAssumption, <1>12 DEF RequestRenewal, Move, Goto
<1>13. ASSUME NEW e \in Executors, ReceiveRenewal(e) PROVE Timers'
  BY VaultAssumption, <1>13 DEF ReceiveRenewal, Move, Goto
<1>14. ASSUME NEW e \in Executors, Launch(e) PROVE Timers'
  BY VaultAssumption, <1>14 DEF Launch, Move, Goto
<1>15. ASSUME NEW e \in Executors, BackoffEnds(e) PROVE Timers'
  BY VaultAssumption, <1>15 DEF BackoffEnds, Move, Goto
<1>16. ASSUME NEW e \in Executors, LeaseExpires(e) PROVE Timers'
  BY VaultAssumption, <1>16 DEF LeaseExpires, Move, Goto
<1>17. ASSUME NEW e \in Executors, TaskEnds(e) PROVE Timers'
  BY VaultAssumption, <1>17 DEF TaskEnds, Move, Goto
<1>18. ASSUME NEW e \in Executors, Stopped(e) PROVE Timers'
  BY VaultAssumption, <1>18 DEF Stopped, Move, Goto
<1>19. ASSUME NEW e \in Executors, RevokeLease(e) PROVE Timers'
  BY VaultAssumption, <1>19 DEF RevokeLease, Move, Goto
<1>20. ASSUME NEW e \in Executors, RevokeToken(e) PROVE Timers'
  BY VaultAssumption, <1>20 DEF RevokeToken, Move, Goto
<1>21. ASSUME NEW e \in Executors, Crash(e) PROVE Timers'
  BY VaultAssumption, <1>21 DEF Crash, Move, Goto
<1>22. ASSUME NEW e \in Executors, Trap(e) PROVE Timers'
  BY VaultAssumption, <1>22 DEF Trap, Move, Goto
<1>23. CASE Tick
  BY VaultAssumption, <1>23 DEF Tick, MayWait
<1>24. CASE UNCHANGED vars
  BY <1>24 DEF vars
<1>25. QED
  BY <1>1, <1>2, <1>3, <1>4, <1>5, <1>6, <1>7, <1>8, <1>9, <1>10, <1>11,
     <1>12, <1>13, <1>14, <1>15, <1>16, <1>17, <1>18, <1>19, <1>20, <1>21,
     <1>22, <1>23, <1>24 DEF Next

\* Nobody ever gets hold of the token of a role.
LEMMA SharingStep == TypeOK /\ Sharing /\ [Next]_vars => Sharing'
<1> SUFFICES ASSUME TypeOK, Sharing, [Next]_vars PROVE Sharing'
  OBVIOUS
<1> USE DEF file, conf, timers, vault, StartupStages, WaitStages,
      WatchStages, StopStages, ContainerStages, Stages, TypeOK, Sharing,
      EarlyStages, TokenLive
<1>1. ASSUME NEW e \in Executors, Start(e) PROVE Sharing'
  BY VaultAssumption, <1>1 DEF Start, Move, Goto
<1>2. ASSUME NEW e \in Executors, StatFile(e) PROVE Sharing'
  BY VaultAssumption, <1>2 DEF StatFile, Move, Goto
<1>3. ASSUME NEW e \in Executors, ReadFile(e) PROVE Sharing'
  BY VaultAssumption, <1>3 DEF ReadFile, Move, Goto
<1>4. ASSUME NEW e \in Executors, Validate(e) PROVE Sharing'
  BY VaultAssumption, <1>4 DEF Validate, Move, Goto
<1>5. ASSUME NEW e \in Executors, Login(e) PROVE Sharing'
  BY VaultAssumption, <1>5 DEF Login, Move, Goto
<1>6. ASSUME NEW e \in Executors, Renew(e) PROVE Sharing'
  <2>1. /\ UNCHANGED <<content, role, held>>
        /\ pc[e] = "renew" /\ pc'[e] \in {"ready", "open"}
        /\ pc'[e] = "open" => e \notin role
        /\ own'[e] => pc'[e] = "ready"
        /\ \A f \in Executors \ {e} : pc'[f] = pc[f]
    <3>1. CASE UNCHANGED own
      BY <1>6, <3>1 DEF Renew, Goto
    <3>2. CASE own' = [own EXCEPT ![e] = e \in role]
      BY <1>6, <3>2, RenewOwn DEF Renew, Goto
    <3>3. QED
      BY <1>6, <3>1, <3>2 DEF Renew
  <2>2. own'[e] => held[e] = e
    BY <2>1
  <2>3. QED
    BY <1>6, <2>1, <2>2, RenewOwn
<1>7. ASSUME NEW e \in Executors, TruncateFile(e) PROVE Sharing'
  BY VaultAssumption, <1>7 DEF TruncateFile, Move, Goto
<1>8. ASSUME NEW e \in Executors, WriteFile(e) PROVE Sharing'
  BY VaultAssumption, <1>8 DEF WriteFile, Move, Goto
<1>9. ASSUME NEW e \in Executors, StartRole(e) PROVE Sharing'
  BY VaultAssumption, <1>9 DEF StartRole, Move, Goto
<1>10. ASSUME NEW e \in Executors, RequestLease(e) PROVE Sharing'
  BY VaultAssumption, <1>10 DEF RequestLease, Move, Goto
<1>11. ASSUME NEW e \in Executors, ReceiveLease(e) PROVE Sharing'
  BY VaultAssumption, <1>11 DEF ReceiveLease, Move, Goto
<1>12. ASSUME NEW e \in Executors, RequestRenewal(e) PROVE Sharing'
  BY VaultAssumption, <1>12 DEF RequestRenewal, Move, Goto
<1>13. ASSUME NEW e \in Executors, ReceiveRenewal(e) PROVE Sharing'
  BY VaultAssumption, <1>13 DEF ReceiveRenewal, Move, Goto
<1>14. ASSUME NEW e \in Executors, Launch(e) PROVE Sharing'
  BY VaultAssumption, <1>14 DEF Launch, Move, Goto
<1>15. ASSUME NEW e \in Executors, BackoffEnds(e) PROVE Sharing'
  BY VaultAssumption, <1>15 DEF BackoffEnds, Move, Goto
<1>16. ASSUME NEW e \in Executors, LeaseExpires(e) PROVE Sharing'
  BY VaultAssumption, <1>16 DEF LeaseExpires, Move, Goto
<1>17. ASSUME NEW e \in Executors, TaskEnds(e) PROVE Sharing'
  BY VaultAssumption, <1>17 DEF TaskEnds, Move, Goto
<1>18. ASSUME NEW e \in Executors, Stopped(e) PROVE Sharing'
  BY VaultAssumption, <1>18 DEF Stopped, Move, Goto
<1>19. ASSUME NEW e \in Executors, RevokeLease(e) PROVE Sharing'
  BY VaultAssumption, <1>19 DEF RevokeLease, Move, Goto
<1>20. ASSUME NEW e \in Executors, RevokeToken(e) PROVE Sharing'
  BY VaultAssumption, <1>20 DEF RevokeToken, Move, Goto
<1>21. ASSUME NEW e \in Executors, Crash(e) PROVE Sharing'
  BY VaultAssumption, <1>21 DEF Crash, Move, Goto
<1>22. ASSUME NEW e \in Executors, Trap(e) PROVE Sharing'
  BY VaultAssumption, <1>22 DEF Trap, Move, Goto
<1>23. CASE Tick
  BY VaultAssumption, <1>23 DEF Tick, MayWait
<1>24. CASE UNCHANGED vars
  BY <1>24 DEF vars
<1>25. QED
  BY <1>1, <1>2, <1>3, <1>4, <1>5, <1>6, <1>7, <1>8, <1>9, <1>10, <1>11,
     <1>12, <1>13, <1>14, <1>15, <1>16, <1>17, <1>18, <1>19, <1>20, <1>21,
     <1>22, <1>23, <1>24 DEF Next

\* The age of the token file bounds the age of the token in it.
LEMMA GraceStep == TypeOK /\ Timers /\ Sharing /\ Grace /\ [Next]_vars => Grace'
<1> SUFFICES ASSUME TypeOK, Timers, Sharing, Grace, [Next]_vars PROVE Grace'
  OBVIOUS
<1> USE DEF file, conf, timers, vault, StartupStages, WaitStages,
      WatchStages, StopStages, ContainerStages, Stages, TypeOK, Timers,
      Sharing, Grace, EarlyStages, Honoured, TokenLive
<1>1. ASSUME NEW e \in Executors, Start(e) PROVE Grace'
  BY VaultAssumption, Values, <1>1 DEF Start, Move, Goto
<1>2. ASSUME NEW e \in Executors, StatFile(e) PROVE Grace'
  BY VaultAssumption, Values, <1>2 DEF StatFile, Move, Goto
<1>3. ASSUME NEW e \in Executors, ReadFile(e) PROVE Grace'
  BY VaultAssumption, Values, <1>3 DEF ReadFile, Move, Goto
<1>4. ASSUME NEW e \in Executors, Validate(e) PROVE Grace'
  BY VaultAssumption, Values, <1>4 DEF Validate, Move, Goto
<1>5. ASSUME NEW e \in Executors, Login(e) PROVE Grace'
  BY VaultAssumption, Values, <1>5 DEF Login, Move, Goto
<1>6. ASSUME NEW e \in Executors, Renew(e) PROVE Grace'
  BY VaultAssumption, Values, <1>6 DEF Renew, Move, Goto
<1>7. ASSUME NEW e \in Executors, TruncateFile(e) PROVE Grace'
  BY VaultAssumption, Values, <1>7 DEF TruncateFile, Move, Goto
<1>8. ASSUME NEW e \in Executors, WriteFile(e) PROVE Grace'
  BY VaultAssumption, Values, <1>8 DEF WriteFile, Move, Goto
<1>9. ASSUME NEW e \in Executors, StartRole(e) PROVE Grace'
  BY VaultAssumption, Values, <1>9 DEF StartRole, Move, Goto
<1>10. ASSUME NEW e \in Executors, RequestLease(e) PROVE Grace'
  BY VaultAssumption, Values, <1>10 DEF RequestLease, Move, Goto
<1>11. ASSUME NEW e \in Executors, ReceiveLease(e) PROVE Grace'
  BY VaultAssumption, Values, <1>11 DEF ReceiveLease, Move, Goto
<1>12. ASSUME NEW e \in Executors, RequestRenewal(e) PROVE Grace'
  BY VaultAssumption, Values, <1>12 DEF RequestRenewal, Move, Goto
<1>13. ASSUME NEW e \in Executors, ReceiveRenewal(e) PROVE Grace'
  BY VaultAssumption, Values, <1>13 DEF ReceiveRenewal, Move, Goto
<1>14. ASSUME NEW e \in Executors, Launch(e) PROVE Grace'
  BY VaultAssumption, Values, <1>14 DEF Launch, Move, Goto
<1>15. ASSUME NEW e \in Executors, BackoffEnds(e) PROVE Grace'
  BY VaultAssumption, Values, <1>15 DEF BackoffEnds, Move, Goto
<1>16. ASSUME NEW e \in Executors, LeaseExpires(e) PROVE Grace'
  BY VaultAssumption, Values, <1>16 DEF LeaseExpires, Move, Goto
<1>17. ASSUME NEW e \in Executors, TaskEnds(e) PROVE Grace'
  BY VaultAssumption, Values, <1>17 DEF TaskEnds, Move, Goto
<1>18. ASSUME NEW e \in Executors, Stopped(e) PROVE Grace'
  BY VaultAssumption, Values, <1>18 DEF Stopped, Move, Goto
<1>19. ASSUME NEW e \in Executors, RevokeLease(e) PROVE Grace'
  BY VaultAssumption, Values, <1>19 DEF RevokeLease, Move, Goto
<1>20. ASSUME NEW e \in Executors, RevokeToken(e) PROVE Grace'
  BY VaultAssumption, Values, <1>20 DEF RevokeToken, Move, Goto
<1>21. ASSUME NEW e \in Executors, Crash(e) PROVE Grace'
  BY VaultAssumption, Values, <1>21 DEF Crash, Move, Goto
<1>22. ASSUME NEW e \in Executors, Trap(e) PROVE Grace'
  BY VaultAssumption, Values, <1>22 DEF Trap, Move, Goto
<1>23. CASE Tick
  BY VaultAssumption, Values, <1>23 DEF Tick, MayWait
<1>24. CASE UNCHANGED vars
  BY <1>24 DEF vars
<1>25. QED
  BY <1>1, <1>2, <1>3, <1>4, <1>5, <1>6, <1>7, <1>8, <1>9, <1>10, <1>11,
     <1>12, <1>13, <1>14, <1>15, <1>16, <1>17, <1>18, <1>19, <1>20, <1>21,
     <1>22, <1>23, <1>24 DEF Next

\* The order to stop comes in time, by the padding of the lease and the grace
\* of the token.
LEMMA CredsStep == TypeOK /\ Timers /\ Sharing /\ Creds /\ [Next]_vars => Creds'
<1> SUFFICES ASSUME TypeOK, Timers, Sharing, Creds, [Next]_vars PROVE Creds'
  OBVIOUS
<1> USE DEF file, conf, timers, vault, StartupStages, WaitStages,
      WatchStages, StopStages, ContainerStages, Stages, TypeOK, Timers,
      Sharing, Creds, EarlyStages, TokenLive, Renewed, Ask, Grant,
      RenewedTTL, Smaller
<1>1. ASSUME NEW e \in Executors, Start(e) PROVE Creds'
  BY VaultAssumption, TimingAssumption, <1>1 DEF Start, Move, Goto
<1>2. ASSUME NEW e \in Executors, StatFile(e) PROVE Creds'
  BY VaultAssumption, TimingAssumption, <1>2 DEF StatFile, Move, Goto
<1>3. ASSUME NEW e \in Executors, ReadFile(e) PROVE Creds'
  BY VaultAssumption, TimingAssumption, <1>3 DEF ReadFile, Move, Goto
<1>4. ASSUME NEW e \in Executors, Validate(e) PROVE Creds'
  BY VaultAssumption, TimingAssumption, <1>4 DEF Validate, Move, Goto
<1>5. ASSUME NEW e \in Executors, Login(e) PROVE Creds'
  BY VaultAssumption, TimingAssumption, <1>5 DEF Login, Move, Goto
<1>6. ASSUME NEW e \in Executors, Renew(e) PROVE Creds'
  BY VaultAssumption, TimingAssumption, <1>6 DEF Renew, Move, Goto
<1>7. ASSUME NEW e \in Executors, TruncateFile(e) PROVE Creds'
  BY VaultAssumption, TimingAssumption, <1>7 DEF TruncateFile, Move, Goto
<1>8. ASSUME NEW e \in Executors, WriteFile(e) PROVE Creds'
  BY VaultAssumption, TimingAssumption, <1>8 DEF WriteFile, Move, Goto
<1>9. ASSUME NEW e \in Executors, StartRole(e) PROVE Creds'
  BY VaultAssumption, TimingAssumption, <1>9 DEF StartRole, Move, Goto
<1>10. ASSUME NEW e \in Executors, RequestLease(e) PROVE Creds'
  BY VaultAssumption, TimingAssumption, <1>10 DEF RequestLease, Move, Goto
<1>11. ASSUME NEW e \in Executors, ReceiveLease(e) PROVE Creds'
  BY VaultAssumption, TimingAssumption, <1>11 DEF ReceiveLease, Move, Goto
<1>12. ASSUME NEW e \in Executors, RequestRenewal(e) PROVE Creds'
  BY VaultAssumption, TimingAssumption, <1>12 DEF RequestRenewal, Move, Goto
<1>13. ASSUME NEW e \in Executors, ReceiveRenewal(e) PROVE Creds'
  BY VaultAssumption, TimingAssumption, <1>13 DEF ReceiveRenewal, Move, Goto
<1>14. ASSUME NEW e \in Executors, Launch(e) PROVE Creds'
  BY VaultAssumption, TimingAssumption, <1>14 DEF Launch, Move, Goto
<1>15. ASSUME NEW e \in Executors, BackoffEnds(e) PROVE Creds'
  BY VaultAssumption, TimingAssumption, <1>15 DEF BackoffEnds, Move, Goto
<1>16. ASSUME NEW e \in Executors, LeaseExpires(e) PROVE Creds'
  BY VaultAssumption, TimingAssumption, <1>16 DEF LeaseExpires, Move, Goto
<1>17. ASSUME NEW e \in Executors, TaskEnds(e) PROVE Creds'
  BY VaultAssumption, TimingAssumption, <1>17 DEF TaskEnds, Move, Goto
<1>18. ASSUME NEW e \in Executors, Stopped(e) PROVE Creds'
  BY VaultAssumption, TimingAssumption, <1>18 DEF Stopped, Move, Goto
<1>19. ASSUME NEW e \in Executors, RevokeLease(e) PROVE Creds'
  BY VaultAssumption, TimingAssumption, <1>19 DEF RevokeLease, Move, Goto
<1>20. ASSUME NEW e \in Executors, RevokeToken(e) PROVE Creds'
  BY VaultAssumption, TimingAssumption, <1>20 DEF RevokeToken, Move, Goto
<1>21. ASSUME NEW e \in Executors, Crash(e) PROVE Creds'
  BY VaultAssumption, TimingAssumption, <1>21 DEF Crash, Move, Goto
<1>22. ASSUME NEW e \in Executors, Trap(e) PROVE Creds'
  BY VaultAssumption, TimingAssumption, <1>22 DEF Trap, Move, Goto
<1>23. CASE Tick
  BY VaultAssumption, TimingAssumption, <1>23 DEF Tick, MayWait
<1>24. CASE UNCHANGED vars
  BY <1>24 DEF vars
<1>25. QED
  BY <1>1, <1>2, <1>3, <1>4, <1>5, <1>6, <1>7, <1>8, <1>9, <1>10, <1>11,
     <1>12, <1>13, <1>14, <1>15, <1>16, <1>17, <1>18, <1>19, <1>20, <1>21,
     <1>22, <1>23, <1>24 DEF Next

\* What monitorTask gives back is gone, unless Vault did not answer.
LEMMA LeavingsStep == TypeOK /\ Sharing /\ Leavings /\ [Next]_vars => Leavings'
<1> SUFFICES ASSUME TypeOK, Sharing, Leavings, [Next]_vars PROVE Leavings'
  OBVIOUS
<1> USE DEF file, conf, timers, vault, StartupStages, WaitStages,
      WatchStages, StopStages, ContainerStages, Stages, TypeOK, Sharing,
      Leavings, EarlyStages, TokenLive
<1>1. ASSUME NEW e \in Executors, Start(e) PROVE Leavings'
  BY VaultAssumption, <1>1 DEF Start, Move, Goto
<1>2. ASSUME NEW e \in Executors, StatFile(e) PROVE Leavings'
  BY VaultAssumption, <1>2 DEF StatFile, Move, Goto
<1>3. ASSUME NEW e \in Executors, ReadFile(e) PROVE Leavings'
  BY VaultAssumption, <1>3 DEF ReadFile, Move, Goto
<1>4. ASSUME NEW e \in Executors, Validate(e) PROVE Leavings'
  BY VaultAssumption, <1>4 DEF Validate, Move, Goto
<1>5. ASSUME NEW e \in Executors, Login(e) PROVE Leavings'
  BY VaultAssumption, <1>5 DEF Login, Move, Goto
<1>6. ASSUME NEW e \in Executors, Renew(e) PROVE Leavings'
  <2>1. /\ UNCHANGED <<role, lease>> /\ failed \subseteq failed'
        /\ pc[e] = "renew" /\ pc'[e] \in {"ready", "open"}
        /\ \A f \in Executors \ {e} : pc'[f] = pc[f] /\ expiry'[f] = expiry[f]
    BY <1>6 DEF Renew, Goto
  <2>2. \A f \in Executors \ {e} : f \in failed' <=> f \in failed
    BY <1>6 DEF Renew
  <2>3. e \in role /\ e \notin failed' => own'[e]
    <3>1. CASE failed' = failed \cup {e}
      BY <3>1
    <3>2. CASE UNCHANGED failed /\ own' = [own EXCEPT ![e] = e \in role]
      BY <3>2, Zenon
    <3>3. QED
      BY <1>6, <3>1, <3>2 DEF Renew
  <2>4. QED
    BY <1>6, <2>1, <2>2, <2>3, RenewOwn
<1>7. ASSUME NEW e \in Executors, TruncateFile(e) PROVE Leavings'
  BY VaultAssumption, <1>7 DEF TruncateFile, Move, Goto
<1>8. ASSUME NEW e \in Executors, WriteFile(e) PROVE Leavings'
  BY VaultAssumption, <1>8 DEF WriteFile, Move, Goto
<1>9. ASSUME NEW e \in Executors, StartRole(e) PROVE Leavings'
  BY VaultAssumption, <1>9 DEF StartRole, Move, Goto
<1>10. ASSUME NEW e \in Executors, RequestLease(e) PROVE Leavings'
  BY VaultAssumption, <1>10 DEF RequestLease, Move, Goto
<1>11. ASSUME NEW e \in Executors, ReceiveLease(e) PROVE Leavings'
  BY VaultAssumption, <1>11 DEF ReceiveLease, Move, Goto
<1>12. ASSUME NEW e \in Executors, RequestRenewal(e) PROVE Leavings'
  BY VaultAssumption, <1>12 DEF RequestRenewal, Move, Goto
<1>13. ASSUME NEW e \in Executors, ReceiveRenewal(e) PROVE Leavings'
  BY VaultAssumption, <1>13 DEF ReceiveRenewal, Move, Goto
<1>14. ASSUME NEW e \in Executors, Launch(e) PROVE Leavings'
  BY VaultAssumption, <1>14 DEF Launch, Move, Goto
<1>15. ASSUME NEW e \in Executors, BackoffEnds(e) PROVE Leavings'
  BY VaultAssumption, <1>15 DEF BackoffEnds, Move, Goto
<1>16. ASSUME NEW e \in Executors, LeaseExpires(e) PROVE Leavings'
  BY VaultAssumption, <1>16 DEF LeaseExpires, Move, Goto
<1>17. ASSUME NEW e \in Executors, TaskEnds(e) PROVE Leavings'
  BY VaultAssumption, <1>17 DEF TaskEnds, Move, Goto
<1>18. ASSUME NEW e \in Executors, Stopped(e) PROVE Leavings'
  BY VaultAssumption, <1>18 DEF Stopped, Move, Goto
<1>19. ASSUME NEW e \in Executors, RevokeLease(e) PROVE Leavings'
  BY VaultAssumption, <1>19 DEF RevokeLease, Move, Goto
<1>20. ASSUME NEW e \in Executors, RevokeToken(e) PROVE Leavings'
  BY VaultAssumption, <1>20 DEF RevokeToken, Move, Goto
<1>21. ASSUME NEW e \in Executors, Crash(e) PROVE Leavings'
  BY VaultAssumption, <1>21 DEF Crash, Move, Goto
<1>22. ASSUME NEW e \in Executors, Trap(e) PROVE Leavings'
  BY VaultAssumption, <1>22 DEF Trap, Move, Goto
<1>23. CASE Tick
  BY VaultAssumption, <1>23 DEF Tick, MayWait
<1>24. CASE UNCHANGED vars
  BY <1>24 DEF vars
<1>25. QED
  BY <1>1, <1>2, <1>3, <1>4, <1>5, <1>6, <1>7, <1>8, <1>9, <1>10, <1>11,
     <1>12, <1>13, <1>14, <1>15, <1>16, <1>17, <1>18, <1>19, <1>20, <1>21,
     <1>22, <1>23, <1>24 DEF Next

-----------------------------------------------------------------------------
(* Theorems *)

\* The initial state has the invariant.
LEMMA InitIndInv == Init => IndInv
  BY VaultAssumption
     DEF Init, IndInv, TypeOK, Timers, Sharing, Grace, Creds, Leavings, Renewed,
         Stages, StartupStages, WaitStages, WatchStages, StopStages,
         ContainerStages, EarlyStages

\* IndInv holds in every reachable state.
THEOREM VaultInvariant == Spec => []IndInv
<1>1. IndInv /\ [Next]_vars => IndInv'
  BY TypeOKStep, TimersStep, SharingStep, GraceStep, CredsStep, LeavingsStep
     DEF IndInv
<1>2. QED
  BY <1>1, InitIndInv, PTL DEF Spec

\* Type correctness.
THEOREM TypeCorrect == Spec => []TypeOK
<1>1. IndInv => TypeOK
  BY DEF IndInv
<1>2. QED
  BY <1>1, VaultInvariant, PTL

\* A token that went through the file is nobody's own: MaybeRevokeToken of its
\* first owner leaves the others' requests alone.
THEOREM SharedTokenSafe == Spec => []SharedTokenNotRevoked
<1>1. IndInv => SharedTokenNotRevoked
  BY DEF IndInv, Sharing, SharedTokenNotRevoked
<1>2. QED
  BY <1>1, VaultInvariant, PTL

\* For every lease, TTL and maximum, the padding and the startup grace period
\* are enough to stop the container before its credentials end.
THEOREM RenewedCredsSafe == Spec => []RenewedCredsOutliveContainer
<1>1. ASSUME IndInv, NEW e \in role, pc[e] \in ContainerStages,
             own[e], ttl[e] # 0, Ask(e) <= TokenMaxTTL
      PROVE  CredsLive(e)
  <2> USE DEF IndInv
  <2>1. e \in Executors /\ held[e] = e /\ Renewed(e)
    BY <1>1 DEF TypeOK, Sharing, Renewed
  <2>2. /\ expires[e] + StopTime <= lease[e]
        /\ expires[e] + StopTime <= expiry[e]
        /\ clock <= expires[e] + StopTime
    <3>1. CASE pc[e] \in WatchStages
      BY <1>1, <2>1, <3>1, VaultAssumption DEF Creds, TypeOK
    <3>2. CASE pc[e] \in StopStages
      BY <1>1, <2>1, <3>2, VaultAssumption DEF Creds, TypeOK, Timers
    <3>3. QED
      BY <1>1, <3>1, <3>2 DEF ContainerStages, WatchStages
  <2>3. QED
    BY <1>1, <2>1, <2>2, VaultAssumption DEF CredsLive, TokenLive, TypeOK
<1>2. IndInv => RenewedCredsOutliveContainer
  BY <1>1 DEF RenewedCredsOutliveContainer
<1>3. QED
  BY <1>2, VaultInvariant, PTL

\* A cached token that GetToken accepts is live beyond its grace period, when
\* the clocks and Vault keep to the assumptions.
THEOREM ReusedTokenSafe == Spec => ReusedTokenHasGrace
<1> DEFINE Reused ==
      \A e \in Executors :
          pc[e] = "validate" /\ pc'[e] = "ready" =>
              /\ held[e] \in Executors
              /\ clock <= expiry[held[e]]
              /\ TTL + StartupGracePeriod <= TokenMaxTTL =>
                     clock + TokenGracePeriod <= expiry[held[e]]
<1>1. IndInv /\ [Next]_vars => [Reused]_vars
  <2> SUFFICES ASSUME IndInv, Next, NEW e \in Executors,
                      pc[e] = "validate", pc'[e] = "ready"
               PROVE  /\ held[e] \in Executors
                      /\ clock <= expiry[held[e]]
                      /\ Honoured => clock + TokenGracePeriod <= expiry[held[e]]
    BY DEF Honoured
  <2>1. TokenLive(held[e])
    <3>1. Validate(e)
      BY DEF IndInv, TypeOK, Next, Tick, Start, StatFile, ReadFile, Validate, Login,
             Renew, TruncateFile, WriteFile, StartRole, RequestLease,
             ReceiveLease, RequestRenewal, ReceiveRenewal, Launch, BackoffEnds,
             LeaseExpires, TaskEnds, Stopped, RevokeLease, RevokeToken, Crash,
             Trap, Move, Goto
    <3>2. QED
      BY <3>1 DEF Validate, Move, Goto, IndInv, TypeOK
  <2>2. Honoured => clock + TokenGracePeriod <= expiry[held[e]]
    BY <2>1, VaultAssumption, TimingAssumption
       DEF IndInv, TypeOK, Timers, Grace, TokenLive, StartupStages
  <2>3. QED
    BY <2>1, <2>2 DEF TokenLive
<1>2. QED
  BY <1>1, VaultInvariant, PTL DEF Spec, ReusedTokenHasGrace

\* Nothing is left behind by an executor that Vault always answered.
THEOREM ConcludedSafe == Spec => []ConcludedLeavesNothing
<1>1. IndInv => ConcludedLeavesNothing
  BY DEF IndInv, TypeOK, Leavings, ConcludedLeavesNothing, TokenLive
<1>2. QED
  BY <1>1, VaultInvariant, PTL

=============================================================================
