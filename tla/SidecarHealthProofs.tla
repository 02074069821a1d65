------------------------- MODULE SidecarHealthProofs ------------------------
(***************************************************************************)
(* Proofs about SidecarHealth, for any limit and any number of retries.    *)
(* The run checks one pair of limits; that the one counter of the code     *)
(* decides what a history of MaxFails answers would is proved for all.     *)
(***************************************************************************)
EXTENDS SidecarHealth, SequenceTheorems, TLAPS

Words == {"bad", "good"}

\* The n-th last of a sequence.
FromEnd(s, n) == s[Len(s) - n + 1]

\* The counter is the length of the streak of bad words at the end.
CountIsStreak ==
    /\ Len(affirmed) <= MaxFails
    /\ failCount <= Len(affirmed)
    /\ \A n \in 1..failCount : FromEnd(affirmed, n) = "bad"
    /\ failCount < Len(affirmed) => FromEnd(affirmed, failCount + 1) = "good"

IndInv == TypeOK /\ CountIsStreak

\* What Heard makes of the history, seen from its end.
LEMMA HeardFromEnd ==
  ASSUME IndInv, NEW w \in Words, Heard(w)
  PROVE  /\ affirmed' \in Seq(Words)
         /\ Len(affirmed') = IF Len(affirmed) < MaxFails THEN Len(affirmed) + 1
                             ELSE MaxFails
         /\ MaxFails > 0 => FromEnd(affirmed', 1) = w
         /\ \A n \in 2..Len(affirmed') : FromEnd(affirmed', n) = FromEnd(affirmed, n - 1)
<1> DEFINE all == Append(affirmed, w)
           first == IF Len(all) > MaxFails THEN 2 ELSE 1
<1>1. affirmed \in Seq(Words) /\ Len(affirmed) \in Nat /\ MaxFails \in Nat
        /\ Len(affirmed) <= MaxFails
  BY LimitsAssumption, LenProperties DEF IndInv, TypeOK, CountIsStreak, Words
<1>2. /\ all \in Seq(Words) /\ Len(all) = Len(affirmed) + 1
      /\ \A i \in 1..Len(affirmed) : all[i] = affirmed[i]
      /\ all[Len(affirmed) + 1] = w
  BY <1>1, AppendProperties
<1> HIDE DEF all
<1>3. affirmed' = SubSeq(all, first, Len(all))
  BY DEF Heard, all
<1>4. first \in 1..Len(all) + 1 /\ Len(all) \in first - 1 .. Len(all)
  BY <1>1, <1>2
<1>5. /\ affirmed' \in Seq(Words)
      /\ Len(affirmed') = Len(all) - first + 1
      /\ \A i \in 1..Len(all) - first + 1 : affirmed'[i] = all[first + i - 1]
  <2>1. affirmed' = SubSeq(all, first, Len(all))
    BY <1>3
  <2> HIDE DEF first
  <2>2. QED
    BY <1>2, <1>4, <2>1, SubSeqProperties
<1>6. CASE Len(affirmed) < MaxFails
  <2>1. Len(affirmed') = Len(affirmed) + 1 /\ \A i \in 1..Len(all) : affirmed'[i] = all[i]
    BY <1>1, <1>2, <1>5, <1>6
  <2>2. FromEnd(affirmed', 1) = w
    BY <1>1, <1>2, <1>6, <2>1 DEF FromEnd
  <2>3. ASSUME NEW n \in 2..Len(affirmed')
        PROVE  FromEnd(affirmed', n) = FromEnd(affirmed, n - 1)
    <3>1. Len(affirmed') - n + 1 = Len(affirmed) - (n - 1) + 1
      BY <1>1, <2>1
    <3>2. Len(affirmed) - (n - 1) + 1 \in 1..Len(affirmed)
      BY <1>1, <2>1
    <3>3. QED
      BY <1>1, <1>2, <2>1, <3>1, <3>2 DEF FromEnd
  <2>4. QED
    BY <1>1, <1>5, <1>6, <2>1, <2>2, <2>3
<1>7. CASE Len(affirmed) = MaxFails
  <2>1. Len(affirmed') = MaxFails
          /\ \A i \in 1..MaxFails : affirmed'[i] = all[i + 1]
    BY <1>1, <1>2, <1>5, <1>7
  <2>2. MaxFails > 0 => FromEnd(affirmed', 1) = w
    BY <1>1, <1>2, <1>7, <2>1 DEF FromEnd
  <2>3. ASSUME NEW n \in 2..Len(affirmed')
        PROVE  FromEnd(affirmed', n) = FromEnd(affirmed, n - 1)
    BY <1>1, <1>2, <1>7, <2>1 DEF FromEnd
  <2>4. QED
    BY <1>1, <1>5, <1>7, <2>1, <2>2, <2>3
<1>8. QED
  BY <1>1, <1>6, <1>7

\* Every step keeps the types and the meaning of the counter.
LEMMA Step == IndInv /\ [Next]_vars => IndInv'
<1> SUFFICES ASSUME IndInv, [Next]_vars PROVE IndInv'
  OBVIOUS
<1> USE LimitsAssumption
<1>0. Len(affirmed) \in Nat
  BY LenProperties DEF IndInv, TypeOK
<1>1. CASE Check
  BY <1>1 DEF Check, IndInv, TypeOK, CountIsStreak, FromEnd
<1>2. CASE FetchFails
  BY <1>2 DEF FetchFails, LastAttempt, Return, IndInv, TypeOK, CountIsStreak, FromEnd
<1>3. CASE FetchAnswers
  BY <1>3 DEF FetchAnswers, IndInv, TypeOK, CountIsStreak, FromEnd
<1>4. CASE AssumeHealthy
  BY <1>4 DEF AssumeHealthy, CountAfterSilence, Return, IndInv, TypeOK,
              CountIsStreak, FromEnd
<1>5. CASE Healthy
  <2>1. TypeOK'
    BY <1>5, HeardFromEnd
       DEF Healthy, CountAfterHealthy, Return, IndInv, TypeOK, Words
  <2>2. CountIsStreak'
    BY <1>0, <1>5, HeardFromEnd
       DEF Healthy, CountAfterHealthy, CountIsStreak, IndInv, Words
  <2>3. QED
    BY <2>1, <2>2 DEF IndInv
<1>6. CASE Unhealthy
  <2>1. CASE ExceededFailCount
    <3>1. affirmed' = <<>> /\ failCount' = 0 /\ UNCHANGED <<attempt, answer>>
            /\ at' = "idle" /\ result' = "error"
      BY <1>6, <2>1 DEF Unhealthy, Return
    <3>2. affirmed' \in Seq({"bad", "good"}) /\ Len(affirmed') = 0
      BY <3>1
    <3>3. QED
      BY <3>1, <3>2 DEF IndInv, TypeOK, CountIsStreak
  <2>2. CASE ~ExceededFailCount
    <3>1. failCount' = failCount + 1 /\ failCount < MaxFails /\ Heard("bad")
            /\ UNCHANGED <<attempt, answer>> /\ at' = "idle" /\ result' = "nil"
      BY <1>6, <2>2 DEF Unhealthy, ExceededFailCount, Return, IndInv, TypeOK
    <3>2. /\ affirmed' \in Seq(Words)
          /\ Len(affirmed') = IF Len(affirmed) < MaxFails THEN Len(affirmed) + 1
                              ELSE MaxFails
          /\ MaxFails > 0 => FromEnd(affirmed', 1) = "bad"
          /\ \A n \in 2..Len(affirmed') : FromEnd(affirmed', n) = FromEnd(affirmed, n - 1)
      BY <3>1, HeardFromEnd DEF Words
    <3>3. TypeOK'
      BY <3>1, <3>2 DEF IndInv, TypeOK, Words
    <3>4. failCount' <= Len(affirmed') /\ Len(affirmed') <= MaxFails
      BY <1>0, <3>1, <3>2 DEF IndInv, TypeOK, CountIsStreak
    <3>5. \A n \in 1..failCount' : FromEnd(affirmed', n) = "bad"
      BY <1>0, <3>1, <3>2, <3>4 DEF IndInv, TypeOK, CountIsStreak
    <3>6. failCount' < Len(affirmed') => FromEnd(affirmed', failCount' + 1) = "good"
      <4>1. SUFFICES ASSUME failCount + 1 < Len(affirmed')
                     PROVE  FromEnd(affirmed', failCount + 2) = "good"
        BY <3>1 DEF IndInv, TypeOK
      <4>2. failCount + 2 \in 2..Len(affirmed') /\ failCount < Len(affirmed)
        BY <1>0, <3>1, <3>2, <4>1 DEF IndInv, TypeOK, CountIsStreak
      <4>3. FromEnd(affirmed', failCount + 2) = FromEnd(affirmed, failCount + 1)
        BY <3>1, <3>2, <4>2 DEF IndInv, TypeOK
      <4>4. QED
        BY <4>2, <4>3 DEF IndInv, CountIsStreak
    <3>7. QED
      BY <3>3, <3>4, <3>5, <3>6 DEF IndInv, CountIsStreak
  <2>3. QED
    BY <2>1, <2>2
<1>7. CASE UNCHANGED vars
  BY <1>7 DEF vars, IndInv, TypeOK, CountIsStreak, FromEnd
<1>8. QED
  BY <1>1, <1>2, <1>3, <1>4, <1>5, <1>6, <1>7 DEF Next

\* The invariant holds at first.
LEMMA InitIndInv == Init => IndInv
<1> SUFFICES ASSUME Init PROVE IndInv
  OBVIOUS
<1>1. affirmed \in Seq({"bad", "good"}) /\ Len(affirmed) = 0
  BY DEF Init
<1>2. QED
  BY <1>1, LimitsAssumption DEF Init, IndInv, TypeOK, CountIsStreak, Answers, Silence

\* In every reachable state the counter is the length of the bad streak.
THEOREM HealthInvariant == Spec => []IndInv
  BY InitIndInv, Step, PTL DEF Spec

\* Type correctness: no check tries more than RetryCount + 1 times, and the
\* counter never passes its limit.
THEOREM TypeCorrect == Spec => []TypeOK
<1>1. IndInv => TypeOK
  BY DEF IndInv
<1>2. QED
  BY <1>1, HealthInvariant, PTL

\* For every limit, a check returns its error exactly after a bad streak of
\* that length: the counter forgets nothing that matters and counts nothing
\* that does not.
THEOREM FailsAfterStreak == Spec => FailsExactlyAfterStreak
<1> DEFINE Exactly ==
      at = "judge" =>
        (result' = "error" <=> answer \in KillStates /\ BadStreak(MaxFails))
<1>1. IndInv => (BadStreak(MaxFails) <=> ExceededFailCount)
  <2> SUFFICES ASSUME IndInv PROVE BadStreak(MaxFails) <=> ExceededFailCount
    OBVIOUS
  <2>1. Len(affirmed) \in Nat /\ MaxFails \in Nat /\ failCount \in Nat
    BY LenProperties, LimitsAssumption DEF IndInv, TypeOK
  <2>2. ASSUME BadStreak(MaxFails), failCount < MaxFails PROVE FALSE
    <3>1. FromEnd(affirmed, failCount + 1) = "good"
      BY <2>1, <2>2 DEF IndInv, CountIsStreak, BadStreak
    <3>2. FromEnd(affirmed, failCount + 1) = "bad"
      BY <2>1, <2>2 DEF IndInv, CountIsStreak, BadStreak, FromEnd
    <3>3. QED
      BY <3>1, <3>2
  <2>3. ASSUME failCount >= MaxFails PROVE BadStreak(MaxFails)
    <3>1. Len(affirmed) = MaxFails /\ failCount = MaxFails
      BY <2>1, <2>3 DEF IndInv, CountIsStreak
    <3>2. \A i \in 1..MaxFails : affirmed[i] = FromEnd(affirmed, MaxFails - i + 1)
      BY <2>1, <3>1 DEF FromEnd
    <3>3. QED
      BY <2>1, <3>1, <3>2 DEF IndInv, CountIsStreak, BadStreak
  <2>4. QED
    BY <2>1, <2>2, <2>3 DEF ExceededFailCount
<1>2. IndInv /\ [Next]_vars => [Exactly]_vars
  <2> SUFFICES ASSUME IndInv, Next, at = "judge"
               PROVE  result' = "error" <=> answer \in KillStates /\ ExceededFailCount
    BY <1>1
  <2>1. CASE AssumeHealthy
    BY <2>1 DEF AssumeHealthy, Return, Silence, KillStates
  <2>2. CASE Healthy
    BY <2>2 DEF Healthy, Return, LiveStates, KillStates
  <2>3. CASE Unhealthy
    BY <2>3 DEF Unhealthy, Return
  <2>4. QED
    BY <2>1, <2>2, <2>3 DEF Next, Check, FetchFails, FetchAnswers
<1>3. QED
  BY <1>2, HealthInvariant, PTL DEF Spec, FailsExactlyAfterStreak

=============================================================================
