--------------------------- MODULE SidecarHealth ---------------------------
(***************************************************************************)
(* sidecarStatus: what a check of a running container asks Sidecar, how it *)
(* retries, and when it decides that the task must fail.  Executor only    *)
(* needs to know that the answer may be an error; this module says when.   *)
(* Checks follow one another: the looper makes them, and monitorTask makes *)
(* one more when the looper has ended.                                     *)
(***************************************************************************)
EXTENDS Integers, Sequences

CONSTANTS
    MaxFails,     \* SidecarMaxFails
    RetryCount    \* SidecarRetryCount

ASSUME LimitsAssumption == MaxFails \in Nat /\ RetryCount \in Nat

\* What a fetched state can say of our container: nothing (it is not JSON, or
\* lacks our host or our container), or the service's status.
Silence    == {"garbled", "noHost", "noService"}
LiveStates == {"ALIVE", "DRAINING", "UNKNOWN"}
KillStates == {"UNHEALTHY", "TOMBSTONE"}

VARIABLES
    at,          \* "idle", "fetch" or "judge"
    attempt,     \* i of the retry loop
    answer,      \* what was fetched last
    failCount,   \* exec.failCount
    result,      \* of the last check: "nil" or "error"
    affirmed     \* history: what Sidecar affirmed of the service since the last
                 \* error, "bad" or "good"; its last MaxFails words

vars == <<at, attempt, answer, failCount, result, affirmed>>

Answers == Silence \cup LiveStates \cup KillStates

Init ==
    /\ at = "idle" /\ attempt = 0 /\ answer = "noService"
    /\ failCount = 0 /\ result = "nil" /\ affirmed = <<>>

Check ==
    /\ at = "idle"
    /\ at' = "fetch" /\ attempt' = 0
    /\ UNCHANGED <<answer, failCount, result, affirmed>>

Return(r) == at' = "idle" /\ result' = r

\* Mutant: one attempt too many.
LastAttemptLate == attempt > RetryCount

LastAttempt == attempt = RetryCount

\* Sidecar cannot be reached: try again, and in the end assume healthy.
FetchFails ==
    /\ at = "fetch"
    /\ \/ ~LastAttempt /\ attempt' = attempt + 1 /\ UNCHANGED <<at, result>>
       \/ LastAttempt /\ Return("nil") /\ UNCHANGED attempt
    /\ UNCHANGED <<answer, failCount, affirmed>>

FetchAnswers ==
    /\ at = "fetch"
    /\ at' = "judge" /\ answer' \in Answers
    /\ UNCHANGED <<attempt, failCount, result, affirmed>>

\* Mutant: an answer that says nothing resets the count, too.
CountAfterSilenceReset == 0

CountAfterSilence == failCount

\* An answer that says nothing of the service leaves the count alone.
AssumeHealthy ==
    /\ at = "judge" /\ answer \in Silence
    /\ Return("nil")
    /\ failCount' = CountAfterSilence
    /\ UNCHANGED <<attempt, answer, affirmed>>

Heard(word) ==
    LET all == Append(affirmed, word)
    IN affirmed' = SubSeq(all, IF Len(all) > MaxFails THEN 2 ELSE 1, Len(all))

\* Mutant: a healthy answer does not reset the count.
CountAfterHealthyKept == failCount

CountAfterHealthy == 0

Healthy ==
    /\ at = "judge" /\ answer \in LiveStates
    /\ Return("nil")
    /\ failCount' = CountAfterHealthy
    /\ Heard("good")
    /\ UNCHANGED <<attempt, answer>>

ExceededFailCount == failCount >= MaxFails

\* shouldBeKilled: below the limit the failure is counted and forgiven, at the
\* limit it is the one error that sidecarStatus can return.
Unhealthy ==
    /\ at = "judge" /\ answer \in KillStates
    /\ \/ /\ ~ExceededFailCount
          /\ failCount' = failCount + 1
          /\ Return("nil") /\ Heard("bad")
       \/ /\ ExceededFailCount
          /\ failCount' = 0
          /\ Return("error") /\ affirmed' = <<>>
    /\ UNCHANGED <<attempt, answer>>

Next ==
    Check \/ FetchFails \/ FetchAnswers \/ AssumeHealthy \/ Healthy \/ Unhealthy

Spec == Init /\ [][Next]_vars

\* The ticker fires, and a request to Sidecar ends (its client has a timeout).
Fairness == WF_vars(Next)

FairSpec == Spec /\ Fairness

-----------------------------------------------------------------------------

\* The types of the variables: a check tries at most RetryCount + 1 times.
TypeOK ==
    /\ at \in {"idle", "fetch", "judge"}
    /\ attempt \in 0..RetryCount
    /\ answer \in Answers
    /\ failCount \in 0..MaxFails
    /\ result \in {"nil", "error"}
    /\ affirmed \in Seq({"bad", "good"})

\* The last n affirmed answers were all bad.
BadStreak(n) ==
    /\ Len(affirmed) >= n
    /\ \A i \in Len(affirmed) - n + 1 .. Len(affirmed) : affirmed[i] = "bad"

\* A check fails the task exactly when Sidecar affirms that the service is to be
\* killed right after having affirmed it MaxFails times, with no good word and
\* no error in between.  Outages and answers that say nothing, in whatever
\* number and order, neither bring the failure nearer nor put it off.
FailsExactlyAfterStreak ==
    [][at = "judge" =>
         (result' = "error" <=> answer \in KillStates /\ BadStreak(MaxFails))]_vars

\* A service that Sidecar keeps calling unhealthy, now and then at least, and
\* no longer calls healthy is failed, however often Sidecar is out of reach.
UnhealthyIsFailed ==
    /\ <>[](answer \notin LiveStates)
    /\ []<>(at = "judge" /\ answer \in KillStates)
    => []<>(result = "error")
=============================================================================
