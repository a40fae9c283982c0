------------------------------- MODULE Client -------------------------------
(***************************************************************************)
(* The client of Kite's API that the jobs of one process share: a limiter  *)
(* with a burst of one, an access token, and calls that try again, without *)
(* the limiter, when Kite says that there are too many (kite.go,           *)
(* instruments.go, ratelimit.go).  The unit of time is the limiter's slot, *)
(* 1/rps of a second; a backoff of a second is at least one.               *)
(***************************************************************************)
EXTENDS Integers

CONSTANTS
  Job,          \* the jobs of the scheduler
  MaxSessions   \* sessions Kite opens in a run of the model

ASSUME ClientAssumption == MaxSessions \in Nat

Session == 0 .. MaxSessions   \* 0 is the one of KITE_ACCESS_TOKEN

VARIABLES
  ctxDone,   \* the context of the jobs is cancelled
  token,     \* the session of the client's access token
  alive,     \* the sessions that Kite accepts
  slot,      \* slots until the limiter lets the next call through
  call,      \* where a job's call stands
  kind,      \* what it asks for
  attempt,   \* its requests so far
  timer,     \* what is left of its backoff
  answer,    \* what Kite, or the client in the end, answers
  sent,      \* ghost: requests in this slot
  late       \* ghost: requests of a job since the context was cancelled

clientVars == <<ctxDone, token, alive, slot, call, kind, attempt, timer, answer, sent, late>>
callVars == <<call, kind, attempt, timer, answer>>

ClientTypeOK ==
  /\ ctxDone \in BOOLEAN
  /\ token \in Session /\ alive \subseteq Session
  /\ slot \in {0, 1}
  /\ call \in [Job -> {"none", "wait", "backoff", "done"}]
  /\ kind \in [Job -> {"profile", "dump", "candles"}]
  /\ attempt \in [Job -> 0 .. 3]
  /\ timer \in [Job -> 0 .. 4]
  /\ answer \in [Job -> {"none", "ok", "failed", "refused", "cancelled"}]
  /\ sent \in Nat /\ late \in [Job -> Nat]

ClientInit ==
  /\ ctxDone = FALSE
  /\ token = 0 /\ alive \in {{}, {0}}
  /\ slot = 0
  /\ call = [j \in Job |-> "none"]
  /\ kind = [j \in Job |-> "profile"]
  /\ attempt = [j \in Job |-> 0]
  /\ timer = [j \in Job |-> 0]
  /\ answer = [j \in Job |-> "none"]
  /\ sent = 0 /\ late = [j \in Job |-> 0]

\* The call is over and hands a result to its job.
Answered(j, result) ==
  /\ call' = [call EXCEPT ![j] = "done"]
  /\ answer' = [answer EXCEPT ![j] = result]
  /\ attempt' = [attempt EXCEPT ![j] = 0]

\* Mutant: the limiter is entered although the context is done.
BeginAnyway(j, what) ==
  /\ call' = [call EXCEPT ![j] = "wait"]
  /\ kind' = [kind EXCEPT ![j] = what]
  /\ UNCHANGED <<attempt, timer, answer>>

\* A job calls; limiter.Wait first looks at the context.
Begin(j, what) ==
  /\ kind' = [kind EXCEPT ![j] = what]
  /\ \/ ctxDone /\ Answered(j, "cancelled")
     \/ ~ctxDone /\ call' = [call EXCEPT ![j] = "wait"] /\ UNCHANGED <<attempt, answer>>
  /\ UNCHANGED timer

\* The job has taken the result.
Taken(j) ==
  /\ call' = [call EXCEPT ![j] = "none"]
  /\ kind' = [kind EXCEPT ![j] = "profile"]
  /\ answer' = [answer EXCEPT ![j] = "none"]
  /\ UNCHANGED <<attempt, timer>>

\* Mutant: the next attempt comes at once.
BackoffNone(n) == 0

\* Mutant: the backoff doubles before its first use.
BackoffDoubled(n) == 2 ^ n

\* One second, two, and after the last attempt of Historical four.
Backoff(n) == 2 ^ (n - 1)

\* What Kite may say to the token the client has now.
Answers == {"busy", "failed", IF token \in alive THEN "ok" ELSE "refused"}

\* Calls that try again when Kite is busy (isRateLimitError), after attempt n;
\* Historical sleeps after its last attempt as well.
TriesAgain(j, n) == kind[j] = "candles" \/ (kind[j] = "dump" /\ n < 3)

\* A request goes to Kite's API.
Sends(j) ==
  /\ sent' = sent + 1
  /\ late' = IF ctxDone THEN [late EXCEPT ![j] = @ + 1] ELSE late

\* A request, its answer, and the select of the retry loop.  What comes while the
\* answer is under way might as well come after it.
Request(j) ==
  /\ \E a \in Answers, n \in {attempt[j] + 1} :
       \/ /\ a = "busy" /\ TriesAgain(j, n) /\ ~ctxDone
          /\ call' = [call EXCEPT ![j] = "backoff"]
          /\ attempt' = [attempt EXCEPT ![j] = n]
          /\ timer' = [timer EXCEPT ![j] = Backoff(n)]
          /\ UNCHANGED answer
       \/ a = "busy" /\ TriesAgain(j, n) /\ ctxDone /\ Answered(j, "cancelled") /\ UNCHANGED timer
       \/ a = "busy" /\ ~TriesAgain(j, n) /\ Answered(j, "failed") /\ UNCHANGED timer
       \/ a # "busy" /\ Answered(j, a) /\ UNCHANGED timer
  /\ Sends(j)
  /\ UNCHANGED <<ctxDone, token, alive, kind>>

\* The limiter lets a call through.
Admitted(j) == call[j] = "wait" /\ slot = 0 /\ slot' = 1 /\ Request(j)

\* It gives up when the context is done.
WaitCancelled(j) ==
  /\ call[j] = "wait" /\ ctxDone
  /\ Answered(j, "cancelled")
  /\ UNCHANGED <<ctxDone, token, alive, slot, kind, timer, sent, late>>

\* The backoff is over.
Retry(j) ==
  /\ call[j] = "backoff" /\ timer[j] = 0
  /\ \/ attempt[j] < 3 /\ Request(j)
     \/ attempt[j] = 3 /\ Answered(j, "failed")
        /\ UNCHANGED <<ctxDone, token, alive, kind, timer, sent, late>>
  /\ UNCHANGED slot

\* Scheduler.Stop; a call in its backoff takes the cancellation at once.
Stop ==
  LET sleeping == {j \in Job : call[j] = "backoff" /\ timer[j] > 0}
  IN  /\ ~ctxDone /\ ctxDone' = TRUE
      /\ call' = [j \in Job |-> IF j \in sleeping THEN "done" ELSE call[j]]
      /\ answer' = [j \in Job |-> IF j \in sleeping THEN "cancelled" ELSE answer[j]]
      /\ attempt' = [j \in Job |-> IF j \in sleeping THEN 0 ELSE attempt[j]]
      /\ timer' = [j \in Job |-> 0]
      /\ UNCHANGED <<token, alive, slot, kind, sent, late>>

\* The next slot.
Tick ==
  /\ slot' = 0 /\ sent' = 0
  /\ timer' = [j \in Job |-> IF timer[j] > 0 THEN timer[j] - 1 ELSE 0]
  /\ UNCHANGED <<ctxDone, token, alive, call, kind, attempt, answer, late>>

\* 6:00 in India, or a logout.
Expire ==
  /\ alive # {} /\ alive' = {}
  /\ UNCHANGED <<ctxDone, token, slot, callVars, sent, late>>

ClientStep(j) == Admitted(j) \/ WaitCancelled(j) \/ Retry(j)
=============================================================================
