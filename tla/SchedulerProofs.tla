-------------------------- MODULE SchedulerProofs --------------------------
(***************************************************************************)
(* Theorems of Scheduler, Login and Client, for any jobs, sections of work *)
(* and numbers of calls.                                                   *)
(***************************************************************************)
EXTENDS Scheduler, FiniteSetTheorems, TLAPS

-----------------------------------------------------------------------------
(* Types.                                                                  *)

\* What the steps of a section leave alone.
Around == <<ctxDone, token, alive, slot, sent, late, loginVars, ghosts>>

\* Where a job stands, and its call, its runs and its login with it.
Placed(j) ==
  /\ call[j] # "backoff" => attempt[j] = 0
  /\ stage[j] = "idle" <=> runs[j] = 0
  /\ stage[j] \in {"idle", "login"} => call[j] = "none"
  /\ stage[j] = "work" /\ work[j] = <<>> => call[j] = "none"
  /\ stage[j] = "login" <=> page[j] # "none"

Counted == \A j \in Job : Placed(j)

TypeInv == TypeOK /\ Counted

LEMMA BackoffType ==
  \A n \in 1 .. 3 : Backoff(n) \in 1 .. 4
<1>1. 2 ^ 0 = 1 /\ 2 ^ 1 = 2 /\ 2 ^ 2 = 4
  OBVIOUS
<1>2. SUFFICES ASSUME NEW n \in 1 .. 3  PROVE Backoff(n) \in 1 .. 4
  OBVIOUS
<1>3. CASE n = 1
  <2>1. n - 1 = 0
    BY <1>3
  <2>2. QED
    BY <1>1, <2>1 DEF Backoff
<1>4. CASE n = 2
  <2>1. n - 1 = 1
    BY <1>4
  <2>2. QED
    BY <1>1, <2>1 DEF Backoff
<1>5. CASE n = 3
  <2>1. n - 1 = 2
    BY <1>5
  <2>2. QED
    BY <1>1, <2>1 DEF Backoff
<1>6. QED
  BY <1>3, <1>4, <1>5

\* What a request adds to the counts.
LEMMA SendsType ==
  ASSUME ClientTypeOK, NEW j \in Job, Sends(j)
  PROVE  sent' \in Nat /\ late' \in [Job -> Nat]
<1>1. sent \in Nat /\ late \in [Job -> Nat] /\ late[j] \in Nat
  BY DEF ClientTypeOK
<1>2. late[j] + 1 \in Nat
  BY <1>1
<1>3. QED
  BY <1>1, <1>2 DEF Sends

\* What a job does to its client when it begins a call or takes a result.
LEMMA CallType ==
  ASSUME ClientTypeOK, NEW j \in Job, NEW what \in {"profile", "dump", "candles"},
         Taken(j) \/ Begin(j, what), UNCHANGED <<ctxDone, token, alive, slot>>,
         sent' \in Nat, late' \in [Job -> Nat]
  PROVE  ClientTypeOK'
<1>1. /\ call' \in [Job -> {"none", "wait", "backoff", "done"}]
      /\ kind' \in [Job -> {"profile", "dump", "candles"}]
      /\ answer' \in [Job -> {"none", "ok", "failed", "refused", "cancelled"}]
  BY DEF Taken, Begin, Answered, ClientTypeOK
<1>2. attempt' \in [Job -> 0 .. 3] /\ timer' \in [Job -> 0 .. 4]
  BY DEF Taken, Begin, Answered, ClientTypeOK
<1>3. QED
  BY <1>1, <1>2 DEF ClientTypeOK

\* What BeginRuns and EndRun do to a job whose client is free to begin.
LEMMA BeginRunsType ==
  ASSUME TypeInv, NEW j \in Job, NEW n \in Nat, BeginRuns(j, n),
         call[j] # "backoff", page' = [page EXCEPT ![j] = "none"], LoginTypeOK',
         UNCHANGED <<ctxDone, token, alive, slot, ghosts>>,
         sent' \in Nat, late' \in [Job -> Nat]
  PROVE  TypeInv'
<1>1. <<>> \in Seq({"dump", "walk"})
  OBVIOUS
<1>2. ClientTypeOK'
  <2>1. ClientTypeOK
    BY DEF TypeInv, TypeOK
  <2>2. Taken(j) \/ Begin(j, "profile")
    BY DEF BeginRuns
  <2>3. QED
    BY <2>1, <2>2, CallType
<1>3. /\ stage' \in [Job -> {"idle", "validate", "login", "work"}]
      /\ runs' \in [Job -> Nat]
  BY DEF BeginRuns, TypeInv, TypeOK
<1>4. /\ work' \in [Job -> Seq({"dump", "walk"})]
      /\ more' \in [Job -> 0 .. Calls]
  BY <1>1, SchedulerAssumption DEF BeginRuns, TypeInv, TypeOK
<1>5. left' \in [Job -> Nat] /\ mine' \in Session /\ raced' \in BOOLEAN
  BY DEF ghosts, TypeInv, TypeOK
<1>6. TypeOK'
  BY <1>2, <1>3, <1>4, <1>5 DEF TypeInv, TypeOK, Session
<1>7. ASSUME NEW k \in Job  PROVE Placed(k)'
  <2>1. CASE k # j
    BY <2>1 DEF BeginRuns, Begin, Taken, Answered, Placed, Counted,
                TypeInv, TypeOK, ClientTypeOK, LoginTypeOK
  <2>2. CASE k = j
    <3>1. page'[j] = "none" /\ runs'[j] = n
      BY DEF BeginRuns, TypeInv, TypeOK, LoginTypeOK
    <3>2. call'[j] # "backoff" /\ attempt'[j] = 0
      BY DEF BeginRuns, Begin, Taken, Answered, Placed, Counted, TypeInv, TypeOK, ClientTypeOK
    <3>3. CASE n = 0
      <4>1. stage'[j] = "idle" /\ call'[j] = "none"
        BY <3>3 DEF BeginRuns, Taken, TypeInv, TypeOK, ClientTypeOK
      <4>2. QED
        BY <2>2, <3>1, <3>2, <3>3, <4>1 DEF Placed
    <3>4. CASE n > 0
      <4>1. stage'[j] = "validate"
        BY <3>4 DEF BeginRuns, TypeInv, TypeOK
      <4>2. QED
        BY <2>2, <3>1, <3>2, <3>4, <4>1 DEF Placed
    <3>5. QED
      BY <3>3, <3>4
  <2>3. QED
    BY <2>1, <2>2
<1>8. QED
  BY <1>6, <1>7 DEF TypeInv, Counted

\* What BeginSection does.
LEMMA SectionType ==
  ASSUME TypeInv, NEW j \in Job, NEW s \in Seq({"dump", "walk"}), BeginSection(j, s)
  PROVE  /\ runs' = runs
         /\ work' \in [Job -> Seq({"dump", "walk"})]
         /\ more' \in [Job -> 0 .. Calls]
BY SchedulerAssumption DEF BeginSection, TypeInv, TypeOK

LEMMA RequestType ==
  ASSUME TypeInv, NEW j \in Job, Request(j), attempt[j] < 3
  PROVE  /\ ctxDone' = ctxDone /\ token' = token /\ alive' = alive /\ kind' = kind
         /\ call' \in [Job -> {"none", "wait", "backoff", "done"}]
         /\ attempt' \in [Job -> 0 .. 3]
         /\ timer' \in [Job -> 0 .. 4]
         /\ answer' \in [Job -> {"none", "ok", "failed", "refused", "cancelled"}]
         /\ sent' \in Nat /\ late' \in [Job -> Nat]
         /\ \A k \in Job : call'[k] # "backoff" => attempt'[k] = 0
<1>1. attempt[j] + 1 \in 1 .. 3
  <2>1. attempt \in [Job -> 0 .. 3]
    BY DEF TypeInv, TypeOK, ClientTypeOK
  <2>2. attempt[j] \in 0 .. 3
    BY <2>1
  <2>3. QED
    BY <2>2
<1>2. Backoff(attempt[j] + 1) \in 1 .. 4
  BY <1>1, BackoffType
<1>3. sent' \in Nat /\ late' \in [Job -> Nat]
  BY SendsType DEF Request, TypeInv, TypeOK
<1>4. ctxDone' = ctxDone /\ token' = token /\ alive' = alive /\ kind' = kind
  BY DEF Request
<1>5. PICK a \in Answers :
        \/ /\ call' = [call EXCEPT ![j] = "backoff"]
           /\ attempt' = [attempt EXCEPT ![j] = attempt[j] + 1]
           /\ timer' = [timer EXCEPT ![j] = Backoff(attempt[j] + 1)]
           /\ answer' = answer
        \/ Answered(j, "cancelled") /\ timer' = timer
        \/ Answered(j, "failed") /\ timer' = timer
        \/ a # "busy" /\ Answered(j, a) /\ timer' = timer
  BY DEF Request
<1>6. a # "busy" => a \in {"failed", "ok", "refused"}
  BY DEF Answers
<1>7. /\ call' \in [Job -> {"none", "wait", "backoff", "done"}]
      /\ attempt' \in [Job -> 0 .. 3]
      /\ timer' \in [Job -> 0 .. 4]
      /\ answer' \in [Job -> {"none", "ok", "failed", "refused", "cancelled"}]
  <2> USE DEF Answered
  <2>1. call \in [Job -> {"none", "wait", "backoff", "done"}] /\ attempt \in [Job -> 0 .. 3]
    BY DEF TypeInv, TypeOK, ClientTypeOK
  <2>2. timer \in [Job -> 0 .. 4]
    BY DEF TypeInv, TypeOK, ClientTypeOK
  <2>3. answer \in [Job -> {"none", "ok", "failed", "refused", "cancelled"}]
    BY DEF TypeInv, TypeOK, ClientTypeOK
  <2>4. call' \in [Job -> {"none", "wait", "backoff", "done"}]
    BY <1>5, <2>1
  <2>5. attempt' \in [Job -> 0 .. 3]
    BY <1>1, <1>5, <2>1
  <2>6. timer' \in [Job -> 0 .. 4]
    BY <1>2, <1>5, <2>2
  <2>7. answer' \in [Job -> {"none", "ok", "failed", "refused", "cancelled"}]
    BY <1>5, <1>6, <2>3
  <2>8. QED
    BY <2>4, <2>5, <2>6, <2>7
<1>8. \A k \in Job : call'[k] # "backoff" => attempt'[k] = 0
  <2> SUFFICES ASSUME NEW k \in Job, call'[k] # "backoff"  PROVE attempt'[k] = 0
    OBVIOUS
  <2>1. call[k] # "backoff" => attempt[k] = 0
    BY DEF TypeInv, Counted, Placed
  <2>2. /\ call \in [Job -> {"none", "wait", "backoff", "done"}]
        /\ attempt \in [Job -> 0 .. 3]
    BY DEF TypeInv, TypeOK, ClientTypeOK
  <2>3. CASE /\ call' = [call EXCEPT ![j] = "backoff"]
             /\ attempt' = [attempt EXCEPT ![j] = attempt[j] + 1]
    BY <2>1, <2>2, <2>3
  <2>4. CASE \E r : Answered(j, r)
    BY <2>1, <2>2, <2>4 DEF Answered
  <2>5. QED
    BY <1>5, <2>3, <2>4
<1>9. QED
  BY <1>3, <1>4, <1>7, <1>8

\* The first section, if there is one, is gone.
LEMMA TailType ==
  ASSUME NEW s \in Seq({"dump", "walk"}), s # <<>>
  PROVE  Tail(s) \in Seq({"dump", "walk"})
OBVIOUS

\* A call that ends without a request.
LEMMA AnsweredType ==
  ASSUME TypeInv, NEW j \in Job, NEW r \in {"failed", "cancelled"}, Answered(j, r),
         UNCHANGED <<ctxDone, token, alive, slot, kind, timer, sent, late>>
  PROVE  ClientTypeOK' /\ \A k \in Job : call'[k] # "backoff" => attempt'[k] = 0
<1>1. ClientTypeOK /\ \A k \in Job : call[k] # "backoff" => attempt[k] = 0
  BY DEF TypeInv, TypeOK, Counted, Placed
<1>2. ClientTypeOK'
  BY <1>1 DEF Answered, ClientTypeOK, Session
<1>3. ASSUME NEW k \in Job, call'[k] # "backoff"  PROVE attempt'[k] = 0
  BY <1>1, <1>3 DEF Answered, ClientTypeOK
<1>4. QED
  BY <1>2, <1>3

\* Steps of the client alone.
LEMMA ClientStepType ==
  ASSUME TypeInv, NEW j \in Job, ClientStep(j), UNCHANGED <<loginVars, jobVars, ghosts>>
  PROVE  TypeInv'
<1> USE DEF TypeInv, TypeOK, loginVars, jobVars, ghosts
<1>1. LoginTypeOK'
  BY DEF LoginTypeOK
<1>2. ClientTypeOK' /\ \A k \in Job : call'[k] # "backoff" => attempt'[k] = 0
  <2>1. CASE Admitted(j)
    <3>1. Request(j) /\ slot' = 1
      BY <2>1 DEF Admitted
    <3>2. call[j] = "wait" /\ slot' = 1
      BY <2>1 DEF Admitted
    <3>3. attempt[j] = 0
      BY <3>2 DEF Counted, Placed
    <3>4. attempt[j] < 3
      BY <3>3
    <3>5. QED
      BY <3>1, <3>2, <3>4, RequestType DEF ClientTypeOK
  <2>2. CASE WaitCancelled(j)
    <3>1. Answered(j, "cancelled") /\ UNCHANGED <<ctxDone, token, alive, slot, kind, timer, sent, late>>
      BY <2>2 DEF WaitCancelled
    <3>2. QED
      BY <3>1, AnsweredType
  <2>3. CASE Retry(j) /\ attempt[j] < 3
    <3>1. Request(j) /\ slot' = slot
      BY <2>3 DEF Retry
    <3>2. QED
      BY <2>3, <3>1, RequestType DEF ClientTypeOK
  <2>4. CASE Retry(j) /\ ~(attempt[j] < 3)
    <3>1. Answered(j, "failed") /\ UNCHANGED <<ctxDone, token, alive, slot, kind, timer, sent, late>>
      BY <2>4 DEF Retry
    <3>2. QED
      BY <3>1, AnsweredType
  <2>5. QED
    BY <2>1, <2>2, <2>3, <2>4 DEF ClientStep
<1>3. call[j] # "none" /\ \A k \in Job \ {j} : call'[k] = call[k]
  BY DEF ClientStep, Admitted, WaitCancelled, Retry, Request, Answered, ClientTypeOK
<1>4. Counted'
  BY <1>2, <1>3 DEF Counted, Placed
<1>5. QED
  BY <1>1, <1>2, <1>4, ClientAssumption DEF Session

\* Steps of a login, and its end.
LEMMA LoginStepType ==
  ASSUME TypeOK, NEW j \in Job, Submit(j) \/ GenerateSession(j) \/ Redirect(j)
  PROVE  /\ LoginTypeOK' /\ alive' \subseteq Session /\ sessions' \in Session
         /\ sent' \in Nat /\ late' \in [Job -> Nat]
<1> USE ClientAssumption DEF TypeOK, ClientTypeOK, LoginTypeOK, Turn, Session, clientVars
<1>1. CASE Submit(j)
  BY <1>1 DEF Submit
<1>2. CASE GenerateSession(j)
  <2>1. sessions + 1 \in 0 .. MaxSessions
    BY <1>2 DEF GenerateSession
  <2>2. /\ alive' \subseteq Session /\ sessions' \in Session
        /\ fresh' \in [Job -> Session]
    BY <1>2, <2>1 DEF GenerateSession
  <2>3. /\ page' \in [Job -> {"none", "opening", "form", "submitted", "await", "done"}]
        /\ redirectCh' \in [Job -> BOOLEAN]
        /\ redirected' \in [Job -> BOOLEAN]
    BY <1>2 DEF GenerateSession
  <2>4. sent' \in Nat /\ late' \in [Job -> Nat]
    BY <1>2, SendsType DEF GenerateSession
  <2>5. QED
    BY <2>2, <2>3, <2>4
<1>3. CASE Redirect(j)
  BY <1>3 DEF Redirect, Held
<1>4. QED
  BY <1>1, <1>2, <1>3

LEMMA LoginEndType ==
  ASSUME TypeOK, NEW j \in Job, BeginLogin(j) \/ EndLogin(j)
  PROVE  LoginTypeOK'
<1>1. 0 \in Session
  BY ClientAssumption DEF Session
<1>2. LoginTypeOK
  BY DEF TypeOK
<1>3. /\ page' \in [Job -> {"none", "opening", "form", "submitted", "await", "done"}]
      /\ redirectCh' \in [Job -> BOOLEAN]
      /\ redirected' \in [Job -> BOOLEAN]
  BY <1>2 DEF LoginTypeOK, Turn, BeginLogin, EndLogin
<1>4. sessions' \in Session /\ fresh' \in [Job -> Session]
  BY <1>1, <1>2 DEF LoginTypeOK, BeginLogin, EndLogin, Session
<1>5. QED
  BY <1>3, <1>4 DEF LoginTypeOK, Session

\* The first section of a run.
LEMMA StartWorkType ==
  ASSUME TypeInv, NEW j \in Job, StartWork(j), call[j] # "backoff", stage[j] # "idle",
         LoginTypeOK', page'[j] = "none", \A k \in Job \ {j} : page'[k] = page[k],
         token' \in Session, mine' \in Session, raced' \in BOOLEAN,
         UNCHANGED <<ctxDone, alive, slot, sent, late, left>>
  PROVE  TypeInv'
<1>1. /\ runs' = runs
      /\ work' \in [Job -> Seq({"dump", "walk"})]
      /\ more' \in [Job -> 0 .. Calls]
  BY SectionType, SchedulerAssumption DEF StartWork
<1>2. /\ call' \in [Job -> {"none", "wait", "backoff", "done"}]
      /\ kind' \in [Job -> {"profile", "dump", "candles"}]
      /\ answer' \in [Job -> {"none", "ok", "failed", "refused", "cancelled"}]
      /\ attempt' = attempt /\ timer' = timer
  BY DEF StartWork, Taken, TypeInv, TypeOK, ClientTypeOK
<1>3. ClientTypeOK'
  BY <1>2 DEF TypeInv, TypeOK, ClientTypeOK, Session
<1>4. TypeOK'
  BY <1>1, <1>3 DEF TypeInv, TypeOK, StartWork
<1>5. ASSUME NEW k \in Job  PROVE Placed(k)'
  BY <1>1 DEF StartWork, BeginSection, Taken, TypeInv, TypeOK, ClientTypeOK, Counted, Placed
<1>6. QED
  BY <1>4, <1>5 DEF TypeInv, Counted

\* A run that is over.
LEMMA EndRunType ==
  ASSUME TypeInv, NEW j \in Job, stage[j] = "work", call[j] # "backoff", EndRun(j),
         UNCHANGED Around
  PROVE  TypeInv'
<1>1. page[j] = "none" /\ runs[j] > 0
  BY DEF TypeInv, TypeOK, Counted, Placed
<1>2. BeginRuns(j, runs[j] - 1) /\ runs[j] - 1 \in Nat
  BY <1>1 DEF EndRun, TypeInv, TypeOK
<1>3. page' = [page EXCEPT ![j] = "none"] /\ LoginTypeOK'
  BY <1>1 DEF Around, loginVars, TypeInv, TypeOK, LoginTypeOK, Session
<1>4. /\ UNCHANGED <<ctxDone, token, alive, slot, ghosts>>
      /\ sent' \in Nat /\ late' \in [Job -> Nat]
  BY DEF Around, TypeInv, TypeOK, ClientTypeOK
<1>5. QED
  BY <1>2, <1>3, <1>4, BeginRunsType

\* A section that is over.
LEMMA SectionStepType ==
  ASSUME TypeInv, NEW j \in Job, stage[j] = "work", work[j] # <<>>,
         BeginSection(j, Tail(work[j])), UNCHANGED Around, stage' = stage,
         \/ Taken(j)
         \/ call[j] = "none" /\ UNCHANGED callVars,
         call[j] # "backoff"
  PROVE  TypeInv'
<1>1. Tail(work[j]) \in Seq({"dump", "walk"})
  BY TailType DEF TypeInv, TypeOK
<1>2. /\ runs' = runs
      /\ work' \in [Job -> Seq({"dump", "walk"})]
      /\ more' \in [Job -> 0 .. Calls]
  BY <1>1, SectionType
<1>3. ClientTypeOK'
  <2>1. CASE Taken(j)
    BY <2>1, CallType DEF Around, TypeInv, TypeOK, ClientTypeOK
  <2>2. CASE UNCHANGED callVars
    BY <2>2 DEF callVars, Around, TypeInv, TypeOK, ClientTypeOK, Session
  <2>3. QED
    BY <2>1, <2>2
<1>4. TypeOK'
  BY <1>2, <1>3 DEF Around, loginVars, ghosts, TypeInv, TypeOK, LoginTypeOK, Session
<1>5. ASSUME NEW k \in Job  PROVE Placed(k)'
  <2>1. UNCHANGED <<stage, runs, attempt, page>>
    BY <1>2 DEF Around, loginVars, Taken, callVars
  <2>2. k # j => work'[k] = work[k] /\ call'[k] = call[k]
    BY DEF BeginSection, Taken, callVars, TypeInv, TypeOK, ClientTypeOK
  <2>3. call'[j] = "none"
    BY DEF Taken, callVars, TypeInv, TypeOK, ClientTypeOK
  <2>4. QED
    BY <2>1, <2>2, <2>3 DEF TypeInv, Counted, Placed
<1>6. QED
  BY <1>4, <1>5 DEF TypeInv, Counted

LEMMA TypeStep ==
  TypeInv /\ [Next]_vars => TypeInv'
<1> SUFFICES ASSUME TypeInv, [Next]_vars  PROVE TypeInv'
  OBVIOUS
<1>types. TypeOK /\ Counted /\ ClientTypeOK /\ LoginTypeOK
  BY DEF TypeInv, TypeOK
<1>1. ASSUME NEW j \in Job, StartJob(j)  PROVE TypeInv'
  <2>1. BeginRuns(j, Runs[j]) /\ Runs[j] \in Nat
    BY <1>1, SchedulerAssumption DEF StartJob
  <2>2. call[j] = "none" /\ page[j] = "none"
    BY <1>1, <1>types DEF StartJob, Counted, Placed
  <2>3. page' = [page EXCEPT ![j] = "none"] /\ LoginTypeOK'
    BY <1>1, <1>types, <2>2 DEF StartJob, loginVars, LoginTypeOK, Session
  <2>4. /\ UNCHANGED <<ctxDone, token, alive, slot, ghosts>>
        /\ sent' \in Nat /\ late' \in [Job -> Nat]
    BY <1>1, <1>types DEF StartJob, ClientTypeOK
  <2>5. QED
    BY <2>1, <2>2, <2>3, <2>4, BeginRunsType
<1>2. ASSUME NEW j \in Job, ClientStep(j), UNCHANGED <<loginVars, jobVars, ghosts>>
      PROVE  TypeInv'
  BY <1>2, ClientStepType
<1>3. ASSUME NEW j \in Job, Login(j)  PROVE TypeInv'
  <2>1. /\ LoginTypeOK' /\ alive' \subseteq Session /\ sessions' \in Session
        /\ sent' \in Nat /\ late' \in [Job -> Nat]
    BY <1>3, <1>types, LoginStepType DEF Login, LoginStep
  <2>2. UNCHANGED <<ctxDone, token, slot, call, kind, attempt, timer, answer>>
    BY <1>3 DEF Login, LoginStep, Submit, GenerateSession, clientVars, callVars
  <2>3. mine' \in Session /\ raced' \in BOOLEAN
    BY <1>3, <1>types, <2>1 DEF Login, TypeOK
  <2>4. TypeOK'
    BY <1>3, <1>types, <2>1, <2>2, <2>3 DEF Login, TypeOK, ClientTypeOK, jobVars, Session
  <2>5. ASSUME NEW k \in Job  PROVE page'[k] # "none" <=> page[k] # "none"
    BY <1>3, <1>types DEF Login, LoginStep, Submit, GenerateSession, Turn, LoginTypeOK
  <2>6. Counted'
    BY <1>3, <1>types, <2>2, <2>5 DEF Login, Counted, Placed, jobVars
  <2>7. QED
    BY <2>4, <2>6 DEF TypeInv
<1>4. ASSUME NEW j \in Job, Validated(j)  PROVE TypeInv'
  <2>1. /\ call[j] = "done" /\ attempt[j] = 0 /\ runs[j] > 0
        /\ page[j] = "none" /\ stage[j] = "validate" /\ Taken(j)
        /\ UNCHANGED <<ctxDone, token, alive, slot, sent, late, ghosts>>
    BY <1>4, <1>types DEF Validated, Counted, Placed, StartWork, TypeOK
  <2>2. ClientTypeOK' /\ call'[j] = "none" /\ attempt' = attempt
    BY <1>types, <2>1, CallType DEF Taken, ClientTypeOK
  <2>3. CASE StartWork(j) /\ UNCHANGED loginVars
    <3>1. LoginTypeOK' /\ page'[j] = "none" /\ \A k \in Job \ {j} : page'[k] = page[k]
      BY <1>types, <2>1, <2>3 DEF loginVars, LoginTypeOK, Session
    <3>2. /\ token' \in Session /\ mine' \in Session /\ raced' \in BOOLEAN
          /\ UNCHANGED <<ctxDone, alive, slot, sent, late, left>>
      BY <1>types, <2>1 DEF ghosts, TypeOK, ClientTypeOK
    <3>3. QED
      BY <2>1, <2>3, <3>1, <3>2, StartWorkType
  <2>4. CASE /\ stage' = [stage EXCEPT ![j] = "login"]
             /\ BeginLogin(j)
             /\ UNCHANGED <<runs, work, more>>
    <3>1. LoginTypeOK'
      BY <1>types, <2>4, LoginEndType
    <3>2. TypeOK'
      BY <1>types, <2>1, <2>2, <2>4, <3>1 DEF ghosts, TypeOK, Session
    <3>3. Counted'
      BY <1>types, <2>1, <2>2, <2>4
         DEF Counted, Placed, TypeOK, ClientTypeOK, LoginTypeOK, Taken, BeginLogin, Turn
    <3>4. QED
      BY <3>2, <3>3 DEF TypeInv
  <2>5. QED
    BY <1>4, <2>3, <2>4 DEF Validated
<1>5. ASSUME NEW j \in Job, Install(j)  PROVE TypeInv'
  <2>1. page[j] = "done" /\ stage[j] = "login" /\ EndLogin(j) /\ StartWork(j)
    BY <1>5, <1>types DEF Install, Counted, Placed
  <2>2. LoginTypeOK' /\ page'[j] = "none" /\ \A k \in Job \ {j} : page'[k] = page[k]
    BY <1>types, <2>1, LoginEndType DEF EndLogin, Turn, LoginTypeOK
  <2>3. token' \in Session /\ mine' \in Session /\ raced' \in BOOLEAN
    BY <1>types, <1>5 DEF Install, Installed, TypeOK, LoginTypeOK
  <2>4. call[j] # "backoff" /\ UNCHANGED <<ctxDone, alive, slot, sent, late, left>>
    BY <1>types, <1>5, <2>1 DEF Install, Counted, Placed
  <2>5. QED
    BY <2>1, <2>2, <2>3, <2>4, StartWorkType
<1>6. ASSUME NEW j \in Job, GiveUpRun(j)  PROVE TypeInv'
  <2>1. /\ page[j] # "none" /\ EndLogin(j)
        /\ UNCHANGED <<ctxDone, token, alive, slot, ghosts>>
    BY <1>6 DEF GiveUpRun, LoginFails
  <2>sent. sent' \in Nat /\ late' \in [Job -> Nat]
    BY <1>6, <1>types, SendsType DEF GiveUpRun, LoginFails, ClientTypeOK
  <2>2. call[j] = "none" /\ runs[j] > 0
    BY <1>types, <2>1 DEF Counted, Placed, TypeOK
  <2>3. BeginRuns(j, runs[j] - 1) /\ runs[j] - 1 \in Nat
    BY <1>6, <1>types, <2>2 DEF GiveUpRun, EndRun, TypeOK
  <2>4. page' = [page EXCEPT ![j] = "none"] /\ LoginTypeOK'
    BY <1>types, <2>1, LoginEndType DEF EndLogin, Turn
  <2>5. call[j] # "backoff"
    BY <2>2
  <2>6. QED
    BY <2>1, <2>sent, <2>3, <2>4, <2>5, BeginRunsType
<1>7. ASSUME NEW j \in Job, StartCall(j)  PROVE TypeInv'
  <2>1. UNCHANGED Around /\ UNCHANGED <<stage, runs, work>>
    BY <1>7 DEF StartCall, Around
  <2>2. PICK what \in {"profile", "dump", "candles"} : Begin(j, what)
    BY <1>7 DEF StartCall
  <2>3. ClientTypeOK'
    BY <1>types, <2>1, <2>2, CallType DEF Around, ClientTypeOK
  <2>4. more' \in [Job -> 0 .. Calls]
    BY <1>7, <1>types, SchedulerAssumption DEF StartCall, TypeOK
  <2>5. TypeOK'
    BY <1>types, <2>1, <2>3, <2>4
       DEF Around, loginVars, ghosts, TypeOK, LoginTypeOK, Session
  <2>6. work[j] # <<>> /\ stage[j] = "work" /\ call[j] = "none"
    BY <1>7 DEF StartCall, In
  <2>7. ASSUME NEW k \in Job  PROVE Placed(k)'
    BY <1>types, <2>1, <2>2, <2>6
       DEF Around, loginVars, Begin, Answered, ClientTypeOK, Counted, Placed
  <2>8. QED
    BY <2>5, <2>7 DEF TypeInv, Counted
<1>8. ASSUME NEW j \in Job, DumpAnswered(j)  PROVE TypeInv'
  <2>1. UNCHANGED Around /\ In(j, "dump") /\ call[j] = "done"
    BY <1>8 DEF DumpAnswered, Around
  <2>2. stage[j] = "work" /\ work[j] # <<>> /\ call[j] # "backoff"
    BY <2>1 DEF In
  <2>3. CASE BeginSection(j, Tail(work[j])) /\ Taken(j) /\ UNCHANGED stage
    BY <2>1, <2>2, <2>3, SectionStepType
  <2>4. CASE EndRun(j)
    BY <2>1, <2>2, <2>4, EndRunType
  <2>5. QED
    BY <1>8, <2>3, <2>4 DEF DumpAnswered
<1>9. ASSUME NEW j \in Job, EndWalk(j)  PROVE TypeInv'
  <2>1. /\ UNCHANGED Around /\ In(j, "walk") /\ call[j] = "none"
        /\ BeginSection(j, Tail(work[j])) /\ UNCHANGED callVars /\ stage' = stage
    BY <1>9 DEF EndWalk, Around
  <2>2. stage[j] = "work" /\ work[j] # <<>> /\ call[j] # "backoff"
    BY <2>1 DEF In
  <2>3. QED
    BY <2>1, <2>2, SectionStepType
<1>10. ASSUME NEW j \in Job, RunReturns(j)  PROVE TypeInv'
  <2>1. stage[j] = "work" /\ work[j] = <<>> /\ EndRun(j) /\ UNCHANGED Around
    BY <1>10 DEF RunReturns, Around
  <2>2. call[j] # "backoff"
    BY <1>types, <2>1 DEF Counted, Placed
  <2>3. QED
    BY <2>1, <2>2, EndRunType
<1>11. ASSUME NEW j \in Job, WalkAnswered(j)  PROVE TypeInv'
  <2>1. /\ In(j, "walk") /\ call[j] = "done" /\ Taken(j)
        /\ UNCHANGED Around /\ stage' = stage
    BY <1>11 DEF WalkAnswered, Around
  <2>2. stage[j] = "work" /\ work[j] # <<>> /\ call[j] # "backoff"
    BY <2>1 DEF In
  <2>3. CASE BeginSection(j, Tail(work[j]))
    BY <2>1, <2>2, <2>3, SectionStepType
  <2>4. CASE UNCHANGED <<runs, work, more>>
    <3>1. ClientTypeOK'
      BY <1>types, <2>1, CallType DEF Around, ClientTypeOK
    <3>2. TypeOK'
      BY <1>types, <2>1, <2>4, <3>1 DEF Around, loginVars, ghosts, TypeOK, LoginTypeOK, Session
    <3>3. ASSUME NEW k \in Job  PROVE Placed(k)'
      BY <1>types, <2>1, <2>4
         DEF Around, loginVars, Taken, ClientTypeOK, Counted, Placed
    <3>4. QED
      BY <3>2, <3>3 DEF TypeInv, Counted
  <2>5. QED
    BY <1>11, <2>3, <2>4 DEF WalkAnswered
<1>12. ASSUME Restart  PROVE TypeInv'
  <2>1. /\ UNCHANGED <<alive, slot, callVars, sent, loginVars, jobVars>>
        /\ ctxDone' = FALSE /\ token' = 0 /\ mine' = 0 /\ raced' = FALSE
        /\ late' = [j \in Job |-> 0] /\ left' = [j \in Job |-> 0]
    BY <1>12 DEF Restart
  <2>2. 0 \in Session
    BY ClientAssumption DEF Session
  <2>3. ClientTypeOK'
    BY <1>types, <2>1, <2>2 DEF callVars, ClientTypeOK, Session
  <2>4. TypeOK'
    BY <1>types, <2>1, <2>2, <2>3 DEF loginVars, jobVars, TypeOK, LoginTypeOK, Session
  <2>5. Counted'
    BY <1>types, <2>1 DEF callVars, loginVars, jobVars, Counted, Placed
  <2>6. QED
    BY <2>4, <2>5 DEF TypeInv
<1>13. ASSUME Time \/ StopJobs \/ (Expire /\ UNCHANGED <<loginVars, jobVars, ghosts>>)
       PROVE  TypeInv'
  <2>1. CASE Time
    <3>1. Tick /\ Opened /\ UNCHANGED <<redirectCh, redirected, sessions, fresh, jobVars, ghosts>>
      BY <2>1 DEF Time
    <3>2. ClientTypeOK' /\ UNCHANGED <<call, attempt>>
      BY <1>types, <3>1 DEF Tick, ClientTypeOK, Session
    <3>3. LoginTypeOK' /\ \A k \in Job : page'[k] = "none" <=> page[k] = "none"
      BY <1>types, <3>1 DEF Opened, LoginTypeOK, Session
    <3>4. Counted'
      BY <1>types, <3>1, <3>2, <3>3 DEF jobVars, Counted, Placed
    <3>5. QED
      BY <1>types, <3>1, <3>2, <3>3, <3>4 DEF jobVars, ghosts, TypeInv, TypeOK, Session
  <2>2. CASE StopJobs
    <3>1. Stop /\ left' = runs /\ UNCHANGED <<loginVars, jobVars, mine, raced>>
      BY <2>2 DEF StopJobs
    <3>2. ClientTypeOK'
      BY <1>types, <3>1 DEF Stop, ClientTypeOK, Session
    <3>3. ASSUME NEW k \in Job
          PROVE  /\ call'[k] # "backoff" => attempt'[k] = 0
                 /\ call[k] = "none" => call'[k] = "none"
      BY <1>types, <3>1 DEF Stop, ClientTypeOK, Counted, Placed
    <3>4. Counted'
      BY <1>types, <3>1, <3>3 DEF loginVars, jobVars, Counted, Placed
    <3>5. QED
      BY <1>types, <3>1, <3>2, <3>4
         DEF loginVars, jobVars, TypeInv, TypeOK, LoginTypeOK, Session
  <2>3. CASE Expire /\ UNCHANGED <<loginVars, jobVars, ghosts>>
    <3>1. ClientTypeOK' /\ UNCHANGED <<call, attempt>>
      BY <1>types, <2>3 DEF Expire, callVars, ClientTypeOK, Session
    <3>2. Counted'
      BY <1>types, <2>3, <3>1 DEF loginVars, jobVars, Counted, Placed
    <3>3. QED
      BY <1>types, <2>3, <3>1, <3>2
         DEF loginVars, jobVars, ghosts, TypeInv, TypeOK, LoginTypeOK, Session
  <2>4. QED
    BY <1>13, <2>1, <2>2, <2>3
<1>14. ASSUME NEW j \in Job, Redirect(j), UNCHANGED <<jobVars, ghosts>>
       PROVE  TypeInv'
  <2>1. LoginTypeOK'
    BY <1>types, <1>14, LoginStepType
  <2>2. UNCHANGED <<clientVars, page>>
    BY <1>14 DEF Redirect
  <2>3. TypeOK' /\ Counted'
    BY <1>types, <1>14, <2>1, <2>2
       DEF clientVars, jobVars, ghosts, TypeOK, ClientTypeOK, Session, Counted, Placed
  <2>4. QED
    BY <2>3 DEF TypeInv
<1>15. ASSUME UNCHANGED vars  PROVE TypeInv'
  BY <1>types, <1>15
     DEF vars, clientVars, loginVars, jobVars, ghosts, TypeInv, TypeOK, ClientTypeOK, LoginTypeOK,
         Session, Counted, Placed
<1>16. QED
  BY <1>1, <1>2, <1>3, <1>4, <1>5, <1>6, <1>7, <1>8, <1>9, <1>10, <1>11, <1>12, <1>13, <1>14,
     <1>15 DEF Next, JobStep, Others

LEMMA TypeInit ==
  Init => TypeInv
<1> SUFFICES ASSUME Init  PROVE TypeInv
  OBVIOUS
<1>1. 0 \in Session /\ <<>> \in Seq({"dump", "walk"})
  BY ClientAssumption DEF Session
<1>2. ClientTypeOK
  <2>1. token \in Session /\ alive \subseteq Session /\ slot \in {0, 1} /\ ctxDone \in BOOLEAN
    BY <1>1 DEF Init, ClientInit
  <2>2. /\ call \in [Job -> {"none", "wait", "backoff", "done"}]
        /\ kind \in [Job -> {"profile", "dump", "candles"}]
        /\ answer \in [Job -> {"none", "ok", "failed", "refused", "cancelled"}]
    BY DEF Init, ClientInit
  <2>3. /\ attempt \in [Job -> 0 .. 3] /\ timer \in [Job -> 0 .. 4]
        /\ sent \in Nat /\ late \in [Job -> Nat]
    BY DEF Init, ClientInit
  <2>4. QED
    BY <2>1, <2>2, <2>3 DEF ClientTypeOK
<1>3. LoginTypeOK
  BY <1>1 DEF Init, LoginInit, LoginTypeOK
<1>4. TypeOK
  <2>1. /\ stage \in [Job -> {"idle", "validate", "login", "work"}]
        /\ runs \in [Job -> Nat] /\ work \in [Job -> Seq({"dump", "walk"})]
    BY <1>1 DEF Init
  <2>2. more \in [Job -> 0 .. Calls]
    BY SchedulerAssumption DEF Init
  <2>3. /\ left \in [Job -> Nat]
        /\ mine \in Session /\ raced \in BOOLEAN
    BY <1>1 DEF Init
  <2>4. QED
    BY <1>2, <1>3, <2>1, <2>2, <2>3 DEF TypeOK
<1>5. Counted
  BY DEF Init, ClientInit, LoginInit, Counted, Placed
<1>6. QED
  BY <1>4, <1>5 DEF TypeInv

\* Every variable has its type, and a call a job makes ends before its run does
\* (kite.go:56-95, incremental.go:52-118).
THEOREM TypeCorrect ==
  Spec => []TypeOK
<1>1. TypeInv => TypeOK
  BY DEF TypeInv
<1>2. QED
  BY <1>1, TypeInit, TypeStep, PTL DEF Spec

-----------------------------------------------------------------------------
(* Requests.                                                               *)

\* Pages of a login that has an exchange to come in this slot, or may have.
Logging == {"form", "submitted", "await"}

\* Steps that send nothing and are not steps of the client leave its clock alone;
\* no call of theirs starts to sleep, and no page comes up.
LEMMA OtherSteps ==
  ASSUME TypeInv, [Next]_vars, ~Time, ~StopJobs, ~Restart,
         \A j \in Job : /\ ~(ClientStep(j) /\ UNCHANGED <<loginVars, jobVars, ghosts>>)
                        /\ ~(Login(j) /\ GenerateSession(j)) /\ ~GiveUpRun(j)
  PROVE  /\ UNCHANGED <<slot, sent, timer>>
         /\ \A k \in Job : call'[k] = call[k] \/ call'[k] # "backoff"
         /\ \A k \in Job : page'[k] \in Logging => page[k] \in Logging
<1>types. /\ call \in [Job -> {"none", "wait", "backoff", "done"}]
          /\ page \in [Job -> {"none", "opening", "form", "submitted", "await", "done"}]
  BY DEF TypeInv, TypeOK, ClientTypeOK, LoginTypeOK
<1>1. ASSUME NEW j \in Job, NEW what, Begin(j, what)
      PROVE  \A k \in Job : call'[k] = call[k] \/ call'[k] # "backoff"
  BY <1>types, <1>1 DEF Begin, Answered
<1>2. ASSUME NEW j \in Job, Taken(j)
      PROVE  \A k \in Job : call'[k] = call[k] \/ call'[k] # "backoff"
  BY <1>types, <1>2 DEF Taken
<1>3. ASSUME NEW j \in Job, NEW n, BeginRuns(j, n)
      PROVE  timer' = timer /\ (Taken(j) \/ Begin(j, "profile"))
  BY <1>3 DEF BeginRuns, Taken, Begin
<1>4. ASSUME UNCHANGED loginVars
      PROVE  \A k \in Job : page'[k] \in Logging => page[k] \in Logging
  BY <1>4 DEF loginVars
<1>5. ASSUME NEW j \in Job, StartJob(j)
      PROVE  UNCHANGED <<slot, sent, timer, loginVars>> /\ (Taken(j) \/ Begin(j, "profile"))
  BY <1>3, <1>5 DEF StartJob
<1>6. ASSUME NEW j \in Job, Submit(j)
      PROVE  /\ UNCHANGED <<slot, sent, timer, call>>
             /\ \A k \in Job : page'[k] \in Logging => page[k] \in Logging
  BY <1>types, <1>6 DEF Submit, clientVars, Turn, Logging
<1>7. ASSUME NEW j \in Job, Validated(j)
      PROVE  /\ UNCHANGED <<slot, sent, timer>> /\ Taken(j)
             /\ \A k \in Job : page'[k] \in Logging => page[k] \in Logging
  <2>1. UNCHANGED <<slot, sent, timer>> /\ Taken(j) /\ (BeginLogin(j) \/ UNCHANGED loginVars)
    BY <1>7 DEF Validated, StartWork, Taken
  <2>2. QED
    BY <1>types, <1>4, <2>1 DEF BeginLogin, Turn, Logging
<1>8. ASSUME NEW j \in Job, Install(j)
      PROVE  /\ UNCHANGED <<slot, sent, timer>> /\ Taken(j)
             /\ \A k \in Job : page'[k] \in Logging => page[k] \in Logging
  BY <1>types, <1>8 DEF Install, StartWork, Taken, EndLogin, Turn, Logging
<1>9. ASSUME NEW j \in Job, StartCall(j)
      PROVE  /\ UNCHANGED <<slot, sent, timer, loginVars>>
             /\ Begin(j, "dump") \/ Begin(j, "candles")
  BY <1>9 DEF StartCall, Begin
<1>10. ASSUME NEW j \in Job, DumpAnswered(j) \/ RunReturns(j)
       PROVE  UNCHANGED <<slot, sent, timer, loginVars>> /\ (Taken(j) \/ Begin(j, "profile"))
  <2>1. UNCHANGED <<slot, sent, loginVars>>
    BY <1>10 DEF DumpAnswered, RunReturns
  <2>2. Taken(j) \/ EndRun(j)
    BY <1>10 DEF DumpAnswered, RunReturns
  <2>3. QED
    BY <1>3, <2>1, <2>2 DEF EndRun, Taken
<1>11. ASSUME NEW j \in Job, EndWalk(j)  PROVE UNCHANGED <<slot, sent, timer, call, loginVars>>
  BY <1>11 DEF EndWalk, callVars
<1>12. ASSUME NEW j \in Job, WalkAnswered(j)
       PROVE  UNCHANGED <<slot, sent, timer, loginVars>> /\ Taken(j)
  BY <1>12 DEF WalkAnswered, Taken
<1>13. ASSUME NEW j \in Job, Redirect(j)  PROVE UNCHANGED <<slot, sent, timer, call, page>>
  BY <1>13 DEF Redirect, clientVars
<1>14. ASSUME Expire, UNCHANGED loginVars  PROVE UNCHANGED <<slot, sent, timer, call, page>>
  BY <1>14 DEF Expire, callVars, loginVars
<1>15. ASSUME UNCHANGED vars  PROVE UNCHANGED <<slot, sent, timer, call, page>>
  BY <1>15 DEF vars, clientVars, loginVars
<1>16. CASE Next
  <2>1. CASE \E j \in Job : StartJob(j)
    BY <1>1, <1>2, <1>4, <1>5, <2>1
  <2>2. CASE \E j \in Job : JobStep(j)
    <3>1. PICK j \in Job : JobStep(j)
      BY <2>2
    <3>2. CASE Login(j)
      BY <1>6, <3>2 DEF Login, LoginStep
    <3>3. CASE Validated(j) \/ Install(j)
      BY <1>2, <1>7, <1>8, <3>3
    <3>4. CASE WalkAnswered(j)
      BY <1>2, <1>4, <1>12, <3>4
    <3>5. CASE DumpAnswered(j) \/ RunReturns(j)
      BY <1>1, <1>2, <1>4, <1>10, <3>5
    <3>6. CASE StartCall(j)
      BY <1>1, <1>4, <1>9, <3>6
    <3>7. CASE EndWalk(j)
      BY <1>4, <1>11, <3>7
    <3>8. QED
      BY <3>1, <3>2, <3>3, <3>4, <3>5, <3>6, <3>7 DEF JobStep
  <2>3. CASE Others
    BY <1>13, <1>14, <2>3 DEF Others
  <2>4. QED
    BY <1>16, <2>1, <2>2, <2>3 DEF Next
<1>17. QED
  BY <1>15, <1>16

\* Whether a job's call may still send a request, and how many exchanges its runs may.
Pending(j) == IF call[j] \in {"wait", "backoff"} THEN 1 ELSE 0

Coming(j) ==
  IF stage[j] = "idle" THEN 0
  ELSE IF stage[j] = "work" \/ page[j] = "done" THEN runs[j] - 1 ELSE runs[j]

\* What a job has sent since Stop, and what it may send.
Owed(j) == late[j] + Pending(j) + Coming(j)

LateInv ==
  \A j \in Job : IF ctxDone THEN Owed(j) <= 1 + left[j] ELSE late[j] = 0

LEMMA OwedType ==
  ASSUME TypeInv, NEW j \in Job
  PROVE  /\ late[j] \in Nat /\ runs[j] \in Nat /\ left[j] \in Nat
         /\ Pending(j) \in 0 .. 1 /\ Coming(j) \in 0 .. runs[j]
<1>1. late[j] \in Nat /\ runs[j] \in Nat /\ left[j] \in Nat
  BY DEF TypeInv, TypeOK, ClientTypeOK
<1>2. stage[j] # "idle" => runs[j] # 0
  BY DEF TypeInv, Counted, Placed
<1>3. QED
  BY <1>1, <1>2 DEF Pending, Coming

\* A step of a job does not touch the others.
LEMMA Alone ==
  ASSUME TypeInv, NEW j \in Job, StartJob(j) \/ JobStep(j), NEW k \in Job \ {j}
  PROVE  /\ late'[k] = late[k] /\ call'[k] = call[k] /\ page'[k] = page[k]
         /\ stage'[k] = stage[k] /\ runs'[k] = runs[k]
<1>types. /\ call \in [Job -> {"none", "wait", "backoff", "done"}] /\ late \in [Job -> Nat]
          /\ page \in [Job -> {"none", "opening", "form", "submitted", "await", "done"}]
          /\ stage \in [Job -> {"idle", "validate", "login", "work"}] /\ runs \in [Job -> Nat]
  BY DEF TypeInv, TypeOK, ClientTypeOK, LoginTypeOK
<1> USE <1>types DEF Taken, Begin, Answered, Turn, Sends
<1>1. ASSUME NEW n, BeginRuns(j, n)
      PROVE  call'[k] = call[k] /\ stage'[k] = stage[k] /\ runs'[k] = runs[k]
  BY <1>1 DEF BeginRuns
<1>2. CASE StartJob(j)
  BY <1>1, <1>2 DEF StartJob, loginVars
<1>3. CASE ClientStep(j) /\ UNCHANGED <<loginVars, jobVars, ghosts>>
  BY <1>3 DEF ClientStep, Admitted, WaitCancelled, Retry, Request, loginVars, jobVars
<1>4. CASE Login(j)
  BY <1>4 DEF Login, LoginStep, Submit, GenerateSession, clientVars, callVars, jobVars
<1>5. CASE Validated(j)
  BY <1>5 DEF Validated, StartWork, BeginSection, BeginLogin, loginVars
<1>6. CASE Install(j)
  BY <1>6 DEF Install, StartWork, BeginSection, EndLogin
<1>7. CASE GiveUpRun(j)
  BY <1>1, <1>7 DEF GiveUpRun, LoginFails, EndRun, EndLogin
<1>8. CASE StartCall(j)
  BY <1>8 DEF StartCall, loginVars
<1>9. CASE DumpAnswered(j) \/ RunReturns(j)
  BY <1>1, <1>9 DEF DumpAnswered, RunReturns, EndRun, BeginSection, loginVars
<1>10. CASE WalkAnswered(j) \/ EndWalk(j)
  BY <1>10 DEF WalkAnswered, EndWalk, BeginSection, callVars, loginVars
<1>11. QED
  BY <1>2, <1>3, <1>4, <1>5, <1>6, <1>7, <1>8, <1>9, <1>10 DEF JobStep

\* The runs after this one.
LEMMA NextRuns ==
  ASSUME TypeInv, NEW j \in Job, EndRun(j), stage[j] # "idle", page'[j] = "none", ctxDone
  PROVE  Pending(j)' = 0 /\ Coming(j)' = runs[j] - 1
<1>1. runs[j] \in Nat /\ runs[j] # 0
  BY DEF TypeInv, TypeOK, Counted, Placed
<1>2. BeginRuns(j, runs[j] - 1)
  BY DEF EndRun
<1>3. runs'[j] = runs[j] - 1 /\ stage'[j] = (IF runs[j] - 1 = 0 THEN "idle" ELSE "validate")
  BY <1>2 DEF BeginRuns, TypeInv, TypeOK
<1>4. call'[j] \in {"none", "done"}
  BY <1>2 DEF BeginRuns, Taken, Begin, Answered, TypeInv, TypeOK, ClientTypeOK
<1>5. QED
  BY <1>1, <1>3, <1>4 DEF Pending, Coming

\* Once the context is cancelled a job has ever less to send.
LEMMA OwesLess ==
  ASSUME TypeInv, NEW j \in Job, StartJob(j) \/ JobStep(j), ctxDone
  PROVE  Owed(j)' <= Owed(j)
<1>types. /\ call \in [Job -> {"none", "wait", "backoff", "done"}] /\ late \in [Job -> Nat]
          /\ page \in [Job -> {"none", "opening", "form", "submitted", "await", "done"}]
          /\ stage \in [Job -> {"idle", "validate", "login", "work"}] /\ runs \in [Job -> Nat]
  BY DEF TypeInv, TypeOK, ClientTypeOK, LoginTypeOK
<1>owed. /\ late[j] \in Nat /\ runs[j] \in Nat
         /\ Pending(j) \in 0 .. 1 /\ Coming(j) \in 0 .. runs[j]
  BY OwedType
<1>placed. /\ stage[j] = "idle" <=> runs[j] = 0
           /\ stage[j] = "login" <=> page[j] # "none"
  BY DEF TypeInv, Counted, Placed
<1>1. ASSUME late'[j] = late[j], Pending(j)' <= Pending(j), Coming(j)' <= Coming(j),
             Pending(j)' \in 0 .. 1, Coming(j)' \in Int
      PROVE  Owed(j)' <= Owed(j)
  BY <1>owed, <1>1 DEF Owed
<1>2. CASE ClientStep(j) /\ UNCHANGED <<loginVars, jobVars, ghosts>>
  <2>1. Coming(j)' = Coming(j)
    BY <1>2 DEF Coming, loginVars, jobVars
  <2>2. CASE Request(j) /\ call[j] \in {"wait", "backoff"}
    <3>1. late'[j] = late[j] + 1 /\ call'[j] = "done"
      BY <1>types, <2>2 DEF Request, Sends, Answered
    <3>2. QED
      BY <1>owed, <2>1, <2>2, <3>1 DEF Owed, Pending
  <2>3. CASE late' = late /\ \E r : Answered(j, r)
    <3>1. Pending(j)' = 0
      BY <1>types, <2>3 DEF Answered, Pending
    <3>2. QED
      BY <1>owed, <2>1, <2>3, <3>1 DEF Owed
  <2>4. QED
    BY <1>2, <2>2, <2>3 DEF ClientStep, Admitted, WaitCancelled, Retry
<1>3. CASE Login(j)
  <2>1. UNCHANGED <<call, stage, runs>>
    BY <1>3 DEF Login, LoginStep, Submit, GenerateSession, clientVars, callVars, jobVars
  <2>2. CASE Submit(j)
    <3>1. late'[j] = late[j] /\ page[j] # "done" /\ page'[j] # "done"
      BY <1>types, <2>2 DEF Submit, Turn, clientVars
    <3>2. QED
      BY <1>owed, <2>1, <3>1 DEF Owed, Pending, Coming
  <2>3. CASE GenerateSession(j)
    <3>1. late'[j] = late[j] + 1 /\ page[j] = "await" /\ page'[j] = "done"
      BY <1>types, <2>3 DEF GenerateSession, Sends, Turn
    <3>2. stage[j] = "login"
      BY <1>placed, <3>1
    <3>3. Pending(j)' = Pending(j)
      BY <2>1 DEF Pending
    <3>4. Coming(j) = runs[j] /\ Coming(j)' = runs[j] - 1
      BY <2>1, <3>1, <3>2 DEF Coming
    <3>5. QED
      BY <1>owed, <3>1, <3>3, <3>4 DEF Owed
  <2>4. QED
    BY <1>3, <2>2, <2>3 DEF Login, LoginStep
<1>4. CASE Validated(j)
  <2>1. /\ late' = late /\ runs' = runs /\ stage[j] = "validate"
        /\ call'[j] = "none" /\ stage'[j] \in {"work", "login"} /\ page[j] = "none"
    BY <1>types, <1>placed, <1>4 DEF Validated, StartWork, BeginSection, Taken
  <2>2. QED
    BY <1>owed, <1>placed, <2>1 DEF Owed, Pending, Coming
<1>5. CASE Install(j)
  <2>1. /\ late' = late /\ runs' = runs /\ page[j] = "done"
        /\ call'[j] = "none" /\ stage'[j] = "work"
    BY <1>types, <1>5 DEF Install, StartWork, BeginSection, Taken
  <2>2. stage[j] = "login"
    BY <1>placed, <2>1
  <2>3. QED
    BY <1>owed, <2>1, <2>2 DEF Owed, Pending, Coming
<1>6. CASE GiveUpRun(j)
  <2>1. page[j] \notin {"none", "done"} /\ page'[j] = "none" /\ EndRun(j)
    BY <1>types, <1>6 DEF GiveUpRun, LoginFails, EndLogin, Turn
  <2>2. stage[j] = "login"
    BY <1>placed, <2>1
  <2>3. Coming(j) = runs[j]
    BY <2>1, <2>2 DEF Coming
  <2>4. Pending(j)' = 0 /\ Coming(j)' = runs[j] - 1
    BY <2>1, <2>2, NextRuns
  <2>5. late'[j] = late[j] \/ late'[j] = late[j] + 1
    BY <1>types, <1>6 DEF GiveUpRun, LoginFails, Sends
  <2>6. QED
    BY <1>owed, <2>3, <2>4, <2>5 DEF Owed
<1>7. CASE StartCall(j)
  <2>1. UNCHANGED <<late, stage, runs, page>>
    BY <1>7 DEF StartCall, loginVars
  <2>2. call'[j] = "done"
    BY <1>types, <1>7 DEF StartCall, Begin, Answered
  <2>3. QED
    BY <1>owed, <2>1, <2>2 DEF Owed, Pending, Coming
<1>8. CASE (DumpAnswered(j) \/ RunReturns(j)) /\ EndRun(j)
  <2>1. stage[j] = "work" /\ late' = late /\ page' = page
    BY <1>8 DEF DumpAnswered, RunReturns, In, loginVars
  <2>2. page'[j] = "none"
    BY <1>placed, <2>1
  <2>3. Pending(j)' = 0 /\ Coming(j)' = runs[j] - 1
    BY <1>8, <2>1, <2>2, NextRuns
  <2>4. Coming(j) = runs[j] - 1
    BY <2>1 DEF Coming
  <2>5. QED
    BY <1>owed, <2>1, <2>3, <2>4 DEF Owed
<1>9. CASE \/ (DumpAnswered(j) /\ ~EndRun(j))
           \/ WalkAnswered(j) \/ EndWalk(j)
  <2>1. UNCHANGED <<late, stage, runs, page>>
    BY <1>9 DEF DumpAnswered, WalkAnswered, EndWalk, BeginSection, loginVars
  <2>2. call'[j] = "none"
    BY <1>types, <1>9 DEF DumpAnswered, WalkAnswered, EndWalk, Taken, callVars
  <2>3. QED
    BY <1>owed, <2>1, <2>2 DEF Owed, Pending, Coming
<1>10. CASE StartJob(j)
  BY <1>10 DEF StartJob
<1>11. QED
  BY <1>2, <1>3, <1>4, <1>5, <1>6, <1>7, <1>8, <1>9, <1>10 DEF JobStep, RunReturns

LEMMA LateStep ==
  TypeInv /\ LateInv /\ [Next]_vars => LateInv'
<1> SUFFICES ASSUME TypeInv, LateInv, [Next]_vars  PROVE LateInv'
  OBVIOUS
<1>owed. ASSUME NEW k \in Job
         PROVE  /\ late[k] \in Nat /\ runs[k] \in Nat /\ left[k] \in Nat
                /\ Pending(k) \in 0 .. 1 /\ Coming(k) \in 0 .. runs[k]
  BY OwedType
<1>1. ASSUME NEW j \in Job, StartJob(j) \/ JobStep(j)  PROVE LateInv'
  <2>1. UNCHANGED <<ctxDone, left>>
    <3>1. CASE ClientStep(j) /\ UNCHANGED <<loginVars, jobVars, ghosts>>
      BY <3>1 DEF ClientStep, Admitted, WaitCancelled, Retry, Request, ghosts
    <3>2. CASE Login(j)
      BY <3>2 DEF Login, LoginStep, Submit, GenerateSession, clientVars
    <3>3. CASE StartJob(j) \/ Validated(j) \/ Install(j) \/ GiveUpRun(j)
      BY <3>3 DEF StartJob, Validated, Install, GiveUpRun, ghosts
    <3>4. CASE StartCall(j) \/ DumpAnswered(j) \/ WalkAnswered(j) \/ EndWalk(j) \/ RunReturns(j)
      BY <3>4 DEF StartCall, DumpAnswered, WalkAnswered, EndWalk, RunReturns, ghosts
    <3>5. QED
      BY <1>1, <3>1, <3>2, <3>3, <3>4 DEF JobStep
  <2>2. CASE ctxDone
    <3>1. Owed(j)' <= Owed(j)
      BY <1>1, <2>2, OwesLess
    <3>2. \A k \in Job \ {j} : Owed(k)' = Owed(k)
      BY <1>1, Alone DEF Owed, Pending, Coming
    <3>3. TypeInv'
      BY TypeStep
    <3>4. Owed(j)' \in Int /\ Owed(j) \in Int /\ left[j] \in Nat
      <4>1. late'[j] \in Nat /\ runs'[j] \in Nat
        BY <3>3 DEF TypeInv, TypeOK, ClientTypeOK
      <4>2. Pending(j)' \in Int /\ Coming(j)' \in Int
        BY <4>1 DEF Pending, Coming
      <4>3. QED
        BY <1>owed, <4>1, <4>2 DEF Owed
    <3>5. \A k \in Job : Owed(k) <= 1 + left[k]
      BY <2>2 DEF LateInv
    <3>6. Owed(j)' <= 1 + left[j]
      BY <3>1, <3>4, <3>5
    <3>7. QED
      BY <2>1, <2>2, <3>2, <3>5, <3>6 DEF LateInv
  <2>3. CASE ~ctxDone
    <3>1. late' = late
      <4>1. CASE ClientStep(j)
        BY <2>3, <4>1 DEF ClientStep, Admitted, WaitCancelled, Retry, Request, Sends
      <4>2. CASE Login(j) \/ GiveUpRun(j)
        BY <2>3, <4>2 DEF Login, LoginStep, Submit, GenerateSession, clientVars, Sends,
                          GiveUpRun, LoginFails
      <4>3. CASE StartJob(j) \/ Validated(j) \/ Install(j)
        BY <4>3 DEF StartJob, Validated, Install
      <4>4. CASE StartCall(j) \/ DumpAnswered(j) \/ WalkAnswered(j) \/ EndWalk(j) \/ RunReturns(j)
        BY <4>4 DEF StartCall, DumpAnswered, WalkAnswered, EndWalk, RunReturns
      <4>5. QED
        BY <1>1, <4>1, <4>2, <4>3, <4>4 DEF JobStep
    <3>2. QED
      BY <2>1, <2>3, <3>1 DEF LateInv
  <2>4. QED
    BY <2>2, <2>3
<1>2. ASSUME StopJobs  PROVE LateInv'
  <2>1. /\ ~ctxDone /\ ctxDone' /\ left' = runs
        /\ UNCHANGED <<late, stage, runs, page>>
    BY <1>2 DEF StopJobs, Stop, loginVars, jobVars
  <2>2. ASSUME NEW k \in Job  PROVE Owed(k)' <= 1 + left'[k]
    <3>1. late[k] = 0 /\ runs[k] \in Nat
      BY <1>owed, <2>1 DEF LateInv
    <3>2. Pending(k)' \in 0 .. 1
      BY DEF Pending
    <3>3. Coming(k)' = Coming(k) /\ Coming(k) \in 0 .. runs[k]
      BY <1>owed, <2>1 DEF Coming
    <3>4. QED
      BY <2>1, <3>1, <3>2, <3>3 DEF Owed
  <2>3. QED
    BY <2>1, <2>2 DEF LateInv
<1>3. ASSUME Time  PROVE LateInv'
  <2>1. UNCHANGED <<ctxDone, call, late, stage, runs, left>> /\ Opened
    BY <1>3 DEF Time, Tick, jobVars, ghosts
  <2>2. \A k \in Job : page'[k] = "done" <=> page[k] = "done"
    BY <2>1 DEF Opened, TypeInv, TypeOK, LoginTypeOK
  <2>3. QED
    BY <2>1, <2>2 DEF LateInv, Owed, Pending, Coming
<1>4. ASSUME Restart  PROVE LateInv'
  BY <1>4 DEF Restart, LateInv
<1>5. ASSUME Others \/ UNCHANGED vars  PROVE LateInv'
  <2>1. UNCHANGED <<ctxDone, call, late, stage, runs, left, page>>
    BY <1>5 DEF Others, Redirect, Expire, vars, clientVars, callVars, loginVars, jobVars, ghosts
  <2>2. QED
    BY <2>1 DEF LateInv, Owed, Pending, Coming
<1>6. QED
  BY <1>1, <1>2, <1>3, <1>4, <1>5 DEF Next

\* Once Stop has cancelled the context a job sends at most one request of the call it
\* was in, and one exchange for each run it had left (cron.go:49-56, :106-111,
\* backfill.go:39-58, kite.go:61-88, login.go:169).
THEOREM StopQuiets ==
  Spec => []LateFew
<1>1. Init => TypeInv /\ LateInv
  BY TypeInit DEF Init, ClientInit, LateInv
<1>2. TypeInv /\ LateInv => LateFew
  <2> SUFFICES ASSUME TypeInv, LateInv, NEW j \in Job  PROVE late[j] <= 1 + left[j]
    BY DEF LateFew
  <2>1. /\ late[j] \in Nat /\ left[j] \in Nat
        /\ Pending(j) \in 0 .. 1 /\ Coming(j) \in 0 .. runs[j] /\ runs[j] \in Nat
    BY OwedType
  <2>2. QED
    BY <2>1 DEF LateInv, Owed
<1>3. QED
  BY <1>1, <1>2, TypeStep, LateStep, PTL DEF Spec

\* Jobs that may send without the limiter: their backoff is over, or their login has
\* come to its pages.
Due == {j \in Job : (call[j] = "backoff" /\ timer[j] = 0) \/ page[j] \in Logging}

\* What has been sent in this slot and what may be, less the call that the limiter
\* has let through.
RateInv == sent + Cardinality(Due) <= slot + Cardinality(Job)

LEMMA DueFinite ==
  /\ IsFiniteSet(Due) /\ Cardinality(Due) \in Nat /\ Cardinality(Job) \in Nat
  /\ Cardinality(Due) <= Cardinality(Job)
<1>1. Due \subseteq Job /\ IsFiniteSet(Job)
  BY SchedulerAssumption DEF Due
<1>2. QED
  BY <1>1, FS_Subset, FS_CardinalityType

\* After a request the job sleeps, if it is to try again.
LEMMA RequestDue ==
  ASSUME TypeInv, NEW j \in Job, Request(j), attempt[j] < 3, call[j] # "none", page' = page
  PROVE  Due' \subseteq Due \ {j} /\ sent' = sent + 1
<1>1. attempt[j] + 1 \in 1 .. 3
  <2>1. attempt \in [Job -> 0 .. 3]
    BY DEF TypeInv, TypeOK, ClientTypeOK
  <2>2. attempt[j] \in 0 .. 3
    BY <2>1
  <2>3. QED
    BY <2>2
<1>2. Backoff(attempt[j] + 1) \in 1 .. 4
  BY <1>1, BackoffType
<1>3. /\ call \in [Job -> {"none", "wait", "backoff", "done"}]
      /\ timer \in [Job -> 0 .. 4]
  BY DEF TypeInv, TypeOK, ClientTypeOK
<1>4. \/ /\ call' = [call EXCEPT ![j] = "backoff"]
         /\ timer' = [timer EXCEPT ![j] = Backoff(attempt[j] + 1)]
      \/ call' = [call EXCEPT ![j] = "done"] /\ timer' = timer
  BY DEF Request, Answered
<1>5. ASSUME NEW k \in Job, k # j  PROVE call'[k] = call[k] /\ timer'[k] = timer[k]
  BY <1>3, <1>4, <1>5
<1>6. call'[j] = "backoff" => timer'[j] # 0
  BY <1>2, <1>3, <1>4
<1>7. page[j] = "none"
  BY DEF TypeInv, Counted, Placed
<1>8. QED
  BY <1>5, <1>6, <1>7 DEF Due, Logging, Request, Sends

LEMMA RateStep ==
  TypeInv /\ RateInv /\ [Next]_vars => RateInv'
<1> SUFFICES ASSUME TypeInv, RateInv, [Next]_vars  PROVE RateInv'
  OBVIOUS
<1>types. /\ call \in [Job -> {"none", "wait", "backoff", "done"}]
          /\ page \in [Job -> {"none", "opening", "form", "submitted", "await", "done"}]
          /\ timer \in [Job -> 0 .. 4]
          /\ sent \in Nat /\ slot \in {0, 1}
  BY DEF TypeInv, TypeOK, ClientTypeOK, LoginTypeOK
<1>due. /\ IsFiniteSet(Due) /\ Cardinality(Due) \in Nat /\ Cardinality(Job) \in Nat
  BY DueFinite
<1>1. ASSUME Due' \subseteq Due, UNCHANGED <<sent, slot>>  PROVE RateInv'
  <2>1. Cardinality(Due') \in Nat /\ Cardinality(Due') <= Cardinality(Due)
    BY <1>due, <1>1, FS_Subset, FS_CardinalityType
  <2>2. QED
    BY <1>types, <1>due, <1>1, <2>1 DEF RateInv
<1>2. ASSUME NEW j \in Job, Admitted(j), page' = page  PROVE RateInv'
  <2>1. Request(j) /\ slot = 0 /\ slot' = 1 /\ call[j] = "wait"
    BY <1>2 DEF Admitted
  <2>2. attempt[j] = 0
    BY <2>1 DEF TypeInv, Counted, Placed
  <2>3. attempt[j] < 3
    BY <2>2
  <2>4. Due' \subseteq Due /\ sent' = sent + 1
    BY <1>2, <2>1, <2>3, RequestDue
  <2>5. Cardinality(Due') \in Nat /\ Cardinality(Due') <= Cardinality(Due)
    BY <1>due, <2>4, FS_Subset, FS_CardinalityType
  <2>6. QED
    BY <1>types, <1>due, <2>1, <2>4, <2>5 DEF RateInv
<1>3. ASSUME NEW j \in Job, WaitCancelled(j), page' = page  PROVE RateInv'
  <2>1. Due' \subseteq Due /\ UNCHANGED <<sent, slot>>
    BY <1>types, <1>3 DEF WaitCancelled, Answered, Due
  <2>2. QED
    BY <1>1, <2>1
<1>4. ASSUME NEW j \in Due, Due' \subseteq Due \ {j}, sent' = sent + 1, slot' = slot
      PROVE  RateInv'
  <2>1. /\ IsFiniteSet(Due \ {j})
        /\ Cardinality(Due \ {j}) = Cardinality(Due) - 1
    BY <1>due, FS_RemoveElement
  <2>2. Cardinality(Due') \in Nat /\ Cardinality(Due') <= Cardinality(Due) - 1
    BY <1>4, <2>1, FS_Subset, FS_CardinalityType
  <2>3. QED
    BY <1>types, <1>due, <1>4, <2>2 DEF RateInv
<1>5. ASSUME NEW j \in Job, Retry(j), page' = page  PROVE RateInv'
  <2>1. j \in Due /\ slot' = slot /\ call[j] = "backoff"
    BY <1>5 DEF Retry, Due
  <2>2. CASE attempt[j] < 3 /\ Request(j)
    <3>1. Due' \subseteq Due \ {j} /\ sent' = sent + 1
      BY <1>5, <2>1, <2>2, RequestDue
    <3>2. QED
      BY <1>4, <2>1, <3>1
  <2>3. CASE Answered(j, "failed") /\ UNCHANGED <<timer, sent>>
    <3>1. Due' \subseteq Due
      BY <1>types, <1>5, <2>3 DEF Answered, Due
    <3>2. QED
      BY <1>1, <2>1, <2>3, <3>1
  <2>4. QED
    BY <1>5, <2>2, <2>3 DEF Retry
<1>6. ASSUME NEW j \in Job, Login(j), GenerateSession(j)  PROVE RateInv'
  <2>1. /\ page[j] = "await" /\ page' = [page EXCEPT ![j] = "done"]
        /\ UNCHANGED <<call, timer, slot>> /\ sent' = sent + 1
    BY <1>6 DEF GenerateSession, Turn, Sends, callVars
  <2>2. call[j] = "none"
    BY <2>1 DEF TypeInv, Counted, Placed
  <2>3. j \in Due /\ Due' \subseteq Due \ {j}
    BY <1>types, <2>1, <2>2 DEF Due, Logging
  <2>4. QED
    BY <1>4, <2>1, <2>3
<1>7. ASSUME NEW j \in Job, GiveUpRun(j)  PROVE RateInv'
  <2>1. /\ page' = [page EXCEPT ![j] = "none"] /\ slot' = slot /\ page[j] # "none"
        /\ \/ sent' = sent
           \/ page[j] = "await" /\ sent' = sent + 1
    BY <1>7 DEF GiveUpRun, LoginFails, EndLogin, Turn, Sends
  <2>2. Taken(j) \/ Begin(j, "profile")
    BY <1>7 DEF GiveUpRun, EndRun, BeginRuns
  <2>3. timer' = timer /\ call'[j] # "backoff" /\ \A k \in Job \ {j} : call'[k] = call[k]
    BY <1>types, <2>2 DEF Taken, Begin, Answered
  <2>4. Due' \subseteq Due \ {j}
    BY <1>types, <2>1, <2>3 DEF Due, Logging
  <2>5. CASE sent' = sent
    BY <1>1, <2>1, <2>4, <2>5
  <2>6. CASE page[j] = "await" /\ sent' = sent + 1
    <3>1. j \in Due
      BY <2>6 DEF Due, Logging
    <3>2. QED
      BY <1>4, <2>1, <2>4, <2>6, <3>1
  <2>7. QED
    BY <2>1, <2>5, <2>6
<1>8. ASSUME StopJobs  PROVE RateInv'
  <2>1. \A j \in Job : call'[j] = "backoff" => call[j] = "backoff" /\ ~(timer[j] > 0)
    BY <1>types, <1>8 DEF StopJobs, Stop
  <2>2. \A j \in Job : ~(timer[j] > 0) => timer[j] = 0
    <3>1. ASSUME NEW j \in Job, ~(timer[j] > 0)  PROVE timer[j] = 0
      <4>1. timer[j] \in 0 .. 4
        BY <1>types
      <4>2. QED
        BY <3>1, <4>1
    <3>2. QED
      BY <3>1
  <2>3. UNCHANGED <<sent, slot, page>>
    BY <1>8 DEF StopJobs, Stop, loginVars
  <2>4. Due' \subseteq Due
    BY <2>1, <2>2, <2>3 DEF Due
  <2>5. QED
    BY <1>1, <2>3, <2>4
<1>9. ASSUME Time  PROVE RateInv'
  <2>1. sent' = 0 /\ slot' = 0
    BY <1>9 DEF Time, Tick
  <2>2. Due' \subseteq Job
    BY DEF Due
  <2>3. Cardinality(Due') \in Nat /\ Cardinality(Due') <= Cardinality(Job)
    BY <2>2, SchedulerAssumption, FS_Subset, FS_CardinalityType
  <2>4. QED
    BY <1>due, <2>1, <2>3 DEF RateInv
<1>10. ASSUME Restart  PROVE RateInv'
  <2>1. UNCHANGED <<sent, slot, call, timer, page>>
    BY <1>10 DEF Restart, callVars, loginVars
  <2>2. Due' \subseteq Due
    BY <2>1 DEF Due
  <2>3. QED
    BY <1>1, <2>1, <2>2
<1>11. ASSUME ~Time, ~StopJobs, ~Restart,
              \A j \in Job : /\ ~(ClientStep(j) /\ UNCHANGED <<loginVars, jobVars, ghosts>>)
                             /\ ~(Login(j) /\ GenerateSession(j)) /\ ~GiveUpRun(j)
       PROVE  RateInv'
  <2>1. /\ UNCHANGED <<slot, sent, timer>>
        /\ \A k \in Job : call'[k] = call[k] \/ call'[k] # "backoff"
        /\ \A k \in Job : page'[k] \in Logging => page[k] \in Logging
    BY <1>11, OtherSteps
  <2>2. Due' \subseteq Due
    BY <2>1 DEF Due
  <2>3. QED
    BY <1>1, <2>1, <2>2
<1>12. ASSUME NEW j \in Job, ClientStep(j), UNCHANGED <<loginVars, jobVars, ghosts>>
       PROVE  RateInv'
  <2>1. page' = page
    BY <1>12 DEF loginVars
  <2>2. QED
    BY <1>2, <1>3, <1>5, <1>12, <2>1 DEF ClientStep
<1>13. QED
  BY <1>6, <1>7, <1>8, <1>9, <1>10, <1>11, <1>12

\* A slot of the limiter sees one first attempt, and of each job one retry or one
\* exchange of a login, whatever the number of jobs (kite.go:61-88,
\* ratelimit.go:17-24, login.go:169).
THEOREM RateBounded ==
  Spec => []RateBound
<1>1. Init => TypeInv /\ RateInv
  <2> SUFFICES ASSUME Init  PROVE RateInv
    BY TypeInit
  <2>1. sent = 0 /\ slot = 0
    BY DEF Init, ClientInit
  <2>2. QED
    BY <2>1, DueFinite DEF RateInv
<1>2. TypeInv /\ RateInv => RateBound
  <2> SUFFICES ASSUME TypeInv, RateInv  PROVE RateBound
    OBVIOUS
  <2>1. sent \in Nat /\ slot \in {0, 1}
    BY DEF TypeInv, TypeOK, ClientTypeOK
  <2>2. QED
    BY <2>1, DueFinite DEF RateInv, RateBound
<1>3. QED
  BY <1>1, <1>2, TypeStep, RateStep, PTL DEF Spec

-----------------------------------------------------------------------------
(* Logins.                                                                 *)

loginState == <<page, redirectCh, redirected, fresh, token, mine, raced>>

\* Steps that have nothing to do with a login.
LEMMA NoLogin ==
  ASSUME [Next]_vars, ~Restart,
         \A j \in Job : ~Login(j) /\ ~Validated(j) /\ ~Install(j) /\ ~GiveUpRun(j),
         \A j \in Job : ~(Redirect(j) /\ UNCHANGED <<jobVars, ghosts>>), ~Time
  PROVE  UNCHANGED loginState
<1> USE DEF loginState, loginVars, ghosts
<1>1. ASSUME NEW j \in Job, StartJob(j)  PROVE UNCHANGED loginState
  BY <1>1 DEF StartJob
<1>2. ASSUME NEW j \in Job, ClientStep(j), UNCHANGED <<loginVars, jobVars, ghosts>>
      PROVE  UNCHANGED loginState
  BY <1>2 DEF ClientStep, Admitted, WaitCancelled, Retry, Request
<1>3. ASSUME NEW j \in Job, StartCall(j) \/ DumpAnswered(j) \/ EndWalk(j) \/ RunReturns(j)
      PROVE  UNCHANGED loginState
  BY <1>3 DEF StartCall, DumpAnswered, EndWalk, RunReturns
<1>4. ASSUME NEW j \in Job, WalkAnswered(j)  PROVE UNCHANGED loginState
  BY <1>4 DEF WalkAnswered
<1>5. ASSUME StopJobs  PROVE UNCHANGED loginState
  BY <1>5 DEF StopJobs, Stop
<1>6. ASSUME Expire, UNCHANGED <<loginVars, jobVars, ghosts>>
      PROVE  UNCHANGED loginState
  BY <1>6 DEF Expire
<1>7. ASSUME UNCHANGED vars  PROVE UNCHANGED loginState
  BY <1>7 DEF vars, clientVars
<1>8. QED
  BY <1>1, <1>2, <1>3, <1>4, <1>5, <1>6, <1>7 DEF Next, JobStep, Others

\* What the steps of a login do to the page, the channel and the session.
LEMMA LoginMoves ==
  ASSUME TypeInv, NEW j \in Job, Login(j)
  PROVE  \/ /\ page[j] \in {"form", "submitted"} /\ page'[j] \in {"submitted", "await"}
            /\ UNCHANGED <<redirectCh, redirected, fresh, token, mine, raced>>
            /\ \A k \in Job \ {j} : page'[k] = page[k]
         \/ /\ page[j] = "await" /\ page'[j] = "done" /\ fresh'[j] = mine'
            /\ raced' = (raced \/ \E k \in Job \ {j} : page[k] = "done")
            /\ UNCHANGED <<redirected, token>>
            /\ \A k \in Job \ {j} : /\ page'[k] = page[k] /\ fresh'[k] = fresh[k]
                                    /\ redirectCh'[k] = redirectCh[k]
<1>types. LoginTypeOK
  BY DEF TypeInv, TypeOK
<1>1. CASE Submit(j)
  <2>1. UNCHANGED <<redirectCh, redirected, fresh, token, sessions>>
    BY <1>1 DEF Submit, clientVars
  <2>2. UNCHANGED <<mine, raced>>
    BY <2>1 DEF Login, TypeInv, TypeOK
  <2>3. QED
    BY <1>types, <1>1, <2>1, <2>2 DEF Submit, Turn, LoginTypeOK
<1>2. CASE GenerateSession(j)
  <2>1. sessions' # sessions /\ sessions' = sessions + 1
    BY <1>types, <1>2 DEF GenerateSession, LoginTypeOK, Session
  <2>2. /\ mine' = sessions'
        /\ raced' = (raced \/ \E k \in Job \ {j} : page[k] = "done")
    BY <2>1 DEF Login
  <2>3. QED
    BY <1>types, <1>2, <2>1, <2>2 DEF GenerateSession, Turn, LoginTypeOK
<1>3. QED
  BY <1>1, <1>2 DEF Login, LoginStep

\* What Validated, Install and GiveUpRun do to them.
LEMMA LoginEnds ==
  ASSUME TypeInv, NEW j \in Job, BeginLogin(j) \/ EndLogin(j)
  PROVE  /\ page'[j] \in {"none", "opening"} /\ ~redirected'[j]
         /\ \A k \in Job \ {j} : page'[k] = page[k] /\ redirected'[k] = redirected[k]
                                 /\ redirectCh'[k] = redirectCh[k] /\ fresh'[k] = fresh[k]
BY DEF TypeInv, TypeOK, LoginTypeOK, BeginLogin, EndLogin, Turn

\* Until it is taken, what Kite has sent is in the channel.
RedirectInv ==
  \A j \in Job : page[j] \in {"opening", "form", "submitted", "await"} /\ redirected[j] => redirectCh[j]

LEMMA RedirectStep ==
  TypeInv /\ RedirectInv /\ [Next]_vars => RedirectInv'
<1> SUFFICES ASSUME TypeInv, RedirectInv, [Next]_vars  PROVE RedirectInv'
  OBVIOUS
<1>1. ASSUME NEW j \in Job, Login(j)  PROVE RedirectInv'
  BY <1>1, LoginMoves DEF RedirectInv
<1>2. ASSUME NEW j \in Job, BeginLogin(j) \/ EndLogin(j)  PROVE RedirectInv'
  BY <1>2, LoginEnds DEF RedirectInv
<1>3. ASSUME UNCHANGED <<page, redirectCh, redirected>>  PROVE RedirectInv'
  BY <1>3 DEF RedirectInv
<1>4. ASSUME NEW j \in Job, Validated(j) \/ Install(j) \/ GiveUpRun(j)  PROVE RedirectInv'
  <2>1. BeginLogin(j) \/ EndLogin(j) \/ UNCHANGED loginVars
    BY <1>4 DEF Validated, Install, GiveUpRun, LoginFails
  <2>2. QED
    BY <1>2, <1>3, <2>1 DEF loginVars
<1>5. ASSUME NEW j \in Job, Redirect(j)  PROVE RedirectInv'
  BY <1>5 DEF Redirect, Held, TypeInv, TypeOK, LoginTypeOK, RedirectInv
<1>6. ASSUME Restart  PROVE RedirectInv'
  BY <1>3, <1>6 DEF Restart, loginVars
<1>7. ASSUME Time  PROVE RedirectInv'
  <2>1. Opened /\ UNCHANGED <<redirectCh, redirected>>
    BY <1>7 DEF Time
  <2>2. QED
    BY <2>1 DEF Opened, TypeInv, TypeOK, LoginTypeOK, RedirectInv
<1>8. QED
  BY <1>1, <1>3, <1>4, <1>5, <1>6, <1>7, NoLogin DEF loginState

\* A redirect that Kite sends is in the channel when AutoLogin comes to wait for it,
\* however early it was sent (login.go:69-81, :146-157).
THEOREM RedirectsKept ==
  Spec => []RedirectKept
<1>1. Init => TypeInv /\ RedirectInv
  BY TypeInit DEF Init, LoginInit, RedirectInv
<1>2. RedirectInv => RedirectKept
  BY DEF RedirectInv, RedirectKept
<1>3. QED
  BY <1>1, <1>2, TypeStep, RedirectStep, PTL DEF Spec

\* A session that is not the newest waits to be installed only if logins overlapped.
TokenInv ==
  /\ NewestToken
  /\ (\E j \in Job : page[j] = "done" /\ fresh[j] # mine) => raced

LEMMA TokenStep ==
  TypeInv /\ TokenInv /\ [Next]_vars => TokenInv'
<1> SUFFICES ASSUME TypeInv, TokenInv, [Next]_vars  PROVE TokenInv'
  OBVIOUS
<1> USE DEF TokenInv, NewestToken
<1>1. ASSUME NEW j \in Job, Login(j)  PROVE TokenInv'
  BY <1>1, LoginMoves
<1>2. ASSUME NEW j \in Job, Validated(j)  PROVE TokenInv'
  <2>1. UNCHANGED <<token, mine, raced>>
    BY <1>2 DEF Validated, ghosts
  <2>2. page[j] = "none"
    BY <1>2 DEF Validated, TypeInv, Counted, Placed
  <2>3. CASE BeginLogin(j)
    BY <2>1, <2>2, <2>3, LoginEnds
  <2>4. CASE UNCHANGED loginVars
    BY <2>1, <2>4 DEF loginVars
  <2>5. QED
    BY <1>2, <2>3, <2>4 DEF Validated
<1>3. ASSUME NEW j \in Job, Install(j)  PROVE TokenInv'
  <2>1. /\ page[j] = "done" /\ token' = fresh[j] /\ mine' = mine
        /\ raced' = (raced /\ (fresh[j] # mine \/ \E k \in Job \ {j} : page[k] = "done"))
    BY <1>3 DEF Install, Installed
  <2>2. /\ page'[j] \in {"none", "opening"}
        /\ \A k \in Job \ {j} : page'[k] = page[k] /\ fresh'[k] = fresh[k]
    BY <1>3, LoginEnds DEF Install
  <2>3. NewestToken'
    BY <2>1
  <2>4. ((\E k \in Job : page[k] = "done" /\ fresh[k] # mine) => raced)'
    BY <2>1, <2>2
  <2>5. QED
    BY <2>3, <2>4
<1>4. ASSUME NEW j \in Job, GiveUpRun(j)  PROVE TokenInv'
  <2>1. UNCHANGED <<token, mine, raced>> /\ page[j] # "done" /\ EndLogin(j)
    BY <1>4 DEF GiveUpRun, LoginFails, ghosts
  <2>2. QED
    BY <2>1, LoginEnds
<1>5. ASSUME NEW j \in Job, Redirect(j), UNCHANGED <<jobVars, ghosts>>  PROVE TokenInv'
  BY <1>5 DEF Redirect, clientVars, ghosts
<1>6. ASSUME Restart  PROVE TokenInv'
  BY <1>6 DEF Restart, loginVars, TypeInv, Counted, Placed
<1>7. ASSUME UNCHANGED loginState  PROVE TokenInv'
  BY <1>7 DEF loginState
<1>8. ASSUME Time  PROVE TokenInv'
  <2>1. Opened /\ UNCHANGED <<fresh, token, mine, raced>>
    BY <1>8 DEF Time, Tick, ghosts
  <2>2. QED
    BY <2>1 DEF Opened, TypeInv, TypeOK, LoginTypeOK
<1>9. QED
  BY <1>1, <1>2, <1>3, <1>4, <1>5, <1>6, <1>7, <1>8, NoLogin

\* The client works with the newest session of the process unless two logins
\* overlapped (incremental.go:52-67, backfill.go:44-58).
THEOREM TokenNewest ==
  Spec => []NewestToken
<1>1. Init => TypeInv /\ TokenInv
  BY TypeInit DEF Init, ClientInit, LoginInit, TokenInv, NewestToken
<1>2. TokenInv => NewestToken
  BY DEF TokenInv
<1>3. QED
  BY <1>1, <1>2, TypeStep, TokenStep, PTL DEF Spec

=============================================================================
