------------------------------ MODULE Scheduler ------------------------------
(***************************************************************************)
(* The jobs of the scheduler as users of Kite: each run validates the      *)
(* token, logs in when that fails for whatever reason, and then asks for   *)
(* instruments and candles, section by section (a pass over an exchange's  *)
(* instruments, an underlying of the options).  The nightly job is one     *)
(* run; the weekly job is one run after the other, each for an asset and   *)
(* an interval.  They share the client, its token and the context that     *)
(* Stop cancels.  What the candles are used for is in the other modules.   *)
(***************************************************************************)
EXTENDS Login, Sequences, FiniteSets

CONSTANTS
  Runs,     \* runs of a job
  Work,     \* the sections of each run of a job: "dump" or "walk"
  Calls     \* calls of a walk

ASSUME SchedulerAssumption ==
  /\ IsFiniteSet(Job)
  /\ Runs \in [Job -> Nat \ {0}] /\ Calls \in Nat \ {0}
  /\ Work \in [Job -> Seq({"dump", "walk"})]

VARIABLES
  stage,     \* where a job stands
  runs,      \* its runs, from this one on
  work,      \* the sections of the run, from this one on
  more,      \* calls the section still makes
  left,      \* ghost: the runs a job still had when Stop cancelled the context
  mine,      \* ghost: the newest session this process has opened
  raced      \* ghost: a session was opened before an older one was installed

jobVars == <<stage, runs, work, more>>
ghosts == <<left, mine, raced>>
vars == <<clientVars, loginVars, jobVars, ghosts>>

TypeOK ==
  /\ ClientTypeOK /\ LoginTypeOK
  /\ stage \in [Job -> {"idle", "validate", "login", "work"}]
  /\ runs \in [Job -> Nat]
  /\ work \in [Job -> Seq({"dump", "walk"})]
  /\ more \in [Job -> 0 .. Calls]
  /\ left \in [Job -> Nat]
  /\ mine \in Session /\ raced \in BOOLEAN

Init ==
  /\ ClientInit /\ LoginInit
  /\ stage = [j \in Job |-> "idle"]
  /\ runs = [j \in Job |-> 0]
  /\ work = [j \in Job |-> <<>>]
  /\ more = [j \in Job |-> 0]
  /\ left = [j \in Job |-> 0]
  /\ mine = 0 /\ raced = FALSE

-----------------------------------------------------------------------------
(* Runs.                                                                   *)

\* The n runs from this one on; the first begins with ValidateToken.
BeginRuns(j, n) ==
  /\ stage' = [stage EXCEPT ![j] = IF n = 0 THEN "idle" ELSE "validate"]
  /\ runs' = [runs EXCEPT ![j] = n]
  /\ work' = [work EXCEPT ![j] = <<>>]
  /\ more' = [more EXCEPT ![j] = 0]
  /\ IF n = 0 THEN Taken(j) ELSE Begin(j, "profile")

\* Whatever a run returns is logged, and the next one begins.
EndRun(j) == BeginRuns(j, runs[j] - 1)

\* Cron is due; it schedules nothing any more once it is stopped.
StartJob(j) ==
  /\ stage[j] = "idle" /\ ~ctxDone
  /\ BeginRuns(j, Runs[j])
  /\ UNCHANGED <<ctxDone, token, alive, slot, sent, late, loginVars, ghosts>>

\* The sections left, of which the first begins.
BeginSection(j, sections) ==
  /\ work' = [work EXCEPT ![j] = sections]
  /\ more' = [more EXCEPT ![j] =
                IF sections = <<>> THEN 0 ELSE IF Head(sections) = "dump" THEN 1 ELSE Calls]
  /\ UNCHANGED runs

StartWork(j) ==
  /\ stage' = [stage EXCEPT ![j] = "work"]
  /\ BeginSection(j, Work[j])
  /\ Taken(j)

\* The section the job is in.
In(j, section) == stage[j] = "work" /\ work[j] # <<>> /\ Head(work[j]) = section

\* ValidateToken has returned: any error, a cancelled context too, is taken for
\* an invalid token.
Validated(j) ==
  /\ stage[j] = "validate" /\ call[j] = "done"
  /\ \/ answer[j] = "ok" /\ StartWork(j) /\ UNCHANGED loginVars
     \/ /\ answer[j] # "ok"
        /\ stage' = [stage EXCEPT ![j] = "login"]
        /\ BeginLogin(j)
        /\ Taken(j)
        /\ UNCHANGED <<runs, work, more>>
  /\ UNCHANGED <<ctxDone, token, alive, slot, sent, late, ghosts>>

\* A step of AutoLogin.
Login(j) ==
  /\ stage[j] = "login"
  /\ LoginStep(j)
  /\ mine' = IF sessions' # sessions THEN sessions' ELSE mine
  /\ raced' = (raced \/ (sessions' # sessions /\ \E k \in Job \ {j} : page[k] = "done"))
  /\ UNCHANGED <<jobVars, left>>

\* Mutant: the client keeps the token it has.
TokenKept(j) == token

\* SetAccessToken.
Installed(j) == fresh[j]

Install(j) ==
  /\ page[j] = "done"
  /\ token' = Installed(j)
  /\ EndLogin(j)
  /\ StartWork(j)
  /\ raced' = (raced /\ (fresh[j] # mine \/ \E k \in Job \ {j} : page[k] = "done"))
  /\ UNCHANGED <<ctxDone, alive, slot, sent, late, left, mine>>

GiveUpRun(j) ==
  /\ LoginFails(j)
  /\ EndRun(j)
  /\ UNCHANGED <<ctxDone, token, alive, slot, ghosts>>

-----------------------------------------------------------------------------
(* Sections.                                                               *)

\* The next call of a section, for an instrument.
StartCall(j) ==
  /\ stage[j] = "work" /\ call[j] = "none" /\ more[j] > 0
  /\ more' = [more EXCEPT ![j] = @ - 1]
  /\ \/ In(j, "dump") /\ Begin(j, "dump")
     \/ In(j, "walk") /\ Begin(j, "candles")
  /\ UNCHANGED <<ctxDone, token, alive, slot, sent, late, stage, runs, work, loginVars, ghosts>>

\* fetchAndStoreInstruments has its answer; without it, or when it cannot be
\* stored, there is no run.
DumpAnswered(j) ==
  /\ In(j, "dump") /\ call[j] = "done"
  /\ \/ /\ answer[j] = "ok"
        /\ BeginSection(j, Tail(work[j])) /\ Taken(j)
        /\ UNCHANGED stage
     \/ EndRun(j)
  /\ UNCHANGED <<ctxDone, token, alive, slot, sent, late, loginVars, ghosts>>

\* A walk ends at a refusal.  It may at any other answer of Kite's: a text may hold
\* "403", and what came may fail to be stored.  Otherwise it goes on.
WalkAnswered(j) ==
  /\ In(j, "walk") /\ call[j] = "done"
  /\ \/ answer[j] # "cancelled" /\ BeginSection(j, Tail(work[j]))
     \/ answer[j] # "refused" /\ UNCHANGED <<runs, work, more>>
  /\ Taken(j)
  /\ UNCHANGED <<ctxDone, token, alive, slot, sent, late, stage, loginVars, ghosts>>

\* Its instruments are done, it looks at the context, or the database fails it.
EndWalk(j) ==
  /\ In(j, "walk") /\ call[j] = "none"
  /\ BeginSection(j, Tail(work[j]))
  /\ UNCHANGED <<ctxDone, token, alive, slot, callVars, sent, late, stage, loginVars, ghosts>>

RunReturns(j) ==
  /\ stage[j] = "work" /\ work[j] = <<>>
  /\ EndRun(j)
  /\ UNCHANGED <<ctxDone, token, alive, slot, sent, late, loginVars, ghosts>>

-----------------------------------------------------------------------------

\* What the goroutine of a job does, the client and the browser for it.
JobStep(j) ==
  \/ ClientStep(j) /\ UNCHANGED <<loginVars, jobVars, ghosts>>
  \/ Login(j)
  \/ Validated(j) \/ Install(j) \/ GiveUpRun(j)
  \/ StartCall(j) \/ DumpAnswered(j) \/ WalkAnswered(j) \/ EndWalk(j) \/ RunReturns(j)

\* Stop cancels the context; that it then stops cron is not told apart.
StopJobs ==
  /\ Stop
  /\ left' = runs
  /\ UNCHANGED <<loginVars, jobVars, mine, raced>>

\* The process has returned from Stop and is started again.
Restart ==
  /\ ctxDone /\ \A j \in Job : stage[j] = "idle"
  /\ sent = 0 /\ slot = 0
  /\ ctxDone' = FALSE /\ token' = 0
  /\ late' = [j \in Job |-> 0] /\ left' = [j \in Job |-> 0]
  /\ mine' = 0 /\ raced' = FALSE
  /\ UNCHANGED <<alive, slot, callVars, sent, loginVars, jobVars>>

Time ==
  /\ Tick /\ Opened
  /\ UNCHANGED <<redirectCh, redirected, sessions, fresh, jobVars, ghosts>>

Others ==
  \/ Expire /\ UNCHANGED <<loginVars, jobVars, ghosts>>
  \/ \E j \in Job : Redirect(j) /\ UNCHANGED <<jobVars, ghosts>>

Next == \/ \E j \in Job : StartJob(j) \/ JobStep(j)
        \/ StopJobs \/ Restart \/ Time \/ Others

\* Goroutines run, time passes, every request is answered or times out, and so
\* does a login.
Spec ==
  /\ Init /\ [][Next]_vars
  /\ \A j \in Job : WF_vars(JobStep(j))
  /\ WF_vars(Time)

-----------------------------------------------------------------------------
(* Properties.                                                             *)

\* "All Kite API calls call limiter.Wait(ctx) before executing, ensuring the 3
\* req/sec limit is never exceeded" (README.md:298) is true of first attempts: a
\* slot sees one of those, and beside it, of each job, a retry (kite.go:73-85) or
\* the exchange of a login (login.go:169).
RateBound == sent <= 1 + Cardinality(Job)

\* Once Stop has cancelled the context a job sends what its call in progress still
\* asks, one request, and one exchange for each run it has left: each of them logs
\* in again because ValidateToken fails on the cancelled context.  Neither the
\* limiter's Wait nor the retry loop looks at the context right before it sends,
\* and the loops go on after a cancelled call as after any error (cron.go:49-56,
\* :106-111, backfill.go:39-58, :128-135, login.go:169).
LateFew == \A j \in Job : late[j] <= 1 + left[j]

\* The client works with the newest session the process has opened, unless two
\* logins overlapped (incremental.go:66, backfill.go:57).
NewestToken ==
  \/ token = mine \/ raced
  \/ \E j \in Job : page[j] = "done" /\ fresh[j] = mine

\* A redirect that comes before anybody waits for it is not lost (login.go:69-81).
RedirectKept == \A j \in Job : page[j] = "await" /\ redirected[j] => redirectCh[j]

\* Stop returns: both jobs come to an end, the weekly one after it has failed to
\* validate, and has logged in again, for every run it still had (cron.go:49-56,
\* :106-111).
StopReturns == ctxDone ~> \A j \in Job : stage[j] = "idle"
=============================================================================
