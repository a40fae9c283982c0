-------------------------------- MODULE Login --------------------------------
(***************************************************************************)
(* AutoLogin: a browser of its own for each job that finds its token not   *)
(* valid, on a context that nobody cancels, for at most 90 seconds.  Kite's *)
(* pages are external: the form, the second factor, and a redirect that    *)
(* carries the request token, seen by a listener whenever it comes.  The   *)
(* token is exchanged by a client of the login's own: a request that       *)
(* passes neither the limiter nor the context.                             *)
(***************************************************************************)
EXTENDS Client

VARIABLES
  page,         \* where a job's login stands
  redirectCh,   \* whether its channel of one holds the redirect
  redirected,   \* ghost: Kite has redirected
  sessions,     \* the newest session Kite has opened
  fresh         \* the session of a job's login

loginVars == <<page, redirectCh, redirected, sessions, fresh>>

LoginTypeOK ==
  /\ page \in [Job -> {"none", "opening", "form", "submitted", "await", "done"}]
  /\ redirectCh \in [Job -> BOOLEAN]
  /\ redirected \in [Job -> BOOLEAN]
  /\ sessions \in Session
  /\ fresh \in [Job -> Session]

LoginInit ==
  /\ page = [j \in Job |-> "none"]
  /\ redirectCh = [j \in Job |-> FALSE]
  /\ redirected = [j \in Job |-> FALSE]
  /\ sessions = 0
  /\ fresh = [j \in Job |-> 0]

Turn(j, to) == page' = [page EXCEPT ![j] = to]

\* A browser opens; the form is there no sooner than in the next slot.
BeginLogin(j) ==
  /\ Turn(j, "opening")
  /\ redirectCh' = [redirectCh EXCEPT ![j] = FALSE]
  /\ redirected' = [redirected EXCEPT ![j] = FALSE]
  /\ UNCHANGED <<sessions, fresh>>

\* Pages that were opening are there.
Opened == page' = [j \in Job |-> IF page[j] = "opening" THEN "form" ELSE page[j]]

\* User and password are submitted and then the code; the wait for the redirect is
\* a step of its own.
Submit(j) ==
  /\ \/ page[j] = "form" /\ Turn(j, "submitted")
     \/ page[j] = "submitted" /\ Turn(j, "await")
  /\ UNCHANGED <<clientVars, redirectCh, redirected, sessions, fresh>>

\* Mutant: the channel has no room, so that a redirect is lost unless somebody waits.
HeldIfAwaited(j) == redirectCh[j] \/ page[j] = "await"

\* What the channel holds once the listener has tried to send.
Held(j) == TRUE

\* Kite accepts the code; more than one request may carry the token.
Redirect(j) ==
  /\ page[j] \in {"submitted", "await"}
  /\ redirected' = [redirected EXCEPT ![j] = TRUE]
  /\ redirectCh' = [redirectCh EXCEPT ![j] = Held(j)]
  /\ UNCHANGED <<clientVars, page, sessions, fresh>>

\* The redirect is taken from the channel and exchanged for a session; Kite may end
\* the user's other sessions.
GenerateSession(j) ==
  /\ page[j] = "await" /\ redirectCh[j] /\ sessions < MaxSessions
  /\ redirectCh' = [redirectCh EXCEPT ![j] = FALSE]
  /\ Sends(j)
  /\ sessions' = sessions + 1
  /\ alive' \in {alive \cup {sessions + 1}, {sessions + 1}}
  /\ fresh' = [fresh EXCEPT ![j] = sessions + 1]
  /\ Turn(j, "done")
  /\ UNCHANGED <<ctxDone, token, slot, callVars, redirected>>

\* AutoLogin returns.
EndLogin(j) ==
  /\ Turn(j, "none")
  /\ redirectCh' = [redirectCh EXCEPT ![j] = FALSE]
  /\ redirected' = [redirected EXCEPT ![j] = FALSE]
  /\ fresh' = [fresh EXCEPT ![j] = 0]
  /\ UNCHANGED sessions

\* Mutant: the wait for the redirect has no time limit.
LoginWaits(j) ==
  /\ page[j] \in {"opening", "form", "submitted"}
  /\ UNCHANGED <<sent, late>>
  /\ EndLogin(j)

\* A step fails or the 90 seconds are over, or the exchange does not succeed.
LoginFails(j) ==
  /\ \/ page[j] \in {"opening", "form", "submitted", "await"} /\ UNCHANGED <<sent, late>>
     \/ page[j] = "await" /\ redirectCh[j] /\ Sends(j)
  /\ EndLogin(j)

LoginStep(j) == Submit(j) \/ GenerateSession(j)
=============================================================================
