------------------------------ MODULE Archive ------------------------------
(***************************************************************************)
(* What extraction promises, without files, passes or calls: an archive    *)
(* that only grows, and per series a checkpoint that never runs ahead of   *)
(* what the archive holds or what Kite has been seen to refuse, not even   *)
(* after the checkpoints are rolled back to a saved copy.                  *)
(***************************************************************************)
EXTENDS Integers

CONSTANTS
  Series,   \* what has a checkpoint
  Day,      \* the days there are
  Start,    \* Start[s]: the first day asked for
  Exists    \* Exists[s]: the days there is something to archive for

VARIABLES
  have,     \* have[s]: the days in the archive
  gaps,     \* gaps[s]: the days refused and reported
  done,     \* done[s]: the checkpoint
  saved     \* the copy of done that survives a restart

archiveVars == <<have, gaps, done, saved>>

Init ==
  /\ have = [s \in Series |-> {}]
  /\ gaps = [s \in Series |-> {}]
  /\ done = [s \in Series |-> 0]
  /\ saved = [s \in Series |-> 0]

Store(s) ==
  /\ \E days \in SUBSET Exists[s] : have' = [have EXCEPT ![s] = @ \cup days]
  /\ UNCHANGED <<gaps, done, saved>>

Report(s) ==
  /\ \E days \in SUBSET Day : gaps' = [gaps EXCEPT ![s] = @ \cup days]
  /\ UNCHANGED <<have, done, saved>>

\* The checkpoint may move to a day when nothing up to it is missing silently.
Advance(s) ==
  /\ \E d \in Day :
       /\ done[s] < d
       /\ \A e \in Exists[s] : Start[s] <= e /\ e <= d => e \in have[s] \cup gaps[s]
       /\ done' = [done EXCEPT ![s] = d]
  /\ UNCHANGED <<have, gaps, saved>>

Save == saved' = done /\ UNCHANGED <<have, gaps, done>>

Restore == done' = saved /\ UNCHANGED <<have, gaps, saved>>

Next ==
  \/ \E s \in Series : Store(s) \/ Report(s) \/ Advance(s)
  \/ Save \/ Restore

Spec == Init /\ [][Next]_archiveVars
=============================================================================
