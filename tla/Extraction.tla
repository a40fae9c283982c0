----------------------------- MODULE Extraction -----------------------------
(***************************************************************************)
(* The program as deployed: the incremental run and the backfill over one  *)
(* archive and one table of checkpoints, started by cron (cron.go) or by   *)
(* hand, cancelled by Stop, killed and restarted.  Nothing in the code     *)
(* keeps the two apart: cron starts each job in a goroutine of its own     *)
(* when it is due, and the README runs a backfill by hand inside the       *)
(* container.  MayOverlap = FALSE assumes a schedule that keeps them apart.*)
(***************************************************************************)
EXTENDS Storage, Sequences

CONSTANTS Jobs, None, Passes, NoSeries,
  MayOverlap    \* whether one job may start while the other is running

ASSUME ExtractionAssumption ==
  /\ Jobs \subseteq SUBSET Series /\ None \notin Series
  /\ Passes \in Seq(SUBSET Series) /\ NoSeries \notin Series
  /\ MayOverlap \in BOOLEAN

VARIABLES
  pc, jobs, end, left, todo, cur, from, to, sub, allOK, rows,
  step, day, passes, waiting, inst, candles

BF == INSTANCE Backfill
INC == INSTANCE Incremental

bfVars == <<pc, jobs, end, left, todo, cur, from, to, sub, allOK, rows>>
incVars == <<step, day, passes, waiting, inst, candles>>
vars == <<storageVars, bfVars, incVars>>

TypeOK == BF!TypeOK /\ INC!IncTypeOK

Init == BF!Init /\ INC!IncInit

StartWeekly == (MayOverlap \/ step = "idle") /\ BF!StartPass /\ UNCHANGED incVars

StartNightly == (MayOverlap \/ pc = "idle") /\ INC!StartRun /\ UNCHANGED bfVars

BackfillStep == BF!PassStep /\ UNCHANGED incVars

IncrementalStep == INC!IncStep /\ UNCHANGED bfVars

\* Stop returns once both jobs have.
Exit ==
  /\ pc = "idle" /\ step = "idle"
  /\ StorageExit
  /\ UNCHANGED <<bfVars, incVars>>

Crash == StorageCrash /\ BF!NoPass /\ INC!NoRun

Around ==
  /\ Tick \/ Sync \/ Cancel \/ Boot
  /\ UNCHANGED <<bfVars, incVars>>

Next ==
  \/ StartWeekly \/ StartNightly
  \/ BackfillStep \/ IncrementalStep
  \/ Exit \/ Crash \/ Around

\* Both goroutines keep running, since every external call returns; and main
\* returns from Stop when it can.
Spec ==
  /\ Init /\ [][Next]_vars
  /\ WF_vars(BackfillStep) /\ WF_vars(IncrementalStep) /\ WF_vars(Exit)

-----------------------------------------------------------------------------
(* Properties.                                                             *)

\* The days at or before a checkpoint, or the copy of it that a restart would
\* restore, that nobody will fetch and that nobody has reported.
SilentGap(s) ==
  {d \in BF!Promised(s, ckpt[s]) \cup BF!Promised(s, replica[s]) : ~BF!Accounted(s, d)}

\* While the jobs do not overlap, the incremental run is the only origin of a
\* silent gap of a daily series, and the gap is what it jumps over: the days between the old
\* checkpoint and the day it has just stored (incremental.go:183, :227).
GapsAreJumps ==
  [][\A s \in Daily : \A d \in SilentGap(s)' \ SilentGap(s) :
       step = "mark" /\ inst = s /\ ckpt[s] < d /\ d < day]_vars

\* "Parquet writes are idempotent" (backfill.go:148), with both writers: no
\* candle leaves the archive.  "Backfill and incremental runs can safely write
\* to the same files" (DATA.md:434) says it of overlapping runs too.
RowsNeverLost ==
  [][\A s \in Series, f \in Day : blob[s][f] \subseteq blob'[s][f]]_vars

\* A file holds only candles that Kite has and that are of its own period,
\* whichever job wrote them (backfill.go:287-288, incremental.go:177).
OneFilePerDay ==
  \A s \in Series, f \in Day : \A d \in blob[s][f] :
    d \in Market[s] /\ FileOf(s, d) = f

\* While the jobs do not overlap only a restart moves a checkpoint back, though
\* neither job compares the day it writes with the one that is there
\* (state.go:31-44): both walk up to a last trading day, and those only grow.
CkptMonotone ==
  [][\A s \in Series : ckpt'[s] < ckpt[s] => ~up]_vars

\* "fills any gaps from binary downtime during the week" (README.md:170): when
\* a backfill that nobody has cancelled is over with a daily series, every day
\* from backfill_from to EndDate is accounted for.
WeeklyFillsGaps ==
  [][\A s \in Daily : BF!Finishes(s) /\ ~ctxDone =>
       \A d \in BF!Promised(s, end) : BF!Accounted(s, d)]_vars
=============================================================================
