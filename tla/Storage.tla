------------------------------ MODULE Storage ------------------------------
(***************************************************************************)
(* What the equity and futures extractors share: the candle files in R2,   *)
(* the checkpoints in the local SQLite file, Litestream's copy of that     *)
(* file and the life of the process.  The jobs that read and write it are  *)
(* the modules Backfill and Incremental.                                   *)
(*                                                                         *)
(* A series here is what one row of extraction_state is about.  Of a       *)
(* candle only its day matters: a file is the set of days whose candles it *)
(* holds.                                                                  *)
(***************************************************************************)
EXTENDS Windows, FiniteSets

CONSTANTS
  ExchangeOf,    \* the exchange of a series
  Market,        \* the days for which Kite has candles of a series
  FetchFaults    \* whether Kite may answer with an error that is not about auth

ASSUME StorageAssumption ==
  /\ IsFiniteSet(Series)
  /\ Intraday \subseteq Series
  /\ LastDay \in Nat
  /\ BackfillFrom \in [Series -> Day]
  /\ ChunkDays \in [Series -> Nat \ {0}]
  /\ PeriodEnd \in [Series -> [Day -> Day]]
  /\ Market \in [Series -> SUBSET Day]
  /\ FetchFaults \in BOOLEAN

VARIABLES
  blob,      \* blob[s][f]: the days in the candle file f of s
  ckpt,      \* extraction_state: the last day done of s, NotFound if no row
  replica,   \* Litestream's copy of extraction_state in R2
  refused,   \* ghost: days of s in a window that Kite refused ("skipping")
  today,     \* the date, UTC
  up,        \* the process is running
  ctxDone    \* its context has been cancelled

storageVars == <<blob, ckpt, replica, refused, today, up, ctxDone>>

StorageTypeOK ==
  /\ blob \in [Series -> [Day -> SUBSET Day]]
  /\ ckpt \in [Series -> Day \cup {NotFound}]
  /\ replica \in [Series -> Day \cup {NotFound}]
  /\ refused \in [Series -> SUBSET Day]
  /\ today \in 1 .. LastDay + 1
  /\ up \in BOOLEAN
  /\ ctxDone \in BOOLEAN

StorageInit ==
  /\ blob = [s \in Series |-> [f \in Day |-> {}]]
  /\ ckpt = [s \in Series |-> NotFound]
  /\ replica = [s \in Series |-> NotFound]
  /\ refused = [s \in Series |-> {}]
  /\ today = 1
  /\ up = TRUE
  /\ ctxDone = FALSE

-----------------------------------------------------------------------------
(* What the external services answer.                                      *)

\* The candles Kite has for a window of the backfill ...
CandlesToMidnight(s, from, to) == Market[s] \cap DaysToMidnight(s, from, to)

\* ... and for one day when the window ends at the end of that day.
CandlesToEndOfDay(s, d) == Market[s] \cap {d}

\* A day that a reader of the archive finds.
Stored(s, d) == d \in blob[s][FileOf(s, d)]

\* Mutants: the checkpoint is ignored; one day too many is skipped.
ResumeFromStart(s) == BackfillFrom[s]
ResumeFromLate(s) == IF ckpt[s] = NotFound THEN BackfillFrom[s] ELSE ckpt[s] + 2

\* GetLastDate and the resume rule: the day after the checkpoint, or the
\* configured start when there is no checkpoint.
ResumeFrom(s) == IF ckpt[s] = NotFound THEN BackfillFrom[s] ELSE ckpt[s] + 1

\* Mutant: the file is replaced by the new rows.
MergeCandlesReplaces(existing, incoming) == incoming

\* mergeCandles, of which only the days matter here.
MergeCandles(existing, incoming) == existing \cup incoming

\* PutObject of the rows as the whole new content of a file.
Upload(s, f, rows) == blob' = [blob EXCEPT ![s][f] = rows]

\* The upsert of extraction_state.
SetLastDate(s, day) == ckpt' = [ckpt EXCEPT ![s] = day]

-----------------------------------------------------------------------------
(* Steps of the surroundings.                                              *)

\* Midnight, UTC.
Tick ==
  /\ today <= LastDay
  /\ today' = today + 1
  /\ UNCHANGED <<blob, ckpt, replica, refused, up, ctxDone>>

\* Litestream copies the database every sync-interval.
Sync ==
  /\ up
  /\ replica' = ckpt
  /\ UNCHANGED <<blob, ckpt, refused, today, up, ctxDone>>

\* SIGTERM or SIGINT: the context of the running job is cancelled.
Cancel ==
  /\ up /\ ~ctxDone
  /\ ctxDone' = TRUE
  /\ UNCHANGED <<blob, ckpt, replica, refused, today, up>>

\* Stop has waited for the jobs; Litestream flushes before the container exits.
StorageExit ==
  /\ up /\ ctxDone
  /\ up' = FALSE
  /\ replica' = ckpt
  /\ UNCHANGED <<blob, ckpt, refused, today, ctxDone>>

\* The process is killed: nothing more reaches the replica.
StorageCrash ==
  /\ up
  /\ up' = FALSE
  /\ UNCHANGED <<blob, ckpt, replica, refused, today, ctxDone>>

\* start.sh deletes the local database and restores the replica.
Boot ==
  /\ ~up
  /\ up' = TRUE
  /\ ctxDone' = FALSE
  /\ ckpt' = replica
  /\ UNCHANGED <<blob, replica, refused, today>>
=============================================================================
