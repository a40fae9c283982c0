---------------------------- MODULE Incremental ----------------------------
(***************************************************************************)
(* The nightly incremental run (internal/extractor/incremental.go): the    *)
(* instruments snapshot, then an equity and a futures pass that fetch one  *)
(* day, the last trading day, of every listed series.  It never looks at   *)
(* the checkpoint it moves.  The options pass has checkpoints and files of *)
(* its own and is not part of this module.                                 *)
(***************************************************************************)
EXTENDS Storage, Sequences

CONSTANTS
  Passes,       \* the series of the equity pass and those of the futures pass
  NoSeries      \* no series is being fetched

VARIABLES
  step,      \* what the run does next
  day,       \* the last trading day when the run started
  passes,    \* the passes still to come
  waiting,   \* the series of the pass still to come
  inst,      \* the series at hand
  candles    \* candles fetched; once the file is downloaded, the merged rows

incVars == <<step, day, passes, waiting, inst, candles>>

IncTypeOK ==
  /\ step \in {"idle", "snapshot", "pass", "fetch", "download", "upload", "mark"}
  /\ day \in Int /\ day <= LastDay
  /\ passes \in Seq(SUBSET Series)
  /\ waiting \subseteq Series
  /\ inst \in Series \cup {NoSeries}
  /\ candles \subseteq Day

IncInit ==
  /\ step = "idle" /\ day = 0 /\ passes = <<>> /\ waiting = {}
  /\ inst = NoSeries /\ candles = {}

-----------------------------------------------------------------------------
(* Where control goes.                                                     *)

\* The series is done with, whether or not its day could be had.
NextSeries == step' = "fetch" /\ inst' = NoSeries /\ candles' = {}

\* The pass returns an error; Run logs it and goes on with the next pass.
EndIncPass ==
  /\ step' = "pass" /\ waiting' = {}
  /\ inst' = NoSeries /\ candles' = {}
  /\ UNCHANGED <<day, passes>>

NoRun ==
  /\ step' = "idle" /\ day' = 0 /\ passes' = <<>> /\ waiting' = {}
  /\ inst' = NoSeries /\ candles' = {}

-----------------------------------------------------------------------------
(* The run.                                                                *)

\* The token is valid or has been refreshed; otherwise nothing happens at all.
StartRun ==
  /\ step = "idle" /\ up /\ ~ctxDone
  /\ step' = "snapshot"
  /\ day' = LastTradingDay(today)
  /\ passes' = Passes
  /\ UNCHANGED <<storageVars, waiting, inst, candles>>

\* fetchAndStoreInstruments.
Snapshot ==
  /\ step = "snapshot" /\ ~ctxDone
  /\ step' = "pass"
  /\ UNCHANGED <<storageVars, day, passes, waiting, inst, candles>>

\* No snapshot, no passes.
SnapshotFails ==
  /\ step = "snapshot"
  /\ NoRun
  /\ UNCHANGED storageVars

\* The instruments of the pass are those that the snapshot lists; a query that
\* fails ends the pass, and what it had not reached yet is not fetched.
StartIncPass ==
  /\ step = "pass" /\ passes # <<>>
  /\ passes' = Tail(passes)
  /\ waiting' \in SUBSET Head(passes)
  /\ step' = "fetch"
  /\ UNCHANGED <<storageVars, day, inst, candles>>

EndRun ==
  /\ step = "pass" /\ passes = <<>>
  /\ NoRun
  /\ UNCHANGED storageVars

-----------------------------------------------------------------------------
(* One series.                                                             *)

NextIncPass ==
  /\ step = "fetch" /\ waiting = {}
  /\ EndIncPass
  /\ UNCHANGED storageVars

\* The window ends at the end of the day, so that of an intraday series it is
\* the whole session.  No candles, a holiday say, needs no file.
FetchDay ==
  /\ step = "fetch" /\ ~ctxDone
  /\ \E s \in waiting :
       /\ waiting' = waiting \ {s}
       /\ IF CandlesToEndOfDay(s, day) = {}
            THEN NextSeries
            ELSE step' = "download" /\ inst' = s /\ candles' = CandlesToEndOfDay(s, day)
  /\ UNCHANGED <<storageVars, day, passes>>

\* "(skipping)", without moving the checkpoint; a cancelled context shows up
\* here between two intervals of an instrument.
FetchDayFails ==
  /\ step = "fetch"
  /\ \E s \in waiting :
       /\ waiting' = waiting \ {s}
       /\ \/ FetchFaults /\ ~ctxDone /\ refused' = [refused EXCEPT ![s] = @ \cup ({day} \cap Day)]
          \/ ctxDone /\ UNCHANGED refused
  /\ NextSeries
  /\ UNCHANGED <<blob, ckpt, replica, today, up, ctxDone, day, passes>>

\* isAuthError, or the context is done before the next instrument.
AbandonIncPass ==
  /\ step = "fetch" /\ waiting # {}
  /\ EndIncPass
  /\ UNCHANGED storageVars

DownloadDay ==
  /\ step = "download" /\ ~ctxDone
  /\ step' = "upload"
  /\ candles' = MergeCandles(blob[inst][FileOf(inst, day)], candles)
  /\ UNCHANGED <<storageVars, day, passes, waiting, inst>>

UploadDay ==
  /\ step = "upload" /\ ~ctxDone
  /\ Upload(inst, FileOf(inst, day), candles)
  /\ step' = "mark"
  /\ UNCHANGED <<ckpt, replica, refused, today, up, ctxDone, day, passes, waiting,
                 inst, candles>>

\* The error is logged and the series skipped; R2 may have kept the file.
AppendDayFails ==
  /\ step \in {"download", "upload"}
  /\ \/ UNCHANGED blob
     \/ step = "upload" /\ Upload(inst, FileOf(inst, day), candles)
  /\ NextSeries
  /\ UNCHANGED <<ckpt, replica, refused, today, up, ctxDone, day, passes, waiting>>

\* The checkpoint becomes the day, wherever it was before.
MarkDay ==
  /\ step = "mark"
  /\ SetLastDate(inst, day)
  /\ NextSeries
  /\ UNCHANGED <<blob, replica, refused, today, up, ctxDone, day, passes, waiting>>

MarkDayFails ==
  /\ step = "mark"
  /\ EndIncPass
  /\ UNCHANGED storageVars

IncStep ==
  \/ Snapshot \/ SnapshotFails \/ StartIncPass \/ EndRun
  \/ NextIncPass \/ FetchDay \/ FetchDayFails \/ AbandonIncPass
  \/ DownloadDay \/ UploadDay \/ AppendDayFails \/ MarkDay \/ MarkDayFails
=============================================================================
