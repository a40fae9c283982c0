---------------------------- MODULE OptionsJobs ----------------------------
(***************************************************************************)
(* The nightly run and the backfill of options over one archive and one    *)
(* table of checkpoints.  Cron starts each job in a goroutine of its own   *)
(* (cron.go:35-44) and a backfill is also run by hand beside the service:  *)
(* nothing in the code keeps the two apart, and appending to an options    *)
(* file is the same download, merge and upload as for equity.  As in       *)
(* Extraction, MayOverlap = FALSE assumes a schedule that does.            *)
(*                                                                         *)
(* Either run is an instance of Options, with variables of its own for     *)
(* what the goroutine keeps.  Not modelled: two backfills at a time, or a  *)
(* nightly run that lasts into the next night.                             *)
(***************************************************************************)
EXTENDS OptionsFiles

CONSTANT
  MayOverlap    \* whether one run may start while the other is on its way

ASSUME MayOverlapAssumption == MayOverlap \in BOOLEAN

VARIABLES
  book, ckpt, listed, saved, savedList, refused, today, ctxDone,
  \* the nightly run
  nPc, nightly, nEnd, nQueue, nCur, nContracts, nStartFrom, nFrom, nTo, nSub, nPending,
  nAllOK, nRows,
  \* the backfill, weekly or by hand
  wPc, wEnd, wQueue, wCur, wContracts, wStartFrom, wFrom, wTo, wSub, wPending, wAllOK, wRows

nightVars ==
  <<nPc, nightly, nEnd, nQueue, nCur, nContracts, nStartFrom, nFrom, nTo, nSub, nPending,
    nAllOK, nRows>>
weekVars ==
  <<wPc, wEnd, wQueue, wCur, wContracts, wStartFrom, wFrom, wTo, wSub, wPending, wAllOK, wRows>>
vars ==
  <<book, ckpt, listed, saved, savedList, refused, today, ctxDone, nightVars, weekVars>>

N == INSTANCE Options WITH
  pc <- nPc, end <- nEnd, queue <- nQueue, cur <- nCur,
  contracts <- nContracts, startFrom <- nStartFrom, from <- nFrom, to <- nTo,
  sub <- nSub, pending <- nPending, allOK <- nAllOK, rows <- nRows

W == INSTANCE Options WITH
  pc <- wPc, nightly <- ~TRUE, end <- wEnd, queue <- wQueue, cur <- wCur,
  contracts <- wContracts, startFrom <- wStartFrom, from <- wFrom, to <- wTo,
  sub <- wSub, pending <- wPending, allOK <- wAllOK, rows <- wRows

TypeOK == N!TypeOK /\ W!TypeOK

Init == N!Init /\ W!Init

StartNightly == (MayOverlap \/ wPc = "idle") /\ N!StartNightly /\ UNCHANGED weekVars

StartBackfill == (MayOverlap \/ nPc = "idle") /\ W!StartBackfill /\ UNCHANGED nightVars

NightlyStep == N!RunStep /\ UNCHANGED weekVars

BackfillStep == W!RunStep /\ UNCHANGED nightVars

\* A job that stores a snapshot and walks no options is a job all the same.
Snapshot ==
  /\ MayOverlap \/ (nPc = "idle" /\ wPc = "idle")
  /\ N!Snapshot
  /\ UNCHANGED weekVars

Around == (N!Tick \/ N!Sync \/ N!Cancel) /\ UNCHANGED weekVars

\* Both runs end with the process.
Restart == N!Restart /\ W!NoRun

Next ==
  \/ StartNightly \/ StartBackfill
  \/ NightlyStep \/ BackfillStep
  \/ Snapshot \/ Around \/ Restart

\* Both goroutines keep running: every external call returns.
Spec ==
  /\ Init /\ [][Next]_vars
  /\ WF_vars(NightlyStep) /\ WF_vars(BackfillStep)

-----------------------------------------------------------------------------
(* Properties.  The four that follow BooksOK are of runs that do not       *)
(* overlap: with MayOverlap = TRUE the code violates them.                 *)

\* A row is in the file of its own day, Kite has it, and no two rows of a file
\* share a key (options.go:140, writer.go:64-75).
BooksOK == N!BooksOK

\* While the runs do not overlap, no candle of a contract leaves its file,
\* whatever they fetch again, retry or leave half done (writer.go:30-39).
KeysNeverLost == N!KeysNeverLost

\* While the runs do not overlap, a run moves a checkpoint over days that are in
\* the file for every contract of the list that its walk began with: "Only
\* advance checkpoint if every contract fetch succeeded" (options.go:152).
CleanChunk == N!CleanChunk /\ W!CleanChunk

\* While the runs do not overlap, a contract that every snapshot lists gets a
\* silent gap in a daily series in one way only, whatever nights were missed,
\* refused, cut short or rolled back: a nightly run found no checkpoint, and the
\* gap is before its day (options.go:53-58, incremental.go:96-105).
GapsPredateNightly == N!GapsPredateNightly

\* When a walk of a daily series that nobody has cancelled is over, in either run,
\* every day it set out for is accounted for, for every contract it knew of
\* (options.go:92-159).
WalkFills == N!WalkFills /\ W!WalkFills

\* Either run ends, whatever fails on the way (options.go:28-50).
RunEnds == N!RunEnds /\ W!RunEnds

\* "This is correct for both index and stock options" (options.go:166-168): the
\* file of an underlying holds the contracts of that underlying only.
OwnContractsOnly == N!OwnContractsOnly
=============================================================================
