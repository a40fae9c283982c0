-------------------------- MODULE ExtractionProofs --------------------------
(***************************************************************************)
(* The two jobs over one archive, for every value of the constants.  What  *)
(* BackfillProofs shows of one step of the backfill is used here as it     *)
(* is: a step of Extraction is one of the backfill, or of the process, or  *)
(* of the incremental run, which leaves the walk of the backfill alone.    *)
(***************************************************************************)
EXTENDS Extraction, TLAPS

Walk == INSTANCE BackfillProofs

-----------------------------------------------------------------------------
(* The invariants.                                                         *)

\* Where the incremental run stands; a dead process has none.
IncCursors ==
  /\ ~up => step = "idle"
  /\ step \in {"download", "upload", "mark"} => inst \in Series /\ day \in Market[inst]

\* The candles in memory belong to the file of the day.
IncRows ==
  step \in {"download", "upload"} =>
    \A d \in candles : d \in Market[inst] /\ FileOf(inst, d) = FileOf(inst, day)

\* What holds of the two jobs however they overlap.
SharedInv == Walk!FilesInv /\ INC!IncTypeOK /\ IncCursors /\ IncRows

\* Only one job runs ...
Apart == pc = "idle" \/ step = "idle"

\* ... so that an upload has everything that the file it replaces holds.
IncMerged == step = "upload" => blob[inst][FileOf(inst, day)] \subseteq candles

MergedInv == SharedInv /\ Apart /\ Walk!AheadOfCkpt /\ Walk!RowsMerged /\ IncMerged

\* The last trading day is where every checkpoint, its copy and the running job
\* end; the run's own day is no earlier than any checkpoint.
DatesOK ==
  /\ \A s \in Series : /\ ckpt[s] = NotFound \/ ckpt[s] <= LastTradingDay(today)
                       /\ replica[s] = NotFound \/ replica[s] <= LastTradingDay(today)
  /\ pc # "idle" => end <= LastTradingDay(today)
  /\ step # "idle" =>
       /\ day <= LastTradingDay(today)
       /\ \A s \in Series : ckpt[s] = NotFound \/ ckpt[s] <= day

\* The day of the run is in memory before it is in the archive, and there before
\* the checkpoint moves.
DayAtHand ==
  /\ step \in {"download", "upload"} => day \in candles
  /\ step = "mark" => Stored(inst, day)

JumpInv == MergedInv /\ Walk!WalkInv /\ DayAtHand

-----------------------------------------------------------------------------
(* The backfill as Extraction and as the lemmas of BackfillProofs see it.  *)

LEMMA WalkAssumptions ==
  Walk!StorageAssumption /\ Walk!PeriodAssumption /\ Walk!JobsAssumption
<1>1. Walk!StorageAssumption
  BY StorageAssumption
     DEF Walk!StorageAssumption, Walk!IsFiniteSet, IsFiniteSet, Walk!Day, Day
<1>2. Walk!PeriodAssumption
  BY PeriodAssumption DEF Walk!PeriodAssumption, Walk!Day, Day
<1>3. Walk!JobsAssumption
  BY ExtractionAssumption DEF Walk!JobsAssumption
<1>4. QED
  BY <1>1, <1>2, <1>3

LEMMA SameState ==
  /\ BF!TypeOK <=> Walk!TypeOK
  /\ BF!Init <=> Walk!Init
  /\ BF!NoPass <=> Walk!NoPass
  /\ \A s, d : FileOf(s, d) = Walk!FileOf(s, d)
  /\ \A s, d : Stored(s, d) <=> Walk!Stored(s, d)
  /\ \A s, d : BF!Accounted(s, d) <=> Walk!Accounted(s, d)
  /\ \A s, d : BF!Promised(s, d) = Walk!Promised(s, d)
<1>1. BF!TypeOK <=> Walk!TypeOK
  BY DEF BF!TypeOK, Walk!TypeOK, BF!PassTypeOK, Walk!PassTypeOK, BF!StorageTypeOK,
     Walk!StorageTypeOK, BF!Day, Walk!Day, BF!NotFound, Walk!NotFound
<1>2. BF!Init <=> Walk!Init
  BY DEF BF!Init, Walk!Init, BF!StorageInit, Walk!StorageInit, BF!Day, Walk!Day,
     BF!NotFound, Walk!NotFound
<1>3. BF!NoPass <=> Walk!NoPass
  BY DEF BF!NoPass, Walk!NoPass, BF!ClearWalk, Walk!ClearWalk
<1>4. \A s, d : FileOf(s, d) = Walk!FileOf(s, d)
  BY DEF FileOf, Walk!FileOf
<1>5. \A s, d : Stored(s, d) <=> Walk!Stored(s, d)
  BY DEF Stored, FileOf, Walk!Stored, Walk!FileOf
<1>6. \A s, d : BF!Accounted(s, d) <=> Walk!Accounted(s, d)
  BY DEF BF!Accounted, BF!Stored, BF!FileOf, Walk!Accounted, Walk!Stored, Walk!FileOf
<1>7. \A s, d : BF!Promised(s, d) = Walk!Promised(s, d)
  BY DEF BF!Promised, Walk!Promised
<1>8. QED
  BY <1>1, <1>2, <1>3, <1>4, <1>5, <1>6, <1>7

LEMMA SameCalls ==
  /\ BF!EndJob <=> Walk!EndJob
  /\ BF!NextSub <=> Walk!NextSub
  /\ BF!Slice = Walk!Slice
  /\ \A s, f, r : BF!Upload(s, f, r) <=> Walk!Upload(s, f, r)
  /\ \A s, d : BF!FileOf(s, d) = Walk!FileOf(s, d)
  /\ \A s : BF!ResumeFrom(s) = Walk!ResumeFrom(s)
  /\ \A s, d, e : BF!CandlesToMidnight(s, d, e) = Walk!CandlesToMidnight(s, d, e)
<1>1. BF!EndJob <=> Walk!EndJob
  BY DEF BF!EndJob, Walk!EndJob, BF!ClearWalk, Walk!ClearWalk
<1>2. BF!Slice = Walk!Slice
  BY DEF BF!Slice, Walk!Slice, BF!SliceEnd, Walk!SliceEnd, BF!Lesser, Walk!Lesser
<1>3. BF!NextSub <=> Walk!NextSub
  BY <1>2 DEF BF!NextSub, Walk!NextSub
<1>4. /\ \A s, f, r : BF!Upload(s, f, r) <=> Walk!Upload(s, f, r)
      /\ \A s, d : BF!FileOf(s, d) = Walk!FileOf(s, d)
  BY DEF BF!Upload, Walk!Upload, BF!FileOf, Walk!FileOf
<1>5. \A s : BF!ResumeFrom(s) = Walk!ResumeFrom(s)
  BY DEF BF!ResumeFrom, Walk!ResumeFrom, BF!NotFound, Walk!NotFound
<1>6. \A s, d, e : BF!CandlesToMidnight(s, d, e) = Walk!CandlesToMidnight(s, d, e)
  BY DEF BF!CandlesToMidnight, Walk!CandlesToMidnight, BF!DaysToMidnight,
     Walk!DaysToMidnight
<1>7. QED
  BY <1>1, <1>2, <1>3, <1>4, <1>5, <1>6

\* A step of the backfill's goroutine is one to the lemmas too.
LEMMA SameWalk ==
  /\ BF!StartPass => Walk!StartPass
  /\ BF!PassStep => Walk!PassStep
<1> USE SameState, SameCalls
<1> USE DEF BF!storageVars, Walk!storageVars, BF!passVars, Walk!passVars, BF!walkVars,
            Walk!walkVars, BF!chunkVars, Walk!chunkVars
<1>1. BF!StartPass => Walk!StartPass
  BY DEF BF!StartPass, Walk!StartPass, BF!LastTradingDay, Walk!LastTradingDay
<1>2. BF!StartJob => Walk!StartJob
  BY DEF BF!StartJob, Walk!StartJob
<1>3. BF!EndPass => Walk!EndPass
  BY DEF BF!EndPass, Walk!EndPass
<1>4. BF!LoadExchange => Walk!LoadExchange
  BY DEF BF!LoadExchange, Walk!LoadExchange
<1>5. BF!LeaveJob => Walk!LeaveJob
  BY DEF BF!LeaveJob, Walk!LeaveJob
<1>6. BF!StartInstrument => Walk!StartInstrument
  BY DEF BF!StartInstrument, Walk!StartInstrument
<1>7. BF!AbandonInstruments => Walk!AbandonInstruments
  BY DEF BF!AbandonInstruments, Walk!AbandonInstruments
<1>8. BF!NextExchange => Walk!NextExchange
  BY DEF BF!NextExchange, Walk!NextExchange
<1>9. BF!StartChunk => Walk!StartChunk
  BY DEF BF!StartChunk, Walk!StartChunk, BF!ChunkEnd, Walk!ChunkEnd, BF!Lesser, Walk!Lesser
<1>10. BF!AbandonChunks => Walk!AbandonChunks
  BY DEF BF!AbandonChunks, Walk!AbandonChunks
<1>11. BF!EndInstrument => Walk!EndInstrument
  BY DEF BF!EndInstrument, Walk!EndInstrument, BF!ClearWalk, Walk!ClearWalk
<1>12. BF!Fetch => Walk!Fetch
  BY DEF BF!Fetch, Walk!Fetch
<1>13. BF!FetchFails => Walk!FetchFails
  BY DEF BF!FetchFails, Walk!FetchFails
<1>14. BF!AuthError => Walk!AuthError
  BY DEF BF!AuthError, Walk!AuthError
<1>15. BF!Download => Walk!Download
  BY DEF BF!Download, Walk!Download, BF!MergeCandles, Walk!MergeCandles
<1>16. BF!UploadRows => Walk!UploadRows
  BY DEF BF!UploadRows, Walk!UploadRows
<1>17. BF!AppendFails => Walk!AppendFails
  BY DEF BF!AppendFails, Walk!AppendFails
<1>18. BF!EndChunk => Walk!EndChunk
  BY DEF BF!EndChunk, Walk!EndChunk, BF!AfterChunk, Walk!AfterChunk, BF!ChunkOK,
     Walk!ChunkOK, BF!SetLastDate, Walk!SetLastDate
<1>19. BF!CheckpointFails => Walk!CheckpointFails
  BY DEF BF!CheckpointFails, Walk!CheckpointFails, BF!ChunkOK, Walk!ChunkOK
<1>20. BF!WalkStep => Walk!WalkStep
  BY <1>6, <1>7, <1>8, <1>9, <1>10, <1>11, <1>12, <1>13, <1>14, <1>15, <1>16, <1>17,
     <1>18, <1>19 DEF BF!WalkStep, Walk!WalkStep
<1>21. BF!PassStep => Walk!PassStep
  BY <1>2, <1>3, <1>4, <1>5, <1>20 DEF BF!PassStep, Walk!PassStep
<1>22. QED
  BY <1>1, <1>21

\* The steps of one job, of the other, and of the process and its surroundings.
WalkMoves == StartWeekly \/ BackfillStep

RunMoves == StartNightly \/ IncrementalStep

OthersMove == Exit \/ Crash \/ Around \/ UNCHANGED vars

LEMMA EveryStep == [Next]_vars => WalkMoves \/ RunMoves \/ OthersMove
BY DEF Next, WalkMoves, RunMoves, OthersMove

\* All but the run's are steps of the backfill to the lemmas.
LEMMA SameSteps ==
  ASSUME WalkMoves \/ OthersMove
  PROVE  [Walk!Next]_(Walk!vars)
<1> USE DEF Walk!Next, Walk!vars, Walk!storageVars, Walk!bfVars, Walk!passVars,
            Walk!walkVars, Walk!chunkVars, storageVars, bfVars
<1>1. CASE WalkMoves
  BY <1>1, SameWalk DEF WalkMoves, StartWeekly, BackfillStep
<1>2. CASE Exit
  BY <1>2 DEF Exit, StorageExit, Walk!Exit, Walk!StorageExit
<1>3. CASE Crash
  BY <1>3, SameState DEF Crash, StorageCrash, Walk!Crash, Walk!StorageCrash
<1>4. CASE Around
  BY <1>4 DEF Around, Tick, Sync, Cancel, Boot, Walk!Around, Walk!Tick, Walk!Sync,
     Walk!Cancel, Walk!Boot
<1>5. CASE UNCHANGED vars
  BY <1>5 DEF vars
<1>6. QED
  BY <1>1, <1>2, <1>3, <1>4, <1>5 DEF OthersMove

\* What a step of the backfill leaves alone.
LEMMA WalkLeaves == WalkMoves => UNCHANGED <<replica, today, up, ctxDone, incVars>>
BY DEF WalkMoves, StartWeekly, BackfillStep, BF!StartPass, BF!PassStep, BF!StartJob,
   BF!EndPass, BF!LoadExchange, BF!LeaveJob, BF!WalkStep, BF!StartInstrument,
   BF!AbandonInstruments, BF!NextExchange, BF!StartChunk, BF!AbandonChunks,
   BF!EndInstrument, BF!Fetch, BF!FetchFails, BF!AuthError, BF!Download,
   BF!UploadRows, BF!AppendFails, BF!EndChunk, BF!CheckpointFails, BF!storageVars

\* What the process and its surroundings do to the archive and to the two jobs.
LEMMA OthersLeave ==
  ASSUME OthersMove
  PROVE  /\ UNCHANGED <<blob, refused>>
         /\ \/ UNCHANGED <<bfVars, incVars>>
               /\ (~up' => ~up \/ (pc = "idle" /\ step = "idle"))
            \/ pc' = "idle" /\ INC!NoRun
         /\ ckpt' = ckpt \/ (ckpt' = replica /\ ~up)
         /\ replica' = replica \/ replica' = ckpt
BY DEF OthersMove, Exit, StorageExit, Crash, StorageCrash, Around, Tick, Sync, Cancel,
   Boot, vars, storageVars, BF!NoPass

-----------------------------------------------------------------------------
(* The steps of the incremental run.                                       *)

LEMMA SharedTypes ==
  ASSUME SharedInv
  PROVE  /\ blob \in [Series -> [Day -> SUBSET Day]]
         /\ ckpt \in [Series -> Day \cup {NotFound}]
         /\ replica \in [Series -> Day \cup {NotFound}]
         /\ refused \in [Series -> SUBSET Day]
         /\ today \in 1 .. LastDay + 1
         /\ candles \subseteq Day
BY DEF SharedInv, Walk!FilesInv, Walk!TypeOK, Walk!StorageTypeOK, Walk!Day, Day,
   Walk!NotFound, NotFound, INC!IncTypeOK, INC!Day

\* What the run's steps write.
LEMMA RunWrites ==
  ASSUME SharedInv, RunMoves
  PROVE  /\ \/ blob' = blob
            \/ /\ step = "upload" /\ inst \in Series /\ FileOf(inst, day) \in Day
               /\ blob' = [blob EXCEPT ![inst][FileOf(inst, day)] = candles]
         /\ \/ ckpt' = ckpt
            \/ /\ step = "mark" /\ inst \in Series /\ day \in Day
               /\ ckpt' = [ckpt EXCEPT ![inst] = day]
         /\ UNCHANGED <<replica, today, up, ctxDone>>
<1>1. step \in {"download", "upload", "mark"} =>
        inst \in Series /\ day \in Day /\ FileOf(inst, day) \in Day
  BY StorageAssumption DEF SharedInv, IncCursors, FileOf
<1>2. CASE INC!UploadDay \/ INC!AppendDayFails
  BY <1>1, <1>2 DEF INC!UploadDay, INC!AppendDayFails, INC!Upload, INC!FileOf, FileOf
<1>3. CASE INC!MarkDay
  BY <1>1, <1>3 DEF INC!MarkDay, INC!SetLastDate
<1>4. CASE ~(INC!UploadDay \/ INC!AppendDayFails \/ INC!MarkDay)
  BY <1>4 DEF RunMoves, StartNightly, IncrementalStep, INC!StartRun, INC!IncStep, INC!Snapshot, INC!SnapshotFails,
     INC!StartIncPass, INC!EndRun, INC!NextIncPass, INC!FetchDay, INC!FetchDayFails,
     INC!AbandonIncPass, INC!DownloadDay, INC!MarkDayFails, INC!storageVars
<1>5. QED
  BY <1>2, <1>3, <1>4

LEMMA RunReports ==
  ASSUME SharedInv, RunMoves
  PROVE  /\ refused' \in [Series -> SUBSET Day]
         /\ \A s \in Series : refused[s] \subseteq refused'[s]
<1>1. refused \in [Series -> SUBSET Day]
  BY SharedTypes
<1>2. CASE INC!FetchDayFails
  <2>1. waiting \subseteq Series
    BY DEF SharedInv, INC!IncTypeOK
  <2>2. PICK s \in waiting :
          \/ refused' = [refused EXCEPT ![s] = refused[s] \cup ({day} \cap Day)]
          \/ refused' = refused
    BY <1>2 DEF INC!FetchDayFails, INC!Day, Day
  <2>3. s \in Series
    BY <2>1
  <2>4. QED
    BY <1>1, <2>2, <2>3
<1>3. CASE ~INC!FetchDayFails
  <2>1. refused' = refused
    BY <1>3 DEF RunMoves, StartNightly, IncrementalStep, INC!StartRun, INC!IncStep, INC!Snapshot, INC!SnapshotFails,
       INC!StartIncPass, INC!EndRun, INC!NextIncPass, INC!FetchDay,
       INC!AbandonIncPass, INC!DownloadDay, INC!UploadDay, INC!AppendDayFails,
       INC!MarkDay, INC!MarkDayFails, INC!storageVars
  <2>2. QED
    BY <1>1, <2>1
<1>4. QED
  BY <1>2, <1>3

LEMMA LastTradingDayInRange ==
  ASSUME NEW t \in 1 .. LastDay + 1
  PROVE  LastTradingDay(t) \in Int /\ LastTradingDay(t) <= LastDay
<1>1. LastDay \in Int
  BY StorageAssumption
<1>2. (t - 1) % 7 = 6 => LastTradingDay(t) = t - 2
  BY DEF LastTradingDay
<1>3. (t - 1) % 7 = 0 => LastTradingDay(t) = t - 3
  BY <1>1 DEF LastTradingDay
<1>4. (t - 1) % 7 \notin {0, 6} => LastTradingDay(t) = t - 1
  BY DEF LastTradingDay
<1>5. QED
  BY <1>1, <1>2, <1>3, <1>4

LEMMA RunTypes ==
  ASSUME SharedInv, RunMoves
  PROVE  INC!IncTypeOK'
<1> USE DEF SharedInv, INC!IncTypeOK
<1>1. CASE INC!StartRun
  <2>1. today \in 1 .. LastDay + 1
    BY SharedTypes
  <2>2. day' = LastTradingDay(today)
    BY <1>1 DEF INC!StartRun, INC!LastTradingDay, LastTradingDay
  <2>3. day' \in Int /\ day' <= LastDay
    BY <2>1, <2>2, LastTradingDayInRange
  <2>4. passes' \in Seq(SUBSET Series)
    BY <1>1, ExtractionAssumption DEF INC!StartRun
  <2>5. QED
    BY <1>1, <2>3, <2>4 DEF INC!StartRun
<1>2. CASE INC!StartIncPass
  <2>1. passes' \in Seq(SUBSET Series) /\ Head(passes) \in SUBSET Series
    BY <1>2 DEF INC!StartIncPass
  <2>2. QED
    BY <1>2, <2>1 DEF INC!StartIncPass
<1>3. CASE INC!FetchDay
  <2>1. PICK s \in waiting :
          /\ waiting' = waiting \ {s}
          /\ \/ step' = "fetch" /\ inst' = NoSeries /\ candles' = {}
             \/ step' = "download" /\ inst' = s /\ candles' = INC!CandlesToEndOfDay(s, day)
    BY <1>3 DEF INC!FetchDay, INC!NextSeries
  <2>2. s \in Series /\ INC!CandlesToEndOfDay(s, day) \subseteq INC!Day
    BY <2>1, StorageAssumption DEF INC!CandlesToEndOfDay, INC!Day, Day
  <2>3. UNCHANGED <<day, passes>>
    BY <1>3 DEF INC!FetchDay
  <2>4. QED
    BY <2>1, <2>2, <2>3
<1>4. CASE INC!DownloadDay
  <2>1. inst \in Series /\ FileOf(inst, day) \in Day
    BY <1>4, StorageAssumption DEF INC!DownloadDay, IncCursors, FileOf
  <2>2. blob[inst][FileOf(inst, day)] \subseteq Day
    BY <2>1, SharedTypes
  <2>3. candles' = blob[inst][FileOf(inst, day)] \cup candles
    BY <1>4 DEF INC!DownloadDay, INC!MergeCandles, INC!FileOf, FileOf
  <2>4. QED
    BY <1>4, <2>2, <2>3 DEF INC!DownloadDay, INC!Day, Day
<1>5. CASE INC!FetchDayFails
  BY <1>5 DEF INC!FetchDayFails, INC!NextSeries
<1>6. CASE INC!SnapshotFails \/ INC!EndRun
  <2>1. passes' = <<>> /\ day' = 0
    BY <1>6 DEF INC!SnapshotFails, INC!EndRun, INC!NoRun
  <2>2. passes' \in Seq(SUBSET Series) /\ day' \in Int /\ day' <= LastDay
    BY <2>1, StorageAssumption
  <2>3. QED
    BY <1>6, <2>2 DEF INC!SnapshotFails, INC!EndRun, INC!NoRun
<1>7. CASE ~(INC!StartRun \/ INC!StartIncPass \/ INC!FetchDay \/ INC!DownloadDay
             \/ INC!FetchDayFails \/ INC!SnapshotFails \/ INC!EndRun)
  <2>1. UNCHANGED <<day, passes>>
    BY <1>7 DEF RunMoves, StartNightly, IncrementalStep, INC!IncStep, INC!Snapshot, INC!NextIncPass,
       INC!AbandonIncPass, INC!UploadDay, INC!AppendDayFails, INC!MarkDay,
       INC!MarkDayFails, INC!EndIncPass
  <2>2. QED
    BY <1>7, <2>1 DEF RunMoves, StartNightly, IncrementalStep, INC!IncStep, INC!Snapshot, INC!NextIncPass,
       INC!AbandonIncPass, INC!UploadDay, INC!AppendDayFails, INC!MarkDay,
       INC!MarkDayFails, INC!EndIncPass, INC!NextSeries
<1>8. QED
  BY <1>1, <1>2, <1>3, <1>4, <1>5, <1>6, <1>7

LEMMA RunRows ==
  ASSUME SharedInv, RunMoves
  PROVE  IncCursors' /\ IncRows'
<1> USE DEF IncCursors, IncRows
<1>1. UNCHANGED <<up, ctxDone>>
  BY RunWrites
<1>2. CASE INC!FetchDay
  <2>1. PICK s \in waiting :
          \/ step' = "fetch"
          \/ /\ step' = "download" /\ inst' = s /\ candles' = INC!CandlesToEndOfDay(s, day)
             /\ INC!CandlesToEndOfDay(s, day) # {}
    BY <1>2 DEF INC!FetchDay, INC!NextSeries
  <2>2. s \in Series /\ INC!CandlesToEndOfDay(s, day) = Market[s] \cap {day}
    BY <2>1 DEF SharedInv, INC!IncTypeOK, INC!CandlesToEndOfDay
  <2>3. day' = day /\ step = "fetch"
    BY <1>2 DEF INC!FetchDay
  <2>4. QED
    BY <1>1, <2>1, <2>2, <2>3 DEF SharedInv, FileOf
<1>3. CASE INC!DownloadDay
  <2>1. inst \in Series /\ FileOf(inst, day) \in Day
    BY <1>3, StorageAssumption DEF INC!DownloadDay, SharedInv, FileOf
  <2>2. \A d \in blob[inst][FileOf(inst, day)] :
          d \in Market[inst] /\ FileOf(inst, d) = FileOf(inst, day)
    BY <2>1 DEF SharedInv, Walk!FilesInv, Walk!OneFilePerDay, Walk!Day, Day,
       Walk!FileOf, FileOf
  <2>3. candles' = blob[inst][FileOf(inst, day)] \cup candles
    BY <1>3 DEF INC!DownloadDay, INC!MergeCandles, INC!FileOf, FileOf
  <2>4. UNCHANGED <<inst, day>> /\ step = "download"
    BY <1>3 DEF INC!DownloadDay
  <2>5. QED
    BY <1>1, <2>2, <2>3, <2>4 DEF SharedInv, FileOf
<1>4. CASE INC!UploadDay
  BY <1>1, <1>4 DEF INC!UploadDay, SharedInv
<1>5. CASE ~(INC!FetchDay \/ INC!DownloadDay \/ INC!UploadDay)
  <2>1. step' \notin {"download", "upload", "mark"}
    BY <1>5 DEF RunMoves, StartNightly, IncrementalStep, INC!StartRun, INC!IncStep, INC!Snapshot, INC!SnapshotFails,
       INC!StartIncPass, INC!EndRun, INC!NextIncPass, INC!FetchDayFails,
       INC!AbandonIncPass, INC!AppendDayFails, INC!MarkDay, INC!MarkDayFails,
       INC!EndIncPass, INC!NextSeries, INC!NoRun
  <2>2. ~up' => step' = "idle"
    BY <1>1, <1>5 DEF SharedInv, RunMoves, StartNightly, IncrementalStep, INC!StartRun, INC!IncStep, INC!Snapshot,
       INC!SnapshotFails, INC!StartIncPass, INC!EndRun, INC!NextIncPass,
       INC!FetchDayFails, INC!AbandonIncPass, INC!AppendDayFails, INC!MarkDay,
       INC!MarkDayFails
  <2>3. QED
    BY <2>1, <2>2
<1>6. QED
  BY <1>2, <1>3, <1>4, <1>5

\* What the run writes is what the backfill relies on in the files and checkpoints.
LEMMA RunFiles ==
  ASSUME SharedInv, RunMoves
  PROVE  Walk!FilesInv'
<1>1. Walk!StorageTypeOK'
  <2>1. blob' \in [Series -> [Day -> SUBSET Day]]
    <3>1. blob \in [Series -> [Day -> SUBSET Day]] /\ candles \in SUBSET Day
      BY SharedTypes
    <3>2. CASE inst \in Series /\ FileOf(inst, day) \in Day
      <4>1. [blob EXCEPT ![inst][FileOf(inst, day)] = candles]
              \in [Series -> [Day -> SUBSET Day]]
        BY ONLY <3>1, <3>2
      <4>2. QED
        BY <3>1, <4>1, RunWrites
    <3>3. QED
      BY <3>1, <3>2, RunWrites
  <2>2. ckpt' \in [Series -> Day \cup {NotFound}]
    BY SharedTypes, RunWrites
  <2>3. up' \in BOOLEAN /\ ctxDone' \in BOOLEAN
    BY RunWrites DEF SharedInv, Walk!FilesInv, Walk!TypeOK, Walk!StorageTypeOK
  <2>4. /\ replica' \in [Series -> Day \cup {NotFound}]
        /\ today' \in 1 .. LastDay + 1
        /\ refused' \in [Series -> SUBSET Day]
    BY SharedTypes, RunWrites, RunReports
  <2>5. QED
    BY <2>1, <2>2, <2>3, <2>4 DEF Walk!StorageTypeOK, Walk!Day, Day, Walk!NotFound, NotFound
<1>2. UNCHANGED <<pc, jobs, end, left, todo, cur, from, to, sub, allOK, rows, up>>
  BY RunWrites DEF RunMoves, StartNightly, IncrementalStep, bfVars
<1>3. Walk!PassTypeOK' /\ Walk!CursorsOK' /\ Walk!RowsOK'
  <2>1. Walk!PassTypeOK /\ Walk!CursorsOK /\ Walk!RowsOK
    BY DEF SharedInv, Walk!FilesInv, Walk!TypeOK
  <2>2. Walk!PassTypeOK'
    BY <1>2, <2>1 DEF Walk!PassTypeOK
  <2>3. Walk!CursorsOK'
    BY <1>2, <2>1 DEF Walk!CursorsOK, Walk!Walking, Walk!InChunk, Walk!InAppend
  <2>4. Walk!RowsOK'
    BY <1>2, <2>1 DEF Walk!RowsOK, Walk!InAppend, Walk!FileOf
  <2>5. QED
    BY <2>2, <2>3, <2>4
<1>4. Walk!OneFilePerDay'
  <2>1. \A s \in Series, f \in Day : \A d \in blob[s][f] :
          d \in Market[s] /\ FileOf(s, d) = f
    BY DEF SharedInv, Walk!FilesInv, Walk!OneFilePerDay, Walk!Day, Day, Walk!FileOf, FileOf
  <2>2. \A s \in Series, f \in Day : \A d \in blob'[s][f] :
          d \in Market[s] /\ FileOf(s, d) = f
    <3>1. CASE blob' = blob
      BY <2>1, <3>1
    <3>2. CASE /\ step = "upload" /\ inst \in Series /\ FileOf(inst, day) \in Day
               /\ blob' = [blob EXCEPT ![inst][FileOf(inst, day)] = candles]
      <4>1. \A d \in candles : d \in Market[inst] /\ FileOf(inst, d) = FileOf(inst, day)
        BY <3>2 DEF SharedInv, IncRows
      <4>2. QED
        BY <2>1, <3>2, <4>1, SharedTypes
    <3>3. QED
      BY <3>1, <3>2, RunWrites
  <2>3. QED
    BY <2>2 DEF Walk!OneFilePerDay, Walk!Day, Day, Walk!FileOf, FileOf
<1>5. QED
  BY <1>1, <1>3, <1>4 DEF Walk!FilesInv, Walk!TypeOK

-----------------------------------------------------------------------------
(* However the jobs overlap.                                               *)

LEMMA SharedInit == Init => SharedInv
<1> SUFFICES ASSUME Init PROVE SharedInv
  OBVIOUS
<1>1. Walk!FilesInv
  BY SameState, WalkAssumptions, Walk!FilesInit DEF Init
<1>2. INC!IncTypeOK
  <2>1. passes = <<>> /\ day = 0
    BY DEF Init, INC!IncInit
  <2>2. passes \in Seq(SUBSET Series) /\ day \in Int /\ day <= LastDay
    BY <2>1, StorageAssumption
  <2>3. QED
    BY <2>2 DEF Init, INC!IncInit, INC!IncTypeOK
<1>3. IncCursors /\ IncRows
  BY DEF Init, INC!IncInit, IncCursors, IncRows
<1>4. QED
  BY <1>1, <1>2, <1>3 DEF SharedInv

LEMMA SharedStep ==
  ASSUME SharedInv, [Next]_vars
  PROVE  SharedInv'
<1>1. CASE RunMoves
  BY <1>1, RunFiles, RunTypes, RunRows DEF SharedInv
<1>2. CASE WalkMoves \/ OthersMove
  <2>1. Walk!FilesInv'
    BY <1>2, SameSteps, WalkAssumptions, Walk!FilesStep DEF SharedInv
  <2>2. CASE UNCHANGED incVars /\ (~up' => ~up \/ step = "idle")
    <3>1. INC!IncTypeOK'
      BY <2>2 DEF SharedInv, incVars, INC!IncTypeOK
    <3>2. IncCursors' /\ IncRows'
      BY <2>2 DEF SharedInv, incVars, IncCursors, IncRows, FileOf
    <3>3. QED
      BY <2>1, <3>1, <3>2 DEF SharedInv
  <2>3. CASE INC!NoRun
    <3>1. passes' = <<>> /\ day' = 0
      BY <2>3 DEF INC!NoRun
    <3>2. passes' \in Seq(SUBSET Series) /\ day' \in Int /\ day' <= LastDay
      BY <3>1, StorageAssumption
    <3>3. INC!IncTypeOK'
      BY <2>3, <3>2 DEF INC!NoRun, INC!IncTypeOK
    <3>4. IncCursors' /\ IncRows'
      BY <2>3 DEF INC!NoRun, IncCursors, IncRows
    <3>5. QED
      BY <2>1, <3>3, <3>4 DEF SharedInv
  <2>4. QED
    BY <1>2, <2>2, <2>3, WalkLeaves, OthersLeave
<1>3. QED
  BY <1>1, <1>2, EveryStep

\* Type correctness of the two jobs together, also when they overlap.
THEOREM TypeCorrect == Spec => []TypeOK
<1>1. SharedInv /\ [Next]_vars => SharedInv'
  BY SharedStep
<1>2. SharedInv => TypeOK
  BY SameState DEF SharedInv, Walk!FilesInv, TypeOK
<1>3. QED
  BY SharedInit, <1>1, <1>2, PTL DEF Spec

\* However the two jobs overlap, fail and are killed, a file never holds a candle
\* that Kite does not have or that is of another period.
THEOREM FilesCorrect == Spec => []OneFilePerDay
<1>1. SharedInv /\ [Next]_vars => SharedInv'
  BY SharedStep
<1>2. SharedInv => OneFilePerDay
  BY DEF SharedInv, Walk!FilesInv, Walk!OneFilePerDay, OneFilePerDay, Walk!Day, Day,
     Walk!FileOf, FileOf
<1>3. QED
  BY SharedInit, <1>1, <1>2, PTL DEF Spec

-----------------------------------------------------------------------------
(* While the jobs do not overlap.                                          *)

LEMMA MergedInit == Init => MergedInv
BY SharedInit, WalkAssumptions, SameState, Walk!AloneInit
   DEF Init, INC!IncInit, BF!Init, MergedInv, Apart, IncMerged

\* While one job moves the other is idle.
LEMMA TakesTurns ==
  ASSUME ~MayOverlap, Apart, [Next]_vars
  PROVE  /\ Apart'
         /\ WalkMoves => step = "idle" /\ step' = "idle"
         /\ RunMoves => pc = "idle" /\ pc' = "idle"
<1>1. WalkMoves => step = "idle" /\ step' = "idle"
  BY DEF WalkMoves, Apart, StartWeekly, BackfillStep, incVars, BF!PassStep, BF!StartJob,
     BF!EndPass, BF!LoadExchange, BF!LeaveJob, BF!WalkStep, BF!StartInstrument,
     BF!AbandonInstruments, BF!NextExchange, BF!StartChunk, BF!AbandonChunks,
     BF!EndInstrument, BF!Fetch, BF!FetchFails, BF!AuthError, BF!Download,
     BF!UploadRows, BF!AppendFails, BF!EndChunk, BF!CheckpointFails
<1>2. RunMoves => pc = "idle" /\ pc' = "idle"
  BY DEF RunMoves, Apart, StartNightly, IncrementalStep, bfVars, INC!IncStep, INC!Snapshot,
     INC!SnapshotFails, INC!StartIncPass, INC!EndRun, INC!NextIncPass, INC!FetchDay,
     INC!FetchDayFails, INC!AbandonIncPass, INC!DownloadDay, INC!UploadDay,
     INC!AppendDayFails, INC!MarkDay, INC!MarkDayFails
<1>3. OthersMove => Apart'
  BY OthersLeave DEF Apart, bfVars, incVars
<1>4. QED
  BY <1>1, <1>2, <1>3, EveryStep DEF Apart

LEMMA RunMerges ==
  ASSUME SharedInv, IncMerged, RunMoves
  PROVE  /\ IncMerged'
         /\ \A s \in Series, f \in Day : blob[s][f] \subseteq blob'[s][f]
<1>1. IncMerged'
  <2>1. CASE INC!DownloadDay
    BY <2>1 DEF INC!DownloadDay, INC!MergeCandles, INC!FileOf, INC!storageVars, IncMerged,
       FileOf
  <2>2. CASE ~INC!DownloadDay
    <3>1. step' # "upload"
      BY <2>2 DEF RunMoves, StartNightly, IncrementalStep, INC!StartRun, INC!IncStep,
         INC!Snapshot, INC!SnapshotFails, INC!StartIncPass, INC!EndRun, INC!NextIncPass,
         INC!FetchDay, INC!FetchDayFails, INC!AbandonIncPass, INC!UploadDay,
         INC!AppendDayFails, INC!MarkDay, INC!MarkDayFails, INC!EndIncPass,
         INC!NextSeries, INC!NoRun
    <3>2. QED
      BY <3>1 DEF IncMerged
  <2>3. QED
    BY <2>1, <2>2
<1>2. CASE blob' = blob
  BY <1>1, <1>2
<1>3. CASE /\ step = "upload" /\ inst \in Series /\ FileOf(inst, day) \in Day
           /\ blob' = [blob EXCEPT ![inst][FileOf(inst, day)] = candles]
  <2>1. blob[inst][FileOf(inst, day)] \subseteq candles
    BY <1>3 DEF IncMerged
  <2>2. blob \in [Series -> [Day -> SUBSET Day]]
    BY SharedTypes
  <2>3. QED
    BY <1>1, <1>3, <2>1, <2>2
<1>4. QED
  BY <1>2, <1>3, RunWrites

LEMMA MergedStep ==
  ASSUME ~MayOverlap, MergedInv, [Next]_vars
  PROVE  /\ MergedInv'
         /\ \A s \in Series, f \in Day : blob[s][f] \subseteq blob'[s][f]
<1> USE DEF MergedInv
<1>1. SharedInv' /\ Apart'
  BY SharedStep, TakesTurns
<1>2. CASE RunMoves
  <2>1. pc' = "idle"
    BY <1>2, TakesTurns
  <2>2. Walk!AheadOfCkpt' /\ Walk!RowsMerged'
    BY <2>1 DEF Walk!AheadOfCkpt, Walk!RowsMerged, Walk!Walking
  <2>3. QED
    BY <1>1, <1>2, <2>2, RunMerges
<1>3. CASE WalkMoves \/ OthersMove
  <2>1. Walk!AheadOfCkpt' /\ Walk!RowsMerged'
    BY <1>3, SameSteps, WalkAssumptions, Walk!AloneStep DEF SharedInv
  <2>2. IncMerged'
    <3>1. CASE WalkMoves
      BY <3>1, TakesTurns DEF IncMerged
    <3>2. CASE OthersMove
      BY <3>2, OthersLeave DEF IncMerged, incVars, INC!NoRun, FileOf
    <3>3. QED
      BY <1>3, <3>1, <3>2
  <2>3. \A s \in Series, f \in Walk!Day : blob[s][f] \subseteq blob'[s][f]
    BY <1>3, SameSteps, WalkAssumptions, Walk!FilesGrow DEF SharedInv
  <2>4. QED
    BY <1>1, <2>1, <2>2, <2>3 DEF Walk!Day, Day
<1>4. QED
  BY <1>2, <1>3, EveryStep

\* With the jobs apart, neither ever takes a candle out of the archive.
THEOREM ArchiveGrows == ASSUME ~MayOverlap PROVE Spec => RowsNeverLost
<1>1. MergedInv /\ [Next]_vars => MergedInv'
  BY MergedStep
<1>2. MergedInv /\ [Next]_vars =>
        [\A s \in Series, f \in Day : blob[s][f] \subseteq blob'[s][f]]_vars
  BY MergedStep
<1>3. QED
  BY MergedInit, <1>1, <1>2, PTL DEF Spec, RowsNeverLost

-----------------------------------------------------------------------------
(* The dates.                                                              *)

LEMMA LastTradingDayGrows ==
  ASSUME NEW t \in Nat
  PROVE  LastTradingDay(t) <= LastTradingDay(t + 1)
<1>1. /\ (t - 1) % 7 = 6 => LastTradingDay(t) = t - 2
      /\ (t - 1) % 7 = 0 => LastTradingDay(t) = t - 3
      /\ (t - 1) % 7 \notin {0, 6} => LastTradingDay(t) = t - 1
  BY DEF LastTradingDay
<1>2. /\ t % 7 = 6 => LastTradingDay(t + 1) = t - 1
      /\ t % 7 = 0 => LastTradingDay(t + 1) = t - 2
      /\ t % 7 \notin {0, 6} => LastTradingDay(t + 1) = t
  BY DEF LastTradingDay
<1>3. t % 7 = 0 => (t - 1) % 7 = 6
  OBVIOUS
<1>4. QED
  BY <1>1, <1>2, <1>3

LEMMA DatesInit == Init => DatesOK
BY DEF Init, BF!Init, BF!StorageInit, BF!NotFound, NotFound, INC!IncInit, DatesOK

LEMMA TodayMoves ==
  ASSUME SharedInv, [Next]_vars
  PROVE  /\ LastTradingDay(today) \in Int /\ LastTradingDay(today)' \in Int
         /\ LastTradingDay(today) <= LastTradingDay(today)'
<1>1. today' = today \/ today' = today + 1
  <2>1. CASE WalkMoves
    BY <2>1, WalkLeaves
  <2>2. CASE RunMoves
    BY <2>2, RunWrites
  <2>3. CASE OthersMove
    BY <2>3 DEF OthersMove, Exit, StorageExit, Crash, StorageCrash, Around, Tick, Sync,
       Cancel, Boot, vars, storageVars
  <2>4. QED
    BY <2>1, <2>2, <2>3, EveryStep
<1>2. today \in 1 .. LastDay + 1 /\ today' \in 1 .. LastDay + 1 /\ LastDay \in Int
  BY SharedStep, StorageAssumption
     DEF SharedInv, Walk!FilesInv, Walk!TypeOK, Walk!StorageTypeOK
<1>3. LastTradingDay(today) \in Int /\ LastTradingDay(today') \in Int
  BY <1>2, LastTradingDayInRange
<1>4. LastTradingDay(today) <= LastTradingDay(today')
  <2>1. today \in Nat
    BY <1>2
  <2>2. LastTradingDay(today) <= LastTradingDay(today + 1)
    BY <2>1, LastTradingDayGrows
  <2>3. QED
    BY <1>1, <1>3, <2>2
<1>5. LastTradingDay(today)' = LastTradingDay(today')
  BY DEF LastTradingDay
<1>6. QED
  BY <1>3, <1>4, <1>5

\* The backfill moves a checkpoint forward, up to its EndDate.
LEMMA WalkMarks ==
  ASSUME MergedInv, WalkMoves, NEW s \in Series, ckpt'[s] # ckpt[s]
  PROVE  /\ pc # "idle" /\ to \in Int /\ end \in Int
         /\ ckpt'[s] = to /\ ckpt[s] < to /\ to <= end
<1>1. (ckpt'[s] = replica[s] /\ ~up) \/ (Walk!EndChunk /\ ckpt'[s] = to /\ ckpt[s] < to)
  BY SameSteps, WalkAssumptions, Walk!CheckpointMoves
     DEF MergedInv, SharedInv, Walk!FilesInv
<1>2. up
  BY DEF WalkMoves, StartWeekly, BackfillStep, MergedInv, SharedInv, Walk!FilesInv,
     Walk!CursorsOK, BF!StartPass, BF!PassStep, BF!StartJob, BF!EndPass, BF!LoadExchange,
     BF!LeaveJob, BF!WalkStep, BF!StartInstrument, BF!AbandonInstruments,
     BF!NextExchange, BF!StartChunk, BF!AbandonChunks, BF!EndInstrument, BF!Fetch,
     BF!FetchFails, BF!AuthError, BF!Download, BF!UploadRows, BF!AppendFails,
     BF!EndChunk, BF!CheckpointFails
<1>3. pc = "fetch"
  BY <1>1, <1>2 DEF Walk!EndChunk
<1>4. to <= end /\ to \in Int /\ end \in Int
  BY <1>3, StorageAssumption DEF MergedInv, SharedInv, Walk!FilesInv, Walk!CursorsOK,
     Walk!InChunk, Walk!TypeOK, Walk!PassTypeOK
<1>5. QED
  BY <1>1, <1>2, <1>3, <1>4

LEMMA DatesStep ==
  ASSUME ~MayOverlap, MergedInv, DatesOK, [Next]_vars
  PROVE  DatesOK'
<1> USE DEF MergedInv, NotFound
<1>1. /\ LastTradingDay(today) \in Int /\ LastTradingDay(today)' \in Int
      /\ LastTradingDay(today) <= LastTradingDay(today)'
  BY TodayMoves
<1>2. \A s \in Series : ckpt[s] \in Int /\ replica[s] \in Int
  BY SharedTypes, StorageAssumption DEF Day
<1>3. day \in Int /\ end \in Int
  BY DEF SharedInv, INC!IncTypeOK, Walk!FilesInv, Walk!TypeOK, Walk!PassTypeOK
<1>4. CASE WalkMoves
  <2>1. UNCHANGED <<replica, today>> /\ step' = "idle"
    BY <1>4, WalkLeaves, TakesTurns
  <2>2. LastTradingDay(today)' = LastTradingDay(today)
    BY <2>1 DEF LastTradingDay
  <2>3. \A s \in Series : ckpt'[s] = NotFound \/ ckpt'[s] <= LastTradingDay(today)
    <3> SUFFICES ASSUME NEW s \in Series, ckpt'[s] # ckpt[s]
                 PROVE  ckpt'[s] <= LastTradingDay(today)
      BY DEF DatesOK
    <3>1. QED
      BY <1>1, <1>4, WalkMarks DEF DatesOK
  <2>4. pc' # "idle" => end' <= LastTradingDay(today)
    <3>1. end' = LastTradingDay(today) \/ (pc # "idle" /\ end' = end) \/ pc' = "idle"
      BY <1>4 DEF WalkMoves, StartWeekly, BackfillStep, BF!LastTradingDay, LastTradingDay,
         BF!StartPass, BF!PassStep, BF!StartJob, BF!EndPass, BF!NoPass, BF!LoadExchange,
         BF!LeaveJob, BF!EndJob, BF!WalkStep, BF!StartInstrument, BF!AbandonInstruments,
         BF!NextExchange, BF!StartChunk, BF!AbandonChunks, BF!EndInstrument, BF!Fetch,
         BF!FetchFails, BF!AuthError, BF!Download, BF!UploadRows, BF!AppendFails,
         BF!EndChunk, BF!CheckpointFails, BF!passVars
    <3>2. QED
      BY <1>1, <3>1 DEF DatesOK
  <2>5. QED
    BY <2>1, <2>2, <2>3, <2>4 DEF DatesOK
<1>5. CASE RunMoves
  <2>1. UNCHANGED <<replica, today>> /\ pc' = "idle"
    BY <1>5, RunWrites, TakesTurns
  <2>2. LastTradingDay(today)' = LastTradingDay(today)
    BY <2>1 DEF LastTradingDay
  <2>3. \/ step # "idle" /\ day' = day
        \/ step' = "idle" /\ ckpt' = ckpt
        \/ day' = LastTradingDay(today) /\ ckpt' = ckpt
    BY <1>5 DEF RunMoves, StartNightly, IncrementalStep, INC!StartRun, INC!LastTradingDay,
       LastTradingDay, INC!IncStep, INC!Snapshot, INC!SnapshotFails, INC!StartIncPass,
       INC!EndRun, INC!NextIncPass, INC!FetchDay, INC!FetchDayFails, INC!AbandonIncPass,
       INC!DownloadDay, INC!UploadDay, INC!AppendDayFails, INC!MarkDay,
       INC!MarkDayFails, INC!EndIncPass, INC!NoRun, INC!storageVars
  <2>4. \A s \in Series : ckpt'[s] = ckpt[s] \/ (ckpt'[s] = day /\ step = "mark")
    <3>1. ckpt \in [Series -> Day \cup {NotFound}]
      BY SharedTypes
    <3>2. QED
      BY <1>5, <3>1, RunWrites
  <2>5. QED
    BY <1>1, <1>2, <1>3, <2>1, <2>2, <2>3, <2>4 DEF DatesOK
<1>6. CASE OthersMove
  <2>1. /\ ckpt' = ckpt \/ (ckpt' = replica /\ ~up)
        /\ replica' = replica \/ replica' = ckpt
    BY <1>6, OthersLeave
  <2>2. \A s \in Series :
          /\ ckpt'[s] = NotFound \/ ckpt'[s] <= LastTradingDay(today)'
          /\ replica'[s] = NotFound \/ replica'[s] <= LastTradingDay(today)'
    BY <1>1, <1>2, <2>1 DEF DatesOK
  <2>3. pc' = "idle" \/ (pc # "idle" /\ end' = end)
    BY <1>6, OthersLeave DEF bfVars
  <2>4. step' = "idle" \/ (step # "idle" /\ up /\ day' = day)
    BY <1>6, OthersLeave DEF incVars, INC!NoRun, SharedInv, IncCursors
  <2>5. step' = "idle" \/ ckpt' = ckpt
    BY <2>1, <2>4
  <2>6. QED
    BY <1>1, <1>2, <1>3, <2>2, <2>3, <2>4, <2>5 DEF DatesOK
<1>7. QED
  BY <1>4, <1>5, <1>6, EveryStep

\* With the jobs apart a restart alone moves a checkpoint back: the run's day and
\* the backfill's EndDate are last trading days, and those only grow.
THEOREM Monotone == ASSUME ~MayOverlap PROVE Spec => CkptMonotone
<1> DEFINE Inv == MergedInv /\ DatesOK
<1>1. Init => Inv
  BY MergedInit, DatesInit
<1>2. Inv /\ [Next]_vars => Inv'
  BY MergedStep, DatesStep
<1>3. ASSUME Inv, [Next]_vars, NEW s \in Series, ckpt'[s] < ckpt[s]
      PROVE  ~up
  <2>1. ckpt[s] \in Int /\ ckpt[s] >= 0
    BY <1>3, SharedTypes, StorageAssumption DEF MergedInv, Day, NotFound
  <2>2. CASE WalkMoves
    BY <1>3, <2>1, <2>2, WalkMarks
  <2>3. CASE RunMoves
    <3>1. ckpt \in [Series -> Day \cup {NotFound}]
      BY <1>3, SharedTypes DEF MergedInv
    <3>2. ckpt'[s] = day /\ step = "mark" /\ day \in Day
      BY <1>3, <2>1, <2>3, <3>1, RunWrites DEF MergedInv
    <3>3. day \in Int /\ day >= 1
      BY <3>2, StorageAssumption DEF Day
    <3>4. ckpt[s] = 0 \/ ckpt[s] <= day
      BY <1>3, <3>2 DEF DatesOK, NotFound
    <3>5. QED
      BY <1>3, <2>1, <3>2, <3>3, <3>4
  <2>4. CASE OthersMove
    BY <1>3, <2>1, <2>4, OthersLeave
  <2>5. QED
    BY <1>3, <2>2, <2>3, <2>4, EveryStep
<1>4. Inv /\ [Next]_vars => [\A s \in Series : ckpt'[s] < ckpt[s] => ~up]_vars
  BY <1>3
<1>5. QED
  BY <1>1, <1>2, <1>4, PTL DEF Spec, CkptMonotone

-----------------------------------------------------------------------------
(* Where silent gaps come from.                                            *)

LEMMA JumpInit == Init => JumpInv
<1> SUFFICES ASSUME Init PROVE JumpInv
  OBVIOUS
<1>1. Walk!WalkInv
  BY SameState, WalkAssumptions, Walk!InvInit DEF Init, Walk!IInv
<1>2. DayAtHand
  BY DEF Init, INC!IncInit, DayAtHand
<1>3. QED
  BY <1>1, <1>2, MergedInit DEF JumpInv

LEMMA DayStep ==
  ASSUME ~MayOverlap, MergedInv, DayAtHand, [Next]_vars
  PROVE  DayAtHand'
<1> USE DEF DayAtHand, MergedInv
<1>1. CASE RunMoves
  <2>1. CASE INC!FetchDay
    <3>1. step' = "fetch" \/ (/\ step' = "download" /\ day' = day
                              /\ \E s : candles' = INC!CandlesToEndOfDay(s, day)
                              /\ candles' # {})
      BY <2>1 DEF INC!FetchDay, INC!NextSeries
    <3>2. \A s : INC!CandlesToEndOfDay(s, day) \subseteq {day}
      BY DEF INC!CandlesToEndOfDay
    <3>3. QED
      BY <3>1, <3>2
  <2>2. CASE INC!DownloadDay
    BY <2>2 DEF INC!DownloadDay, INC!MergeCandles
  <2>3. CASE INC!UploadDay
    <3>1. step = "upload" /\ step' = "mark" /\ inst \in Series /\ UNCHANGED <<inst, day>>
          /\ blob' = [blob EXCEPT ![inst][FileOf(inst, day)] = candles]
      BY <2>3 DEF INC!UploadDay, INC!Upload, INC!FileOf, FileOf, SharedInv, IncCursors
    <3>2. FileOf(inst, day) \in Day /\ blob \in [Series -> [Day -> SUBSET Day]]
      BY <3>1, StorageAssumption, SharedTypes DEF SharedInv, IncCursors, FileOf
    <3>3. blob'[inst][FileOf(inst, day)] = candles
      BY <3>1, <3>2
    <3>4. QED
      BY <3>1, <3>3 DEF Stored, FileOf
  <2>4. CASE ~(INC!FetchDay \/ INC!DownloadDay \/ INC!UploadDay)
    <3>1. step' \notin {"download", "upload", "mark"}
      BY <1>1, <2>4 DEF RunMoves, StartNightly, IncrementalStep, INC!StartRun, INC!IncStep,
         INC!Snapshot, INC!SnapshotFails, INC!StartIncPass, INC!EndRun, INC!NextIncPass,
         INC!FetchDayFails, INC!AbandonIncPass, INC!AppendDayFails, INC!MarkDay,
         INC!MarkDayFails, INC!EndIncPass, INC!NextSeries, INC!NoRun
    <3>2. QED
      BY <3>1
  <2>5. QED
    BY <2>1, <2>2, <2>3, <2>4
<1>2. CASE WalkMoves
  <2>1. step' = "idle"
    BY <1>2, TakesTurns
  <2>2. QED
    BY <2>1
<1>3. CASE OthersMove
  BY <1>3, OthersLeave DEF incVars, INC!NoRun, Stored, FileOf
<1>4. QED
  BY <1>1, <1>2, <1>3, EveryStep

LEMMA JumpStep ==
  ASSUME ~MayOverlap, JumpInv, [Next]_vars
  PROVE  JumpInv'
<1>1. MergedInv' /\ DayAtHand'
  BY MergedStep, DayStep DEF JumpInv
<1>2. Walk!WalkInv'
  <2>1. CASE RunMoves
    <3>1. pc' = "idle"
      BY <2>1, TakesTurns DEF JumpInv, MergedInv
    <3>2. Walk!WindowFetched' /\ Walk!BeforeChunk' /\ Walk!BeforeSub'
      BY <3>1 DEF Walk!WindowFetched, Walk!BeforeChunk, Walk!BeforeSub, Walk!InAppend,
         Walk!InChunk
    <3>3. QED
      BY <1>1, <3>2 DEF MergedInv, SharedInv, Walk!WalkInv
  <2>2. CASE WalkMoves \/ OthersMove
    BY <2>2, SameSteps, WalkAssumptions, Walk!WalkInvStep DEF JumpInv
  <2>3. QED
    BY <2>1, <2>2, EveryStep
<1>3. QED
  BY <1>1, <1>2 DEF JumpInv

LEMMA JumpsOnly ==
  ASSUME ~MayOverlap, JumpInv, [Next]_vars, NEW s \in Daily,
         NEW d \in SilentGap(s)' \ SilentGap(s)
  PROVE  step = "mark" /\ inst = s /\ ckpt[s] < d /\ d < day
<1>1. /\ d \in Walk!Promised(s, ckpt'[s]) \cup Walk!Promised(s, replica'[s])
      /\ ~Walk!Accounted(s, d)'
  BY DEF SilentGap, BF!Promised, Walk!Promised, BF!Accounted, Walk!Accounted, BF!Stored,
     Walk!Stored, BF!FileOf, Walk!FileOf
<1>2. \/ d \notin Walk!Promised(s, ckpt[s]) \cup Walk!Promised(s, replica[s])
      \/ Walk!Accounted(s, d)
  BY SameState DEF SilentGap
<1>3. CASE WalkMoves \/ OthersMove
  BY <1>1, <1>2, <1>3, SameSteps, WalkAssumptions, Walk!NoNewGap
     DEF JumpInv, Daily, Walk!Daily
<1>4. CASE RunMoves
  <2>1. s \in Series /\ d \in Market[s] /\ d \in Day /\ BackfillFrom[s] <= d
    BY <1>1, StorageAssumption DEF Daily, Walk!Promised
  <2>2. ~Walk!Accounted(s, d)
    <3>1. FileOf(s, d) \in Day
      BY <2>1, StorageAssumption DEF FileOf
    <3>2. blob[s][FileOf(s, d)] \subseteq blob'[s][FileOf(s, d)]
      BY <2>1, <3>1, MergedStep DEF JumpInv
    <3>3. refused[s] \subseteq refused'[s]
      BY <1>4, <2>1, RunReports DEF JumpInv, MergedInv
    <3>4. QED
      BY <1>1, <3>2, <3>3 DEF Walk!Accounted, Walk!Stored, Walk!FileOf, FileOf
  <2>3. replica' = replica /\ ckpt \in [Series -> Day \cup {NotFound}]
    BY <1>4, RunWrites, SharedTypes DEF JumpInv, MergedInv
  <2>4. ckpt'[s] # ckpt[s]
    BY <1>1, <1>2, <2>2, <2>3
  <2>5. step = "mark" /\ inst = s /\ ckpt'[s] = day /\ day \in Day
    <3>1. /\ step = "mark" /\ inst \in Series /\ day \in Day
          /\ ckpt' = [ckpt EXCEPT ![inst] = day]
      BY <1>4, <2>4, RunWrites DEF JumpInv, MergedInv
    <3>2. QED
      BY <2>1, <2>3, <2>4, <3>1
  <2>6. d <= day /\ ~(d <= ckpt[s])
    BY <1>1, <1>2, <2>1, <2>2, <2>3, <2>5 DEF Walk!Promised
  <2>7. d # day
    BY <2>2, <2>5, SameState DEF JumpInv, DayAtHand, Walk!Accounted
  <2>8. d \in Int /\ day \in Int /\ ckpt[s] \in Int
    BY <2>1, <2>3, <2>5, StorageAssumption DEF Day, NotFound
  <2>9. QED
    BY <2>5, <2>6, <2>7, <2>8
<1>5. QED
  BY <1>3, <1>4, EveryStep

\* With the jobs apart, a day of a daily series that is neither stored nor reported
\* falls behind a checkpoint in one way only: the run jumps over it.
THEOREM Jumps == ASSUME ~MayOverlap PROVE Spec => GapsAreJumps
<1>1. JumpInv /\ [Next]_vars => JumpInv'
  BY JumpStep
<1>2. JumpInv /\ [Next]_vars =>
        [\A s \in Daily : \A d \in SilentGap(s)' \ SilentGap(s) :
           step = "mark" /\ inst = s /\ ckpt[s] < d /\ d < day]_vars
  BY JumpsOnly
<1>3. QED
  BY JumpInit, <1>1, <1>2, PTL DEF Spec, GapsAreJumps
=============================================================================
