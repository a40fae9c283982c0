------------------------------ MODULE Backfill ------------------------------
(***************************************************************************)
(* The backfill (internal/extractor/backfill.go, equity and futures) as    *)
(* the weekly cron entry and the CLI command run it, one network or        *)
(* database call per step, with the crashes, cancellations and restarts of *)
(* Storage in between.                                                     *)
(*                                                                         *)
(* A pass is a list of jobs, one per asset type and interval: all of them  *)
(* for the weekly entry, one for the command.  A job walks its exchanges,  *)
(* an exchange its instruments, an instrument its chunks of chunk_days, a  *)
(* chunk its sub-chunks, one per candle file.                              *)
(***************************************************************************)
EXTENDS Storage

CONSTANTS
  Jobs,    \* the jobs of the weekly pass, each a set of series
  None     \* no instrument

ASSUME JobsAssumption == Jobs \subseteq SUBSET Series /\ None \notin Series

VARIABLES
  pc,      \* what the pass does next
  jobs,    \* jobs of the pass still to run
  end,     \* EndDate of the pass
  left,    \* series of the job on exchanges still to come
  todo,    \* instruments of the exchange still to come
  cur,     \* the instrument being walked
  from,    \* first day of the chunk
  to,      \* last day of the chunk
  sub,     \* first day of the sub-chunk
  allOK,   \* no fetch of the chunk has failed
  rows     \* candles fetched; once the file is downloaded, the merged rows

passVars == <<jobs, end, left, todo>>
chunkVars == <<to, sub, allOK, rows>>
walkVars == <<cur, from, chunkVars>>
bfVars == <<pc, passVars, walkVars>>
vars == <<storageVars, bfVars>>

PassTypeOK ==
  /\ pc \in {"idle", "job", "exchange", "instrument", "chunk", "fetch",
             "download", "upload"}
  /\ jobs \subseteq Jobs
  /\ end \in Int /\ end <= LastDay
  /\ left \subseteq Series /\ todo \subseteq Series
  /\ cur \in Series \cup {None}
  /\ from \in 1 .. LastDay + 1
  /\ to \in 0 .. LastDay
  /\ sub \in 1 .. LastDay + 1
  /\ allOK \in BOOLEAN
  /\ rows \subseteq Day

TypeOK == StorageTypeOK /\ PassTypeOK

-----------------------------------------------------------------------------
(* Where control goes.                                                     *)

ClearWalk ==
  /\ cur' = None /\ from' = 1 /\ to' = 0 /\ sub' = 1
  /\ allOK' = TRUE /\ rows' = {}

\* The job returns; the error, if any, is only logged and the pass goes on
\* with its next job.
EndJob ==
  /\ pc' = "job"
  /\ left' = {} /\ todo' = {}
  /\ ClearWalk
  /\ UNCHANGED <<jobs, end>>

\* The pass is forgotten: it is over, or the process has died.
NoPass ==
  /\ pc' = "idle"
  /\ jobs' = {} /\ end' = 0
  /\ left' = {} /\ todo' = {}
  /\ ClearWalk

Init == 
  /\ StorageInit
  /\ pc = "idle" /\ jobs = {} /\ end = 0 /\ left = {} /\ todo = {}
  /\ cur = None /\ from = 1 /\ to = 0 /\ sub = 1 /\ allOK = TRUE /\ rows = {}

-----------------------------------------------------------------------------
(* The pass, its jobs and their exchanges.                                 *)

StartPass ==
  /\ pc = "idle" /\ up /\ ~ctxDone
  /\ \/ jobs' = Jobs
     \/ \E job \in Jobs : jobs' = {job}
  /\ end' = LastTradingDay(today)
  /\ pc' = "job"
  /\ UNCHANGED <<storageVars, left, todo, walkVars>>

\* Backfiller.Run: the token is valid or has been refreshed, or the job ends
\* there.  The context is not looked at, and AutoLogin uses one of its own.
StartJob ==
  /\ pc = "job"
  /\ \E job \in jobs :
       /\ jobs' = jobs \ {job}
       /\ \/ pc' = "exchange" /\ left' = job
          \/ pc' = "job" /\ UNCHANGED left
  /\ UNCHANGED <<storageVars, end, todo, walkVars>>

EndPass ==
  /\ pc = "job" /\ jobs = {}
  /\ NoPass
  /\ UNCHANGED storageVars

\* loadOrFetchInstruments and the universe query give the instruments of one
\* exchange: those that the newest snapshot lists.
LoadExchange ==
  /\ pc = "exchange"
  /\ \E ex \in {ExchangeOf[s] : s \in left} :
       LET here == {s \in left : ExchangeOf[s] = ex} IN
         /\ left' = left \ here
         /\ todo' \in SUBSET here
  /\ pc' = "instrument"
  /\ UNCHANGED <<storageVars, jobs, end, walkVars>>

\* The database or Kite's instrument dump fails, or no exchange is left.
LeaveJob ==
  /\ pc = "exchange"
  /\ EndJob
  /\ UNCHANGED storageVars

-----------------------------------------------------------------------------
(* One instrument.                                                         *)

\* The resume point; an instrument that is complete already is passed over.
StartInstrument ==
  /\ pc = "instrument" /\ ~ctxDone
  /\ \E s \in todo :
       /\ todo' = todo \ {s}
       /\ IF ResumeFrom(s) > end
            THEN UNCHANGED <<pc, walkVars>>
            ELSE /\ pc' = "chunk"
                 /\ cur' = s
                 /\ from' = ResumeFrom(s)
                 /\ UNCHANGED chunkVars
  /\ UNCHANGED <<storageVars, jobs, end, left>>

\* ctx.Err, or GetLastDate fails.
AbandonInstruments ==
  /\ pc = "instrument" /\ todo # {}
  /\ EndJob
  /\ UNCHANGED storageVars

NextExchange ==
  /\ pc = "instrument" /\ todo = {}
  /\ pc' = "exchange"
  /\ UNCHANGED <<storageVars, passVars, walkVars>>

StartChunk ==
  /\ pc = "chunk" /\ from <= end /\ ~ctxDone
  /\ pc' = "fetch"
  /\ to' = ChunkEnd(cur, from, end)
  /\ sub' = from
  /\ allOK' = TRUE
  /\ UNCHANGED <<storageVars, passVars, cur, from, rows>>

AbandonChunks ==
  /\ pc = "chunk" /\ from <= end /\ ctxDone
  /\ EndJob
  /\ UNCHANGED storageVars

EndInstrument ==
  /\ pc = "chunk" /\ from > end
  /\ pc' = "instrument"
  /\ ClearWalk
  /\ UNCHANGED <<storageVars, passVars>>

-----------------------------------------------------------------------------
(* One sub-chunk: fetch, download, upload.  A call that starts after the    *)
(* context was cancelled fails; one that is cancelled on its way may have   *)
(* ended either way, which is a cancellation before it or after it.         *)

Slice == SliceEnd(cur, sub, to)

\* On to the next sub-chunk.
NextSub ==
  /\ pc' = "fetch"
  /\ sub' = Slice + 1
  /\ rows' = {}

\* Historical answers with candles, or with none, which needs no file.
Fetch ==
  /\ pc = "fetch" /\ sub <= to /\ ~ctxDone
  /\ LET candles == CandlesToMidnight(cur, sub, Slice) IN
       IF candles = {}
         THEN NextSub
         ELSE pc' = "download" /\ rows' = candles /\ UNCHANGED sub
  /\ UNCHANGED <<storageVars, passVars, cur, from, to, allOK>>

\* An error that is not about auth: logged as "(skipping)" and remembered.
FetchFails ==
  /\ pc = "fetch" /\ sub <= to
  /\ \/ /\ FetchFaults /\ ~ctxDone
        /\ refused' = [refused EXCEPT ![cur] = @ \cup (sub .. Slice)]
     \/ ctxDone /\ UNCHANGED refused
  /\ allOK' = FALSE
  /\ NextSub
  /\ UNCHANGED <<blob, ckpt, replica, today, up, ctxDone, passVars, cur, from, to>>

\* isAuthError: the whole job is given up.
AuthError ==
  /\ pc = "fetch" /\ sub <= to /\ ~ctxDone
  /\ EndJob
  /\ UNCHANGED storageVars

\* AppendCandles reads the file, if there is one, and merges the candles in.
Download ==
  /\ pc = "download" /\ ~ctxDone
  /\ pc' = "upload"
  /\ rows' = MergeCandles(blob[cur][FileOf(cur, sub)], rows)
  /\ UNCHANGED <<storageVars, passVars, cur, from, to, sub, allOK>>

\* AppendCandles writes the merged rows back.
UploadRows ==
  /\ pc = "upload" /\ ~ctxDone
  /\ Upload(cur, FileOf(cur, sub), rows)
  /\ NextSub
  /\ UNCHANGED <<ckpt, replica, refused, today, up, ctxDone, passVars, cur,
                 from, to, allOK>>

\* Mutant: the error of AppendCandles is not looked at.
AppendFailsIgnored ==
  /\ pc \in {"download", "upload"}
  /\ NextSub
  /\ UNCHANGED <<storageVars, passVars, cur, from, to, allOK>>

\* A storage error ends the job; of a failed upload R2 may have kept the file.
AppendFails ==
  /\ pc \in {"download", "upload"}
  /\ \/ UNCHANGED blob
     \/ pc = "upload" /\ Upload(cur, FileOf(cur, sub), rows)
  /\ EndJob
  /\ UNCHANGED <<ckpt, replica, refused, today, up, ctxDone>>

\* Mutants: chunkDateRange's cursor stays on the last day, or skips a day.
AfterChunkRepeats == to
AfterChunkSkips == to + 2

\* Where chunkDateRange starts the next chunk.
AfterChunk == to + 1

\* Mutant: a failed chunk counts as done.
ChunkOKAlways == TRUE

ChunkOK == allOK

\* All sub-chunks are done: the checkpoint advances if none of them failed.
EndChunk ==
  /\ pc = "fetch" /\ sub > to
  /\ IF ChunkOK THEN SetLastDate(cur, to) ELSE UNCHANGED ckpt
  /\ pc' = "chunk"
  /\ from' = AfterChunk
  /\ to' = 0 /\ sub' = 1 /\ allOK' = TRUE /\ rows' = {}
  /\ UNCHANGED <<blob, replica, refused, today, up, ctxDone, passVars, cur>>

CheckpointFails ==
  /\ pc = "fetch" /\ sub > to /\ ChunkOK
  /\ EndJob
  /\ UNCHANGED storageVars

-----------------------------------------------------------------------------
(* The process.                                                            *)

\* cron.Stop waits for the pass.
Exit == pc = "idle" /\ StorageExit /\ UNCHANGED bfVars

Crash == StorageCrash /\ NoPass

Around == (Tick \/ Sync \/ Cancel \/ Boot) /\ UNCHANGED bfVars

WalkStep ==
  \/ StartInstrument \/ AbandonInstruments \/ NextExchange
  \/ StartChunk \/ AbandonChunks \/ EndInstrument
  \/ Fetch \/ FetchFails \/ AuthError
  \/ Download \/ UploadRows \/ AppendFails
  \/ EndChunk \/ CheckpointFails

PassStep == StartJob \/ EndPass \/ LoadExchange \/ LeaveJob \/ WalkStep

Next == StartPass \/ PassStep \/ Exit \/ Crash \/ Around

\* The goroutine of the pass keeps running: every external call returns, with
\* a result or an error.
Spec == Init /\ [][Next]_vars /\ WF_vars(PassStep)

-----------------------------------------------------------------------------
(* Properties.                                                             *)

Accounted(s, d) == Stored(s, d) \/ d \in refused[s]

\* The days of s, up to last, that backfill_from promises and Kite has.
Promised(s, last) == {d \in Market[s] : BackfillFrom[s] <= d /\ d <= last}

\* A day at or before a checkpoint is never fetched again.  So every candle of a
\* daily series there is one that a reader finds, or lies in a window that Kite
\* refused and the log says so; for the checkpoints in SQLite, and for the older
\* ones that a restart would restore (backfill.go:147-153, start.sh:13-16).
NoSilentGap ==
  \A s \in Daily :
    \A d \in Promised(s, ckpt[s]) \cup Promised(s, replica[s]) : Accounted(s, d)

\* The backfill is over with s: there was nothing to fetch, or its last chunk
\* has been tried.
Finishes(s) ==
  \/ pc = "instrument" /\ pc' = "instrument" /\ s \in todo \ todo'
  \/ pc = "chunk" /\ pc' = "instrument" /\ s = cur

\* When a backfill that nobody has cancelled is over with a daily series, every
\* day from backfill_from to EndDate is accounted for, however many passes,
\* failures and restarts it took (backfill.go:102-157).
BackfillFills ==
  [][\A s \in Daily : Finishes(s) /\ ~ctxDone =>
       \A d \in Promised(s, end) : Accounted(s, d)]_vars

\* "Only advance the checkpoint if every sub-chunk succeeded"
\* (backfill.go:147): a checkpoint of a daily series that moves forward moves
\* over days that are all in the archive, from the start of that chunk on.
CleanChunk ==
  [][\A s \in Daily : up /\ ckpt'[s] > ckpt[s] =>
       /\ s = cur
       /\ \A d \in Market[s] \cap (from .. ckpt'[s]) : Stored(s, d)]_vars

\* Progress is only lost to a restart: while the process runs a checkpoint
\* never moves back (state.go:31-44 would let it).
CkptMonotone ==
  [][\A s \in Series : ckpt'[s] < ckpt[s] => ~up]_vars

\* "Parquet writes are idempotent" (backfill.go:148): whatever is fetched
\* again, retried or half done, no candle leaves the archive.
RowsNeverLost ==
  [][\A s \in Series, f \in Day : blob[s][f] \subseteq blob'[s][f]]_vars

\* A file holds only candles that Kite has and that are of its own period: a
\* reader who opens the file of a day finds that day, and no other file has it
\* (backfill.go:287-288).
OneFilePerDay ==
  \A s \in Series, f \in Day : \A d \in blob[s][f] :
    d \in Market[s] /\ FileOf(s, d) = f

\* A pass ends, whatever fails on the way, and so does the wait in Stop
\* (cron.go:49-56).
PassEnds == pc # "idle" ~> pc = "idle"

\* What the comments promise of the archive: everything up to a checkpoint is
\* there (backfill.go:147-148).  It holds as long as Kite refuses nothing and
\* there are no intraday series.
Covered ==
  \A s \in Series : \A d \in Promised(s, ckpt[s]) : Stored(s, d)

\* The archive of daily series as its readers see it.
Readable == [s \in Daily |-> {d \in Day : Stored(s, d)}]

OfDaily(f) == [s \in Daily |-> f[s]]

Arch == INSTANCE Archive WITH
  Series <- Daily, Start <- BackfillFrom, Exists <- Market, have <- Readable,
  gaps <- OfDaily(refused), done <- OfDaily(ckpt), saved <- OfDaily(replica)

\* The backfill of daily series implements the abstract archive, where every move
\* of a checkpoint is justified by what is readable at that moment.
ImplementsArchive == Arch!Spec

-----------------------------------------------------------------------------
(* The inductive invariant behind NoSilentGap.                             *)

Walking == pc \in {"chunk", "fetch", "download", "upload"}
InChunk == pc \in {"fetch", "download", "upload"}
InAppend == pc \in {"download", "upload"}

\* Where the cursors of the three loops stand; a dead process has none.
CursorsOK ==
  /\ ~up => pc = "idle"
  /\ Walking => cur \in Series
  /\ InChunk => /\ from <= sub /\ sub <= to + 1 /\ from <= to
                /\ to \in Day /\ to <= end
  /\ InAppend => sub <= to

\* The rows in memory are candles of the file that they will replace.
RowsOK ==
  InAppend => \A d \in rows : d \in Market[cur] /\ FileOf(cur, d) = FileOf(cur, sub)

\* What holds of the walk whatever another job writes meanwhile.
FilesInv == TypeOK /\ CursorsOK /\ OneFilePerDay /\ RowsOK

\* The walk is ahead of its checkpoint ...
AheadOfCkpt == Walking => ckpt[cur] < from

\* ... and an upload has everything that the file it replaces holds.
RowsMerged == pc = "upload" => blob[cur][FileOf(cur, sub)] \subseteq rows

\* The rows in memory are all that Kite has of the sub-chunk, of a daily series.
WindowFetched ==
  InAppend /\ cur \in Daily => Market[cur] \cap (sub .. Slice) \subseteq rows

\* Of the instrument being walked, everything before the chunk is accounted for,
\* even what a failed chunk has left behind, or was so when the walk began ...
BeforeChunk ==
  cur \in Daily /\ (InChunk \/ (pc = "chunk" /\ ~ctxDone)) =>
    \A d \in Promised(cur, from - 1) : Accounted(cur, d) \/ d <= ckpt[cur]

\* ... and of the chunk, everything before the sub-chunk.
BeforeSub ==
  InChunk /\ cur \in Daily =>
    \A d \in Market[cur] \cap (from .. sub - 1) :
      (allOK => Stored(cur, d)) /\ (~ctxDone => Accounted(cur, d))

\* What the loops have done since the resume point.
WalkInv ==
  FilesInv /\ AheadOfCkpt /\ RowsMerged /\ WindowFetched /\ BeforeChunk /\ BeforeSub

\* NoSilentGap alone is not inductive: that EndChunk may move the checkpoint
\* rests on the walk up to there.
IInv == WalkInv /\ NoSilentGap
=============================================================================
