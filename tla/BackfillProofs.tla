--------------------------- MODULE BackfillProofs ---------------------------
(***************************************************************************)
(* Theorems of Backfill, for every value of its constants: first the files *)
(* and the order of its steps, then what a checkpoint says.  The           *)
(* properties on gaps are about the daily series, whatever intraday series *)
(* are walked beside them: of an intraday window the last day is never     *)
(* fetched (see DaysToMidnight).                                           *)
(***************************************************************************)
EXTENDS Backfill, TLAPS

\* A sub-chunk lies in its chunk and in one file (splitByPeriod).
LEMMA SliceInOneFile ==
  ASSUME NEW s \in Series, NEW d \in Day, NEW t \in Day, d <= t
  PROVE  /\ SliceEnd(s, d, t) \in Day
         /\ d <= SliceEnd(s, d, t) /\ SliceEnd(s, d, t) <= t
         /\ FileOf(s, d) \in Day
         /\ \A e \in d .. SliceEnd(s, d, t) : FileOf(s, e) = FileOf(s, d)
<1>1. PeriodEnd[s][d] \in Day /\ d <= PeriodEnd[s][d]
  BY StorageAssumption, PeriodAssumption
<1>2. \A e \in d .. PeriodEnd[s][d] : PeriodEnd[s][e] = PeriodEnd[s][d]
  BY PeriodAssumption
<1>3. SliceEnd(s, d, t) <= PeriodEnd[s][d] /\ SliceEnd(s, d, t) <= t
      /\ d <= SliceEnd(s, d, t) /\ SliceEnd(s, d, t) \in Day
  BY <1>1 DEF SliceEnd, Lesser, Day
<1>4. QED
  BY <1>1, <1>2, <1>3 DEF FileOf, Day

\* A chunk lies in the days asked for and is not empty (chunkDateRange).
LEMMA ChunkInRange ==
  ASSUME NEW s \in Series, NEW d \in Day, NEW e \in Int, e <= LastDay, d <= e
  PROVE  ChunkEnd(s, d, e) \in Day /\ d <= ChunkEnd(s, d, e) /\ ChunkEnd(s, d, e) <= e
<1>1. ChunkDays[s] \in Int /\ ChunkDays[s] >= 1
  BY StorageAssumption
<1>2. LastDay \in Int
  BY StorageAssumption
<1>3. d \in Int /\ 1 <= d
  BY <1>2 DEF Day
<1>4. QED
  BY <1>1, <1>2, <1>3 DEF ChunkEnd, Lesser, Day

LEMMA Calendar == LastDay \in Nat /\ Day = 1 .. LastDay
BY StorageAssumption DEF Day

LEMMA CandlesAreDays ==
  ASSUME NEW s \in Series, NEW d, NEW e
  PROVE  CandlesToMidnight(s, d, e) \subseteq Market[s] /\ Market[s] \subseteq Day
BY StorageAssumption DEF CandlesToMidnight, DaysToMidnight

LEMMA ResumePoint ==
  ASSUME StorageTypeOK, NEW s \in Series
  PROVE  ResumeFrom(s) \in 1 .. LastDay + 1 /\ ckpt[s] < ResumeFrom(s)
<1>1. ckpt[s] \in Day \cup {NotFound} /\ BackfillFrom[s] \in Day
  BY StorageAssumption DEF StorageTypeOK
<1>2. QED
  BY <1>1, Calendar DEF ResumeFrom, NotFound

\* The sub-chunk at hand.
LEMMA SliceAtHand ==
  ASSUME TypeOK, CursorsOK, InChunk, sub <= to
  PROVE  /\ cur \in Series /\ sub \in Day /\ to \in Day
         /\ Slice \in Day /\ sub <= Slice /\ Slice <= to
         /\ FileOf(cur, sub) \in Day
         /\ \A e \in sub .. Slice : FileOf(cur, e) = FileOf(cur, sub)
<1>1. cur \in Series /\ sub \in Day /\ to \in Day
  BY Calendar DEF TypeOK, PassTypeOK, CursorsOK, InChunk, Walking
<1>2. QED
  BY <1>1, SliceInOneFile DEF Slice

-----------------------------------------------------------------------------
(* Types.                                                                  *)

LEMMA TypeInit == Init => TypeOK /\ CursorsOK
<1> SUFFICES ASSUME Init PROVE TypeOK /\ CursorsOK
  OBVIOUS
<1>1. StorageTypeOK
  <2>1. today \in 1 .. LastDay + 1
    BY Calendar DEF Init, StorageInit
  <2>2. QED
    BY <2>1 DEF Init, StorageInit, StorageTypeOK, NotFound
<1>2. PassTypeOK /\ CursorsOK
  BY Calendar DEF Init, StorageInit, PassTypeOK, CursorsOK, Walking, InChunk, InAppend
<1>3. QED
  BY <1>1, <1>2 DEF TypeOK

\* The steps that leave the storage alone.
LEMMA StorageUnchanged == StorageTypeOK /\ UNCHANGED storageVars => StorageTypeOK'
BY DEF StorageTypeOK, storageVars

LEMMA StorageStep ==
  ASSUME TypeOK, CursorsOK, [Next]_vars
  PROVE  StorageTypeOK'
<1> USE DEF TypeOK
<1>1. CASE UNCHANGED storageVars
  BY <1>1, StorageUnchanged
<1>2. CASE FetchFails
  <2>1. cur \in Series /\ Slice \in Day /\ sub \in 1 .. LastDay + 1
    BY <1>2, SliceAtHand, Calendar DEF FetchFails, InChunk, PassTypeOK
  <2>2. sub .. Slice \subseteq Day
    BY <2>1, Calendar
  <2>3. QED
    BY <1>2, <2>1, <2>2 DEF FetchFails, StorageTypeOK
<1>3. CASE UploadRows \/ AppendFails
  <2>1. cur \in Series /\ rows \subseteq Day /\ FileOf(cur, sub) \in Day
    BY <1>3, SliceAtHand DEF UploadRows, AppendFails, CursorsOK, InChunk, InAppend,
       PassTypeOK
  <2>2. blob' \in [Series -> [Day -> SUBSET Day]]
    <3>1. blob' = blob \/ blob' = [blob EXCEPT ![cur][FileOf(cur, sub)] = rows]
      BY <1>3 DEF UploadRows, AppendFails, Upload
    <3>2. blob \in [Series -> [Day -> SUBSET Day]] /\ rows \in SUBSET Day
      BY <2>1 DEF StorageTypeOK
    <3>3. [blob EXCEPT ![cur][FileOf(cur, sub)] = rows] \in [Series -> [Day -> SUBSET Day]]
      BY ONLY <2>1, <3>2
    <3>4. QED
      BY <3>1, <3>2, <3>3
  <2>3. QED
    BY <1>3, <2>2 DEF UploadRows, AppendFails, StorageTypeOK
<1>4. CASE EndChunk
  <2>1. cur \in Series /\ to \in Day
    BY <1>4 DEF EndChunk, AfterChunk, ChunkOK, CursorsOK, InChunk, Walking
  <2>2. QED
    BY <1>4, <2>1 DEF EndChunk, AfterChunk, ChunkOK, SetLastDate, StorageTypeOK
<1>5. CASE Exit \/ Crash \/ Around
  <2>1. today' \in 1 .. LastDay + 1
    BY <1>5, Calendar DEF Exit, StorageExit, Crash, StorageCrash, Around, Tick, Sync,
       Cancel, Boot, StorageTypeOK
  <2>2. QED
    BY <1>5, <2>1 DEF Exit, StorageExit, Crash, StorageCrash, Around, Tick, Sync,
       Cancel, Boot, StorageTypeOK
<1>6. QED
  BY <1>1, <1>2, <1>3, <1>4, <1>5 DEF Next, PassStep, WalkStep, StartPass, StartJob,
     EndPass, LoadExchange, LeaveJob, StartInstrument, AbandonInstruments,
     NextExchange, StartChunk, AbandonChunks, EndInstrument, Fetch, AuthError,
     Download, CheckpointFails, vars

LEMMA TypeStep ==
  ASSUME TypeOK, CursorsOK, [Next]_vars
  PROVE  TypeOK' /\ CursorsOK'
<1> USE DEF TypeOK, PassTypeOK, CursorsOK, Walking, InChunk, InAppend
<1> USE Calendar, StorageStep
<1>1. CASE StartPass
  <2>1. LastTradingDay(today) \in Int /\ LastTradingDay(today) <= LastDay
    <3>1. today \in 1 .. LastDay + 1
      BY DEF StorageTypeOK
    <3>2. (today - 1) % 7 = 6 => LastTradingDay(today) = today - 2
      BY DEF LastTradingDay
    <3>3. (today - 1) % 7 = 0 => LastTradingDay(today) = today - 3
      BY <3>1 DEF LastTradingDay
    <3>4. (today - 1) % 7 \notin {0, 6} => LastTradingDay(today) = today - 1
      BY DEF LastTradingDay
    <3>5. QED
      BY <3>1, <3>2, <3>3, <3>4
  <2>2. QED
    BY <1>1, <2>1, JobsAssumption DEF StartPass, storageVars, walkVars, chunkVars
<1>2. CASE StartJob
  BY <1>2, JobsAssumption DEF StartJob, storageVars, walkVars, chunkVars
<1>3. CASE EndPass
  BY <1>3 DEF EndPass, NoPass, ClearWalk, storageVars
<1>4. CASE LoadExchange
  <2>1. left' \subseteq Series /\ todo' \subseteq Series
    BY <1>4 DEF LoadExchange
  <2>2. QED
    BY <1>4, <2>1 DEF LoadExchange, storageVars, walkVars, chunkVars
<1>5. CASE LeaveJob \/ AbandonInstruments \/ AbandonChunks \/ AuthError \/ CheckpointFails
  <2>1. pc # "idle" /\ EndJob /\ UNCHANGED storageVars
    BY <1>5 DEF LeaveJob, AbandonInstruments, AbandonChunks, AuthError,
       CheckpointFails
  <2>2. QED
    BY <2>1 DEF EndJob, ClearWalk, storageVars
<1>6. CASE StartInstrument
  <2>1. PICK s \in todo :
          /\ todo' = todo \ {s}
          /\ IF ResumeFrom(s) > end
               THEN UNCHANGED <<pc, walkVars>>
               ELSE pc' = "chunk" /\ cur' = s /\ from' = ResumeFrom(s)
                    /\ UNCHANGED chunkVars
    BY <1>6 DEF StartInstrument
  <2>2. ResumeFrom(s) \in 1 .. LastDay + 1 /\ ckpt[s] < ResumeFrom(s)
    BY ResumePoint
  <2>3. QED
    BY <1>6, <2>1, <2>2 DEF StartInstrument, storageVars, walkVars, chunkVars
<1>7. CASE NextExchange
  BY <1>7 DEF NextExchange, storageVars, passVars, walkVars, chunkVars
<1>8. CASE StartChunk
  <2>1. cur \in Series /\ from \in Day /\ end \in Int /\ end <= LastDay /\ from <= end
    BY <1>8 DEF StartChunk
  <2>2. LET e == ChunkEnd(cur, from, end) IN e \in Day /\ from <= e /\ e <= end
    BY <2>1, ChunkInRange
  <2>3. QED
    BY <1>8, <2>1, <2>2 DEF StartChunk, storageVars, passVars
<1>9. CASE EndInstrument
  BY <1>9 DEF EndInstrument, ClearWalk, storageVars, passVars
<1>10. CASE Fetch \/ FetchFails
  <2>1. /\ Slice \in Day /\ sub <= Slice /\ Slice <= to
        /\ CandlesToMidnight(cur, sub, Slice) \subseteq Day
    BY <1>10, SliceAtHand, CandlesAreDays DEF Fetch, FetchFails
  <2>2. CASE Fetch
    <3>1. pc' \in {"fetch", "download"} /\ rows' \subseteq Day
      BY <2>2, <2>1 DEF Fetch, NextSub
    <3>2. sub' = sub \/ (sub' = Slice + 1 /\ pc' = "fetch")
      BY <2>2 DEF Fetch, NextSub
    <3>3. UNCHANGED <<storageVars, passVars, cur, from, to, allOK>>
      BY <2>2 DEF Fetch
    <3>4. QED
      BY <2>2, <2>1, <3>1, <3>2, <3>3 DEF Fetch, storageVars, passVars
  <2>3. CASE FetchFails
    <3>1. pc = "fetch" /\ pc' = "fetch" /\ sub' = Slice + 1 /\ rows' = {} /\ allOK' \in BOOLEAN
      BY <2>3 DEF FetchFails, NextSub
    <3>2. UNCHANGED <<ckpt, up, passVars, cur, from, to>>
      BY <2>3 DEF FetchFails
    <3>3. QED
      <4>1. PassTypeOK'
        BY <2>1, <3>1, <3>2 DEF passVars
      <4>2. CursorsOK'
        BY <2>1, <3>1, <3>2 DEF passVars
      <4>3. QED
        BY <4>1, <4>2
  <2>4. QED
    BY <1>10, <2>2, <2>3
<1>11. CASE Download
  <2>1. FileOf(cur, sub) \in Day
    BY <1>11, SliceAtHand DEF Download
  <2>2. blob[cur][FileOf(cur, sub)] \subseteq Day
    BY <1>11, <2>1 DEF Download, StorageTypeOK
  <2>3. QED
    BY <1>11, <2>2 DEF Download, MergeCandles, storageVars, passVars
<1>12. CASE UploadRows
  <2>1. Slice \in Day /\ sub <= Slice /\ Slice <= to
    BY <1>12, SliceAtHand DEF UploadRows
  <2>2. QED
    BY <1>12, <2>1 DEF UploadRows, NextSub, passVars
<1>13. CASE AppendFails
  BY <1>13 DEF AppendFails, EndJob, ClearWalk
<1>14. CASE EndChunk
  <2>1. cur \in Series /\ to \in Day
    BY <1>14 DEF EndChunk, AfterChunk, ChunkOK
  <2>2. QED
    BY <1>14, <2>1 DEF EndChunk, AfterChunk, ChunkOK, passVars
<1>15. CASE Exit
  BY <1>15 DEF Exit, StorageExit, bfVars, passVars, walkVars, chunkVars
<1>16. CASE Crash
  BY <1>16 DEF Crash, StorageCrash, NoPass, ClearWalk
<1>17. CASE Around
  BY <1>17 DEF Around, Tick, Sync, Cancel, Boot, bfVars, passVars, walkVars, chunkVars
<1>18. CASE UNCHANGED vars
  BY <1>18 DEF vars, storageVars, bfVars, passVars, walkVars, chunkVars
<1>19. QED
  BY <1>1, <1>2, <1>3, <1>4, <1>5, <1>6, <1>7, <1>8, <1>9, <1>10, <1>11, <1>12,
     <1>13, <1>14, <1>15, <1>16, <1>17, <1>18 DEF Next, PassStep, WalkStep

\* Type correctness: the cursors of the loops stay in the calendar and in the
\* order of the loops, whatever the configuration.
THEOREM TypeCorrect == Spec => []TypeOK
<1>1. TypeOK /\ CursorsOK /\ [Next]_vars => TypeOK' /\ CursorsOK'
  BY TypeStep
<1>2. QED
  BY TypeInit, <1>1, PTL DEF Spec

-----------------------------------------------------------------------------
(* The candle files.                                                       *)

LEMMA FilesInit == Init => FilesInv
<1> SUFFICES ASSUME Init PROVE OneFilePerDay /\ RowsOK
  BY TypeInit DEF FilesInv
<1>1. OneFilePerDay
  BY DEF Init, StorageInit, OneFilePerDay
<1>2. RowsOK
  BY DEF Init, RowsOK, InAppend
<1>3. QED
  BY <1>1, <1>2

\* An upload replaces one file by the rows in memory; nothing else writes one.
LEMMA OnlyUploads ==
  ASSUME FilesInv, [Next]_vars
  PROVE  \/ blob' = blob
         \/ /\ pc = "upload" /\ cur \in Series /\ FileOf(cur, sub) \in Day
            /\ blob' = [blob EXCEPT ![cur][FileOf(cur, sub)] = rows]
<1>1. CASE UploadRows \/ AppendFails
  <2>1. pc = "upload" => cur \in Series /\ FileOf(cur, sub) \in Day
    BY SliceAtHand DEF FilesInv, CursorsOK, InChunk, InAppend
  <2>2. QED
    BY <1>1, <2>1 DEF UploadRows, AppendFails, Upload
<1>2. CASE ~(UploadRows \/ AppendFails)
  BY <1>2 DEF Next, PassStep, WalkStep, StartPass, StartJob, EndPass, LoadExchange,
     LeaveJob, StartInstrument, AbandonInstruments, NextExchange, StartChunk,
     AbandonChunks, EndInstrument, Fetch, FetchFails, AuthError, Download, EndChunk,
     CheckpointFails, Exit, StorageExit, Crash, StorageCrash, Around, Tick, Sync,
     Cancel, Boot, vars, storageVars
<1>3. QED
  BY <1>1, <1>2

LEMMA FilesGrow ==
  ASSUME FilesInv, RowsMerged, [Next]_vars
  PROVE  \A s \in Series, f \in Day : blob[s][f] \subseteq blob'[s][f]
<1>1. CASE blob' = blob
  BY <1>1
<1>2. CASE /\ pc = "upload" /\ cur \in Series /\ FileOf(cur, sub) \in Day
           /\ blob' = [blob EXCEPT ![cur][FileOf(cur, sub)] = rows]
  <2>1. blob[cur][FileOf(cur, sub)] \subseteq rows
    BY <1>2 DEF RowsMerged
  <2>2. blob \in [Series -> [Day -> SUBSET Day]]
    BY DEF FilesInv, TypeOK, StorageTypeOK
  <2>3. QED
    BY <1>2, <2>1, <2>2
<1>3. QED
  BY <1>1, <1>2, OnlyUploads

LEMMA RefusalsGrow ==
  ASSUME TypeOK, [Next]_vars
  PROVE  \A s \in Series : refused[s] \subseteq refused'[s]
<1>1. CASE FetchFails
  <2>1. refused \in [Series -> SUBSET Day]
    BY DEF TypeOK, StorageTypeOK
  <2>2. QED
    BY <1>1, <2>1 DEF FetchFails
<1>2. CASE ~FetchFails
  <2>1. refused' = refused
    BY <1>2 DEF Next, PassStep, WalkStep, StartPass, StartJob, EndPass, LoadExchange,
       LeaveJob, StartInstrument, AbandonInstruments, NextExchange, StartChunk,
       AbandonChunks, EndInstrument, Fetch, AuthError, Download, UploadRows,
       AppendFails, EndChunk, CheckpointFails, Exit, StorageExit, Crash,
       StorageCrash, Around, Tick, Sync, Cancel, Boot, vars, storageVars
  <2>2. QED
    BY <2>1
<1>3. QED
  BY <1>1, <1>2

LEMMA FilesStep ==
  ASSUME FilesInv, [Next]_vars
  PROVE  FilesInv'
<1> USE DEF FilesInv
<1>1. TypeOK' /\ CursorsOK'
  BY TypeStep
<1>2. OneFilePerDay'
  <2>1. CASE blob' = blob
    BY <2>1 DEF OneFilePerDay
  <2>2. CASE /\ pc = "upload" /\ cur \in Series /\ FileOf(cur, sub) \in Day
             /\ blob' = [blob EXCEPT ![cur][FileOf(cur, sub)] = rows]
    <3>1. \A d \in rows : d \in Market[cur] /\ FileOf(cur, d) = FileOf(cur, sub)
      BY <2>2 DEF RowsOK, InAppend
    <3>2. blob \in [Series -> [Day -> SUBSET Day]]
      BY DEF TypeOK, StorageTypeOK
    <3>3. QED
      BY <2>2, <3>1, <3>2 DEF OneFilePerDay, FileOf
  <2>3. QED
    BY <2>1, <2>2, OnlyUploads
<1>3. RowsOK'
  <2>1. CASE Fetch
    <3>1. CASE CandlesToMidnight(cur, sub, Slice) = {}
      BY <2>1, <3>1 DEF Fetch, NextSub, RowsOK, InAppend
    <3>2. CASE CandlesToMidnight(cur, sub, Slice) # {}
      <4>1. \A d \in CandlesToMidnight(cur, sub, Slice) :
              d \in Market[cur] /\ FileOf(cur, d) = FileOf(cur, sub)
        <5>1. cur \in Series /\ \A e \in sub .. Slice : FileOf(cur, e) = FileOf(cur, sub)
          BY <2>1, SliceAtHand DEF Fetch, InChunk
        <5>2. Slice \in Day /\ sub \in Day
          BY <2>1, SliceAtHand DEF Fetch, InChunk
        <5>3. CandlesToMidnight(cur, sub, Slice) \subseteq sub .. Slice
          BY <5>2, Calendar DEF CandlesToMidnight, DaysToMidnight
        <5>4. QED
          BY <5>1, <5>3, CandlesAreDays
      <4>2. rows' = CandlesToMidnight(cur, sub, Slice) /\ pc' = "download"
            /\ cur' = cur /\ sub' = sub
        BY <2>1, <3>2 DEF Fetch
      <4>3. QED
        BY <4>1, <4>2 DEF RowsOK, InAppend, FileOf
    <3>3. QED
      BY <3>1, <3>2
  <2>2. CASE Download
    <3>1. cur \in Series /\ FileOf(cur, sub) \in Day
      BY <2>2, SliceAtHand DEF Download, InChunk, InAppend, CursorsOK
    <3>2. \A d \in blob[cur][FileOf(cur, sub)] :
            d \in Market[cur] /\ FileOf(cur, d) = FileOf(cur, sub)
      BY <3>1 DEF OneFilePerDay
    <3>3. QED
      BY <2>2, <3>2 DEF Download, MergeCandles, RowsOK, InAppend, FileOf, storageVars
  <2>3. CASE Around
    BY <2>3 DEF Around, Tick, Sync, Cancel, Boot, bfVars, passVars, walkVars,
       chunkVars, RowsOK, InAppend, FileOf
  <2>4. CASE UNCHANGED vars
    BY <2>4 DEF vars, storageVars, bfVars, passVars, walkVars, chunkVars, RowsOK,
       InAppend, FileOf
  <2>5. CASE ~(Fetch \/ Download \/ Around \/ UNCHANGED vars)
    <3>1. pc' \notin {"download", "upload"}
      BY <2>5 DEF Next, PassStep, WalkStep, StartPass, StartJob, EndPass, NoPass,
         LoadExchange, LeaveJob, EndJob, StartInstrument, AbandonInstruments,
         NextExchange, StartChunk, AbandonChunks, EndInstrument, FetchFails, NextSub,
         AuthError, UploadRows, AppendFails, EndChunk, CheckpointFails, Exit, Crash,
         bfVars
    <3>2. QED
      BY <3>1 DEF RowsOK, InAppend
  <2>6. QED
    BY <2>1, <2>2, <2>3, <2>4, <2>5
<1>4. QED
  BY <1>1, <1>2, <1>3

\* Every candle is in the one file where its readers look for it.
THEOREM FilesCorrect == Spec => []OneFilePerDay
<1>1. FilesInv /\ [Next]_vars => FilesInv'
  BY FilesStep
<1>2. FilesInv => OneFilePerDay
  BY DEF FilesInv
<1>3. QED
  BY FilesInit, <1>1, <1>2, PTL DEF Spec

-----------------------------------------------------------------------------
(* What the walk relies on when nobody else writes.                        *)

LEMMA MergedStep ==
  ASSUME FilesInv, RowsMerged, [Next]_vars
  PROVE  RowsMerged'
<1>1. CASE Download
  BY <1>1 DEF Download, MergeCandles, RowsMerged, FileOf, storageVars
<1>2. CASE Around
  BY <1>2 DEF Around, Tick, Sync, Cancel, Boot, bfVars, passVars, walkVars, chunkVars,
     RowsMerged, FileOf
<1>3. CASE UNCHANGED vars
  BY <1>3 DEF vars, storageVars, bfVars, passVars, walkVars, chunkVars, RowsMerged, FileOf
<1>4. CASE ~(Download \/ Around \/ UNCHANGED vars)
  <2>1. pc' # "upload"
    BY <1>4 DEF Next, PassStep, WalkStep, StartPass, StartJob, EndPass, NoPass,
       LoadExchange, LeaveJob, EndJob, StartInstrument, AbandonInstruments,
       NextExchange, StartChunk, AbandonChunks, EndInstrument, Fetch, FetchFails,
       NextSub, AuthError, UploadRows, AppendFails, EndChunk, CheckpointFails, Exit,
       Crash, bfVars
  <2>2. QED
    BY <2>1 DEF RowsMerged
<1>5. QED
  BY <1>1, <1>2, <1>3, <1>4

LEMMA AheadStep ==
  ASSUME TypeOK, CursorsOK, AheadOfCkpt, [Next]_vars
  PROVE  AheadOfCkpt'
<1> USE DEF TypeOK, Walking
<1>1. CASE StartInstrument
  <2>1. ckpt' = ckpt
    BY <1>1 DEF StartInstrument, storageVars
  <2>2. pc' = "chunk" =>
          \E s \in todo : cur' = s /\ s \in Series /\ from' = ResumeFrom(s)
    BY <1>1 DEF StartInstrument, PassTypeOK
  <2>3. pc' = "chunk" \/ pc' = "instrument"
    BY <1>1 DEF StartInstrument
  <2>4. QED
    BY <2>1, <2>2, <2>3, ResumePoint DEF AheadOfCkpt
<1>2. CASE EndChunk
  <2>1. cur \in Series /\ to \in Int /\ from \in Int /\ ckpt[cur] < from /\ from <= to
    BY <1>2, Calendar DEF EndChunk, CursorsOK, InChunk, AheadOfCkpt, PassTypeOK
  <2>2. ckpt \in [Series -> Int]
    BY Calendar DEF StorageTypeOK, NotFound
  <2>3. cur' = cur /\ from' = to + 1 /\ (ckpt' = ckpt \/ ckpt' = [ckpt EXCEPT ![cur] = to])
    BY <1>2 DEF EndChunk, AfterChunk, ChunkOK, SetLastDate
  <2>4. ckpt'[cur] < to + 1
    BY <2>1, <2>2, <2>3
  <2>5. QED
    BY <2>3, <2>4 DEF AheadOfCkpt
<1>3. CASE ~(StartInstrument \/ EndChunk)
  <2>1. Walking' => Walking /\ UNCHANGED <<ckpt, cur, from>>
    BY <1>3 DEF Next, PassStep, WalkStep, StartPass, StartJob, EndPass, NoPass,
       LoadExchange, LeaveJob, EndJob, AbandonInstruments, NextExchange, StartChunk,
       AbandonChunks, EndInstrument, Fetch, FetchFails, NextSub, AuthError, Download,
       UploadRows, AppendFails, CheckpointFails, Exit, Crash, Around, Tick, Sync,
       Cancel, Boot, vars, storageVars, bfVars, passVars, walkVars, chunkVars, CursorsOK
  <2>2. QED
    BY <2>1 DEF AheadOfCkpt
<1>4. QED
  BY <1>1, <1>2, <1>3

\* The part of the inductive invariant that is about nobody else writing.
LEMMA AloneInit == Init => AheadOfCkpt /\ RowsMerged
BY DEF Init, AheadOfCkpt, RowsMerged, Walking

LEMMA AloneStep ==
  ASSUME FilesInv, AheadOfCkpt, RowsMerged, [Next]_vars
  PROVE  FilesInv' /\ AheadOfCkpt' /\ RowsMerged'
BY FilesStep, AheadStep, MergedStep DEF FilesInv

\* No step, failed upload, crash or repetition takes a candle out of the archive.
THEOREM ArchiveGrows == Spec => RowsNeverLost
<1> DEFINE Inv == FilesInv /\ AheadOfCkpt /\ RowsMerged
<1>1. Init => Inv
  BY FilesInit, AloneInit
<1>2. Inv /\ [Next]_vars => Inv'
  BY AloneStep
<1>3. Inv /\ [Next]_vars =>
        [\A s \in Series, f \in Day : blob[s][f] \subseteq blob'[s][f]]_vars
  BY FilesGrow
<1>4. QED
  BY <1>1, <1>2, <1>3, PTL DEF Spec, RowsNeverLost

-----------------------------------------------------------------------------
(* What a checkpoint says.                                                 *)

\* Where the checkpoints and their copies come from.
LEMMA CheckpointMoves ==
  ASSUME TypeOK, CursorsOK, AheadOfCkpt, [Next]_vars, NEW s \in Series
  PROVE  /\ \/ ckpt'[s] = ckpt[s]
            \/ ckpt'[s] = replica[s] /\ ~up
            \/ /\ EndChunk /\ up /\ allOK /\ s = cur
               /\ ckpt'[s] = to /\ ckpt[s] < to
         /\ replica'[s] = replica[s] \/ replica'[s] = ckpt[s]
<1>1. CASE EndChunk
  <2>1. cur \in Series /\ to \in Day /\ ckpt[cur] < from /\ from <= to /\ up
    BY <1>1 DEF EndChunk, AfterChunk, ChunkOK, CursorsOK, AheadOfCkpt, Walking, InChunk
  <2>2. ckpt \in [Series -> Int]
    BY Calendar DEF TypeOK, StorageTypeOK, NotFound
  <2>3. from \in Int /\ to \in Int
    BY <2>1, Calendar DEF TypeOK, PassTypeOK
  <2>4. ckpt[cur] < to
    BY <2>1, <2>2, <2>3
  <2>5. replica' = replica /\ ckpt' = IF allOK THEN [ckpt EXCEPT ![cur] = to] ELSE ckpt
    BY <1>1 DEF EndChunk, AfterChunk, ChunkOK, SetLastDate
  <2>6. QED
    BY <1>1, <2>1, <2>2, <2>4, <2>5
<1>2. CASE ~EndChunk
  <2>1. /\ ckpt' = ckpt \/ (ckpt' = replica /\ ~up)
        /\ replica' = replica \/ replica' = ckpt
    BY <1>2 DEF Next, PassStep, WalkStep, StartPass, StartJob, EndPass, LoadExchange,
       LeaveJob, StartInstrument, AbandonInstruments, NextExchange, StartChunk,
       AbandonChunks, EndInstrument, Fetch, FetchFails, AuthError, Download,
       UploadRows, AppendFails, CheckpointFails, Exit, StorageExit, Crash,
       StorageCrash, Around, Tick, Sync, Cancel, Boot, vars, storageVars
  <2>2. QED
    BY <2>1
<1>3. QED
  BY <1>1, <1>2

\* Progress is lost to a restart only: no step of a running process moves a
\* checkpoint back.
THEOREM Monotone == Spec => CkptMonotone
<1> DEFINE Inv == TypeOK /\ CursorsOK /\ AheadOfCkpt
<1>1. Inv /\ [Next]_vars => Inv'
  BY TypeStep, AheadStep
<1>2. ASSUME Inv, [Next]_vars
      PROVE  \A s \in Series : ckpt'[s] < ckpt[s] => ~up
  <2> SUFFICES ASSUME NEW s \in Series, ckpt'[s] < ckpt[s], up
               PROVE  FALSE
    OBVIOUS
  <2>1. ckpt[s] \in Int
    BY <1>2, Calendar DEF TypeOK, StorageTypeOK, NotFound
  <2>2. ckpt'[s] = ckpt[s] \/ (ckpt'[s] = to /\ ckpt[s] < to)
    BY <1>2, CheckpointMoves
  <2>3. to \in Int
    BY <1>2, Calendar DEF TypeOK, PassTypeOK
  <2>4. QED
    BY <2>1, <2>2, <2>3
<1>3. Inv /\ [Next]_vars =>
        [\A s \in Series : ckpt'[s] < ckpt[s] => ~up]_vars
  BY <1>2
<1>4. Init => Inv
  BY TypeInit, AloneInit
<1>5. QED
  BY <1>1, <1>3, <1>4, PTL DEF Spec, CkptMonotone

-----------------------------------------------------------------------------
(* No silent gap.                                                          *)

LEMMA InvInit == Init => IInv
<1> USE DEF Daily
<1> SUFFICES ASSUME Init PROVE NoSilentGap /\ WindowFetched /\ BeforeChunk /\ BeforeSub
  BY FilesInit, AloneInit DEF IInv, WalkInv
<1>1. NoSilentGap
  <2> SUFFICES ASSUME NEW s \in Daily,
                      NEW d \in Promised(s, ckpt[s]) \cup Promised(s, replica[s])
               PROVE  FALSE
    BY DEF NoSilentGap
  <2>1. BackfillFrom[s] <= d /\ d <= 0
    BY DEF Init, StorageInit, Promised, NotFound
  <2>2. BackfillFrom[s] \in Day /\ d \in Day
    BY StorageAssumption DEF Promised
  <2>3. QED
    BY <2>1, <2>2, Calendar
<1>2. WindowFetched /\ BeforeChunk /\ BeforeSub
  BY DEF Init, WindowFetched, BeforeChunk, BeforeSub, InAppend, InChunk
<1>3. QED
  BY <1>1, <1>2

\* What is in the archive, or reported, stays there.
LEMMA AccountsGrow ==
  ASSUME FilesInv, RowsMerged, [Next]_vars, NEW s \in Series, NEW d \in Day
  PROVE  (Stored(s, d) => Stored(s, d)') /\ (Accounted(s, d) => Accounted(s, d)')
<1>1. FileOf(s, d) \in Day
  BY StorageAssumption DEF FileOf
<1>2. Stored(s, d) => Stored(s, d)'
  BY <1>1, FilesGrow DEF Stored, FileOf
<1>3. refused[s] \subseteq refused'[s]
  BY RefusalsGrow DEF FilesInv
<1>4. QED
  BY <1>2, <1>3 DEF Accounted

\* What a chunk has seen to when it ends.
LEMMA ChunkDone ==
  ASSUME WalkInv, EndChunk, cur \in Daily
  PROVE  /\ \A d \in Market[cur] \cap (from .. to) :
              (allOK => Stored(cur, d)) /\ (~ctxDone => Accounted(cur, d))
         /\ allOK \/ ~ctxDone =>
              \A d \in Promised(cur, to) : Accounted(cur, d) \/ d <= ckpt[cur]
<1>1. InChunk /\ from \in Int /\ to \in Int /\ sub - 1 = to
  BY Calendar DEF WalkInv, FilesInv, TypeOK, PassTypeOK, CursorsOK, EndChunk, InChunk
<1>2. \A d \in Market[cur] \cap (from .. to) :
        (allOK => Stored(cur, d)) /\ (~ctxDone => Accounted(cur, d))
  BY <1>1 DEF WalkInv, BeforeSub
<1>3. ASSUME allOK \/ ~ctxDone, NEW d \in Promised(cur, to)
      PROVE  Accounted(cur, d) \/ d <= ckpt[cur]
  <2>1. cur \in Series /\ d \in Market[cur] /\ d \in Int /\ d <= to
    BY <1>1, StorageAssumption, Calendar DEF Promised, WalkInv, FilesInv, CursorsOK,
       Walking, InChunk
  <2>2. CASE d < from
    BY <1>1, <2>1, <2>2 DEF WalkInv, BeforeChunk, Promised
  <2>3. CASE from <= d
    BY <1>1, <1>2, <1>3, <2>1, <2>3 DEF Accounted
  <2>4. QED
    BY <1>1, <2>1, <2>2, <2>3
<1>4. QED
  BY <1>2, <1>3

\* Whatever gaps there are, no step of the backfill makes another.
LEMMA NoNewGap ==
  ASSUME WalkInv, [Next]_vars, NEW s \in Daily,
         NEW d \in Promised(s, ckpt'[s]) \cup Promised(s, replica'[s]),
         ~Accounted(s, d)'
  PROVE  d \in Promised(s, ckpt[s]) \cup Promised(s, replica[s]) /\ ~Accounted(s, d)
<1> USE DEF Daily
<1>1. d \in Day /\ d \in Market[s] /\ BackfillFrom[s] <= d
  BY StorageAssumption DEF Promised
<1>2. ~Accounted(s, d)
  BY <1>1, AccountsGrow DEF WalkInv
<1>3. d \in Promised(s, ckpt[s]) \cup Promised(s, replica[s])
  <2> SUFFICES ASSUME d \notin Promised(s, ckpt[s]) \cup Promised(s, replica[s])
               PROVE  FALSE
    OBVIOUS
  <2>1. EndChunk /\ allOK /\ s = cur /\ d \in Promised(cur, to)
    BY CheckpointMoves DEF WalkInv, FilesInv
  <2>2. Accounted(s, d) \/ d <= ckpt[s]
    BY <2>1, ChunkDone
  <2>3. QED
    BY <1>1, <1>2, <2>2 DEF Promised
<1>4. QED
  BY <1>2, <1>3

LEMMA GapStep ==
  ASSUME IInv, [Next]_vars
  PROVE  NoSilentGap'
<1> SUFFICES ASSUME NEW s \in Daily,
                    NEW d \in Promised(s, ckpt'[s]) \cup Promised(s, replica'[s])
             PROVE  Accounted(s, d)'
  BY DEF NoSilentGap, Promised, Daily
<1>1. ASSUME ~Accounted(s, d)' PROVE FALSE
  <2>1. d \in Promised(s, ckpt[s]) \cup Promised(s, replica[s]) /\ ~Accounted(s, d)
    BY <1>1, NoNewGap DEF IInv
  <2>2. QED
    BY <2>1 DEF IInv, NoSilentGap
<1>2. QED
  BY <1>1

LEMMA WindowStep ==
  ASSUME WalkInv, [Next]_vars
  PROVE  WindowFetched'
<1> USE DEF WindowFetched, InAppend
<1>1. CASE Fetch
  <2>1. rows' = CandlesToMidnight(cur, sub, Slice) \/ pc' = "fetch"
    BY <1>1 DEF Fetch, NextSub
  <2>2. cur' = cur /\ to' = to /\ (pc' = "fetch" \/ sub' = sub)
    BY <1>1 DEF Fetch, NextSub
  <2>3. QED
    BY <2>1, <2>2 DEF Daily, CandlesToMidnight, DaysToMidnight, Slice, SliceEnd, Lesser
<1>2. CASE Download
  BY <1>2 DEF Download, MergeCandles, Slice, SliceEnd, Lesser, WalkInv
<1>3. CASE UNCHANGED bfVars
  BY <1>3 DEF bfVars, passVars, walkVars, chunkVars, Slice, SliceEnd, Lesser, WalkInv
<1>4. CASE ~(Fetch \/ Download \/ UNCHANGED bfVars)
  <2>1. pc' \notin {"download", "upload"}
    BY <1>4 DEF Next, PassStep, WalkStep, StartPass, StartJob, EndPass, NoPass,
       LoadExchange, LeaveJob, EndJob, StartInstrument, AbandonInstruments,
       NextExchange, StartChunk, AbandonChunks, EndInstrument, FetchFails, NextSub,
       AuthError, UploadRows, AppendFails, EndChunk, CheckpointFails, Exit, Crash,
       Around, vars
  <2>2. QED
    BY <2>1
<1>5. QED
  BY <1>1, <1>2, <1>3, <1>4

LEMMA BeforeChunkStep ==
  ASSUME WalkInv, [Next]_vars
  PROVE  BeforeChunk'
<1> SUFFICES ASSUME cur' \in Daily, InChunk' \/ (pc' = "chunk" /\ ~ctxDone'),
                    NEW d \in Promised(cur', from' - 1)
             PROVE  Accounted(cur, d)' \/ d <= ckpt'[cur']
  BY DEF BeforeChunk, Promised, Daily
<1> USE DEF InChunk, Daily
<1>1. cur' \in Series /\ d \in Day
  <2>1. cur' \in Series
    BY TypeStep DEF WalkInv, FilesInv, CursorsOK, Walking
  <2>2. QED
    BY <2>1, StorageAssumption DEF Promised
<1>2. CASE StartInstrument
  <2>1. PICK s \in todo : cur' = s /\ from' = ResumeFrom(s)
    BY <1>2 DEF StartInstrument, walkVars
  <2>2. s \in Series /\ d \in Promised(s, ResumeFrom(s) - 1) /\ ckpt' = ckpt
    BY <1>1, <1>2, <2>1 DEF StartInstrument, storageVars
  <2>3. BackfillFrom[s] \in Int /\ d \in Int /\ ckpt[s] \in Int
    BY <1>1, <2>2, StorageAssumption, Calendar
       DEF WalkInv, FilesInv, TypeOK, StorageTypeOK, NotFound
  <2>4. d <= ckpt[s]
    BY <2>2, <2>3 DEF ResumeFrom, Promised
  <2>5. QED
    BY <2>1, <2>2, <2>4
<1>3. CASE EndChunk
  <2>1. cur' = cur /\ from' = to + 1 /\ ~ctxDone
    BY <1>3 DEF EndChunk, AfterChunk, ChunkOK
  <2>2. to \in Int /\ d \in Int /\ ckpt[cur] \in Int
    BY <1>1, <2>1, Calendar
       DEF WalkInv, FilesInv, TypeOK, PassTypeOK, StorageTypeOK, NotFound
  <2>3. d \in Promised(cur, to)
    BY <2>1, <2>2
  <2>4. Accounted(cur, d) \/ d <= ckpt[cur]
    BY <1>3, <2>1, <2>3, ChunkDone
  <2>5. ckpt[cur] <= ckpt'[cur]
    <3>1. ckpt \in [Series -> Int] /\ ckpt[cur] < from /\ from <= to /\ from \in Int
      BY <1>3, Calendar DEF EndChunk, WalkInv, FilesInv, TypeOK, PassTypeOK,
         StorageTypeOK, NotFound, CursorsOK, AheadOfCkpt, Walking
    <3>2. ckpt' = ckpt \/ ckpt' = [ckpt EXCEPT ![cur] = to]
      BY <1>3 DEF EndChunk, AfterChunk, ChunkOK, SetLastDate
    <3>3. QED
      BY <1>1, <2>1, <2>2, <3>1, <3>2
  <2>6. ckpt'[cur] \in Int
    BY <1>1, <2>1, TypeStep, Calendar DEF WalkInv, FilesInv, TypeOK, StorageTypeOK, NotFound
  <2>7. Accounted(cur, d) => Accounted(cur, d)'
    BY <1>1, <2>1, AccountsGrow DEF WalkInv, Accounted, Stored, FileOf
  <2>8. QED
    BY <2>1, <2>2, <2>4, <2>5, <2>6, <2>7
<1>4. CASE ~(StartInstrument \/ EndChunk)
  <2>1. /\ cur' = cur /\ from' = from /\ (InChunk \/ (pc = "chunk" /\ ~ctxDone))
        /\ ckpt' = ckpt
    BY <1>4 DEF Next, PassStep, WalkStep, StartPass, StartJob, EndPass, NoPass,
       LoadExchange, LeaveJob, EndJob, AbandonInstruments, NextExchange, StartChunk,
       AbandonChunks, EndInstrument, Fetch, FetchFails, NextSub, AuthError, Download,
       UploadRows, AppendFails, CheckpointFails, Exit, StorageExit, Crash, Around,
       Tick, Sync, Cancel, Boot, vars, storageVars, bfVars, passVars, walkVars,
       chunkVars, WalkInv, FilesInv, CursorsOK
  <2>2. Accounted(cur, d) \/ d <= ckpt[cur]
    BY <2>1 DEF WalkInv, BeforeChunk
  <2>3. Accounted(cur, d) => Accounted(cur, d)'
    BY <1>1, <2>1, AccountsGrow DEF WalkInv, Accounted, Stored, FileOf
  <2>4. QED
    BY <2>1, <2>2, <2>3
<1>5. QED
  BY <1>2, <1>3, <1>4

LEMMA BeforeSubStep ==
  ASSUME WalkInv, [Next]_vars
  PROVE  BeforeSub'
<1> SUFFICES ASSUME InChunk', cur' \in Daily, NEW d \in Market[cur'] \cap (from' .. sub' - 1)
             PROVE  (allOK' => Stored(cur, d)') /\ (~ctxDone' => Accounted(cur, d)')
  BY DEF BeforeSub, Daily
<1> USE DEF InChunk, Daily
<1>1. cur' \in Series /\ d \in Day
  <2>1. cur' \in Series
    BY TypeStep DEF WalkInv, FilesInv, CursorsOK, Walking
  <2>2. QED
    BY <2>1, StorageAssumption
<1>2. CASE StartChunk
  <2>1. from' = from /\ sub' = from /\ from \in Int /\ d \in Int
    BY <1>1, <1>2, Calendar DEF StartChunk, WalkInv, FilesInv, TypeOK, PassTypeOK
  <2>2. d \in from .. from - 1
    BY <2>1
  <2>3. QED
    BY <2>1, <2>2
<1>3. CASE Fetch \/ FetchFails \/ UploadRows
  <2>1. /\ InChunk /\ cur' = cur /\ from' = from /\ ctxDone' = ctxDone
        /\ allOK' => allOK
        /\ sub' = sub \/ sub' = Slice + 1
    BY <1>3 DEF Fetch, FetchFails, UploadRows, NextSub, storageVars
  <2>2. sub \in Day /\ Slice \in Day /\ sub <= Slice
        /\ \A e \in sub .. Slice : FileOf(cur, e) = FileOf(cur, sub)
    BY <1>3, SliceAtHand DEF Fetch, FetchFails, UploadRows, WalkInv, FilesInv, CursorsOK,
       InAppend
  <2>3. CASE d < sub
    <3>1. d \in Market[cur] \cap (from .. sub - 1)
      BY <1>1, <2>1, <2>2, <2>3, Calendar
    <3>2. (allOK => Stored(cur, d)) /\ (~ctxDone => Accounted(cur, d))
      BY <2>1, <3>1 DEF WalkInv, BeforeSub
    <3>3. (Stored(cur, d) => Stored(cur, d)') /\ (Accounted(cur, d) => Accounted(cur, d)')
      BY <1>1, <2>1, AccountsGrow DEF WalkInv
    <3>4. QED
      BY <2>1, <3>2, <3>3 DEF Accounted, Stored, FileOf
  <2>4. CASE sub <= d
    <3>1. sub' = Slice + 1 /\ d \in Market[cur] \cap (sub .. Slice)
      BY <1>1, <2>1, <2>2, <2>4, Calendar
    <3>2. CASE Fetch
      <4>1. CandlesToMidnight(cur, sub, Slice) = {}
        BY <2>2, <3>1, <3>2, Calendar DEF Fetch
      <4>2. d \in CandlesToMidnight(cur, sub, Slice)
        BY <2>1, <3>1 DEF CandlesToMidnight, DaysToMidnight
      <4>3. QED
        BY <4>1, <4>2
    <3>3. CASE FetchFails
      <4>1. allOK' = FALSE /\ (~ctxDone => refused' = [refused EXCEPT ![cur] = @ \cup (sub .. Slice)])
        BY <3>3 DEF FetchFails
      <4>2. refused \in [Series -> SUBSET Day]
        BY DEF WalkInv, FilesInv, TypeOK, StorageTypeOK
      <4>3. ~ctxDone => d \in refused'[cur]
        BY <1>1, <2>1, <3>1, <4>1, <4>2
      <4>4. QED
        BY <2>1, <4>1, <4>3 DEF Accounted
    <3>4. CASE UploadRows
      <4>1. d \in rows /\ FileOf(cur, d) = FileOf(cur, sub)
        BY <2>2, <3>1, <3>4 DEF UploadRows, WalkInv, WindowFetched, InAppend
      <4>2. FileOf(cur, sub) \in Day /\ blob \in [Series -> [Day -> SUBSET Day]]
        BY <1>1, <2>1, <2>2, StorageAssumption
           DEF FileOf, WalkInv, FilesInv, TypeOK, StorageTypeOK
      <4>3. blob'[cur][FileOf(cur, sub)] = rows
        BY <1>1, <2>1, <3>4, <4>2 DEF UploadRows, Upload
      <4>4. QED
        BY <2>1, <4>1, <4>3 DEF Accounted, Stored, FileOf
    <3>5. QED
      BY <1>3, <3>2, <3>3, <3>4
  <2>5. QED
    BY <1>1, <2>2, <2>3, <2>4, Calendar
<1>4. CASE ~(StartChunk \/ Fetch \/ FetchFails \/ UploadRows)
  <2>1. /\ InChunk /\ cur' = cur /\ from' = from /\ sub' = sub
        /\ allOK' = allOK /\ (ctxDone => ctxDone')
    BY <1>4 DEF Next, PassStep, WalkStep, StartPass, StartJob, EndPass, NoPass,
       LoadExchange, LeaveJob, EndJob, StartInstrument, AbandonInstruments,
       NextExchange, AbandonChunks, EndInstrument, AuthError, Download, AppendFails,
       EndChunk, CheckpointFails, Exit, StorageExit, Crash, Around, Tick, Sync,
       Cancel, Boot, vars, storageVars, bfVars, passVars, walkVars, chunkVars, WalkInv,
       FilesInv, CursorsOK
  <2>2. (allOK => Stored(cur, d)) /\ (~ctxDone => Accounted(cur, d))
    BY <2>1 DEF WalkInv, BeforeSub
  <2>3. (Stored(cur, d) => Stored(cur, d)') /\ (Accounted(cur, d) => Accounted(cur, d)')
    BY <1>1, <2>1, AccountsGrow DEF WalkInv
  <2>4. QED
    BY <2>1, <2>2, <2>3 DEF Accounted, Stored, FileOf
<1>5. QED
  BY <1>2, <1>3, <1>4

LEMMA WalkInvStep == WalkInv /\ [Next]_vars => WalkInv'
BY AloneStep, WindowStep, BeforeChunkStep, BeforeSubStep DEF WalkInv

LEMMA InvStep == IInv /\ [Next]_vars => IInv'
BY WalkInvStep, GapStep DEF IInv

\* The inductive invariant itself: what every loop has achieved so far.
THEOREM WalkCorrect == Spec => []IInv
<1>1. IInv /\ [Next]_vars => IInv'
  BY InvStep
<1>2. QED
  BY InvInit, <1>1, PTL DEF Spec

\* No candle of a daily series at or before a checkpoint, or before the copy of it
\* that a restart restores, is missing from the archive unless Kite refused its
\* window and the log says so.
THEOREM NoGap == Spec => []NoSilentGap
<1>1. IInv /\ [Next]_vars => IInv'
  BY InvStep
<1>2. IInv => NoSilentGap
  BY DEF IInv
<1>3. QED
  BY InvInit, <1>1, <1>2, PTL DEF Spec

\* The checkpoint of a daily series moves forward only over days that are all in
\* the archive: a chunk with a refused window moves nothing.
THEOREM CleanChunks == Spec => CleanChunk
<1> USE DEF Daily
<1>1. ASSUME IInv, [Next]_vars, NEW s \in Daily, up, ckpt'[s] > ckpt[s]
      PROVE  s = cur /\ \A d \in Market[s] \cap (from .. ckpt'[s]) : Stored(s, d)
  <2>1. ckpt[s] \in Int
    BY <1>1, Calendar DEF IInv, WalkInv, FilesInv, TypeOK, StorageTypeOK, NotFound
  <2>2. EndChunk /\ allOK /\ s = cur /\ ckpt'[s] = to
    BY <1>1, <2>1, CheckpointMoves DEF IInv, WalkInv, FilesInv
  <2>3. QED
    BY <1>1, <2>2, ChunkDone DEF IInv
<1>2. IInv /\ [Next]_vars =>
        [\A s \in Daily : up /\ ckpt'[s] > ckpt[s] =>
           /\ s = cur
           /\ \A d \in Market[s] \cap (from .. ckpt'[s]) : Stored(s, d)]_vars
  BY <1>1
<1>3. IInv /\ [Next]_vars => IInv'
  BY InvStep
<1>4. QED
  BY InvInit, <1>2, <1>3, PTL DEF Spec, CleanChunk

\* A backfill leaves nothing of a daily series unaccounted for behind it.
THEOREM Fills == Spec => BackfillFills
<1> USE DEF Daily
<1>1. ASSUME IInv, [Next]_vars, NEW s \in Daily, Finishes(s), ~ctxDone,
             NEW d \in Promised(s, end)
      PROVE  Accounted(s, d)
  <2>1. end \in Int /\ d \in Int /\ d <= end
    BY <1>1, StorageAssumption, Calendar
       DEF Promised, IInv, WalkInv, FilesInv, TypeOK, PassTypeOK
  <2>2. CASE pc = "chunk" /\ pc' = "instrument" /\ s = cur
    <3>1. from > end /\ from \in Int
      BY <1>1, <2>2, Calendar DEF Next, PassStep, WalkStep, StartPass, StartJob,
         EndPass, LoadExchange, LeaveJob, EndJob, StartInstrument,
         AbandonInstruments, NextExchange, StartChunk, AbandonChunks, EndInstrument,
         Fetch, FetchFails, AuthError, Download, UploadRows, AppendFails, EndChunk,
         CheckpointFails, Exit, Crash, NoPass, Around, bfVars, vars, IInv, WalkInv, FilesInv,
         TypeOK, PassTypeOK
    <3>2. d \in Promised(cur, from - 1)
      BY <1>1, <2>1, <2>2, <3>1 DEF Promised
    <3>3. Accounted(s, d) \/ d \in Promised(s, ckpt[s])
      BY <1>1, <2>2, <3>2 DEF IInv, WalkInv, BeforeChunk, Promised
    <3>4. QED
      BY <1>1, <3>3 DEF IInv, NoSilentGap
  <2>3. CASE pc = "instrument" /\ pc' = "instrument" /\ s \in todo \ todo'
    <3>1. StartInstrument /\ todo' # todo
      BY <1>1, <2>3 DEF Next, PassStep, WalkStep, StartPass, StartJob, EndPass,
         LoadExchange, LeaveJob, EndJob, AbandonInstruments, NextExchange, StartChunk,
         AbandonChunks, EndInstrument, Fetch, FetchFails, AuthError, Download,
         UploadRows, AppendFails, EndChunk, CheckpointFails, Exit, Crash, NoPass,
         Around, bfVars, passVars, vars
    <3>2. ResumeFrom(s) > end
      BY <2>3, <3>1 DEF StartInstrument
    <3>3. ckpt[s] \in Int /\ BackfillFrom[s] \in Int
      BY <1>1, StorageAssumption, Calendar
         DEF IInv, WalkInv, FilesInv, TypeOK, StorageTypeOK, NotFound
    <3>4. d \in Promised(s, ckpt[s])
      BY <1>1, <2>1, <3>2, <3>3 DEF Promised, ResumeFrom
    <3>5. QED
      BY <1>1, <3>4 DEF IInv, NoSilentGap
  <2>4. QED
    BY <1>1, <2>2, <2>3 DEF Finishes
<1>2. IInv /\ [Next]_vars =>
        [\A s \in Daily : Finishes(s) /\ ~ctxDone =>
           \A d \in Promised(s, end) : Accounted(s, d)]_vars
  BY <1>1
<1>3. IInv /\ [Next]_vars => IInv'
  BY InvStep
<1>4. QED
  BY InvInit, <1>2, <1>3, PTL DEF Spec, BackfillFills

\* If there are no intraday series and Kite never refuses a window, the archive is
\* complete up to every checkpoint.
THEOREM Complete == ASSUME Intraday = {}, ~FetchFaults PROVE Spec => []Covered
<1> DEFINE Inv == IInv /\ refused = [s \in Series |-> {}]
<1>1. Init => Inv
  BY InvInit DEF Init, StorageInit
<1>2. Inv /\ [Next]_vars => Inv'
  <2> SUFFICES ASSUME Inv, [Next]_vars PROVE refused' = refused
    BY InvStep
  <2>1. QED
    BY DEF Next, PassStep, WalkStep, StartPass, StartJob, EndPass, LoadExchange,
       LeaveJob, StartInstrument, AbandonInstruments, NextExchange, StartChunk,
       AbandonChunks, EndInstrument, Fetch, FetchFails, AuthError, Download,
       UploadRows, AppendFails, EndChunk, CheckpointFails, Exit, StorageExit, Crash,
       StorageCrash, Around, Tick, Sync, Cancel, Boot, vars, storageVars
<1>3. Inv => Covered
  BY DEF IInv, NoSilentGap, Accounted, Covered, Daily
<1>4. QED
  BY <1>1, <1>2, <1>3, PTL DEF Spec

-----------------------------------------------------------------------------
(* The abstract archive.                                                   *)

LEMMA ArchiveInit == Init => Arch!Init
<1> SUFFICES ASSUME Init PROVE Arch!Init
  OBVIOUS
<1>1. \A s \in Series : {d \in Day : Stored(s, d)} = {}
  <2> SUFFICES ASSUME NEW s \in Series, NEW d \in Day PROVE ~Stored(s, d)
    OBVIOUS
  <2>1. FileOf(s, d) \in Day
    BY StorageAssumption DEF FileOf
  <2>2. QED
    BY <2>1 DEF Init, StorageInit, Stored
<1>2. QED
  BY <1>1 DEF Init, StorageInit, Arch!Init, Readable, OfDaily, Daily, NotFound

\* What is seen of the daily series changes with a daily series only.
LEMMA DailyUpdate ==
  ASSUME NEW R, NEW x \in [Series -> R], NEW s \in Series, NEW v
  PROVE  OfDaily([x EXCEPT ![s] = v]) =
           IF s \in Daily THEN [OfDaily(x) EXCEPT ![s] = v] ELSE OfDaily(x)
  BY DEF OfDaily, Daily

\* An upload adds the merged rows to what is readable.
LEMMA UploadIsStore ==
  ASSUME IInv, pc = "upload", cur \in Series, FileOf(cur, sub) \in Day,
         blob' = [blob EXCEPT ![cur][FileOf(cur, sub)] = rows]
  PROVE  /\ rows \in SUBSET Market[cur]
         /\ Readable' = IF cur \in Daily THEN [Readable EXCEPT ![cur] = @ \cup rows]
                                         ELSE Readable
<1>1. rows \subseteq Day /\ blob \in [Series -> [Day -> SUBSET Day]]
  BY DEF IInv, WalkInv, FilesInv, TypeOK, PassTypeOK, StorageTypeOK
<1>2. /\ \A d \in rows : d \in Market[cur] /\ FileOf(cur, d) = FileOf(cur, sub)
      /\ blob[cur][FileOf(cur, sub)] \subseteq rows
  BY DEF IInv, WalkInv, FilesInv, RowsOK, RowsMerged, InAppend
<1>3. \A s \in Series, d \in Day : FileOf(s, d) \in Day
  BY StorageAssumption DEF FileOf
<1>4. ASSUME NEW s \in Series, NEW d \in Day
      PROVE  Stored(s, d)' <=> Stored(s, d) \/ (s = cur /\ d \in rows)
  <2>1. CASE s = cur /\ FileOf(cur, d) = FileOf(cur, sub)
    <3>1. blob'[s][FileOf(s, d)] = rows
      BY <1>1, <2>1
    <3>2. Stored(s, d) => d \in rows
      BY <1>2, <2>1 DEF Stored
    <3>3. QED
      BY <2>1, <3>1, <3>2 DEF Stored, FileOf
  <2>2. CASE ~(s = cur /\ FileOf(cur, d) = FileOf(cur, sub))
    <3>1. blob'[s][FileOf(s, d)] = blob[s][FileOf(s, d)]
      BY <1>1, <1>3, <2>2
    <3>2. ~(s = cur /\ d \in rows)
      BY <1>2, <2>2
    <3>3. QED
      BY <3>1, <3>2 DEF Stored, FileOf
  <2>3. QED
    BY <2>1, <2>2
<1>5. \A s \in Series : {d \in Day : Stored(s, d)'} =
        IF s = cur THEN {d \in Day : Stored(s, d)} \cup rows
                   ELSE {d \in Day : Stored(s, d)}
  BY <1>1, <1>4
<1>6. QED
  BY <1>2, <1>5 DEF Readable, Daily

LEMMA ArchiveStep ==
  ASSUME IInv, [Next]_vars
  PROVE  [Arch!Next]_Arch!archiveVars
<1> USE DEF Arch!archiveVars
<1>1. CASE blob' # blob
  <2>1. /\ pc = "upload" /\ cur \in Series /\ FileOf(cur, sub) \in Day
        /\ blob' = [blob EXCEPT ![cur][FileOf(cur, sub)] = rows]
    BY <1>1, OnlyUploads DEF IInv, WalkInv
  <2>2. UploadRows \/ AppendFails
    BY <1>1 DEF Next, PassStep, WalkStep, StartPass, StartJob, EndPass, LoadExchange,
       LeaveJob, StartInstrument, AbandonInstruments, NextExchange, StartChunk,
       AbandonChunks, EndInstrument, Fetch, FetchFails, AuthError, Download, EndChunk,
       CheckpointFails, Exit, StorageExit, Crash, StorageCrash, Around, Tick, Sync,
       Cancel, Boot, vars, storageVars
  <2>3. UNCHANGED <<ckpt, replica, refused>>
    BY <2>2 DEF UploadRows, AppendFails
  <2>4. CASE cur \in Daily
    <3>1. Arch!Store(cur)
      BY <2>1, <2>3, <2>4, UploadIsStore DEF Arch!Store, OfDaily
    <3>2. QED
      BY <2>4, <3>1 DEF Arch!Next
  <2>5. CASE cur \notin Daily
    BY <2>1, <2>3, <2>5, UploadIsStore DEF OfDaily
  <2>6. QED
    BY <2>4, <2>5
<1>2. CASE FetchFails
  <2>1. cur \in Series /\ sub .. Slice \subseteq Day
    BY <1>2, SliceAtHand, Calendar DEF FetchFails, InChunk, IInv, WalkInv, FilesInv
  <2>2. Readable' = Readable /\ UNCHANGED <<ckpt, replica>>
    BY <1>2 DEF FetchFails, Readable, Stored, FileOf
  <2>3. refused' = refused \/ refused' = [refused EXCEPT ![cur] = refused[cur] \cup (sub .. Slice)]
    BY <1>2 DEF FetchFails
  <2>4. CASE refused' = refused \/ cur \notin Daily
    <3>1. refused \in [Series -> SUBSET Day]
      BY DEF IInv, WalkInv, FilesInv, TypeOK, StorageTypeOK
    <3>2. OfDaily(refused') = OfDaily(refused)
      BY <2>1, <2>3, <2>4, <3>1, DailyUpdate
    <3>3. QED
      BY <2>2, <3>2 DEF OfDaily
  <2>5. CASE refused' # refused /\ cur \in Daily
    <3>1. refused \in [Series -> SUBSET Day]
      BY DEF IInv, WalkInv, FilesInv, TypeOK, StorageTypeOK
    <3>2. OfDaily(refused') =
            [OfDaily(refused) EXCEPT ![cur] = refused[cur] \cup (sub .. Slice)]
      BY <2>1, <2>3, <2>5, <3>1, DailyUpdate
    <3>3. OfDaily(refused)[cur] = refused[cur]
      BY <2>5 DEF OfDaily
    <3>4. Arch!Report(cur)
      BY <2>1, <2>2, <3>2, <3>3 DEF Arch!Report, OfDaily
    <3>5. QED
      BY <2>5, <3>4 DEF Arch!Next
  <2>6. QED
    BY <2>4, <2>5
<1>3. CASE EndChunk
  <2>1. cur \in Series /\ to \in Day
    BY <1>3 DEF EndChunk, AfterChunk, ChunkOK, IInv, WalkInv, FilesInv, CursorsOK, InChunk, Walking
  <2>2. Readable' = Readable /\ UNCHANGED <<replica, refused>>
    BY <1>3 DEF EndChunk, AfterChunk, ChunkOK, Readable, Stored, FileOf
  <2>3. ckpt \in [Series -> Day \cup {NotFound}]
    BY DEF IInv, WalkInv, FilesInv, TypeOK, StorageTypeOK
  <2>4. CASE allOK /\ cur \in Daily
    <3>1. ckpt' = [ckpt EXCEPT ![cur] = to]
      BY <1>3, <2>4 DEF EndChunk, AfterChunk, ChunkOK, SetLastDate
    <3>2. OfDaily(ckpt') = [OfDaily(ckpt) EXCEPT ![cur] = to] /\ OfDaily(ckpt)[cur] = ckpt[cur]
      <4>1. OfDaily(ckpt') = [OfDaily(ckpt) EXCEPT ![cur] = to]
        BY <2>1, <2>3, <2>4, <3>1, DailyUpdate
      <4>2. QED
        BY <2>4, <4>1 DEF OfDaily
    <3>3. ckpt[cur] < to
      <4>1. /\ ckpt[cur] < from /\ from <= to
            /\ from \in Int /\ to \in Int /\ ckpt[cur] \in Int
        BY <1>3, <2>1, Calendar DEF EndChunk, AfterChunk, ChunkOK, IInv, WalkInv, FilesInv, TypeOK, StorageTypeOK,
           PassTypeOK, CursorsOK, AheadOfCkpt, InChunk, Walking, NotFound
      <4>2. QED
        BY <4>1
    <3>4. \A e \in Market[cur] : BackfillFrom[cur] <= e /\ e <= to =>
            e \in Readable[cur] \cup OfDaily(refused)[cur]
      <4>1. \A e \in Promised(cur, to) : Accounted(cur, e)
        <5> SUFFICES ASSUME NEW e \in Promised(cur, to) PROVE Accounted(cur, e)
          OBVIOUS
        <5>1. Accounted(cur, e) \/ e \in Promised(cur, ckpt[cur])
          BY <1>3, <2>4, ChunkDone DEF IInv, Promised
        <5>2. QED
          BY <2>4, <5>1 DEF IInv, NoSilentGap
      <4>2. QED
        BY <2>1, <2>4, <4>1, StorageAssumption
           DEF Promised, Accounted, Readable, OfDaily
    <3>5. UNCHANGED <<Readable, OfDaily(refused), OfDaily(replica)>>
      BY <2>2 DEF OfDaily
    <3>6. Arch!Advance(cur)
      BY <2>1, <3>2, <3>3, <3>4, <3>5 DEF Arch!Advance
    <3>7. QED
      BY <2>4, <3>6 DEF Arch!Next
  <2>5. CASE ~allOK \/ cur \notin Daily
    <3>1. ckpt' = ckpt \/ (cur \notin Daily /\ ckpt' = [ckpt EXCEPT ![cur] = to])
      BY <1>3, <2>5 DEF EndChunk, AfterChunk, ChunkOK, SetLastDate
    <3>2. OfDaily(ckpt') = OfDaily(ckpt)
      BY <2>1, <2>3, <3>1, DailyUpdate
    <3>3. QED
      BY <2>2, <3>2 DEF OfDaily
  <2>6. QED
    BY <2>4, <2>5
<1>4. CASE blob' = blob /\ ~(FetchFails \/ EndChunk)
  <2>1. Readable' = Readable
    BY <1>4 DEF Readable, Stored, FileOf
  <2>2. /\ refused' = refused
        /\ \/ UNCHANGED <<ckpt, replica>>
           \/ ckpt' = replica /\ replica' = replica
           \/ ckpt' = ckpt /\ replica' = ckpt
    BY <1>4 DEF Next, PassStep, WalkStep, StartPass, StartJob, EndPass, LoadExchange,
       LeaveJob, StartInstrument, AbandonInstruments, NextExchange, StartChunk,
       AbandonChunks, EndInstrument, Fetch, AuthError, Download, UploadRows,
       AppendFails, CheckpointFails, Exit, StorageExit, Crash, StorageCrash, Around,
       Tick, Sync, Cancel, Boot, vars, storageVars
  <2>3. QED
    BY <2>1, <2>2 DEF Arch!Next, Arch!Save, Arch!Restore, OfDaily
<1>5. QED
  BY <1>1, <1>2, <1>3, <1>4

\* The backfill of daily series, with its files, calls, failures and restarts,
\* implements the abstract archive.
THEOREM Implementation == Spec => ImplementsArchive
<1>1. IInv /\ [Next]_vars => [Arch!Next]_Arch!archiveVars
  BY ArchiveStep
<1>2. IInv /\ [Next]_vars => IInv'
  BY InvStep
<1>3. QED
  BY ArchiveInit, InvInit, <1>1, <1>2, PTL DEF Spec, ImplementsArchive, Arch!Spec
=============================================================================
