------------------------- MODULE OptionsJobsProofs -------------------------
(***************************************************************************)
(* Theorems of OptionsJobs, for every value of its constants, of runs that *)
(* do not overlap.  A step of OptionsJobs is a step of one run as          *)
(* OptionsProofs knows it, while the other is idle, or a step of the       *)
(* surroundings, which both runs see.                                      *)
(***************************************************************************)
EXTENDS OptionsJobs, TLAPS

Night == INSTANCE OptionsProofs WITH
  pc <- nPc, end <- nEnd, queue <- nQueue, cur <- nCur,
  contracts <- nContracts, startFrom <- nStartFrom, from <- nFrom, to <- nTo,
  sub <- nSub, pending <- nPending, allOK <- nAllOK, rows <- nRows

Week == INSTANCE OptionsProofs WITH
  pc <- wPc, nightly <- ~TRUE, end <- wEnd, queue <- wQueue, cur <- wCur,
  contracts <- wContracts, startFrom <- wStartFrom, from <- wFrom, to <- wTo,
  sub <- wSub, pending <- wPending, allOK <- wAllOK, rows <- wRows

-----------------------------------------------------------------------------
(* The invariants.                                                         *)

\* No two runs at a time, and a run that is over knows no contracts.
Apart ==
  /\ nPc = "idle" \/ wPc = "idle"
  /\ nPc = "idle" => nContracts = {}
  /\ wPc = "idle" => wContracts = {}

JobsInv == Apart /\ Night!FilesInv /\ Week!FilesInv

\* With what holds of the walks as long as no two contracts share a key.
WalksInv == Apart /\ Night!IInv /\ Week!IInv

DistinctKeys ==
  \A s \in Daily : \A b, c \in Matches[s] : KeyOf[b] = KeyOf[c] => b = c

-----------------------------------------------------------------------------
(* The runs as OptionsJobs and as the lemmas of OptionsProofs see them.    *)

LEMMA RunAssumptions ==
  /\ Night!OptionsAssumption /\ Night!PeriodAssumption
  /\ Week!OptionsAssumption /\ Week!PeriodAssumption
<1>1. Night!OptionsAssumption
  BY OptionsAssumption
     DEF Night!OptionsAssumption, Night!IsFiniteSet, IsFiniteSet, Night!Day, Day
<1>2. Week!OptionsAssumption
  BY OptionsAssumption
     DEF Week!OptionsAssumption, Week!IsFiniteSet, IsFiniteSet, Week!Day, Day
<1>3. Night!PeriodAssumption /\ Week!PeriodAssumption
  BY PeriodAssumption DEF Night!PeriodAssumption, Week!PeriodAssumption,
     Night!Day, Week!Day, Day
<1>4. QED
  BY <1>1, <1>2, <1>3

LEMMA SameKeys ==
  DistinctKeys => Night!DistinctKeys /\ Week!DistinctKeys
BY DEF DistinctKeys, Night!DistinctKeys, Week!DistinctKeys, Daily, Night!Daily, Week!Daily
LEMMA NightCalls ==
  /\ N!NoRun <=> Night!NoRun
  /\ N!LeaveUnderlying <=> Night!LeaveUnderlying
  /\ N!NextSub <=> Night!NextSub
  /\ N!PutBook <=> Night!PutBook
  /\ N!Slice = Night!Slice
  /\ \A s, d : N!FileOf(s, d) = Night!FileOf(s, d)
  /\ \A s : N!ResumeFrom(s) = Night!ResumeFrom(s)
  /\ \A s : N!ContractsFor(s) = Night!ContractsFor(s)
<1>1. N!NoRun <=> Night!NoRun
  BY DEF N!NoRun, Night!NoRun, N!ClearWalk, Night!ClearWalk
<1>2. N!LeaveUnderlying <=> Night!LeaveUnderlying
  BY DEF N!LeaveUnderlying, Night!LeaveUnderlying, N!ClearWalk, Night!ClearWalk,
     N!runVars, Night!runVars
<1>3. N!Slice = Night!Slice
  BY DEF N!Slice, Night!Slice, N!SliceEnd, Night!SliceEnd, N!Lesser, Night!Lesser
<1>4. N!NextSub <=> Night!NextSub
  BY <1>3 DEF N!NextSub, Night!NextSub
<1>5. \A s, d : N!FileOf(s, d) = Night!FileOf(s, d)
  BY DEF N!FileOf, Night!FileOf
<1>6. N!PutBook <=> Night!PutBook
  BY <1>5 DEF N!PutBook, Night!PutBook
<1>7. \A s : N!ResumeFrom(s) = Night!ResumeFrom(s)
  BY DEF N!ResumeFrom, Night!ResumeFrom, N!StartDate, Night!StartDate,
     N!NotFound, Night!NotFound
<1>8. \A s : N!ContractsFor(s) = Night!ContractsFor(s)
  BY DEF N!ContractsFor, Night!ContractsFor
<1>9. QED
  BY <1>1, <1>2, <1>3, <1>4, <1>5, <1>6, <1>7, <1>8

LEMMA NightSteps ==
  /\ N!StartNightly => Night!StartNightly
  /\ N!RunStep => Night!RunStep
<1> USE NightCalls
<1> USE DEF N!outside, Night!outside, N!runVars, Night!runVars, N!walkVars, Night!walkVars,
            N!chunkVars, Night!chunkVars
<1>1. N!StartNightly => Night!StartNightly
  BY DEF N!StartNightly, Night!StartNightly, N!LastTradingDay, Night!LastTradingDay,
     N!Listing, Night!Listing, N!Day, Night!Day
<1>2. N!EndRun => Night!EndRun
  BY DEF N!EndRun, Night!EndRun
<1>3. N!BeginUnderlying => Night!BeginUnderlying
  BY DEF N!BeginUnderlying, Night!BeginUnderlying
<1>4. N!QueryFails => Night!QueryFails
  BY DEF N!QueryFails, Night!QueryFails
<1>5. N!EndUnderlying => Night!EndUnderlying
  BY DEF N!EndUnderlying, Night!EndUnderlying
<1>6. N!StartChunk => Night!StartChunk
  BY DEF N!StartChunk, Night!StartChunk, N!ChunkEnd, Night!ChunkEnd, N!Lesser,
         Night!Lesser
<1>7. N!Cancelled => Night!Cancelled
  BY DEF N!Cancelled, Night!Cancelled
<1>8. N!FetchContract => Night!FetchContract
  BY DEF N!FetchContract, Night!FetchContract, N!MergeOptionCandles,
         Night!MergeOptionCandles, N!RowKey, Night!RowKey, N!DaysToMidnight,
         Night!DaysToMidnight
<1>9. N!FetchContractFails => Night!FetchContractFails
  BY DEF N!FetchContractFails, Night!FetchContractFails
<1>10. N!AuthError => Night!AuthError
  BY DEF N!AuthError, Night!AuthError
<1>11. N!EndFetch => Night!EndFetch
  BY DEF N!EndFetch, Night!EndFetch
<1>12. N!Download => Night!Download
  BY DEF N!Download, Night!Download, N!MergeOptionCandles, Night!MergeOptionCandles,
         N!RowKey, Night!RowKey
<1>13. N!UploadRows => Night!UploadRows
  BY DEF N!UploadRows, Night!UploadRows
<1>14. N!AppendFails => Night!AppendFails
  BY DEF N!AppendFails, Night!AppendFails
<1>15. N!EndChunk => Night!EndChunk
  BY DEF N!EndChunk, Night!EndChunk
<1>16. N!CheckpointFails => Night!CheckpointFails
  BY DEF N!CheckpointFails, Night!CheckpointFails
<1>17. QED
  BY <1>1, <1>2, <1>3, <1>4, <1>5, <1>6, <1>7, <1>8, <1>9, <1>10, <1>11, <1>12,
     <1>13, <1>14, <1>15, <1>16 DEF N!RunStep, Night!RunStep

LEMMA WeekCalls ==
  /\ W!NoRun <=> Week!NoRun
  /\ W!LeaveUnderlying <=> Week!LeaveUnderlying
  /\ W!NextSub <=> Week!NextSub
  /\ W!PutBook <=> Week!PutBook
  /\ W!Slice = Week!Slice
  /\ \A s, d : W!FileOf(s, d) = Week!FileOf(s, d)
  /\ \A s : W!ResumeFrom(s) = Week!ResumeFrom(s)
  /\ \A s : W!ContractsFor(s) = Week!ContractsFor(s)
<1>1. W!NoRun <=> Week!NoRun
  BY DEF W!NoRun, Week!NoRun, W!ClearWalk, Week!ClearWalk
<1>2. W!LeaveUnderlying <=> Week!LeaveUnderlying
  BY DEF W!LeaveUnderlying, Week!LeaveUnderlying, W!ClearWalk, Week!ClearWalk,
     W!runVars, Week!runVars
<1>3. W!Slice = Week!Slice
  BY DEF W!Slice, Week!Slice, W!SliceEnd, Week!SliceEnd, W!Lesser, Week!Lesser
<1>4. W!NextSub <=> Week!NextSub
  BY <1>3 DEF W!NextSub, Week!NextSub
<1>5. \A s, d : W!FileOf(s, d) = Week!FileOf(s, d)
  BY DEF W!FileOf, Week!FileOf
<1>6. W!PutBook <=> Week!PutBook
  BY <1>5 DEF W!PutBook, Week!PutBook
<1>7. \A s : W!ResumeFrom(s) = Week!ResumeFrom(s)
  BY DEF W!ResumeFrom, Week!ResumeFrom, W!StartDate, Week!StartDate,
     W!NotFound, Week!NotFound
<1>8. \A s : W!ContractsFor(s) = Week!ContractsFor(s)
  BY DEF W!ContractsFor, Week!ContractsFor
<1>9. QED
  BY <1>1, <1>2, <1>3, <1>4, <1>5, <1>6, <1>7, <1>8

LEMMA WeekSteps ==
  /\ W!StartBackfill => Week!StartBackfill
  /\ W!RunStep => Week!RunStep
<1> USE WeekCalls
<1> USE DEF W!outside, Week!outside, W!runVars, Week!runVars, W!walkVars, Week!walkVars,
            W!chunkVars, Week!chunkVars
<1>1. W!StartBackfill => Week!StartBackfill
  BY DEF W!StartBackfill, Week!StartBackfill, W!LastTradingDay, Week!LastTradingDay,
     W!Listing, Week!Listing, W!Day, Week!Day
<1>2. W!EndRun => Week!EndRun
  BY DEF W!EndRun, Week!EndRun
<1>3. W!BeginUnderlying => Week!BeginUnderlying
  BY DEF W!BeginUnderlying, Week!BeginUnderlying
<1>4. W!QueryFails => Week!QueryFails
  BY DEF W!QueryFails, Week!QueryFails
<1>5. W!EndUnderlying => Week!EndUnderlying
  BY DEF W!EndUnderlying, Week!EndUnderlying
<1>6. W!StartChunk => Week!StartChunk
  BY DEF W!StartChunk, Week!StartChunk, W!ChunkEnd, Week!ChunkEnd, W!Lesser,
         Week!Lesser
<1>7. W!Cancelled => Week!Cancelled
  BY DEF W!Cancelled, Week!Cancelled
<1>8. W!FetchContract => Week!FetchContract
  BY DEF W!FetchContract, Week!FetchContract, W!MergeOptionCandles,
         Week!MergeOptionCandles, W!RowKey, Week!RowKey, W!DaysToMidnight,
         Week!DaysToMidnight
<1>9. W!FetchContractFails => Week!FetchContractFails
  BY DEF W!FetchContractFails, Week!FetchContractFails
<1>10. W!AuthError => Week!AuthError
  BY DEF W!AuthError, Week!AuthError
<1>11. W!EndFetch => Week!EndFetch
  BY DEF W!EndFetch, Week!EndFetch
<1>12. W!Download => Week!Download
  BY DEF W!Download, Week!Download, W!MergeOptionCandles, Week!MergeOptionCandles,
         W!RowKey, Week!RowKey
<1>13. W!UploadRows => Week!UploadRows
  BY DEF W!UploadRows, Week!UploadRows
<1>14. W!AppendFails => Week!AppendFails
  BY DEF W!AppendFails, Week!AppendFails
<1>15. W!EndChunk => Week!EndChunk
  BY DEF W!EndChunk, Week!EndChunk
<1>16. W!CheckpointFails => Week!CheckpointFails
  BY DEF W!CheckpointFails, Week!CheckpointFails
<1>17. QED
  BY <1>1, <1>2, <1>3, <1>4, <1>5, <1>6, <1>7, <1>8, <1>9, <1>10, <1>11, <1>12,
     <1>13, <1>14, <1>15, <1>16 DEF W!RunStep, Week!RunStep

\* What happens around the runs is a step of either.
LEMMA SharedSteps ==
  ASSUME Snapshot \/ Around \/ Restart \/ UNCHANGED vars
  PROVE  [Night!Next]_(Night!vars) /\ [Week!Next]_(Week!vars)
<1> USE DEF N!outside, Night!outside, Week!outside, N!runVars, Night!runVars, Week!runVars,
            N!walkVars, Night!walkVars, Week!walkVars, N!chunkVars, Night!chunkVars,
            Week!chunkVars, nightVars, weekVars
<1>1. CASE Snapshot
  <2>1. Night!Snapshot /\ Week!Snapshot
    BY <1>1 DEF Snapshot, N!Snapshot, Night!Snapshot, Week!Snapshot,
       N!Listing, Night!Listing, Week!Listing
  <2>2. QED
    BY <2>1 DEF Night!Next, Week!Next
<1>2. CASE Around
  <2>1. CASE N!Tick
    <3>1. Night!Tick /\ Week!Tick
      BY <1>2, <2>1 DEF Around, N!Tick, Night!Tick, Week!Tick
    <3>2. QED
      BY <3>1 DEF Night!Next, Week!Next
  <2>2. CASE N!Sync
    <3>1. Night!Sync /\ Week!Sync
      BY <1>2, <2>2 DEF Around, N!Sync, Night!Sync, Week!Sync
    <3>2. QED
      BY <3>1 DEF Night!Next, Week!Next
  <2>3. CASE N!Cancel
    <3>1. Night!Cancel /\ Week!Cancel
      BY <1>2, <2>3 DEF Around, N!Cancel, Night!Cancel, Week!Cancel
    <3>2. QED
      BY <3>1 DEF Night!Next, Week!Next
  <2>4. QED
    BY <1>2, <2>1, <2>2, <2>3 DEF Around
<1>3. CASE Restart
  <2>1. Night!NoRun /\ Week!NoRun
    BY <1>3, NightCalls, WeekCalls DEF Restart, N!Restart
  <2>2. Night!Restart /\ Week!Restart
    BY <1>3, <2>1 DEF Restart, N!Restart, Night!Restart, Week!Restart
  <2>3. QED
    BY <2>2 DEF Night!Next, Week!Next
<1>4. CASE UNCHANGED vars
  BY <1>4 DEF vars, Night!vars, Week!vars
<1>5. QED
  BY <1>1, <1>2, <1>3, <1>4

\* While the runs are kept apart, every step is one of the three kinds.
NightMoves == Night!Next /\ wPc = "idle" /\ UNCHANGED weekVars
WeekMoves == Week!Next /\ nPc = "idle" /\ UNCHANGED nightVars
BothSee == [Night!Next]_(Night!vars) /\ [Week!Next]_(Week!vars)

LEMMA NightRuns == N!RunStep => nPc # "idle"
BY DEF N!RunStep, N!EndRun, N!BeginUnderlying, N!QueryFails, N!EndUnderlying, N!StartChunk,
   N!Cancelled, N!FetchContract, N!FetchContractFails, N!AuthError, N!EndFetch,
   N!Download, N!UploadRows, N!AppendFails, N!EndChunk, N!CheckpointFails

LEMMA WeekRuns == W!RunStep => wPc # "idle"
BY DEF W!RunStep, W!EndRun, W!BeginUnderlying, W!QueryFails, W!EndUnderlying, W!StartChunk,
   W!Cancelled, W!FetchContract, W!FetchContractFails, W!AuthError, W!EndFetch,
   W!Download, W!UploadRows, W!AppendFails, W!EndChunk, W!CheckpointFails

LEMMA EveryStep ==
  ASSUME ~MayOverlap, Apart, [Next]_vars
  PROVE  NightMoves \/ WeekMoves \/ BothSee
<1>1. CASE StartNightly \/ NightlyStep
  <2>1. wPc = "idle" /\ UNCHANGED weekVars
    BY <1>1, NightRuns DEF StartNightly, NightlyStep, Apart
  <2>2. Night!Next
    BY <1>1, NightSteps DEF StartNightly, NightlyStep, Night!Next
  <2>3. QED
    BY <2>1, <2>2 DEF NightMoves
<1>2. CASE StartBackfill \/ BackfillStep
  <2>1. nPc = "idle" /\ UNCHANGED nightVars
    BY <1>2, WeekRuns DEF StartBackfill, BackfillStep, Apart
  <2>2. Week!Next
    BY <1>2, WeekSteps DEF StartBackfill, BackfillStep, Week!Next
  <2>3. QED
    BY <2>1, <2>2 DEF WeekMoves
<1>3. CASE Snapshot \/ Around \/ Restart \/ UNCHANGED vars
  BY <1>3, SharedSteps DEF BothSee
<1>4. QED
  BY <1>1, <1>2, <1>3 DEF Next

LEMMA NightEnds ==
  ASSUME N!RunStep
  PROVE  nPc' = "idle" => nContracts' = {}
<1>1. CASE N!EndRun
  BY <1>1 DEF N!EndRun, N!NoRun, N!ClearWalk
<1>2. CASE ~N!EndRun
  <2>1. nPc' # "idle"
    BY <1>2 DEF N!RunStep, N!BeginUnderlying, N!QueryFails, N!EndUnderlying,
       N!LeaveUnderlying, N!StartChunk, N!Cancelled, N!FetchContract, N!FetchContractFails,
       N!AuthError, N!EndFetch, N!Download, N!UploadRows, N!AppendFails, N!EndChunk,
       N!CheckpointFails, N!NextSub
  <2>2. QED
    BY <2>1
<1>3. QED
  BY <1>1, <1>2

LEMMA WeekEnds ==
  ASSUME W!RunStep
  PROVE  wPc' = "idle" => wContracts' = {}
<1>1. CASE W!EndRun
  BY <1>1 DEF W!EndRun, W!NoRun, W!ClearWalk
<1>2. CASE ~W!EndRun
  <2>1. wPc' # "idle"
    BY <1>2 DEF W!RunStep, W!BeginUnderlying, W!QueryFails, W!EndUnderlying,
       W!LeaveUnderlying, W!StartChunk, W!Cancelled, W!FetchContract, W!FetchContractFails,
       W!AuthError, W!EndFetch, W!Download, W!UploadRows, W!AppendFails, W!EndChunk,
       W!CheckpointFails, W!NextSub
  <2>2. QED
    BY <2>1
<1>3. QED
  BY <1>1, <1>2

LEMMA ApartStep ==
  ASSUME ~MayOverlap, Apart, [Next]_vars
  PROVE  Apart'
<1> USE DEF Apart
<1>1. CASE StartNightly
  BY <1>1 DEF StartNightly, N!StartNightly, weekVars
<1>2. CASE StartBackfill
  BY <1>2 DEF StartBackfill, W!StartBackfill, nightVars
<1>3. CASE NightlyStep
  BY <1>3, NightRuns, NightEnds DEF NightlyStep, weekVars
<1>4. CASE BackfillStep
  BY <1>4, WeekRuns, WeekEnds DEF BackfillStep, nightVars
<1>5. CASE Snapshot \/ Around
  BY <1>5 DEF Snapshot, Around, N!Snapshot, N!Tick, N!Sync, N!Cancel, weekVars,
     N!walkVars
<1>6. CASE Restart
  BY <1>6 DEF Restart, N!Restart, N!NoRun, N!ClearWalk, W!NoRun, W!ClearWalk
<1>7. CASE UNCHANGED vars
  BY <1>7 DEF vars, nightVars, weekVars
<1>8. QED
  BY <1>1, <1>2, <1>3, <1>4, <1>5, <1>6, <1>7 DEF Next

\* What a run that is idle needs of the files and checkpoints, the other keeps.
LEMMA WeekRests ==
  ASSUME wPc = "idle", UNCHANGED weekVars, Week!FilesInv, Night!FilesInv'
  PROVE  Week!FilesInv'
<1>1. UNCHANGED <<wPc, wEnd, wQueue, wCur, wContracts, wStartFrom, wFrom, wTo, wSub,
                  wPending, wAllOK, wRows>>
  BY DEF weekVars
<1>2. Week!TypeOK'
  <2>1. Night!TypeOK' /\ Week!TypeOK
    BY DEF Night!FilesInv, Week!FilesInv
  <2>2. wAllOK' \in BOOLEAN
    BY <1>1, <2>1 DEF Week!TypeOK
  <2>3. QED
    BY <1>1, <2>1, <2>2 DEF Night!TypeOK, Week!TypeOK, Night!Row, Week!Row,
       Night!Day, Week!Day, Night!NotFound, Week!NotFound
<1>3. Week!CursorsOK'
  BY <1>1 DEF Week!FilesInv, Week!CursorsOK, Week!Walking, Week!InChunk, Week!InAppend
<1>4. Week!SavedBehind' /\ Week!BooksInv'
  BY DEF Night!FilesInv, Night!SavedBehind, Week!SavedBehind, Night!BooksInv,
     Week!BooksInv, Night!OfFile, Week!OfFile, Night!OneRowPerKey, Week!OneRowPerKey,
     Night!FileOf, Week!FileOf, Night!RowKey, Week!RowKey, Night!Day, Week!Day
<1>5. Week!RowsOK'
  BY <1>1 DEF Week!RowsOK, Week!InChunk
<1>6. QED
  BY <1>2, <1>3, <1>4, <1>5 DEF Week!FilesInv

LEMMA NightRests ==
  ASSUME nPc = "idle", UNCHANGED nightVars, Night!FilesInv, Week!FilesInv'
  PROVE  Night!FilesInv'
<1>1. UNCHANGED <<nPc, nightly, nEnd, nQueue, nCur, nContracts, nStartFrom, nFrom, nTo,
                  nSub, nPending, nAllOK, nRows>>
  BY DEF nightVars
<1>2. Night!TypeOK'
  <2>1. Week!TypeOK' /\ Night!TypeOK
    BY DEF Night!FilesInv, Week!FilesInv
  <2>2. nAllOK' \in BOOLEAN /\ nightly' \in BOOLEAN
    BY <1>1, <2>1 DEF Night!TypeOK
  <2>3. QED
    BY <1>1, <2>1, <2>2 DEF Night!TypeOK, Week!TypeOK, Night!Row, Week!Row,
       Night!Day, Week!Day, Night!NotFound, Week!NotFound
<1>3. Night!CursorsOK'
  BY <1>1 DEF Night!FilesInv, Night!CursorsOK, Night!Walking, Night!InChunk, Night!InAppend
<1>4. Night!SavedBehind' /\ Night!BooksInv'
  BY DEF Week!FilesInv, Night!SavedBehind, Week!SavedBehind, Night!BooksInv,
     Week!BooksInv, Night!OfFile, Week!OfFile, Night!OneRowPerKey, Week!OneRowPerKey,
     Night!FileOf, Week!FileOf, Night!RowKey, Week!RowKey, Night!Day, Week!Day
<1>5. Night!RowsOK'
  BY <1>1 DEF Night!RowsOK, Night!InChunk
<1>6. QED
  BY <1>2, <1>3, <1>4, <1>5 DEF Night!FilesInv

LEMMA JobsInit == Init => JobsInv
<1> SUFFICES ASSUME Init PROVE JobsInv
  OBVIOUS
<1>1. Night!Init /\ Week!Init
  BY DEF Init, N!Init, W!Init, Night!Init, Week!Init, N!Day, W!Day, Night!Day, Week!Day,
     N!NotFound, W!NotFound, Night!NotFound, Week!NotFound
<1>2. Night!FilesInv /\ Week!FilesInv
  BY <1>1, RunAssumptions, Night!FilesInit, Week!FilesInit
<1>3. Apart
  BY <1>1 DEF Apart, Night!Init, Week!Init
<1>4. QED
  BY <1>2, <1>3 DEF JobsInv

LEMMA JobsStep ==
  ASSUME ~MayOverlap, JobsInv, [Next]_vars
  PROVE  JobsInv'
<1>1. Apart'
  BY ApartStep DEF JobsInv
<1>2. CASE NightMoves
  <2>1. Night!FilesInv'
    BY <1>2, RunAssumptions, Night!FilesStep DEF NightMoves, JobsInv
  <2>2. QED
    BY <1>1, <1>2, <2>1, WeekRests DEF NightMoves, JobsInv
<1>3. CASE WeekMoves
  <2>1. Week!FilesInv'
    BY <1>3, RunAssumptions, Week!FilesStep DEF WeekMoves, JobsInv
  <2>2. QED
    BY <1>1, <1>3, <2>1, NightRests DEF WeekMoves, JobsInv
<1>4. CASE BothSee
  <2>1. Night!FilesInv' /\ Week!FilesInv'
    BY <1>4, RunAssumptions, Night!FilesStep, Week!FilesStep DEF BothSee, JobsInv
  <2>2. QED
    BY <1>1, <2>1 DEF JobsInv
<1>5. QED
  BY <1>2, <1>3, <1>4, EveryStep DEF JobsInv

\* With the runs apart, cursors stay in the calendar and rows are rows of contracts,
\* whatever lists, refusals, restarts and cancellations either run meets.
THEOREM TypeCorrect == ASSUME ~MayOverlap PROVE Spec => []TypeOK
<1>1. JobsInv /\ [Next]_vars => JobsInv'
  BY JobsStep
<1>2. JobsInv => TypeOK
  <2> SUFFICES ASSUME JobsInv PROVE TypeOK
    OBVIOUS
  <2>1. Night!TypeOK /\ Week!TypeOK
    BY DEF JobsInv, Night!FilesInv, Week!FilesInv
  <2>2. N!TypeOK
    BY <2>1 DEF N!TypeOK, Night!TypeOK, N!Row, Night!Row, N!Day, Night!Day,
       N!NotFound, Night!NotFound
  <2>3. W!TypeOK
    BY <2>1 DEF W!TypeOK, Week!TypeOK, W!Row, Week!Row, W!Day, Week!Day,
       W!NotFound, Week!NotFound
  <2>4. QED
    BY <2>2, <2>3 DEF TypeOK
<1>3. QED
  BY JobsInit, <1>1, <1>2, PTL DEF Spec

\* With the runs apart, every row is in the file of its own day, once.
THEOREM BooksCorrect == ASSUME ~MayOverlap PROVE Spec => []BooksOK
<1>1. JobsInv /\ [Next]_vars => JobsInv'
  BY JobsStep
<1>2. JobsInv => BooksOK
  BY RunAssumptions, Night!BooksFollow DEF JobsInv, BooksOK, N!BooksOK, Night!BooksOK,
     N!FileOf, Night!FileOf, N!RowKey, Night!RowKey, N!Day, Night!Day
<1>3. QED
  BY JobsInit, <1>1, <1>2, PTL DEF Spec

\* When no underlying's name is a prefix of another's, a file holds the contracts
\* of its own underlying only: the prefix match is all that can go wrong.
THEOREM OwnContracts ==
  ASSUME ~MayOverlap, \A s \in Series : Matches[s] = Own[s]
  PROVE  Spec => []OwnContractsOnly
<1>1. JobsInv /\ [Next]_vars => JobsInv'
  BY JobsStep
<1>2. JobsInv => OwnContractsOnly
  BY RunAssumptions, Night!OwnFollows DEF JobsInv, OwnContractsOnly, N!OwnContractsOnly,
     Night!OwnContractsOnly, N!Day, Night!Day
<1>3. QED
  BY JobsInit, <1>1, <1>2, PTL DEF Spec

LEMMA KeysGrow ==
  ASSUME ~MayOverlap, JobsInv, [Next]_vars, NEW s \in Series, NEW f \in Day
  PROVE  {RowKey(r) : r \in book[s][f]} \subseteq {RowKey(r) : r \in book'[s][f]}
<1> USE DEF JobsInv
<1>1. f \in Night!Day /\ f \in Week!Day
  BY DEF Day, Night!Day, Week!Day
<1>2. CASE [Night!Next]_(Night!vars)
  <2>1. Night!Keys(book[s][f]) \subseteq Night!Keys(book'[s][f])
    BY <1>1, <1>2, RunAssumptions, Night!KeysGrow
  <2>2. QED
    BY <2>1 DEF Night!Keys, Night!RowKey, RowKey
<1>3. CASE [Week!Next]_(Week!vars)
  <2>1. Week!Keys(book[s][f]) \subseteq Week!Keys(book'[s][f])
    BY <1>1, <1>3, RunAssumptions, Week!KeysGrow
  <2>2. QED
    BY <2>1 DEF Week!Keys, Week!RowKey, RowKey
<1>4. QED
  BY <1>2, <1>3, EveryStep DEF NightMoves, WeekMoves, BothSee

\* With the runs apart, no candle of a contract leaves its file.
THEOREM KeysKept == ASSUME ~MayOverlap PROVE Spec => KeysNeverLost
<1>1. JobsInv /\ [Next]_vars => JobsInv'
  BY JobsStep
<1>2. JobsInv /\ [Next]_vars =>
        [\A s \in Series, f \in N!Day :
           {N!RowKey(r) : r \in book[s][f]} \subseteq {N!RowKey(r) : r \in book'[s][f]}]_(N!vars)
  BY KeysGrow DEF N!Day, Day, N!RowKey, RowKey
<1>3. QED
  BY JobsInit, <1>1, <1>2, PTL DEF Spec, KeysNeverLost, N!KeysNeverLost

-----------------------------------------------------------------------------
(* What the walks achieve, when no two contracts share a key.              *)

\* An idle run has no walk of which the rest of the invariant could speak.
LEMMA WeekWalkRests ==
  ASSUME wPc = "idle", UNCHANGED weekVars, Week!IInv, Night!IInv'
  PROVE  Week!IInv'
<1>1. wPc' = "idle"
  BY DEF weekVars
<1>2. Week!FilesInv'
  BY WeekRests DEF Week!IInv, Night!IInv
<1>3. Week!ListsOK'
  BY <1>1 DEF Night!IInv, Night!ListsOK, Week!ListsOK, Night!Lasting, Week!Lasting,
     Week!Walking
<1>4. Week!OriginOK' /\ Week!BeforeChunk' /\ Week!BeforeSub' /\ Week!WindowFetched'
  BY <1>1 DEF Week!OriginOK, Week!BeforeChunk, Week!BeforeSub, Week!WindowFetched,
     Week!Walking, Week!InChunk
<1>5. QED
  BY <1>2, <1>3, <1>4 DEF Week!IInv

LEMMA NightWalkRests ==
  ASSUME nPc = "idle", UNCHANGED nightVars, Night!IInv, Week!IInv'
  PROVE  Night!IInv'
<1>1. nPc' = "idle"
  BY DEF nightVars
<1>2. Night!FilesInv'
  BY NightRests DEF Week!IInv, Night!IInv
<1>3. Night!ListsOK'
  BY <1>1 DEF Week!IInv, Night!ListsOK, Week!ListsOK, Night!Lasting, Week!Lasting,
     Night!Walking
<1>4. Night!OriginOK' /\ Night!BeforeChunk' /\ Night!BeforeSub' /\ Night!WindowFetched'
  BY <1>1 DEF Night!OriginOK, Night!BeforeChunk, Night!BeforeSub, Night!WindowFetched,
     Night!Walking, Night!InChunk
<1>5. QED
  BY <1>2, <1>3, <1>4 DEF Night!IInv

LEMMA WalksInit == Init => WalksInv
<1> SUFFICES ASSUME Init PROVE WalksInv
  OBVIOUS
<1>1. Night!Init /\ Week!Init
  BY DEF Init, N!Init, W!Init, Night!Init, Week!Init, N!Day, W!Day, Night!Day, Week!Day,
     N!NotFound, W!NotFound, Night!NotFound, Week!NotFound
<1>2. Night!IInv /\ Week!IInv
  BY <1>1, RunAssumptions, Night!InvInit, Week!InvInit
<1>3. QED
  BY <1>2, JobsInit DEF WalksInv, JobsInv

LEMMA WalksStep ==
  ASSUME ~MayOverlap, DistinctKeys, WalksInv, [Next]_vars
  PROVE  WalksInv'
<1>1. Apart'
  BY ApartStep DEF WalksInv
<1>2. CASE NightMoves
  <2>1. Night!IInv'
    BY <1>2, RunAssumptions, SameKeys, Night!InvStep DEF NightMoves, WalksInv
  <2>2. QED
    BY <1>1, <1>2, <2>1, WeekWalkRests DEF NightMoves, WalksInv
<1>3. CASE WeekMoves
  <2>1. Week!IInv'
    BY <1>3, RunAssumptions, SameKeys, Week!InvStep DEF WeekMoves, WalksInv
  <2>2. QED
    BY <1>1, <1>3, <2>1, NightWalkRests DEF WeekMoves, WalksInv
<1>4. CASE BothSee
  <2>1. Night!IInv' /\ Week!IInv'
    BY <1>4, RunAssumptions, SameKeys, Night!InvStep, Week!InvStep DEF BothSee, WalksInv
  <2>2. QED
    BY <1>1, <2>1 DEF WalksInv
<1>5. QED
  BY <1>2, <1>3, <1>4, EveryStep DEF WalksInv

\* With the runs apart, a checkpoint moves over days that are in the file for every
\* contract of the list, as long as no two contracts share a key.
THEOREM CleanChunks ==
  ASSUME ~MayOverlap, DistinctKeys
  PROVE  Spec => CleanChunk
<1>1. WalksInv /\ [Next]_vars => WalksInv'
  BY WalksStep
<1>2. ASSUME WalksInv, [Next]_vars, NEW s \in N!Daily, ckpt'[s] > ckpt[s],
             NEW c \in nContracts, NEW d \in Market[c] \cap (nFrom .. ckpt'[s])
      PROVE  N!Held(s, c, d)
  <2>1. [Night!Next]_(Night!vars)
    BY <1>2, EveryStep DEF WalksInv, Apart, NightMoves, WeekMoves, BothSee
  <2>2. s \in Night!Daily
    BY <1>2 DEF N!Daily, Night!Daily
  <2>3. Night!Held(s, c, d)
    BY <1>2, <2>1, <2>2, RunAssumptions, Night!CleanStep DEF WalksInv
  <2>4. QED
    BY <2>3 DEF N!Held, Night!Held, N!FileOf, Night!FileOf
<1>3. ASSUME WalksInv, [Next]_vars, NEW s \in W!Daily, ckpt'[s] > ckpt[s],
             NEW c \in wContracts, NEW d \in Market[c] \cap (wFrom .. ckpt'[s])
      PROVE  W!Held(s, c, d)
  <2>1. [Week!Next]_(Week!vars)
    BY <1>3, EveryStep DEF WalksInv, Apart, NightMoves, WeekMoves, BothSee
  <2>2. s \in Week!Daily
    BY <1>3 DEF W!Daily, Week!Daily
  <2>3. Week!Held(s, c, d)
    BY <1>3, <2>1, <2>2, RunAssumptions, Week!CleanStep DEF WalksInv
  <2>4. QED
    BY <2>3 DEF W!Held, Week!Held, W!FileOf, Week!FileOf
<1>4. WalksInv /\ [Next]_vars =>
        [\A s \in N!Daily : ckpt'[s] > ckpt[s] =>
           \A c \in nContracts : \A d \in Market[c] \cap (nFrom .. ckpt'[s]) :
             N!Held(s, c, d)]_(N!vars)
  BY <1>2
<1>5. WalksInv /\ [Next]_vars =>
        [\A s \in W!Daily : ckpt'[s] > ckpt[s] =>
           \A c \in wContracts : \A d \in Market[c] \cap (wFrom .. ckpt'[s]) :
             W!Held(s, c, d)]_(W!vars)
  BY <1>3
<1>6. QED
  BY WalksInit, <1>1, <1>4, <1>5, PTL DEF Spec, CleanChunk, N!CleanChunk, W!CleanChunk

\* With the runs apart, a walk to its end accounts for every day and contract it
\* set out for, as long as no two contracts share a key.
THEOREM Fills ==
  ASSUME ~MayOverlap, DistinctKeys
  PROVE  Spec => WalkFills
<1>1. WalksInv /\ [Next]_vars => WalksInv'
  BY WalksStep
<1>2. ASSUME WalksInv, [Next]_vars, nPc = "chunk", nPc' = "underlying", ~ctxDone,
             nCur \in N!Daily,
             NEW c \in nContracts, NEW d \in Market[c] \cap (nStartFrom .. nEnd)
      PROVE  N!Accounted(nCur, c, d)
  <2>1. [Night!Next]_(Night!vars)
    BY <1>2, EveryStep DEF WalksInv, Apart, NightMoves, WeekMoves, BothSee
  <2>2. nCur \in Night!Daily
    BY <1>2 DEF N!Daily, Night!Daily
  <2>3. Night!Accounted(nCur, c, d)
    BY <1>2, <2>1, <2>2, RunAssumptions, Night!FillStep DEF WalksInv
  <2>4. QED
    BY <2>3 DEF N!Accounted, Night!Accounted, N!Held, Night!Held, N!FileOf, Night!FileOf
<1>3. ASSUME WalksInv, [Next]_vars, wPc = "chunk", wPc' = "underlying", ~ctxDone,
             wCur \in W!Daily,
             NEW c \in wContracts, NEW d \in Market[c] \cap (wStartFrom .. wEnd)
      PROVE  W!Accounted(wCur, c, d)
  <2>1. [Week!Next]_(Week!vars)
    BY <1>3, EveryStep DEF WalksInv, Apart, NightMoves, WeekMoves, BothSee
  <2>2. wCur \in Week!Daily
    BY <1>3 DEF W!Daily, Week!Daily
  <2>3. Week!Accounted(wCur, c, d)
    BY <1>3, <2>1, <2>2, RunAssumptions, Week!FillStep DEF WalksInv
  <2>4. QED
    BY <2>3 DEF W!Accounted, Week!Accounted, W!Held, Week!Held, W!FileOf, Week!FileOf
<1>4. WalksInv /\ [Next]_vars =>
        [nPc = "chunk" /\ nPc' = "underlying" /\ ~ctxDone /\ nCur \in N!Daily =>
           \A c \in nContracts : \A d \in Market[c] \cap (nStartFrom .. nEnd) :
             N!Accounted(nCur, c, d)]_(N!vars)
  BY <1>2
<1>5. WalksInv /\ [Next]_vars =>
        [wPc = "chunk" /\ wPc' = "underlying" /\ ~ctxDone /\ wCur \in W!Daily =>
           \A c \in wContracts : \A d \in Market[c] \cap (wStartFrom .. wEnd) :
             W!Accounted(wCur, c, d)]_(W!vars)
  BY <1>3
<1>6. QED
  BY WalksInit, <1>1, <1>4, <1>5, PTL DEF Spec, WalkFills, N!WalkFills, W!WalkFills

\* With the runs apart and no two contracts that share a key, a silent gap of a
\* contract that every snapshot lists comes from a nightly run that found no
\* checkpoint, and from nothing else.
THEOREM GapsPredate ==
  ASSUME ~MayOverlap, DistinctKeys
  PROVE  Spec => GapsPredateNightly
<1>1. WalksInv /\ [Next]_vars => WalksInv'
  BY WalksStep
<1>2. ASSUME WalksInv, [Next]_vars,
             NEW s \in N!Daily, NEW c \in Contracts, NEW d \in N!Day,
             ~N!SilentGap(s, c, d), N!SilentGap(s, c, d)'
      PROVE  nightly /\ s = nCur /\ ckpt[s] = N!NotFound /\ d < nStartFrom
  <2> USE DEF N!SilentGap, N!Accounted, N!Held, N!FileOf, N!Daily, N!Day
  <2>1. CASE [Night!Next]_(Night!vars)
    <3>1. s \in Night!Daily /\ d \in Night!Day
      BY <1>2 DEF Night!Daily, Night!Day
    <3>2. ~Night!SilentGap(s, c, d) /\ Night!SilentGap(s, c, d)'
      BY <1>2 DEF Night!SilentGap, Night!Accounted, Night!Held, Night!FileOf
    <3>3. nightly /\ s = nCur /\ ckpt[s] = Night!NotFound /\ d < nStartFrom
      BY <1>2, <2>1, <3>1, <3>2, RunAssumptions, SameKeys, Night!GapStep DEF WalksInv
    <3>4. QED
      BY <3>3 DEF N!NotFound, Night!NotFound
  <2>2. CASE [Week!Next]_(Week!vars)
    <3>1. s \in Week!Daily /\ d \in Week!Day
      BY <1>2 DEF Week!Daily, Week!Day
    <3>2. ~Week!SilentGap(s, c, d) /\ Week!SilentGap(s, c, d)'
      BY <1>2 DEF Week!SilentGap, Week!Accounted, Week!Held, Week!FileOf
    <3>3. FALSE
      BY <1>2, <2>2, <3>1, <3>2, RunAssumptions, SameKeys, Week!GapStep DEF WalksInv
    <3>4. QED
      BY <3>3
  <2>3. QED
    BY <1>2, <2>1, <2>2, EveryStep DEF WalksInv, NightMoves, WeekMoves, BothSee
<1>3. WalksInv /\ [Next]_vars =>
        [\A s \in N!Daily, c \in Contracts, d \in N!Day :
           ~N!SilentGap(s, c, d) /\ N!SilentGap(s, c, d)' =>
             nightly /\ s = nCur /\ ckpt[s] = N!NotFound /\ d < nStartFrom]_(N!vars)
  BY <1>2
<1>4. QED
  BY WalksInit, <1>1, <1>3, PTL DEF Spec, GapsPredateNightly, N!GapsPredateNightly
=============================================================================
