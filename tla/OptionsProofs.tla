--------------------------- MODULE OptionsProofs ---------------------------
(***************************************************************************)
(* What the steps of Options preserve and do, for every value of its       *)
(* constants.  OptionsJobsProofs takes these lemmas for the nightly run    *)
(* and for the backfill, and concludes what holds of the two.              *)
(***************************************************************************)
EXTENDS Options, TLAPS

Walking == pc \in {"chunk", "fetch", "download", "upload"}
InChunk == pc \in {"fetch", "download", "upload"}
InAppend == pc \in {"download", "upload"}

Keys(R) == {RowKey(r) : r \in R}

\* No two rows have the same key.
OneRowPerKey(R) == \A q, r \in R : RowKey(q) = RowKey(r) => q = r

\* Rows of the file f of s: of contracts that were taken for contracts of s, on
\* days of the file for which Kite has candles.
OfFile(s, f, R) ==
  \A r \in R : r[1] \in Matches[s] /\ r[2] \in Market[r[1]] /\ FileOf(s, r[2]) = f

\* Where the cursors of the loops stand.
CursorsOK ==
  /\ nightly => pc # "idle" /\ end \in Day
  /\ ~InChunk => pending = {}
  /\ Walking => /\ cur \in Series /\ contracts \subseteq Matches[cur]
                /\ startFrom \in Day /\ startFrom <= from /\ ckpt[cur] < from
  /\ InChunk => from <= sub /\ sub <= to + 1 /\ from <= to /\ to \in Day
  /\ InAppend => sub <= to /\ pending = {}

\* A restart never takes a checkpoint forward.
SavedBehind == \A s \in Series : saved[s] <= ckpt[s]

BooksInv ==
  \A s \in Series, f \in Day : OfFile(s, f, book[s][f]) /\ OneRowPerKey(book[s][f])

\* The rows in memory belong to the file that they will replace, and have every
\* key that it has.
RowsOK ==
  InChunk =>
    /\ sub > to => rows = {}
    /\ sub <= to => OfFile(cur, FileOf(cur, sub), rows) /\ OneRowPerKey(rows)
    /\ pc = "upload" => Keys(book[cur][FileOf(cur, sub)]) \subseteq Keys(rows)

FilesInv == TypeOK /\ CursorsOK /\ SavedBehind /\ BooksInv /\ RowsOK

-----------------------------------------------------------------------------

Lasting == {c \in Contracts : 1 .. LastDay + 1 \subseteq ListedOn[c]}

\* A snapshot has every contract that is always listed.
ListsOK ==
  /\ listed = {} \/ Lasting \subseteq listed
  /\ savedList = {} \/ Lasting \subseteq savedList
  /\ Walking => Own[cur] \cap Lasting \subseteq contracts

\* Where a walk began: at the first day of all, after the checkpoint, or on the
\* day of a nightly run.
OriginOK ==
  Walking =>
    \/ startFrom <= BackfillFrom[cur]
    \/ startFrom <= ckpt[cur] + 1
    \/ nightly /\ ckpt[cur] = NotFound

BeforeChunk ==
  cur \in Daily /\ (InChunk \/ (pc = "chunk" /\ ~ctxDone)) =>
    \A c \in contracts : \A d \in Market[c] \cap (startFrom .. from - 1) :
      Accounted(cur, c, d)

BeforeSub ==
  InChunk /\ cur \in Daily =>
    \A c \in contracts : \A d \in Market[c] \cap (from .. sub - 1) :
      (allOK => Held(cur, c, d)) /\ (~ctxDone => Accounted(cur, c, d))

\* Of the sub-chunk, what has been fetched is among the rows.
WindowFetched ==
  InChunk /\ sub <= to /\ cur \in Daily =>
    \A c \in contracts \ pending : \A d \in Market[c] \cap (sub .. Slice) :
      /\ allOK => <<c, d>> \in rows
      /\ ~ctxDone => <<c, d>> \in rows \/ <<cur, c, d>> \in refused

IInv ==
  FilesInv /\ ListsOK /\ OriginOK /\ BeforeChunk /\ BeforeSub /\ WindowFetched

DistinctKeys ==
  \A s \in Daily : \A b, c \in Matches[s] : KeyOf[b] = KeyOf[c] => b = c

-----------------------------------------------------------------------------
(* The calendar.                                                           *)

LEMMA Calendar == LastDay \in Nat /\ Day = 1 .. LastDay
BY OptionsAssumption DEF Day

LEMMA SliceInOneFile ==
  ASSUME NEW s \in Series, NEW d \in Day, NEW t \in Day, d <= t
  PROVE  /\ SliceEnd(s, d, t) \in Day
         /\ d <= SliceEnd(s, d, t) /\ SliceEnd(s, d, t) <= t
         /\ FileOf(s, d) \in Day
         /\ \A e \in d .. SliceEnd(s, d, t) : FileOf(s, e) = FileOf(s, d)
<1>1. PeriodEnd[s][d] \in Day /\ d <= PeriodEnd[s][d]
  BY OptionsAssumption, PeriodAssumption
<1>2. \A e \in d .. PeriodEnd[s][d] : PeriodEnd[s][e] = PeriodEnd[s][d]
  BY PeriodAssumption
<1>3. SliceEnd(s, d, t) <= PeriodEnd[s][d] /\ SliceEnd(s, d, t) <= t
      /\ d <= SliceEnd(s, d, t) /\ SliceEnd(s, d, t) \in Day
  BY <1>1 DEF SliceEnd, Lesser, Day
<1>4. QED
  BY <1>1, <1>2, <1>3 DEF FileOf, Day

LEMMA ChunkInRange ==
  ASSUME NEW s \in Series, NEW d \in Day, NEW e \in Int, e <= LastDay, d <= e
  PROVE  ChunkEnd(s, d, e) \in Day /\ d <= ChunkEnd(s, d, e) /\ ChunkEnd(s, d, e) <= e
<1>1. ChunkDays[s] \in Int /\ ChunkDays[s] >= 1
  BY OptionsAssumption
<1>2. LastDay \in Int
  BY OptionsAssumption
<1>3. d \in Int /\ 1 <= d
  BY <1>2 DEF Day
<1>4. QED
  BY <1>1, <1>2, <1>3 DEF ChunkEnd, Lesser, Day

LEMMA LastTradingDayInRange ==
  ASSUME NEW t \in 1 .. LastDay + 1
  PROVE  LastTradingDay(t) \in Int /\ LastTradingDay(t) <= LastDay
<1>1. (t - 1) % 7 = 6 => LastTradingDay(t) = t - 2
  BY DEF LastTradingDay
<1>2. (t - 1) % 7 = 0 => LastTradingDay(t) = t - 3
  BY Calendar DEF LastTradingDay
<1>3. (t - 1) % 7 \notin {0, 6} => LastTradingDay(t) = t - 1
  BY DEF LastTradingDay
<1>4. QED
  BY <1>1, <1>2, <1>3, Calendar

\* The sub-chunk at hand.
LEMMA SliceAtHand ==
  ASSUME TypeOK, CursorsOK, InChunk, sub <= to
  PROVE  /\ cur \in Series /\ sub \in Day /\ to \in Day
         /\ Slice \in Day /\ sub <= Slice /\ Slice <= to
         /\ FileOf(cur, sub) \in Day
         /\ \A e \in sub .. Slice : FileOf(cur, e) = FileOf(cur, sub)
<1>1. cur \in Series /\ sub \in Day /\ to \in Day
  BY Calendar DEF TypeOK, CursorsOK, InChunk, Walking
<1>2. QED
  BY <1>1, SliceInOneFile DEF Slice

\* A walk begins on a day after the checkpoint, or past the horizon.
LEMMA ResumePoint ==
  ASSUME TypeOK, CursorsOK, pc = "underlying", NEW s \in Series
  PROVE  ResumeFrom(s) \in Nat \ {0} /\ ckpt[s] < ResumeFrom(s)
<1>1. ckpt[s] \in Day \cup {NotFound} /\ BackfillFrom[s] \in Day
  BY OptionsAssumption DEF TypeOK
<1>2. nightly => end \in Day
  BY DEF CursorsOK
<1>3. QED
  BY <1>1, <1>2, Calendar DEF ResumeFrom, StartDate, NotFound

-----------------------------------------------------------------------------
(* Rows and keys.                                                          *)

LEMMA KeyOfRow ==
  ASSUME NEW q, NEW r
  PROVE  RowKey(q) = RowKey(r) <=> KeyOf[q[1]] = KeyOf[r[1]] /\ q[2] = r[2]
BY DEF RowKey

\* What MergeOptionCandles returns: every key of either file, once, and rows of
\* one or the other.
LEMMA MergeOfRows ==
  ASSUME NEW old, NEW new, OneRowPerKey(old), OneRowPerKey(new)
  PROVE  LET m == MergeOptionCandles(old, new) IN
           /\ OneRowPerKey(m) /\ new \subseteq m /\ m \subseteq old \cup new
           /\ Keys(m) = Keys(old) \cup Keys(new)
<1> DEFINE m == MergeOptionCandles(old, new)
<1>1. new \subseteq m /\ m \subseteq old \cup new
  BY DEF MergeOptionCandles
<1>2. OneRowPerKey(m)
  BY DEF MergeOptionCandles, OneRowPerKey
<1>3. Keys(m) = Keys(old) \cup Keys(new)
  <2>1. ASSUME NEW r \in old PROVE RowKey(r) \in Keys(m)
    <3>1. CASE \E i \in new : RowKey(i) = RowKey(r)
      BY <3>1, <1>1 DEF Keys
    <3>2. CASE \A i \in new : RowKey(i) # RowKey(r)
      BY <3>2, <2>1 DEF Keys, MergeOptionCandles
    <3>3. QED
      BY <3>1, <3>2
  <2>2. QED
    BY <1>1, <2>1 DEF Keys
<1>4. QED
  BY <1>1, <1>2, <1>3

LEMMA CandlesOfContract ==
  ASSUME NEW c \in Contracts, NEW s, NEW d \in Int, NEW e \in Int
  PROVE  LET new == {c} \X (Market[c] \cap DaysToMidnight(s, d, e)) IN
           /\ new \subseteq Row /\ OneRowPerKey(new)
           /\ \A r \in new : r[1] = c /\ r[2] \in Market[c] /\ r[2] \in d .. e
           /\ s \notin Intraday => \A x \in Market[c] \cap (d .. e) : <<c, x>> \in new
<1> DEFINE new == {c} \X (Market[c] \cap DaysToMidnight(s, d, e))
<1>1. Market[c] \subseteq Day
  BY OptionsAssumption
<1>2. DaysToMidnight(s, d, e) \subseteq d .. e
  BY DEF DaysToMidnight
<1>3. \A r \in new : r = <<c, r[2]>> /\ r[2] \in Market[c] /\ r[2] \in d .. e
  BY <1>2
<1>4. OneRowPerKey(new)
  BY <1>3, KeyOfRow DEF OneRowPerKey
<1>5. new \subseteq Row
  BY <1>1 DEF Row
<1>6. s \notin Intraday => \A x \in Market[c] \cap (d .. e) : <<c, x>> \in new
  BY DEF DaysToMidnight
<1>7. QED
  BY <1>3, <1>4, <1>5, <1>6

-----------------------------------------------------------------------------
(* Types and cursors.                                                      *)

LEMMA TypeInit == Init => TypeOK /\ CursorsOK
<1> SUFFICES ASSUME Init PROVE TypeOK /\ CursorsOK
  OBVIOUS
<1>1. TypeOK
  <2>1. nightly \in BOOLEAN /\ allOK \in BOOLEAN /\ ctxDone \in BOOLEAN
    BY DEF Init
  <2>2. QED
    BY <2>1, Calendar DEF Init, TypeOK, NotFound
<1>2. CursorsOK
  <2>1. ~nightly
    BY DEF Init
  <2>2. QED
    BY <2>1 DEF Init, CursorsOK, Walking, InChunk, InAppend
<1>3. QED
  BY <1>1, <1>2

LEMMA Idle ==
  ASSUME NoRun
  PROVE  nightly' \in BOOLEAN /\ allOK' \in BOOLEAN /\ ~nightly'
BY DEF NoRun, ClearWalk

\* The steps that end the walk of an underlying, and touch nothing else.
Leaves == EndUnderlying \/ Cancelled \/ AuthError \/ CheckpointFails

LEMMA Leaving ==
  ASSUME Leaves
  PROVE  pc \in {"chunk", "fetch"} /\ LeaveUnderlying /\ UNCHANGED outside
BY DEF Leaves, EndUnderlying, Cancelled, AuthError, CheckpointFails

\* The file that an upload or a failed upload writes.
LEMMA BookAtHand ==
  ASSUME TypeOK, CursorsOK, InAppend
  PROVE  /\ cur \in Series /\ FileOf(cur, sub) \in Day
         /\ book \in [Series -> [Day -> SUBSET Row]] /\ rows \in SUBSET Row
         /\ [book EXCEPT ![cur][FileOf(cur, sub)] = rows] \in [Series -> [Day -> SUBSET Row]]
<1>1. cur \in Series /\ FileOf(cur, sub) \in Day
  BY SliceAtHand DEF CursorsOK, InAppend, InChunk
<1>2. book \in [Series -> [Day -> SUBSET Row]] /\ rows \in SUBSET Row
  BY DEF TypeOK
<1>3. [book EXCEPT ![cur][FileOf(cur, sub)] = rows] \in [Series -> [Day -> SUBSET Row]]
  BY ONLY <1>1, <1>2
<1>4. QED
  BY <1>1, <1>2, <1>3

LEMMA TypeStep ==
  ASSUME TypeOK, CursorsOK, [Next]_vars
  PROVE  TypeOK' /\ CursorsOK'
<1> USE DEF TypeOK, CursorsOK, Walking, InChunk, InAppend
<1> USE Calendar
<1>1. CASE Snapshot
  BY <1>1 DEF Snapshot, Listing, walkVars, chunkVars, runVars
<1>2. CASE StartNightly
  BY <1>2 DEF StartNightly, Listing, walkVars, chunkVars
<1>3. CASE StartBackfill
  <2>1. LastTradingDay(today) \in Int /\ LastTradingDay(today) <= LastDay
    BY LastTradingDayInRange
  <2>2. queue' \subseteq Series
    BY <1>3 DEF StartBackfill
  <2>3. QED
    BY <1>3, <2>1, <2>2 DEF StartBackfill, outside, walkVars, chunkVars
<1>4. CASE EndRun
  <2>1. NoRun /\ UNCHANGED outside
    BY <1>4 DEF EndRun
  <2>2. nightly' \in BOOLEAN /\ allOK' \in BOOLEAN /\ ~nightly'
    BY <2>1, Idle
  <2>3. TypeOK'
    BY <2>1, <2>2 DEF NoRun, ClearWalk, outside
  <2>4. CursorsOK'
    BY <2>1, <2>2 DEF NoRun, ClearWalk, outside
  <2>5. QED
    BY <2>3, <2>4
<1>5. CASE BeginUnderlying
  <2>1. PICK s \in queue :
          /\ queue' = queue \ {s}
          /\ IF ResumeFrom(s) > end \/ ContractsFor(s) = {}
               THEN UNCHANGED <<pc, walkVars>>
               ELSE /\ pc' = "chunk"
                    /\ cur' = s /\ contracts' = ContractsFor(s)
                    /\ startFrom' = ResumeFrom(s) /\ from' = ResumeFrom(s)
                    /\ UNCHANGED chunkVars
    BY <1>5 DEF BeginUnderlying
  <2>2. ResumeFrom(s) \in Nat \ {0} /\ ckpt[s] < ResumeFrom(s)
    BY <1>5, ResumePoint DEF BeginUnderlying
  <2>3. ContractsFor(s) \subseteq Contracts /\ ContractsFor(s) \subseteq Matches[s]
    BY DEF ContractsFor
  <2>4. pc = "underlying" /\ UNCHANGED <<outside, nightly, end>>
    BY <1>5 DEF BeginUnderlying
  <2>5. CASE ResumeFrom(s) > end \/ ContractsFor(s) = {}
    BY <2>1, <2>4, <2>5 DEF outside, walkVars, chunkVars
  <2>6. CASE ~(ResumeFrom(s) > end \/ ContractsFor(s) = {})
    BY <2>1, <2>2, <2>3, <2>4, <2>6 DEF outside, chunkVars
  <2>7. QED
    BY <2>5, <2>6
<1>6. CASE QueryFails
  BY <1>6 DEF QueryFails, outside, walkVars, chunkVars
<1>7. CASE Leaves
  BY <1>7, Leaving DEF LeaveUnderlying, ClearWalk, outside, runVars
<1>8. CASE StartChunk
  <2>1. cur \in Series /\ from \in Day /\ end \in Int /\ end <= LastDay /\ from <= end
    BY <1>8 DEF StartChunk
  <2>2. LET e == ChunkEnd(cur, from, end) IN e \in Day /\ from <= e /\ e <= end
    BY <2>1, ChunkInRange
  <2>3. QED
    BY <1>8, <2>1, <2>2 DEF StartChunk, outside, runVars
<1>9. CASE FetchContract
  <2>1. PICK c \in pending :
          /\ pending' = pending \ {c}
          /\ rows' = MergeOptionCandles(rows,
                       {c} \X (Market[c] \cap DaysToMidnight(cur, sub, Slice)))
    BY <1>9 DEF FetchContract
  <2>2. sub \in Int /\ Slice \in Int
    BY <1>9, SliceAtHand DEF FetchContract
  <2>3. {c} \X (Market[c] \cap DaysToMidnight(cur, sub, Slice)) \subseteq Row
    BY <2>2, CandlesOfContract
  <2>4. rows' \subseteq Row
    BY <2>1, <2>3 DEF MergeOptionCandles
  <2>5. pending' \subseteq contracts /\ pc = "fetch" /\ sub <= to
        /\ UNCHANGED <<outside, pc, runVars, cur, contracts, startFrom, from, to, sub, allOK>>
    BY <1>9, <2>1 DEF FetchContract
  <2>6. QED
    BY <2>4, <2>5 DEF outside, runVars
<1>10. CASE FetchContractFails
  <2>1. PICK c \in pending :
          /\ pending' = pending \ {c}
          /\ \/ refused' = refused \cup ({cur} \X {c} \X (Market[c] \cap (sub .. Slice)))
             \/ UNCHANGED refused
    BY <1>10 DEF FetchContractFails
  <2>2. refused' \subseteq Series \X Contracts \X Day
    <3>1. {cur} \X {c} \X (Market[c] \cap (sub .. Slice)) \subseteq Series \X Contracts \X Day
      <4>1. cur \in Series /\ c \in Contracts /\ Market[c] \subseteq Day
        BY <1>10, OptionsAssumption DEF FetchContractFails
      <4>2. QED
        BY ONLY <4>1
    <3>2. QED
      BY <2>1, <3>1
  <2>3. pending' \subseteq contracts /\ pc = "fetch" /\ sub <= to /\ allOK' \in BOOLEAN
        /\ UNCHANGED <<book, ckpt, listed, saved, savedList, today, ctxDone, pc, runVars,
                       cur, contracts, startFrom, from, to, sub, rows>>
    BY <1>10, <2>1 DEF FetchContractFails
  <2>4. QED
    BY <2>2, <2>3 DEF runVars
<1>11. CASE EndFetch
  <2>1. Slice \in Day /\ sub <= Slice /\ Slice <= to
    BY <1>11, SliceAtHand DEF EndFetch
  <2>2. \/ pc' = "download" /\ UNCHANGED <<sub, pending, rows>>
        \/ pc' = "fetch" /\ sub' = Slice + 1 /\ pending' = contracts /\ rows' = {}
    BY <1>11 DEF EndFetch, NextSub
  <2>3. pc = "fetch" /\ sub <= to /\ pending = {}
        /\ UNCHANGED <<outside, runVars, cur, contracts, startFrom, from, to, allOK>>
    BY <1>11 DEF EndFetch
  <2>4. QED
    BY <2>1, <2>2, <2>3 DEF outside, runVars
<1>12. CASE Download
  <2>1. book[cur][FileOf(cur, sub)] \subseteq Row
    BY <1>12, BookAtHand DEF Download
  <2>2. rows' \subseteq Row
    BY <1>12, <2>1 DEF Download, MergeOptionCandles
  <2>3. QED
    BY <1>12, <2>2 DEF Download, outside, runVars
<1>13. CASE UploadRows
  <2>1. Slice \in Day /\ sub <= Slice /\ Slice <= to
    BY <1>13, SliceAtHand DEF UploadRows
  <2>2. book' \in [Series -> [Day -> SUBSET Row]]
    BY <1>13, BookAtHand DEF UploadRows, PutBook
  <2>3. QED
    BY <1>13, <2>1, <2>2 DEF UploadRows, NextSub, runVars
<1>14. CASE AppendFails
  <2>1. book' \in [Series -> [Day -> SUBSET Row]]
    BY <1>14, BookAtHand DEF AppendFails, PutBook
  <2>2. QED
    BY <1>14, <2>1 DEF AppendFails, LeaveUnderlying, ClearWalk, runVars
<1>15. CASE EndChunk
  <2>1. cur \in Series /\ to \in Day /\ ckpt[cur] < from /\ from <= to
    BY <1>15 DEF EndChunk
  <2>2. ckpt \in [Series -> Int] /\ ckpt' \in [Series -> Day \cup {NotFound}]
    BY <1>15, <2>1 DEF EndChunk, NotFound
  <2>3. ckpt'[cur] < to + 1
    BY <1>15, <2>1, <2>2 DEF EndChunk
  <2>4. QED
    BY <1>15, <2>1, <2>2, <2>3 DEF EndChunk, runVars
<1>16. CASE Tick
  BY <1>16 DEF Tick, runVars, walkVars, chunkVars
<1>17. CASE Sync \/ Cancel
  <2>1. ctxDone' \in BOOLEAN
    BY <1>17 DEF Sync, Cancel
  <2>2. QED
    BY <1>17, <2>1 DEF Sync, Cancel, runVars, walkVars, chunkVars
<1>18. CASE Restart
  <2>1. NoRun /\ UNCHANGED <<book, saved, savedList, refused, today>>
        /\ ckpt' = saved /\ listed' = savedList
    BY <1>18 DEF Restart
  <2>2. ctxDone' \in BOOLEAN
    BY <1>18 DEF Restart
  <2>3. nightly' \in BOOLEAN /\ allOK' \in BOOLEAN /\ ~nightly'
    BY <2>1, Idle
  <2>4. TypeOK'
    BY <2>1, <2>2, <2>3 DEF NoRun, ClearWalk
  <2>5. CursorsOK'
    BY <2>1, <2>2, <2>3 DEF NoRun, ClearWalk
  <2>6. QED
    BY <2>4, <2>5
<1>19. CASE UNCHANGED vars
  BY <1>19 DEF vars, outside, runVars, walkVars, chunkVars
<1>20. QED
  BY <1>1, <1>2, <1>3, <1>4, <1>5, <1>6, <1>7, <1>8, <1>9, <1>10, <1>11, <1>12,
     <1>13, <1>14, <1>15, <1>16, <1>17, <1>18, <1>19 DEF Next, RunStep, Leaves

-----------------------------------------------------------------------------
(* The candle files and the checkpoints.                                   *)

LEMMA FilesInit == Init => FilesInv
<1> SUFFICES ASSUME Init PROVE SavedBehind /\ BooksInv /\ RowsOK
  BY TypeInit DEF FilesInv
<1>1. SavedBehind
  <2>1. \A s \in Series : ckpt[s] = 0 /\ saved[s] = 0
    BY DEF Init, NotFound
  <2>2. ASSUME NEW s \in Series PROVE saved[s] <= ckpt[s]
    <3>1. ckpt[s] = 0 /\ saved[s] = 0 /\ 0 <= 0
      BY <2>1
    <3>2. QED
      BY ONLY <3>1
  <2>3. QED
    BY <2>2 DEF SavedBehind
<1>2. BooksInv
  BY DEF Init, BooksInv, OfFile, OneRowPerKey
<1>3. RowsOK
  BY DEF Init, RowsOK, InChunk
<1>4. QED
  BY <1>1, <1>2, <1>3

\* An upload replaces one file by the rows in memory; nothing else writes one.
LEMMA OnlyUploads ==
  ASSUME TypeOK, CursorsOK, [Next]_vars
  PROVE  \/ book' = book
         \/ /\ pc = "upload" /\ cur \in Series /\ FileOf(cur, sub) \in Day
            /\ book' = [book EXCEPT ![cur][FileOf(cur, sub)] = rows]
<1>1. CASE UploadRows \/ AppendFails
  <2>1. pc = "upload" => cur \in Series /\ FileOf(cur, sub) \in Day
    BY BookAtHand DEF InAppend
  <2>2. QED
    BY <1>1, <2>1 DEF UploadRows, AppendFails, PutBook
<1>2. CASE ~(UploadRows \/ AppendFails)
  BY <1>2 DEF Next, RunStep, Snapshot, StartNightly, StartBackfill, EndRun,
     BeginUnderlying, QueryFails, EndUnderlying, StartChunk, Cancelled, FetchContract,
     FetchContractFails, AuthError, EndFetch, Download, EndChunk, CheckpointFails,
     Tick, Sync, Cancel, Restart, vars, outside
<1>3. QED
  BY <1>1, <1>2

\* The end of a chunk moves the checkpoint forward, a restart back to its copy.
LEMMA CheckpointMoves ==
  ASSUME TypeOK, CursorsOK, [Next]_vars
  PROVE  \/ ckpt' = ckpt
         \/ /\ EndChunk /\ allOK /\ ckpt' = [ckpt EXCEPT ![cur] = to]
            /\ cur \in Series /\ ckpt[cur] < from /\ from <= to /\ to \in Day
         \/ Restart /\ ckpt' = saved
<1>1. CASE EndChunk
  <2>1. cur \in Series /\ ckpt[cur] < from /\ from <= to /\ to \in Day
    BY <1>1 DEF EndChunk, CursorsOK, Walking, InChunk
  <2>2. QED
    BY <1>1, <2>1 DEF EndChunk
<1>2. CASE Restart
  BY <1>2 DEF Restart
<1>3. CASE ~(EndChunk \/ Restart)
  BY <1>3 DEF Next, RunStep, Snapshot, StartNightly, StartBackfill, EndRun,
     BeginUnderlying, QueryFails, EndUnderlying, StartChunk, Cancelled, FetchContract,
     FetchContractFails, AuthError, EndFetch, Download, UploadRows, AppendFails,
     CheckpointFails, Tick, Sync, Cancel, vars, outside
<1>4. QED
  BY <1>1, <1>2, <1>3

LEMMA CopyMoves ==
  ASSUME [Next]_vars
  PROVE  saved' = saved \/ (Sync /\ saved' = ckpt /\ ckpt' = ckpt)
<1>1. CASE Sync
  BY <1>1 DEF Sync
<1>2. CASE ~Sync
  BY <1>2 DEF Next, RunStep, Snapshot, StartNightly, StartBackfill, EndRun,
     BeginUnderlying, QueryFails, EndUnderlying, StartChunk, Cancelled, FetchContract,
     FetchContractFails, AuthError, EndFetch, Download, UploadRows, AppendFails,
     EndChunk, CheckpointFails, Tick, Cancel, Restart, vars, outside
<1>3. QED
  BY <1>1, <1>2

LEMMA SavedBehindStep ==
  ASSUME TypeOK, CursorsOK, SavedBehind, [Next]_vars
  PROVE  SavedBehind'
<1>1. \A s \in Series : ckpt[s] \in Int /\ saved[s] \in Int
  BY Calendar DEF TypeOK, NotFound
<1>2. ckpt \in [Series -> Day \cup {NotFound}]
  BY DEF TypeOK
<1>3. CASE saved' = saved /\ ckpt' = ckpt
  BY <1>3 DEF SavedBehind
<1>4. CASE saved' = ckpt /\ ckpt' = ckpt
  BY <1>1, <1>4 DEF SavedBehind
<1>5. CASE saved' = saved /\ ckpt' = saved
  BY <1>1, <1>5 DEF SavedBehind
<1>6. CASE /\ saved' = saved /\ ckpt' = [ckpt EXCEPT ![cur] = to]
           /\ cur \in Series /\ ckpt[cur] < from /\ from <= to /\ to \in Day
  <2>1. from \in Int /\ to \in Int
    BY DEF TypeOK
  <2>2. \A s \in Series : ckpt[s] <= ckpt'[s] /\ ckpt'[s] \in Int
    BY <1>1, <1>2, <1>6, <2>1
  <2>3. \A s \in Series : saved[s] <= ckpt[s]
    BY DEF SavedBehind
  <2>4. \A s \in Series : saved[s] <= ckpt'[s]
    BY <1>1, <2>2, <2>3
  <2>5. QED
    BY <1>6, <2>4 DEF SavedBehind
<1>7. QED
  BY <1>3, <1>4, <1>5, <1>6, CheckpointMoves, CopyMoves

LEMMA BooksStep ==
  ASSUME FilesInv, [Next]_vars
  PROVE  BooksInv'
<1> USE DEF FilesInv
<1>1. CASE book' = book
  BY <1>1 DEF BooksInv, OfFile, OneRowPerKey, RowKey
<1>2. CASE /\ pc = "upload" /\ cur \in Series /\ FileOf(cur, sub) \in Day
           /\ book' = [book EXCEPT ![cur][FileOf(cur, sub)] = rows]
  <2>1. OfFile(cur, FileOf(cur, sub), rows) /\ OneRowPerKey(rows)
    BY <1>2 DEF RowsOK, InChunk, CursorsOK, InAppend
  <2>2. book \in [Series -> [Day -> SUBSET Row]]
    BY DEF TypeOK
  <2>3. \A s \in Series, f \in Day :
          book'[s][f] = book[s][f] \/ (s = cur /\ f = FileOf(cur, sub) /\ book'[s][f] = rows)
    BY <1>2, <2>2
  <2>4. ASSUME NEW s \in Series, NEW f \in Day
        PROVE  OfFile(s, f, book'[s][f]) /\ OneRowPerKey(book'[s][f])
    BY <2>1, <2>3, <2>4 DEF BooksInv
  <2>5. QED
    BY <2>4 DEF BooksInv, OfFile, OneRowPerKey, RowKey, FileOf
<1>3. QED
  BY <1>1, <1>2, OnlyUploads

LEMMA RowsStep ==
  ASSUME FilesInv, [Next]_vars
  PROVE  RowsOK'
<1> USE DEF FilesInv
<1>1. CASE StartChunk
  <2>1. rows' = {} /\ pc' = "fetch"
    BY <1>1 DEF StartChunk
  <2>2. QED
    BY <2>1 DEF RowsOK, OfFile, OneRowPerKey
<1>2. CASE FetchContract
  <2>1. PICK c \in pending :
          rows' = MergeOptionCandles(rows,
                    {c} \X (Market[c] \cap DaysToMidnight(cur, sub, Slice)))
    BY <1>2 DEF FetchContract
  <2> DEFINE new == {c} \X (Market[c] \cap DaysToMidnight(cur, sub, Slice))
             f == FileOf(cur, sub)
  <2>2. pc = "fetch" /\ sub <= to /\ UNCHANGED <<pc, cur, sub, to>>
    BY <1>2 DEF FetchContract
  <2>3. /\ cur \in Series /\ sub \in Int /\ Slice \in Int
        /\ \A e \in sub .. Slice : FileOf(cur, e) = f
    BY <2>2, SliceAtHand, Calendar DEF InChunk
  <2>4. c \in Contracts /\ c \in Matches[cur]
    BY <2>2 DEF TypeOK, CursorsOK, Walking
  <2>5. OneRowPerKey(new) /\ \A r \in new : r[1] = c /\ r[2] \in Market[c] /\ r[2] \in sub .. Slice
    BY <2>3, <2>4, CandlesOfContract
  <2>6. OfFile(cur, f, new)
    BY <2>3, <2>4, <2>5 DEF OfFile
  <2>7. OfFile(cur, f, rows) /\ OneRowPerKey(rows)
    BY <2>2 DEF RowsOK, InChunk
  <2> HIDE DEF new
  <2>8. rows' = MergeOptionCandles(rows, new)
    BY <2>1 DEF new
  <2>9. OneRowPerKey(rows') /\ rows' \subseteq rows \cup new
    BY <2>5, <2>7, <2>8, MergeOfRows
  <2>10. OfFile(cur, f, rows')
    BY <2>6, <2>7, <2>9 DEF OfFile
  <2>11. OfFile(cur, FileOf(cur, sub), rows)'
    BY <2>2, <2>10 DEF OfFile, FileOf
  <2>12. OneRowPerKey(rows)'
    BY <2>9 DEF OneRowPerKey, RowKey
  <2>13. (sub <= to /\ ~(sub > to))'
    BY <2>2 DEF TypeOK
  <2>14. QED
    BY <2>2, <2>11, <2>12, <2>13 DEF RowsOK
<1>3. CASE FetchContractFails
  BY <1>3 DEF FetchContractFails, RowsOK, InChunk, OfFile, OneRowPerKey, RowKey, FileOf
<1>4. CASE EndFetch
  <2>1. CASE rows = {}
    BY <1>4, <2>1 DEF EndFetch, NextSub, RowsOK, OfFile, OneRowPerKey
  <2>2. CASE rows # {}
    BY <1>4, <2>2 DEF EndFetch, RowsOK, InChunk, OfFile, OneRowPerKey, RowKey, FileOf
  <2>3. QED
    BY <2>1, <2>2
<1>5. CASE Download
  <2> DEFINE f == FileOf(cur, sub)
             old == book[cur][f]
  <2>1. pc = "download" /\ pc' = "upload" /\ UNCHANGED <<book, cur, sub, to>> /\ sub <= to
        /\ rows' = MergeOptionCandles(old, rows)
    BY <1>5 DEF Download, outside, CursorsOK, InAppend
  <2>2. cur \in Series /\ f \in Day
    BY <2>1, BookAtHand DEF InAppend
  <2>3. OfFile(cur, f, rows) /\ OneRowPerKey(rows)
    BY <2>1 DEF RowsOK, InChunk
  <2>4. OfFile(cur, f, old) /\ OneRowPerKey(old)
    BY <2>2 DEF BooksInv
  <2> HIDE DEF old
  <2>5. OneRowPerKey(rows') /\ rows' \subseteq old \cup rows /\ Keys(rows') = Keys(old) \cup Keys(rows)
    BY <2>1, <2>3, <2>4, MergeOfRows
  <2>6. OfFile(cur, f, rows')
    BY <2>3, <2>4, <2>5 DEF OfFile
  <2>7. Keys(book[cur][f]) \subseteq Keys(rows')
    BY <2>5 DEF old
  <2>8. OfFile(cur, FileOf(cur, sub), rows)'
    BY <2>1, <2>6 DEF OfFile, FileOf
  <2>9. OneRowPerKey(rows)'
    BY <2>5 DEF OneRowPerKey, RowKey
  <2>10. (Keys(book[cur][FileOf(cur, sub)]) \subseteq Keys(rows))'
    BY <2>1, <2>7 DEF Keys, RowKey, FileOf
  <2>11. (sub <= to /\ ~(sub > to))'
    BY <2>1 DEF TypeOK
  <2>12. QED
    BY <2>8, <2>9, <2>10, <2>11 DEF RowsOK
<1>6. CASE UploadRows
  <2>1. rows' = {} /\ pc' = "fetch"
    BY <1>6 DEF UploadRows, NextSub
  <2>2. QED
    BY <2>1 DEF RowsOK, OfFile, OneRowPerKey
<1>7. CASE Snapshot \/ Tick \/ Sync \/ Cancel \/ UNCHANGED vars
  BY <1>7 DEF Snapshot, Tick, Sync, Cancel, vars, outside, walkVars, chunkVars,
     RowsOK, InChunk, OfFile, OneRowPerKey, Keys, RowKey, FileOf
<1>8. CASE ~(\/ StartChunk \/ FetchContract \/ FetchContractFails \/ EndFetch
             \/ Download \/ UploadRows
             \/ Snapshot \/ Tick \/ Sync \/ Cancel \/ UNCHANGED vars)
  <2>1. ~InChunk'
    BY <1>8 DEF Next, RunStep, StartNightly, StartBackfill, EndRun, NoRun,
       BeginUnderlying, QueryFails, EndUnderlying, LeaveUnderlying, Cancelled,
       AuthError, AppendFails, EndChunk, CheckpointFails, Restart, InChunk
  <2>2. QED
    BY <2>1 DEF RowsOK
<1>9. QED
  BY <1>1, <1>2, <1>3, <1>4, <1>5, <1>6, <1>7, <1>8

LEMMA FilesStep ==
  ASSUME FilesInv, [Next]_vars
  PROVE  FilesInv'
BY TypeStep, SavedBehindStep, BooksStep, RowsStep DEF FilesInv

\* Every row is in the file of its own day, once.
LEMMA BooksFollow == FilesInv => BooksOK
BY DEF FilesInv, BooksInv, OfFile, OneRowPerKey, BooksOK

LEMMA OwnFollows ==
  ASSUME \A s \in Series : Matches[s] = Own[s]
  PROVE  FilesInv => OwnContractsOnly
BY DEF FilesInv, BooksInv, OfFile, OwnContractsOnly

LEMMA KeysGrow ==
  ASSUME FilesInv, [Next]_vars, NEW s \in Series, NEW f \in Day
  PROVE  Keys(book[s][f]) \subseteq Keys(book'[s][f])
<1> USE DEF FilesInv
<1>1. CASE book' = book
  BY <1>1
<1>2. CASE /\ pc = "upload" /\ cur \in Series /\ FileOf(cur, sub) \in Day
           /\ book' = [book EXCEPT ![cur][FileOf(cur, sub)] = rows]
  <2>1. Keys(book[cur][FileOf(cur, sub)]) \subseteq Keys(rows)
    BY <1>2 DEF RowsOK, InChunk
  <2>2. book \in [Series -> [Day -> SUBSET Row]]
    BY DEF TypeOK
  <2>3. book'[s][f] = book[s][f] \/ (s = cur /\ f = FileOf(cur, sub) /\ book'[s][f] = rows)
    BY <1>2, <2>2
  <2>4. QED
    BY <2>1, <2>3
<1>3. QED
  BY <1>1, <1>2, OnlyUploads

-----------------------------------------------------------------------------
(* What is in the archive stays, when no two contracts share a key.        *)

LEMMA RefusalsGrow ==
  ASSUME [Next]_vars
  PROVE  refused \subseteq refused'
<1>1. CASE FetchContractFails
  BY <1>1 DEF FetchContractFails
<1>2. CASE ~FetchContractFails
  BY <1>2 DEF Next, RunStep, Snapshot, StartNightly, StartBackfill, EndRun,
     BeginUnderlying, QueryFails, EndUnderlying, StartChunk, Cancelled, FetchContract,
     AuthError, EndFetch, Download, UploadRows, AppendFails, EndChunk,
     CheckpointFails, Tick, Sync, Cancel, Restart, vars, outside
<1>3. QED
  BY <1>1, <1>2

LEMMA KeyTells ==
  ASSUME DistinctKeys, NEW s \in Daily, NEW q \in Row, NEW r \in Row,
         q[1] \in Matches[s], r[1] \in Matches[s], RowKey(q) = RowKey(r)
  PROVE  q = r
<1>1. KeyOf[q[1]] = KeyOf[r[1]] /\ q[2] = r[2]
  BY KeyOfRow
<1>2. q[1] = r[1]
  BY <1>1 DEF DistinctKeys
<1>3. q = <<q[1], q[2]>> /\ r = <<r[1], r[2]>>
  BY DEF Row
<1>4. QED
  BY <1>1, <1>2, <1>3

LEMMA MergeKeepsRows ==
  ASSUME DistinctKeys, NEW s \in Daily, NEW old \in SUBSET Row, NEW new \in SUBSET Row,
         \A r \in old \cup new : r[1] \in Matches[s]
  PROVE  old \cup new \subseteq MergeOptionCandles(old, new)
<1>1. ASSUME NEW r \in old, r \notin MergeOptionCandles(old, new)
      PROVE  FALSE
  <2>1. PICK i \in new : RowKey(i) = RowKey(r)
    BY <1>1 DEF MergeOptionCandles
  <2>2. i = r
    BY <2>1, KeyTells
  <2>3. QED
    BY <1>1, <2>2 DEF MergeOptionCandles
<1>2. QED
  BY <1>1 DEF MergeOptionCandles

LEMMA RowsKept ==
  ASSUME DistinctKeys, FilesInv, [Next]_vars, NEW s \in Daily, NEW f \in Day
  PROVE  book[s][f] \subseteq book'[s][f]
<1>1. s \in Series
  BY DEF Daily
<1>2. FilesInv'
  BY FilesStep
<1>3. book[s][f] \subseteq Row /\ \A r \in book[s][f] : r[1] \in Matches[s]
  BY <1>1 DEF FilesInv, TypeOK, BooksInv, OfFile
<1>4. book'[s][f] \subseteq Row /\ \A r \in book'[s][f] : r[1] \in Matches[s]
  BY <1>1, <1>2 DEF FilesInv, TypeOK, BooksInv, OfFile
<1>5. ASSUME NEW r \in book[s][f]
      PROVE  r \in book'[s][f]
  <2>1. PICK q \in book'[s][f] : RowKey(q) = RowKey(r)
    BY <1>1, KeysGrow DEF Keys
  <2>2. q = r
    BY <1>3, <1>4, <2>1, KeyTells
  <2>3. QED
    BY <2>2
<1>6. QED
  BY <1>5

LEMMA HeldStays ==
  ASSUME DistinctKeys, FilesInv, [Next]_vars, NEW s \in Daily, NEW c, NEW d \in Day
  PROVE  /\ Held(s, c, d) => Held(s, c, d)'
         /\ Accounted(s, c, d) => Accounted(s, c, d)'
<1>1. FileOf(s, d) \in Day
  BY OptionsAssumption DEF Daily, FileOf
<1>2. book[s][FileOf(s, d)] \subseteq book'[s][FileOf(s, d)]
  BY <1>1, RowsKept
<1>3. Held(s, c, d) => Held(s, c, d)'
  BY <1>2 DEF Held, FileOf
<1>4. refused \subseteq refused'
  BY RefusalsGrow
<1>5. QED
  BY <1>3, <1>4 DEF Accounted

-----------------------------------------------------------------------------
(* The walk of an underlying.                                              *)

\* A walk is begun by BeginUnderlying; its underlying, its contracts and its
\* first day stay as they were then.
LEMMA WalkGoesOn ==
  ASSUME TypeOK, CursorsOK, [Next]_vars, Walking'
  PROVE  \/ Walking /\ UNCHANGED <<cur, contracts, startFrom, nightly, end>>
         \/ /\ cur' \in Series /\ contracts' = ContractsFor(cur') /\ contracts' # {}
            /\ startFrom' = ResumeFrom(cur') /\ from' = ResumeFrom(cur')
            /\ pc = "underlying" /\ pc' = "chunk" /\ UNCHANGED <<outside, nightly, end>>
<1>1. CASE BeginUnderlying
  <2>1. pc = "underlying" /\ UNCHANGED <<outside, nightly, end>> /\ queue \subseteq Series
    BY <1>1 DEF BeginUnderlying, TypeOK
  <2>2. pc' # "underlying"
    BY DEF Walking
  <2>3. PICK s \in queue :
          IF ResumeFrom(s) > end \/ ContractsFor(s) = {}
            THEN UNCHANGED <<pc, walkVars>>
            ELSE /\ pc' = "chunk"
                 /\ cur' = s /\ contracts' = ContractsFor(s)
                 /\ startFrom' = ResumeFrom(s) /\ from' = ResumeFrom(s)
                 /\ UNCHANGED chunkVars
    BY <1>1 DEF BeginUnderlying
  <2>4. QED
    BY <2>1, <2>2, <2>3
<1>2. CASE ~BeginUnderlying
  BY <1>2 DEF Next, RunStep, Snapshot, StartNightly, StartBackfill, EndRun, NoRun,
     QueryFails, EndUnderlying, LeaveUnderlying, StartChunk, Cancelled, FetchContract,
     FetchContractFails, AuthError, EndFetch, NextSub, Download, UploadRows,
     AppendFails, EndChunk, CheckpointFails, Tick, Sync, Cancel, Restart, vars,
     outside, runVars, walkVars, Walking
<1>3. QED
  BY <1>1, <1>2

LEMMA LastingListed == TypeOK => Lasting \subseteq Listing(today)
BY DEF TypeOK, Lasting, Listing

LEMMA ListsStep ==
  ASSUME TypeOK, CursorsOK, ListsOK, [Next]_vars
  PROVE  ListsOK'
<1>1. listed' \in {listed, Listing(today), savedList}
  BY DEF Next, RunStep, Snapshot, StartNightly, StartBackfill, EndRun,
     BeginUnderlying, QueryFails, EndUnderlying, StartChunk, Cancelled, FetchContract,
     FetchContractFails, AuthError, EndFetch, Download, UploadRows, AppendFails,
     EndChunk, CheckpointFails, Tick, Sync, Cancel, Restart, vars, outside
<1>2. savedList' \in {listed, savedList}
  BY DEF Next, RunStep, Snapshot, StartNightly, StartBackfill, EndRun,
     BeginUnderlying, QueryFails, EndUnderlying, StartChunk, Cancelled, FetchContract,
     FetchContractFails, AuthError, EndFetch, Download, UploadRows, AppendFails,
     EndChunk, CheckpointFails, Tick, Sync, Cancel, Restart, vars, outside
<1>3. listed' = {} \/ Lasting \subseteq listed'
  BY <1>1, LastingListed DEF ListsOK
<1>4. savedList' = {} \/ Lasting \subseteq savedList'
  BY <1>2 DEF ListsOK
<1>5. ASSUME Walking' PROVE Own[cur'] \cap Lasting \subseteq contracts'
  <2>1. CASE Walking /\ UNCHANGED <<cur, contracts>>
    BY <2>1 DEF ListsOK
  <2>2. CASE cur' \in Series /\ contracts' = ContractsFor(cur') /\ contracts' # {}
    <3>1. Lasting \subseteq listed
      BY <2>2 DEF ContractsFor, ListsOK
    <3>2. Own[cur'] \subseteq Matches[cur']
      BY <2>2, OptionsAssumption
    <3>3. QED
      BY <2>2, <3>1, <3>2 DEF ContractsFor
  <2>3. QED
    BY <1>5, <2>1, <2>2, WalkGoesOn
<1>6. QED
  BY <1>3, <1>4, <1>5 DEF ListsOK, Lasting

LEMMA OriginStep ==
  ASSUME TypeOK, CursorsOK, OriginOK, [Next]_vars
  PROVE  OriginOK'
<1> SUFFICES ASSUME Walking'
             PROVE  (\/ startFrom <= BackfillFrom[cur]
                     \/ startFrom <= ckpt[cur] + 1
                     \/ nightly /\ ckpt[cur] = NotFound)'
  BY DEF OriginOK
<1>1. CASE Walking /\ UNCHANGED <<cur, contracts, startFrom, nightly, end>>
  <2>1. CASE ckpt' = ckpt
    BY <1>1, <2>1 DEF OriginOK
  <2>2. CASE /\ ckpt' = [ckpt EXCEPT ![cur] = to] /\ EndChunk
             /\ cur \in Series /\ from <= to /\ to \in Day
    <3>1. ckpt'[cur] = to
      BY <2>2 DEF TypeOK
    <3>2. startFrom <= from /\ startFrom \in Int /\ from \in Int /\ to \in Int
      BY <1>1 DEF CursorsOK, TypeOK
    <3>3. startFrom <= to + 1
      BY <2>2, <3>2
    <3>4. QED
      BY <1>1, <3>1, <3>3
  <2>3. CASE Restart
    BY <2>3 DEF Restart, NoRun, Walking
  <2>4. QED
    BY <2>1, <2>2, <2>3, CheckpointMoves
<1>2. CASE /\ cur' \in Series /\ startFrom' = ResumeFrom(cur')
           /\ UNCHANGED <<outside, nightly, end>>
  <2>1. BackfillFrom[cur'] \in Int /\ ckpt[cur'] \in Int /\ ckpt' = ckpt
    BY <1>2, OptionsAssumption, Calendar DEF TypeOK, NotFound, outside
  <2>2. QED
    BY <1>2, <2>1 DEF ResumeFrom, StartDate
<1>3. QED
  BY <1>1, <1>2, WalkGoesOn

\* What a step may do to the cursors of a walk, apart from its beginning and the
\* end of a chunk.
LEMMA SameChunk ==
  ASSUME TypeOK, CursorsOK, [Next]_vars, Walking', pc # "underlying", ~EndChunk
  PROVE  /\ UNCHANGED <<cur, contracts, startFrom, from>>
         /\ ctxDone => ctxDone'
         /\ InChunk' => InChunk \/ (pc = "chunk" /\ ~ctxDone)
         /\ pc' = "chunk" => pc = "chunk"
  BY DEF Next, RunStep, Snapshot, StartNightly, StartBackfill, EndRun, NoRun,
     BeginUnderlying, QueryFails, EndUnderlying, LeaveUnderlying, StartChunk, Cancelled,
     FetchContract, FetchContractFails, AuthError, EndFetch, NextSub, Download,
     UploadRows, AppendFails, EndChunk, CheckpointFails, Tick, Sync, Cancel, Restart,
     vars, outside, runVars, walkVars, Walking, InChunk

\* What is held or accounted for of the underlying at hand stays so.
LEMMA StaysAtHand ==
  ASSUME DistinctKeys, FilesInv, [Next]_vars, cur \in Daily, cur' = cur, NEW c, NEW d \in Day
  PROVE  /\ Held(cur, c, d) => Held(cur, c, d)'
         /\ Accounted(cur, c, d) => Accounted(cur, c, d)'
<1>1. PICK s \in Daily : s = cur
  OBVIOUS
<1>2. /\ Held(s, c, d) => Held(s, c, d)'
      /\ Accounted(s, c, d) => Accounted(s, c, d)'
  BY HeldStays
<1>3. QED
  BY <1>1, <1>2 DEF Held, Accounted, FileOf

LEMMA CursorTypes ==
  ASSUME TypeOK
  PROVE  /\ from \in Int /\ sub \in Int /\ to \in Int /\ startFrom \in Int
         /\ \A c \in contracts : c \in Contracts /\ Market[c] \subseteq Day
BY OptionsAssumption DEF TypeOK

LEMMA BeforeChunkStep ==
  ASSUME DistinctKeys, IInv, [Next]_vars
  PROVE  BeforeChunk'
<1> USE DEF IInv, FilesInv
<1> SUFFICES ASSUME (cur \in Daily /\ (InChunk \/ (pc = "chunk" /\ ~ctxDone)))',
                    NEW c \in contracts', NEW d \in Market[c] \cap (startFrom' .. from' - 1)
             PROVE  Accounted(cur, c, d)'
  BY DEF BeforeChunk
<1>1. Walking'
  BY DEF Walking, InChunk
<1>2. TypeOK'
  BY TypeStep
<1>3. d \in Day /\ d \in Int /\ startFrom' <= d /\ d <= from' - 1
      /\ startFrom' \in Int /\ from' \in Int
  <2>1. c \in Contracts /\ startFrom' \in Int /\ from' \in Int
    BY <1>2 DEF TypeOK
  <2>2. Market[c] \subseteq Day
    BY <2>1, OptionsAssumption
  <2>3. QED
    BY <2>1, <2>2, Calendar
<1>4. CASE startFrom' = ResumeFrom(cur') /\ from' = ResumeFrom(cur')
  BY <1>3, <1>4
<1>5. CASE Walking /\ UNCHANGED <<cur, contracts, startFrom>> /\ EndChunk
  <2>1. InChunk /\ sub > to /\ from' = to + 1 /\ pc' = "chunk" /\ ctxDone' = ctxDone
    BY <1>5 DEF EndChunk, InChunk
  <2>2. ~ctxDone
    BY <2>1 DEF InChunk
  <2>3. from \in Int /\ sub \in Int /\ to \in Int
    BY CursorTypes
  <2>4. Accounted(cur, c, d)
    <3>1. CASE d < from
      <4>1. d \in Market[c] \cap (startFrom .. from - 1)
        BY <1>3, <1>5, <2>3, <3>1
      <4>2. QED
        BY <1>5, <2>1, <4>1 DEF BeforeChunk
    <3>2. CASE from <= d
      <4>1. d \in Market[c] \cap (from .. sub - 1)
        BY <1>3, <2>1, <2>3, <3>2
      <4>2. QED
        BY <1>5, <2>1, <2>2, <4>1 DEF BeforeSub
    <3>3. QED
      BY <1>3, <2>3, <3>1, <3>2
  <2>5. QED
    BY <1>3, <1>5, <2>4, StaysAtHand
<1>6. CASE Walking /\ UNCHANGED <<cur, contracts, startFrom>> /\ ~EndChunk
  <2>1. pc # "underlying"
    BY <1>6 DEF Walking
  <2>2. from' = from /\ (ctxDone => ctxDone')
        /\ (InChunk' => InChunk \/ (pc = "chunk" /\ ~ctxDone))
        /\ (pc' = "chunk" => pc = "chunk")
    BY <1>1, <1>6, <2>1, SameChunk
  <2>3. InChunk \/ (pc = "chunk" /\ ~ctxDone)
    BY <2>2
  <2>4. Accounted(cur, c, d)
    BY <1>6, <2>2, <2>3 DEF BeforeChunk
  <2>5. QED
    BY <1>3, <1>6, <2>4, StaysAtHand
<1>7. QED
  BY <1>1, <1>4, <1>5, <1>6, WalkGoesOn

LEMMA BeforeSubStep ==
  ASSUME DistinctKeys, IInv, [Next]_vars
  PROVE  BeforeSub'
<1> USE DEF IInv, FilesInv
<1> SUFFICES ASSUME (InChunk /\ cur \in Daily)',
                    NEW c \in contracts', NEW d \in Market[c] \cap (from' .. sub' - 1)
             PROVE  (allOK' => Held(cur, c, d)') /\ (~ctxDone' => Accounted(cur, c, d)')
  BY DEF BeforeSub
<1>1. TypeOK'
  BY TypeStep
<1>2. d \in Day /\ d \in Int /\ from' <= d /\ d <= sub' - 1 /\ from' \in Int /\ sub' \in Int
  <2>1. c \in Contracts /\ from' \in Int /\ sub' \in Int
    BY <1>1 DEF TypeOK
  <2>2. Market[c] \subseteq Day
    BY <2>1, OptionsAssumption
  <2>3. QED
    BY <2>1, <2>2, Calendar
<1>3. CASE StartChunk
  BY <1>2, <1>3 DEF StartChunk
<1>4. CASE /\ InChunk /\ UNCHANGED <<cur, contracts, from, sub>>
           /\ (allOK' => allOK) /\ (ctxDone => ctxDone')
  <2>1. (allOK => Held(cur, c, d)) /\ (~ctxDone => Accounted(cur, c, d))
    BY <1>4 DEF BeforeSub
  <2>2. QED
    BY <1>2, <1>4, <2>1, StaysAtHand
<1>5. CASE UploadRows \/ (EndFetch /\ rows = {})
  <2>1. /\ InChunk /\ sub <= to /\ pending = {}
        /\ UNCHANGED <<cur, contracts, from, allOK, ctxDone>> /\ sub' = Slice + 1
    BY <1>5 DEF UploadRows, EndFetch, NextSub, InChunk, outside, CursorsOK, InAppend
  <2>2. from \in Int /\ sub \in Day /\ sub \in Int /\ Slice \in Int
        /\ cur \in Series /\ \A e \in sub .. Slice : FileOf(cur, e) = FileOf(cur, sub)
    BY <2>1, SliceAtHand, CursorTypes, Calendar
  <2>3. CASE d < sub
    <3>1. d \in Market[c] \cap (from .. sub - 1)
      BY <1>2, <2>1, <2>2, <2>3
    <3>2. (allOK => Held(cur, c, d)) /\ (~ctxDone => Accounted(cur, c, d))
      BY <2>1, <3>1 DEF BeforeSub
    <3>3. QED
      BY <1>2, <2>1, <3>2, StaysAtHand
  <2>4. CASE sub <= d
    <3>1. d \in Market[c] \cap (sub .. Slice) /\ c \in contracts \ pending
      BY <1>2, <2>1, <2>2, <2>4
    <3>2. /\ allOK => <<c, d>> \in rows
          /\ ~ctxDone => <<c, d>> \in rows \/ <<cur, c, d>> \in refused
      BY <2>1, <3>1 DEF WindowFetched
    <3>3. CASE UploadRows
      <4>1. book \in [Series -> [Day -> SUBSET Row]] /\ FileOf(cur, sub) \in Day
        BY <3>3, BookAtHand DEF UploadRows, InAppend
      <4>2. book'[cur][FileOf(cur, sub)] = rows
        BY <2>2, <3>3, <4>1 DEF UploadRows, PutBook
      <4>3. FileOf(cur, d) = FileOf(cur, sub)
        BY <2>2, <3>1
      <4>4. <<c, d>> \in rows => Held(cur, c, d)'
        BY <2>1, <4>2, <4>3 DEF Held, FileOf
      <4>5. refused' = refused
        BY <3>3 DEF UploadRows
      <4>6. QED
        BY <2>1, <3>2, <4>4, <4>5 DEF Accounted
    <3>4. CASE EndFetch /\ rows = {}
      <4>1. ~allOK /\ (~ctxDone => <<cur, c, d>> \in refused) /\ refused' = refused
        BY <3>2, <3>4 DEF EndFetch, outside
      <4>2. QED
        BY <2>1, <4>1 DEF Accounted
    <3>5. QED
      BY <1>5, <3>3, <3>4
  <2>5. QED
    BY <1>2, <2>2, <2>3, <2>4
<1>6. CASE FetchContract \/ FetchContractFails \/ (EndFetch /\ rows # {}) \/ Download
  <2>1. /\ InChunk /\ UNCHANGED <<cur, contracts, from, sub>>
        /\ (allOK' => allOK) /\ (ctxDone => ctxDone')
    BY <1>6 DEF FetchContract, FetchContractFails, EndFetch, Download, InChunk, outside
  <2>2. QED
    BY <1>4, <2>1
<1>7. CASE ~(\/ StartChunk \/ UploadRows \/ EndFetch
             \/ FetchContract \/ FetchContractFails \/ Download)
  <2>1. /\ InChunk /\ UNCHANGED <<cur, contracts, from, sub, allOK>> /\ (ctxDone => ctxDone')
    BY <1>7 DEF Next, RunStep, Snapshot, StartNightly, StartBackfill, EndRun, NoRun,
       BeginUnderlying, QueryFails, EndUnderlying, LeaveUnderlying, Cancelled,
       AuthError, AppendFails, EndChunk, CheckpointFails, Tick, Sync, Cancel, Restart,
       vars, outside, runVars, walkVars, chunkVars, InChunk
  <2>2. QED
    BY <1>4, <2>1
<1>8. QED
  BY <1>3, <1>5, <1>6, <1>7

LEMMA WindowStep ==
  ASSUME DistinctKeys, IInv, [Next]_vars
  PROVE  WindowFetched'
<1> USE DEF IInv, FilesInv
<1> DEFINE Got(c, d) == /\ allOK => <<c, d>> \in rows
                        /\ ~ctxDone => <<c, d>> \in rows \/ <<cur, c, d>> \in refused
<1> SUFFICES ASSUME (InChunk /\ sub <= to /\ cur \in Daily)',
                    NEW c \in contracts' \ pending', NEW d \in Market[c] \cap (sub .. Slice)'
             PROVE  Got(c, d)'
  BY DEF WindowFetched
<1>1. CASE pending' = contracts'
  BY <1>1
<1>2. CASE /\ InChunk /\ UNCHANGED <<cur, contracts, to, sub>> /\ (ctxDone => ctxDone')
           /\ (allOK' => allOK) /\ rows \subseteq rows'
  <2>1. refused \subseteq refused' /\ Slice' = Slice
    BY <1>2, RefusalsGrow DEF Slice, SliceEnd
  <2>2. CASE c \notin pending
    BY <1>2, <2>1, <2>2 DEF WindowFetched
  <2>3. CASE c \in pending /\ FetchContractFails
    <3>1. PICK b \in pending :
            /\ pending' = pending \ {b}
            /\ \/ refused' = refused \cup ({cur} \X {b} \X (Market[b] \cap (sub .. Slice)))
               \/ ctxDone
      BY <2>3 DEF FetchContractFails
    <3>2. c = b /\ ~allOK' /\ ctxDone' = ctxDone
      BY <2>3, <3>1 DEF FetchContractFails
    <3>3. d \in Market[c] \cap (sub .. Slice)
      BY <1>2, <2>1
    <3>4. ~ctxDone => <<cur, c, d>> \in refused'
      BY <3>1, <3>2, <3>3
    <3>5. QED
      BY <1>2, <3>2, <3>4
  <2>4. CASE c \in pending /\ FetchContract
    <3>1. PICK b \in pending :
            /\ pending' = pending \ {b}
            /\ rows' = MergeOptionCandles(rows,
                         {b} \X (Market[b] \cap DaysToMidnight(cur, sub, Slice)))
      BY <2>4 DEF FetchContract
    <3>2. c = b
      BY <2>4, <3>1
    <3>3. <<c, d>> \in {b} \X (Market[b] \cap DaysToMidnight(cur, sub, Slice))
      BY <1>2, <2>1, <3>2 DEF DaysToMidnight, Daily
    <3>4. QED
      BY <3>1, <3>3 DEF MergeOptionCandles
  <2>5. CASE c \in pending /\ ~(FetchContractFails \/ FetchContract)
    <3>1. pending' = pending \/ pending' = contracts'
      BY <2>5 DEF Next, RunStep, Snapshot, StartNightly, StartBackfill, EndRun, NoRun,
         BeginUnderlying, QueryFails, EndUnderlying, LeaveUnderlying, StartChunk,
         Cancelled, AuthError, EndFetch, NextSub, Download, UploadRows, AppendFails,
         EndChunk, CheckpointFails, Tick, Sync, Cancel, Restart, vars, walkVars,
         chunkVars, InChunk
    <3>2. QED
      BY <1>1, <2>5, <3>1
  <2>6. QED
    BY <2>2, <2>3, <2>4, <2>5
<1>3. CASE FetchContract \/ Download
  <2>1. /\ InChunk /\ sub <= to /\ UNCHANGED <<cur, contracts, to, sub, ctxDone, allOK>>
    BY <1>3 DEF FetchContract, Download, InChunk, outside, CursorsOK, InAppend
  <2>2. cur \in Daily /\ cur \in Series /\ FileOf(cur, sub) \in Day
    BY <2>1, SliceAtHand
  <2>3. rows \in SUBSET Row /\ \A r \in rows : r[1] \in Matches[cur]
    BY <2>1 DEF RowsOK, OfFile, TypeOK
  <2>4. CASE FetchContract
    <3>1. PICK b \in pending :
            rows' = MergeOptionCandles(rows,
                      {b} \X (Market[b] \cap DaysToMidnight(cur, sub, Slice)))
      BY <2>4 DEF FetchContract
    <3> DEFINE new == {b} \X (Market[b] \cap DaysToMidnight(cur, sub, Slice))
    <3>2. b \in Contracts /\ b \in Matches[cur] /\ sub \in Int /\ Slice \in Int
      <4>1. b \in contracts
        BY DEF TypeOK
      <4>2. b \in Contracts /\ b \in Matches[cur]
        BY <2>1, <4>1 DEF TypeOK, CursorsOK, Walking, InChunk
      <4>3. sub \in Int /\ Slice \in Int
        BY <2>1, SliceAtHand, Calendar
      <4>4. QED
        BY <4>2, <4>3
    <3>3. new \in SUBSET Row /\ \A r \in new : r[1] \in Matches[cur]
      BY <3>2, CandlesOfContract
    <3> HIDE DEF new
    <3>4. rows' = MergeOptionCandles(rows, new)
      BY <3>1 DEF new
    <3>5. \A r \in rows \cup new : r[1] \in Matches[cur]
      BY <2>3, <3>3
    <3>6. rows \subseteq rows'
      BY <2>2, <2>3, <3>3, <3>4, <3>5, MergeKeepsRows
    <3>7. QED
      BY <1>2, <2>1, <3>6
  <2>5. CASE Download
    <3> DEFINE old == book[cur][FileOf(cur, sub)]
    <3>1. old \in SUBSET Row /\ \A r \in old : r[1] \in Matches[cur]
      BY <2>2 DEF BooksInv, OfFile, TypeOK
    <3>2. rows' = MergeOptionCandles(old, rows)
      BY <2>5 DEF Download
    <3> HIDE DEF old
    <3>3. \A r \in old \cup rows : r[1] \in Matches[cur]
      BY <2>3, <3>1
    <3>4. rows \subseteq rows'
      BY <3>2 DEF MergeOptionCandles
    <3>5. QED
      BY <1>2, <2>1, <3>4
  <2>6. QED
    BY <1>3, <2>4, <2>5
<1>4. CASE StartChunk \/ UploadRows \/ (EndFetch /\ rows = {})
  BY <1>1, <1>4 DEF StartChunk, UploadRows, EndFetch, NextSub
<1>5. CASE ~(StartChunk \/ UploadRows \/ (EndFetch /\ rows = {}) \/ FetchContract \/ Download)
  <2>1. /\ InChunk /\ UNCHANGED <<cur, contracts, to, sub>> /\ (ctxDone => ctxDone')
        /\ (allOK' => allOK) /\ rows' = rows
    BY <1>5 DEF Next, RunStep, Snapshot, StartNightly, StartBackfill, EndRun, NoRun,
       BeginUnderlying, QueryFails, EndUnderlying, LeaveUnderlying, Cancelled,
       FetchContractFails, AuthError, EndFetch, AppendFails, EndChunk, CheckpointFails,
       Tick, Sync, Cancel, Restart, vars, outside, runVars, walkVars, chunkVars, InChunk
  <2>2. QED
    BY <1>2, <2>1
<1>6. QED
  BY <1>3, <1>4, <1>5

LEMMA InvInit == Init => IInv
<1> SUFFICES ASSUME Init PROVE ListsOK /\ OriginOK /\ BeforeChunk /\ BeforeSub /\ WindowFetched
  BY FilesInit DEF IInv
<1>1. pc = "idle" /\ listed = {} /\ savedList = {}
  BY DEF Init
<1>2. QED
  BY <1>1 DEF ListsOK, OriginOK, BeforeChunk, BeforeSub, WindowFetched, Walking, InChunk

LEMMA InvStep ==
  ASSUME DistinctKeys, IInv, [Next]_vars
  PROVE  IInv'
<1>1. FilesInv' /\ ListsOK' /\ OriginOK'
  BY FilesStep, ListsStep, OriginStep DEF IInv, FilesInv
<1>2. BeforeChunk' /\ BeforeSub' /\ WindowFetched'
  BY BeforeChunkStep, BeforeSubStep, WindowStep
<1>3. QED
  BY <1>1, <1>2 DEF IInv

\* When no failed fetch has spoilt the chunk, all of it is in the files.
LEMMA ChunkDone ==
  ASSUME IInv, EndChunk, allOK, cur \in Daily,
         NEW c \in contracts, NEW d \in Market[c] \cap (from .. to)
  PROVE  Held(cur, c, d)
<1>1. InChunk /\ sub > to /\ sub \in Int /\ to \in Int
  BY DEF EndChunk, InChunk, IInv, FilesInv, TypeOK
<1>2. d \in Market[c] \cap (from .. sub - 1)
  BY <1>1
<1>3. QED
  BY <1>1, <1>2 DEF IInv, BeforeSub

\* The checkpoint moves over days that are in the file for every contract of the
\* list.
LEMMA CleanStep ==
  ASSUME IInv, [Next]_vars,
         NEW s \in Daily, ckpt'[s] > ckpt[s],
         NEW c \in contracts, NEW d \in Market[c] \cap (from .. ckpt'[s])
  PROVE  Held(s, c, d)
<1>1. ckpt[s] \in Int /\ saved[s] \in Int /\ saved[s] <= ckpt[s] /\ s \in Series
  BY Calendar DEF IInv, FilesInv, TypeOK, SavedBehind, NotFound, Daily
<1>2. /\ EndChunk /\ allOK /\ ckpt' = [ckpt EXCEPT ![cur] = to] /\ cur \in Series
  BY <1>1, CheckpointMoves DEF IInv, FilesInv
<1>3. s = cur /\ ckpt'[s] = to
  BY <1>1, <1>2 DEF IInv, FilesInv, TypeOK
<1>4. QED
  BY <1>2, <1>3, ChunkDone

\* A walk to its end accounts for every day and contract it set out for.
LEMMA FillStep ==
  ASSUME IInv, [Next]_vars, pc = "chunk", pc' = "underlying", ~ctxDone, cur \in Daily,
         NEW c \in contracts, NEW d \in Market[c] \cap (startFrom .. end)
  PROVE  Accounted(cur, c, d)
<1>1. from > end
  BY DEF Next, RunStep, Snapshot, StartNightly, StartBackfill, EndRun,
     BeginUnderlying, QueryFails, EndUnderlying, StartChunk, Cancelled, FetchContract,
     FetchContractFails, AuthError, EndFetch, Download, UploadRows, AppendFails,
     EndChunk, CheckpointFails, Tick, Sync, Cancel, Restart, NoRun, vars
<1>2. from \in Int /\ end \in Int /\ startFrom \in Int
  BY DEF IInv, FilesInv, TypeOK
<1>3. d \in Market[c] \cap (startFrom .. from - 1)
  BY <1>1, <1>2
<1>4. QED
  BY <1>3 DEF IInv, BeforeChunk

\* Of a contract that every snapshot lists, a silent gap comes from a nightly run
\* that found no checkpoint, and from nothing else.
LEMMA GapStep ==
  ASSUME DistinctKeys, IInv, [Next]_vars, NEW s \in Daily, NEW c \in Contracts, NEW d \in Day,
         ~SilentGap(s, c, d), SilentGap(s, c, d)'
  PROVE  nightly /\ s = cur /\ ckpt[s] = NotFound /\ d < startFrom
<1>1. /\ c \in Own[s] /\ c \in Lasting /\ d \in Market[c] /\ BackfillFrom[s] <= d
      /\ d <= ckpt'[s] \/ d <= saved'[s]
      /\ ~Accounted(s, c, d)'
  BY DEF SilentGap, Lasting
<1>2. ~Accounted(s, c, d)
  BY <1>1, HeldStays DEF IInv, FilesInv
<1>3. ~(d <= ckpt[s]) /\ ~(d <= saved[s])
  BY <1>1, <1>2 DEF SilentGap, Lasting
<1>4. s \in Series /\ ckpt[s] \in Int /\ saved[s] \in Int /\ d \in Int
      /\ BackfillFrom[s] \in Int
  <2>1. s \in Series
    BY DEF Daily
  <2>2. ckpt[s] \in Int /\ saved[s] \in Int /\ d \in Int
    BY <2>1, Calendar DEF IInv, FilesInv, TypeOK, NotFound
  <2>3. BackfillFrom[s] \in Int
    BY <2>1, Calendar, OptionsAssumption
  <2>4. QED
    BY <2>1, <2>2, <2>3
<1>5. /\ EndChunk /\ allOK /\ ckpt' = [ckpt EXCEPT ![cur] = to] /\ cur \in Series
  BY <1>1, <1>3, CheckpointMoves, CopyMoves DEF IInv, FilesInv
<1>6. s = cur /\ ckpt'[s] = to /\ d <= to
  <2>1. saved' = saved
    BY <1>5 DEF EndChunk
  <2>2. ckpt \in [Series -> Day \cup {NotFound}]
    BY DEF IInv, FilesInv, TypeOK
  <2>3. QED
    BY <1>1, <1>3, <1>4, <1>5, <2>1, <2>2
<1>7. Walking /\ InChunk /\ sub > to
  BY <1>5 DEF EndChunk, Walking, InChunk
<1>8. c \in contracts
  BY <1>1, <1>6, <1>7 DEF IInv, ListsOK
<1>9. startFrom \in Int /\ from \in Int /\ to \in Int
  BY DEF IInv, FilesInv, TypeOK
<1>10. d < startFrom
  <2>1. CASE from <= d
    <3>1. d \in Market[c] \cap (from .. to)
      BY <1>1, <1>4, <1>6, <1>9, <2>1
    <3>2. Held(cur, c, d)
      BY <1>5, <1>6, <1>8, <3>1, ChunkDone
    <3>3. QED
      BY <1>2, <1>6, <3>2 DEF Accounted
  <2>2. CASE startFrom <= d /\ d < from
    <3>1. d \in Market[c] \cap (startFrom .. from - 1)
      BY <1>1, <1>4, <1>9, <2>2
    <3>2. Accounted(cur, c, d)
      BY <1>6, <1>7, <1>8, <3>1 DEF IInv, BeforeChunk
    <3>3. QED
      BY <1>2, <1>6, <3>2
  <2>3. QED
    BY <1>4, <1>9, <2>1, <2>2
<1>11. nightly /\ ckpt[s] = NotFound
  <2>1. \/ startFrom <= BackfillFrom[cur]
        \/ startFrom <= ckpt[cur] + 1
        \/ nightly /\ ckpt[cur] = NotFound
    BY <1>7 DEF IInv, OriginOK
  <2>2. QED
    BY <1>1, <1>3, <1>4, <1>6, <1>9, <1>10, <2>1
<1>12. QED
  BY <1>6, <1>10, <1>11
=============================================================================
