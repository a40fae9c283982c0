------------------------------ MODULE Options ------------------------------
(***************************************************************************)
(* The options extractor (internal/extractor/options.go), one run after    *)
(* the other.  One loop serves the backfill and the nightly run: it walks  *)
(* the underlyings, and of an underlying the chunks from its checkpoint    *)
(* on, and fetches every listed contract of a sub-chunk before it appends  *)
(* their rows to one file.                                                 *)
(*                                                                         *)
(* That a run starts only when no other is on its way is a hypothesis of   *)
(* this module and no guard of the code: OptionsJobs has the nightly run   *)
(* and the backfill side by side, each as an instance of this module, and  *)
(* says when they may overlap.                                             *)
(*                                                                         *)
(* A process that is killed or stopped is a Restart: nothing happens until *)
(* the next one runs.                                                      *)
(***************************************************************************)
EXTENDS OptionsFiles

VARIABLES
  book,       \* book[s][f]: the rows in the candle file f of s
  ckpt,       \* options_extraction_state: the last day done, NotFound if no row
  listed,     \* the contracts in the newest instruments snapshot
  saved,      \* Litestream's copy of ckpt
  savedList,  \* Litestream's copy of listed
  refused,    \* ghost: candles <<s, contract, day>> in a window that Kite refused
  today,      \* the date, UTC
  ctxDone,    \* the context of the process has been cancelled
  pc,         \* what the run does next
  nightly,    \* RunIncremental, not Backfill
  end,        \* the last day of the run
  queue,      \* underlyings still to come
  cur,        \* the underlying being walked
  contracts,  \* its contracts, as they were listed when it was begun
  startFrom,  \* where its walk began
  from, to,   \* first and last day of the chunk
  sub,        \* first day of the sub-chunk
  pending,    \* contracts of the sub-chunk still to be fetched
  allOK,      \* no fetch of the chunk has failed
  rows        \* rows fetched; once the file is downloaded, the merged rows

outside == <<book, ckpt, listed, saved, savedList, refused, today, ctxDone>>
runVars == <<nightly, end, queue>>
chunkVars == <<to, sub, pending, allOK, rows>>
walkVars == <<cur, contracts, startFrom, from, chunkVars>>
vars == <<outside, pc, runVars, walkVars>>

TypeOK ==
  /\ book \in [Series -> [Day -> SUBSET Row]]
  /\ ckpt \in [Series -> Day \cup {NotFound}]
  /\ saved \in [Series -> Day \cup {NotFound}]
  /\ listed \subseteq Contracts /\ savedList \subseteq Contracts
  /\ refused \subseteq Series \X Contracts \X Day
  /\ today \in 1 .. LastDay + 1
  /\ ctxDone \in BOOLEAN /\ nightly \in BOOLEAN /\ allOK \in BOOLEAN
  /\ pc \in {"idle", "underlying", "chunk", "fetch", "download", "upload"}
  /\ end \in Int /\ end <= LastDay
  /\ queue \subseteq Series
  /\ cur \in Series \cup {None}
  /\ contracts \subseteq Contracts /\ pending \subseteq contracts
  /\ startFrom \in Int /\ from \in Int /\ to \in Int /\ sub \in Int
  /\ rows \subseteq Row

ClearWalk ==
  /\ cur' = None /\ contracts' = {} /\ startFrom' = 1 /\ from' = 1
  /\ to' = 0 /\ sub' = 1 /\ pending' = {} /\ allOK' = TRUE /\ rows' = {}

NoRun ==
  /\ pc' = "idle" /\ nightly' = FALSE /\ end' = 0 /\ queue' = {}
  /\ ClearWalk

Init ==
  /\ book = [s \in Series |-> [f \in Day |-> {}]]
  /\ ckpt = [s \in Series |-> NotFound] /\ saved = ckpt
  /\ listed = {} /\ savedList = {} /\ refused = {} /\ today = 1 /\ ctxDone = FALSE
  /\ pc = "idle" /\ nightly = FALSE /\ end = 0 /\ queue = {}
  /\ cur = None /\ contracts = {} /\ startFrom = 1 /\ from = 1
  /\ to = 0 /\ sub = 1 /\ pending = {} /\ allOK = TRUE /\ rows = {}

-----------------------------------------------------------------------------
(* Runs.                                                                   *)

\* A snapshot that no options run follows: a futures backfill needed one, or a
\* nightly run failed after it.  It may come in the middle of a run.
Snapshot ==
  /\ ~ctxDone
  /\ listed' = Listing(today)
  /\ UNCHANGED <<book, ckpt, saved, savedList, refused, today, ctxDone, pc, runVars, walkVars>>

\* The nightly run: a new snapshot first, then every interval and underlying.
\* A bound: the day of the run lies within the horizon.  Here and in
\* StartBackfill, pc = "idle" is the hypothesis of the module.
StartNightly ==
  /\ pc = "idle" /\ ~ctxDone
  /\ LastTradingDay(today) \in Day
  /\ listed' = Listing(today)
  /\ pc' = "underlying" /\ nightly' = TRUE /\ queue' = Series
  /\ end' = LastTradingDay(today)
  /\ UNCHANGED <<book, ckpt, saved, savedList, refused, today, ctxDone, walkVars>>

\* A backfill of one interval, weekly or by hand, takes the snapshot that is there.
StartBackfill ==
  /\ pc = "idle" /\ ~ctxDone
  /\ pc' = "underlying"
  /\ queue' \in {Series \ Intraday, Series \cap Intraday} \ {{}}
  /\ end' = LastTradingDay(today)
  /\ UNCHANGED <<outside, nightly, walkVars>>

EndRun ==
  /\ pc = "underlying" /\ (queue = {} \/ ctxDone)
  /\ NoRun
  /\ UNCHANGED outside

-----------------------------------------------------------------------------
(* One underlying.                                                         *)

StartDate(s) == IF nightly THEN end ELSE BackfillFrom[s]

\* Mutant: the nightly run fetches its day and nothing else.
ResumeFromStart(s) == StartDate(s)

\* The day after the checkpoint, for the nightly run as well.
ResumeFrom(s) == IF ckpt[s] = NotFound THEN StartDate(s) ELSE ckpt[s] + 1

\* filterByUnderlying.
ContractsFor(s) == listed \cap Matches[s]

\* Nothing to do, or no contract found, is no error; the checkpoint stays.
BeginUnderlying ==
  /\ pc = "underlying" /\ ~ctxDone
  /\ \E s \in queue :
       /\ queue' = queue \ {s}
       /\ IF ResumeFrom(s) > end \/ ContractsFor(s) = {}
            THEN UNCHANGED <<pc, walkVars>>
            ELSE /\ pc' = "chunk"
                 /\ cur' = s /\ contracts' = ContractsFor(s)
                 /\ startFrom' = ResumeFrom(s) /\ from' = ResumeFrom(s)
                 /\ UNCHANGED chunkVars
  /\ UNCHANGED <<outside, nightly, end>>

\* A query fails: "(continuing)" with the next underlying.
QueryFails ==
  /\ pc = "underlying" /\ ~ctxDone
  /\ \E s \in queue : queue' = queue \ {s}
  /\ UNCHANGED <<outside, pc, nightly, end, walkVars>>

\* extractUnderlying returns; an error is logged and the run goes on.
LeaveUnderlying ==
  /\ pc' = "underlying"
  /\ ClearWalk
  /\ UNCHANGED runVars

EndUnderlying ==
  /\ pc = "chunk" /\ from > end
  /\ LeaveUnderlying
  /\ UNCHANGED outside

StartChunk ==
  /\ pc = "chunk" /\ from <= end /\ ~ctxDone
  /\ pc' = "fetch"
  /\ to' = ChunkEnd(cur, from, end)
  /\ sub' = from /\ pending' = contracts /\ allOK' = TRUE /\ rows' = {}
  /\ UNCHANGED <<outside, runVars, cur, contracts, startFrom, from>>

\* The context is looked at before each chunk and before each contract.
Cancelled ==
  /\ ctxDone
  /\ \/ pc = "chunk" /\ from <= end
     \/ pc = "fetch" /\ pending # {}
  /\ LeaveUnderlying
  /\ UNCHANGED outside

-----------------------------------------------------------------------------
(* One sub-chunk: fetch the contracts, then one append.                    *)

Slice == SliceEnd(cur, sub, to)

\* Mutants: the list of contracts is used up by the first sub-chunk; the cursor
\* of the sub-chunks stays.
NextSubForgets ==
  /\ pc' = "fetch"
  /\ sub' = Slice + 1
  /\ pending' = {} /\ rows' = {}
NextSubRepeats ==
  /\ pc' = "fetch"
  /\ sub' = Slice
  /\ pending' = contracts /\ rows' = {}

NextSub ==
  /\ pc' = "fetch"
  /\ sub' = Slice + 1
  /\ pending' = contracts /\ rows' = {}

FetchContract ==
  /\ pc = "fetch" /\ sub <= to /\ ~ctxDone
  /\ \E c \in pending :
       /\ pending' = pending \ {c}
       /\ rows' = MergeOptionCandles(rows,
                    {c} \X (Market[c] \cap DaysToMidnight(cur, sub, Slice)))
  /\ UNCHANGED <<outside, pc, runVars, cur, contracts, startFrom, from, to, sub, allOK>>

\* Mutant: a contract that failed does not count.
FetchContractForgives ==
  /\ pc = "fetch" /\ sub <= to /\ FetchFaults
  /\ \E c \in pending :
       /\ pending' = pending \ {c}
       /\ refused' = refused \cup ({cur} \X {c} \X (Market[c] \cap (sub .. Slice)))
  /\ UNCHANGED <<book, ckpt, listed, saved, savedList, today, ctxDone, pc, runVars, cur,
                 contracts, startFrom, from, to, sub, allOK, rows>>

\* "(skipping)"; a context that is cancelled just now shows up here too.
FetchContractFails ==
  /\ pc = "fetch" /\ sub <= to
  /\ \E c \in pending :
       /\ pending' = pending \ {c}
       /\ \/ /\ FetchFaults /\ ~ctxDone
             /\ refused' = refused \cup ({cur} \X {c} \X (Market[c] \cap (sub .. Slice)))
          \/ ctxDone /\ UNCHANGED refused
  /\ allOK' = FALSE
  /\ UNCHANGED <<book, ckpt, listed, saved, savedList, today, ctxDone, pc, runVars, cur,
                 contracts, startFrom, from, to, sub, rows>>

\* isAuthError: the underlying is given up, the run is not.
AuthError ==
  /\ pc = "fetch" /\ sub <= to /\ pending # {} /\ ~ctxDone
  /\ LeaveUnderlying
  /\ UNCHANGED outside

\* All contracts have been asked for; without a row there is nothing to append.
EndFetch ==
  /\ pc = "fetch" /\ sub <= to /\ pending = {}
  /\ IF rows = {}
       THEN NextSub
       ELSE pc' = "download" /\ UNCHANGED <<sub, pending, rows>>
  /\ UNCHANGED <<outside, runVars, cur, contracts, startFrom, from, to, allOK>>

Download ==
  /\ pc = "download" /\ ~ctxDone
  /\ pc' = "upload"
  /\ rows' = MergeOptionCandles(book[cur][FileOf(cur, sub)], rows)
  /\ UNCHANGED <<outside, runVars, cur, contracts, startFrom, from, to, sub, pending, allOK>>

PutBook == book' = [book EXCEPT ![cur][FileOf(cur, sub)] = rows]

UploadRows ==
  /\ pc = "upload" /\ ~ctxDone
  /\ PutBook
  /\ NextSub
  /\ UNCHANGED <<ckpt, listed, saved, savedList, refused, today, ctxDone, runVars, cur,
                 contracts, startFrom, from, to, allOK>>

\* Of a failed upload R2 may have kept the file.
AppendFails ==
  /\ pc \in {"download", "upload"}
  /\ UNCHANGED book \/ (pc = "upload" /\ PutBook)
  /\ LeaveUnderlying
  /\ UNCHANGED <<ckpt, listed, saved, savedList, refused, today, ctxDone>>

\* The checkpoint of the underlying moves if no contract has failed.
EndChunk ==
  /\ pc = "fetch" /\ sub > to
  /\ IF allOK THEN ckpt' = [ckpt EXCEPT ![cur] = to] ELSE UNCHANGED ckpt
  /\ pc' = "chunk" /\ from' = to + 1
  /\ to' = 0 /\ sub' = 1 /\ pending' = {} /\ allOK' = TRUE /\ rows' = {}
  /\ UNCHANGED <<book, listed, saved, savedList, refused, today, ctxDone, runVars, cur,
                 contracts, startFrom>>

CheckpointFails ==
  /\ pc = "fetch" /\ sub > to /\ allOK
  /\ LeaveUnderlying
  /\ UNCHANGED outside

-----------------------------------------------------------------------------
(* The process and its surroundings.                                       *)

Tick ==
  /\ today <= LastDay
  /\ today' = today + 1
  /\ UNCHANGED <<book, ckpt, listed, saved, savedList, refused, ctxDone, pc, runVars, walkVars>>

Sync ==
  /\ saved' = ckpt /\ savedList' = listed
  /\ UNCHANGED <<book, ckpt, listed, refused, today, ctxDone, pc, runVars, walkVars>>

Cancel ==
  /\ ~ctxDone /\ ctxDone' = TRUE
  /\ UNCHANGED <<book, ckpt, listed, saved, savedList, refused, today, pc, runVars, walkVars>>

\* The restored database has the checkpoints and the snapshots of the copy.
Restart ==
  /\ ckpt' = saved
  /\ listed' = savedList
  /\ ctxDone' = FALSE
  /\ NoRun
  /\ UNCHANGED <<book, saved, savedList, refused, today>>

RunStep ==
  \/ EndRun \/ BeginUnderlying \/ QueryFails \/ EndUnderlying
  \/ StartChunk \/ Cancelled
  \/ FetchContract \/ FetchContractFails \/ AuthError \/ EndFetch
  \/ Download \/ UploadRows \/ AppendFails
  \/ EndChunk \/ CheckpointFails

Next ==
  \/ Snapshot \/ StartNightly \/ StartBackfill
  \/ RunStep
  \/ Tick \/ Sync \/ Cancel \/ Restart

\* What is safe of runs that follow one another; OptionsJobs has the fairness.
Spec == Init /\ [][Next]_vars

-----------------------------------------------------------------------------
(* Properties, of runs that do not overlap; OptionsJobs has them of both   *)
(* runs at once and a hypothesis that keeps the runs apart.                *)

Held(s, c, d) == <<c, d>> \in book[s][FileOf(s, d)]

Accounted(s, c, d) == Held(s, c, d) \/ <<s, c, d>> \in refused

\* A row is in the file of its own day, Kite has it, and no two rows of a file
\* share a key (options.go:140, writer.go:64-75).
BooksOK ==
  \A s \in Series, f \in Day : \A r \in book[s][f] :
    /\ r[2] \in Market[r[1]] /\ FileOf(s, r[2]) = f
    /\ \A q \in book[s][f] : RowKey(q) = RowKey(r) => q = r

\* Whatever one run after the other fetches again, retries or leaves half done, no
\* candle of a contract leaves its file (writer.go:30-39).
KeysNeverLost ==
  [][\A s \in Series, f \in Day :
       {RowKey(r) : r \in book[s][f]} \subseteq {RowKey(r) : r \in book'[s][f]}]_vars

\* "Only advance checkpoint if every contract fetch succeeded" (options.go:152):
\* the checkpoint moves over days that are in the file for every contract of the
\* list that the walk began with.  An intraday window lacks its last day.
CleanChunk ==
  [][\A s \in Daily : ckpt'[s] > ckpt[s] =>
       \A c \in contracts : \A d \in Market[c] \cap (from .. ckpt'[s]) : Held(s, c, d)]_vars

\* A day behind a checkpoint of s, or behind the copy a restart would restore, of
\* a contract that every snapshot lists, is missing and was never refused.
SilentGap(s, c, d) ==
  /\ c \in Own[s] /\ 1 .. LastDay + 1 \subseteq ListedOn[c]
  /\ d \in Market[c] /\ BackfillFrom[s] <= d
  /\ d <= ckpt[s] \/ d <= saved[s]
  /\ ~Accounted(s, c, d)

\* Unlike the nightly run of equity and futures, the nightly run of options
\* starts where its checkpoint is.  So whatever nights were missed, refused, cut
\* short or rolled back, a contract that every snapshot lists gets a silent gap
\* in a daily series in one way only, as long as no two runs overlap: there was no
\* checkpoint, the nightly run came before the first backfill, and the gap is
\* before its day (options.go:53-58, incremental.go:96-105).
GapsPredateNightly ==
  [][\A s \in Daily, c \in Contracts, d \in Day :
       ~SilentGap(s, c, d) /\ SilentGap(s, c, d)' =>
         nightly /\ s = cur /\ ckpt[s] = NotFound /\ d < startFrom]_vars

\* When a walk of a daily series that nobody has cancelled is over, every day it
\* set out for is accounted for, for every contract it knew of (options.go:92-159).
WalkFills ==
  [][pc = "chunk" /\ pc' = "underlying" /\ ~ctxDone /\ cur \in Daily =>
       \A c \in contracts : \A d \in Market[c] \cap (startFrom .. end) :
         Accounted(cur, c, d)]_vars

\* A run ends, whatever fails on the way (options.go:28-50).
RunEnds == pc # "idle" ~> pc = "idle"

\* "This is correct for both index and stock options" (options.go:166-168): the
\* file of an underlying holds the contracts of that underlying only.
OwnContractsOnly ==
  \A s \in Series, f \in Day : \A r \in book[s][f] : r[1] \in Own[s]
=============================================================================
