# Verification of stock-data-extract

TLA+ models, TLC configurations and TLAPS proofs for the extraction pipeline in
`cmd/`, `internal/` and the start scripts: a single Go process that fetches candles
from the Kite API, merges them into Parquet files in Cloudflare R2, and keeps in a
local SQLite file (copied to R2 by Litestream) how far each instrument has got.

The program has one promise that a unit test hardly reaches: **a checkpoint means that
everything up to it is in the archive, or was reported as missing, and no candle ever
leaves the archive**, whatever fails, is cancelled, crashes or is restored from an older
copy in between. Most of this project is about that sentence: where it holds and is
proved, and the places where the code does not keep it. The rest is about what a run
stands on: which instruments it sees, whether its database opens, with which token it
asks, how fast, and how it stops.

## 1. The system

| Part | Code | State | Operations |
|---|---|---|---|
| Candle archive | `storage/parquet/writer.go`, `keys.go`, `storage/r2/client.go` | one object per series and year (`day`) or month (`15min`) | `AppendCandles` / `AppendOptionCandles` = download, merge, upload; `WriteInstruments` = overwrite |
| Checkpoints | `storage/sqlite/state.go` | `extraction_state` per (exchange, symbol, interval); `options_extraction_state` per (underlying, interval) | `Get…LastDate`, `Set…LastDate` (an upsert that does not compare) |
| Instruments | `storage/sqlite/instruments.go`, `extractor/shared.go` | snapshots by date, exchange and type | `UpsertInstruments` (by the nightly run for all exchanges, by a backfill for one that it misses); queries on the newest date: `LatestInstruments`, `…BySegment`, `FnOEquityInstruments`, `equityInstrumentsFromDB` |
| Backfill | `extractor/backfill.go` | cursors of nested loops | exchange → instrument → chunk of `chunk_days` → sub-chunk per file |
| Nightly run | `extractor/incremental.go` | the day, loops | snapshot, then one day of equity, of futures, of options |
| Options | `extractor/options.go` | contracts of an underlying, cursors | one loop for backfill and nightly run, one append per sub-chunk for all contracts |
| Scheduler, process | `scheduler/cron.go`, `cmd/main.go`, `start.sh`, `litestream.yml` | cron jobs, a context | start jobs in goroutines of their own; `Stop` cancels and waits; start restores the database from R2 |
| Kite client | `provider/kite/kite.go`, `instruments.go`, `ratelimit.go` | access token, rate limiter | `ValidateToken`, `Instruments`, `Historical` with up to three attempts and backoff |
| Login | `provider/kite/login.go` | a browser, a channel of one | `AutoLogin`: form, second factor, redirect, `GenerateSession`; 90 seconds at most |
| Database opening | `storage/sqlite/db.go` | connection pool, applied migrations | `Open` with its pragmas, `runMigrations`, one transaction each |
| Config, CLI, readers | `config/config.go`, `cmd/main.go`, `storage/parquet/reader.go` | none | parsing; in-memory filters nobody in the pipeline calls |

How they interact: a job reads the instruments and the checkpoint from SQLite, calls
Kite for each window, appends to R2, and writes the checkpoint. Backfill and nightly run
share files and checkpoints and nothing locks either; they also share the client with its token
and limiter, the pool of SQLite connections and the context that `Stop` cancels. A command
(`docker exec … backfill`) is a second process over the same database file. A run first
validates the token and logs in when that fails for whatever reason. Errors of Kite that are not about
the token are logged "(skipping)"; an auth error ends the walk it happens in (the backfill
of an asset and interval, a pass of the nightly run, an underlying); a storage error ends the backfill job
but only skips the series in the nightly run. Litestream copies the database every `sync-interval` (20 minutes in
`litestream.yml`, 1 minute according to the repository's README), and a start deletes the
local file and restores the copy.

What is hard here: partial failures in nested loops; a cancellation between any two
calls; a crash between upload and checkpoint; an upload reported as failed that was
kept; a checkpoint restored from an older copy while the files are newer; two jobs over
the same file; a checkpoint that is written without being read; a snapshot of one exchange
that hides the others'; two logins at once; retries that pass the limiter by; a migration
cut short, or applied by two processes; date arithmetic at the ends of months and years. `PROJECT.json` lists each of these hazards at its line with
the properties that would catch it.

What makes each part correct:

- archive: candles never leave; a candle is in the one file that its day names;
- checkpoints: nothing silent behind them; they move back only in a restart;
- backfill: a pass ends; an uncancelled walk accounts for every day from `backfill_from`;
- nightly run: it must not hide what the backfill has not done;
- options: as the backfill, for every contract of an underlying;
- universe: a job works on what the config asks for, of the listing it has stored;
- database: a migration and its record are one; a restart can always open the file;
- client: the limiter bounds what Kite sees; after `Stop` a job sends no more than the call it
  is in and a login for each run it has left;
- login: no redirect is lost; the newest session is the one in use;
- process: a SIGTERM ends it;
- date ranges: chunks and sub-chunks tile the range, each in one file.

## 2. The modules

| Module | Models |
|---|---|
| `Windows` | last trading day, chunk ends, sub-chunk ends, the days a Kite window covers, the file of a day |
| `Storage` (extends `Windows`) | files, checkpoints, Litestream's copy, the life of the process |
| `Backfill` (extends `Storage`) | `Backfiller.Run`, `runEquity`, `runFutures`, the weekly pass and the command |
| `Incremental` (extends `Storage`) | `IncrementalExtractor.Run` without options |
| `Extraction` | `Backfill` and `Incremental` instantiated over one `Storage`, started by cron or by hand |
| `OptionsFiles` (extends `Windows`) | contracts, rows, and the merge of rows into an options file |
| `Options` (extends `OptionsFiles`) | `extractUnderlying` and its two callers, one run after the other |
| `OptionsJobs` | two instances of `Options`, the nightly run and a backfill, over one archive |
| `Archive` | the abstract specification: what the backfill promises |
| `Database` | `Open`, the migrations, the pool, the write lock, two processes, Litestream's copy |
| `Universe` (extends `Database`) | snapshots of instruments, their two writers, every query, the loops of nightly run and backfill over them |
| `Client` | `ValidateToken`, `Instruments` and `Historical` as three kinds of calls over one limiter, token and context |
| `Login` (extends `Client`) | `AutoLogin`, one browser per job |
| `Scheduler` (extends `Login`) | weekly and nightly jobs as sequences of runs of calls; `Stop` and start |
| `DateRanges` | `chunkDateRange`, `splitByYear`, `splitByMonth`, `LastTradingDay` over the Gregorian calendar |
| `DateRangesProofs` | the theorems about the calendar and the loops over it, and that they are what `Windows` assumes |
| `BackfillProofs`, `ExtractionProofs`, `OptionsJobsProofs` | the theorems about `Backfill`, `Extraction` and `OptionsJobs` |
| `OptionsProofs` | the lemmas about `Options` that `OptionsJobsProofs` takes for either run |
| `UniverseProofs`, `SnapshotProofs` | the theorems about `Universe`: types and migrations; the queries and the pools |
| `SchedulerProofs` | the theorems about `Scheduler` |
| `MC…` | small instances for TLC |

### Correspondence with the code

**Data.** A candle is its day and a file a set of days (`blob[s][f]`, `f` being the last
day of the file's period); prices, Parquet encoding and symbols are left out. An
intraday candle belongs to a day too, and a window from midnight to midnight does not
reach the candles of its last day (`DaysToMidnight`). In `Options` a row is a contract
and a day, and `MergeOptionCandles` drops an older row with the same (day, expiry,
strike, type). The days that Kite has candles for are a constant and may have holidays.

**Control.** `Backfill` has one action per network or database call of `runEquity` and
`runFutures`, which are the same program text up to the key and the `oi` flag: a series
stands for an equity or for a futures contract. The cursors are the code's:
`end` is `cfg.EndDate`, `from`/`to` are `chunk[0]`/`chunk[1]`, `sub` is `sc[0]` and
`Slice` is `sc[1]`, `allOK` is `allOK`. `cur` is `inst`, `todo` and `left` what the
instrument and exchange loops still have before them. The lists that
`chunkDateRange` and `splitByPeriod` build first are produced one element at a time;
nothing reads them in between. The order in which jobs, exchanges and instruments come
is left open. `AppendCandles` is two steps, `Download` and `UploadRows`, because another
job can come between them. An early return is `EndJob`: cron logs the error and goes on
with the next job.

**Errors.** `FetchFails` is the "(skipping)" branch and records the refused window in the
ghost variable `refused`, the model's stand-in for the log. After a cancellation
`Historical` fails in the limiter and takes the same branch, and then R2 calls fail
(`AppendFails`), while SQLite calls, which get no context, still succeed (`EndChunk`).
`AppendFails` may have stored the file although the call failed.

**Process.** `Crash` may come between any two steps and keeps what R2 holds. `Boot` restores
the copy. `Sync` copies at any time, so the copy may be arbitrarily old; `Exit` is a clean
stop, where Litestream as PID 1 flushes. `Options` has no variable for a dead process: its
`Restart` is a death and a start in one step, since nothing happens in between except
`Tick`, which is possible anyway.

**Nightly run.** `Incremental` fetches one day of each listed series with a window that
reaches the end of the day (`endOfDay`), and `MarkDay` writes the checkpoint without
reading it. A storage error skips the series; a failing checkpoint ends the pass.

**Options.** The walk of an underlying starts after its checkpoint in the nightly run as
well. The list of contracts is that of the newest snapshot when the walk begins. Every
error is logged and the run continues with the next underlying. Without a checkpoint a
backfill starts at `backfill_from` and the nightly run at its own day; `StartNightly` is
bounded to runs whose day lies within the horizon. `OptionsJobs` has the nightly run (the
variables `nPc`, `nCur`, ...) and a backfill (`wPc`, `wCur`, ...) over one archive and one
table of checkpoints. In the code either may start while the other is on its way;
`MayOverlap = FALSE` is the hypothesis that it does not, and what is said of the options
below is said under it (section 3). Two backfills at a time, and a nightly run that lasts
into the next night, are not modelled.

**Database.** `file` is what is committed: the effects of migrations (`schema`), their
records (`recorded`) and the snapshots (`rows`, by date). A transaction shows as `writer`,
the holder of SQLite's write lock, and changes `file` at its commit; that a death before it
rolls back is therefore that `file` stays. `at[p]` is the place of a process in `Open`. The
check of a migration is a step before its transaction, as in `runMigrations`. Migrations
that add a column (`AddsColumn`) fail when it is there; the others say IF NOT EXISTS. The
pool is the set of idle connections; `Open` sets its pragmas on `First`, and a query that
comes while another goroutine may have it can get a new one without them. `alone` is a
ghost: nobody else has touched the file since a process began to open it.

**Universe.** An instrument is a record of what the queries compare; `Listed` is Kite's
listing, which does not change, so that two snapshots differ in nothing but date and
completeness. `Newest` is `MAX(snapshot_date)` over all exchanges. `asset`, `left`, `cur`
and `wanted` are the loops of `runEquity`, `runFutures`, `runEquityIncremental` and
`runFuturesIncremental`; `stamp` is the snapshot date that is about to be stored: the
nightly run takes it before its fetches, `loadOrFetchInstruments` after its own. Walking
the instruments is a step that may write checkpoints (`Mark`), fail, or end.

**Calls.** Time is in slots of the limiter. A call waits (`wait`), sleeps in its backoff
(`backoff`, `timer`) and is `done` with an `answer`. `Stop` wakes the sleepers, since the
select of the retry loop looks at the context; a call in the limiter takes
`WaitCancelled`; one that comes afterwards is answered at once. What a call returns is one
of ok, failed, refused (the token), cancelled. Sessions are numbered; 0 is the token from
the environment; Kite may end older ones when it opens a new one. `Redirect` may come from the
moment the code is submitted, before the login waits. `GenerateSession` sends a request of the
login's own, past the limiter and the context, and so does an exchange that fails
(`LoginFails`): both count in `sent` and `late`. A login opens a browser and loads a page, which
takes longer than a slot (a third of a second with `rate_limit_rps: 3`): the page is `opening`
until the next slot. An answer of Kite's other than a refusal may end a walk or not
(`WalkAnswered`), since a text may hold "403" and what came may fail to be stored. `Stop`
cancels the context and then stops cron; the two are one step (`StopJobs`). The ghosts
`sent`, `late`, `left` (the runs a job had when it was cancelled), `mine` and `raced` only
record.

## 3. The runs

All bounds are constants of the `.cfg` files: `LastDay` is the horizon (days are
1..LastDay, `today` may be one more), `Boundary` ends the first of two file periods,
day 1 is a Monday.

| Run | Instance | Shows |
|---|---|---|
| `backfill_safety` | 2 daily series in 2 jobs and 2 exchanges, one of which is not to begin yet; 7 days, chunks of 3 days, files of 4 and 3 days, holiday on day 3 | type correctness, no silent gap behind checkpoints and copies, clean chunks, walks that account for every day, monotone checkpoints, candles that stay, the inductive invariant, that `Backfill` implements `Archive`, and that every pass ends |
| `extraction_apart` | backfill and nightly run that do not overlap, 8 days with a weekend, 2 files | files and checkpoints survive two writers in turn; silent gaps come only from the nightly run's jump |
| `options` | 1 underlying; a lasting contract and one that is listed on two days and traded on one; 3 days, 2 files; nightly run and backfill, which do not overlap | rows stay, no clean chunk has a hole, a walk accounts for its days, a lasting contract gets a silent gap only if the nightly run comes before the first backfill, a run ends |
| `date_ranges` | 2023 to 2025, ranges with both ends around a leap February, months of 30 and 31 days and year ends, chunks of 1, 2 and 60 days | tiling, one file per sub-chunk, at most `maxDays`, the latest weekday |
| `universe` | a stock with a future and one without, a chosen and an unchosen index, a future and an option on two exchanges; 2 days, 2 migrations of which the second adds a column; service and command | migrations are whole in file and copy; `Open` fails only because of another process; only jobs of one process meet the lock; nightly run and backfill work on what the config asks for unless a snapshot of a later day hides it |
| `scheduler` | a nightly job (validate, dump, a walk) and a weekly job of two runs of a walk; one call per walk, two new sessions | the limit on requests per slot, how much is still sent after `Stop`, the token in use, redirects, and that `Stop` returns |
| `backfill_gap`, `backfill_intraday`, `extraction_downtime`, `extraction_overlap`, `options_prefix`, `universe_hidden` | the smallest instances that show it | the findings of section 5 |

Why these bounds are enough: two chunks and a chunk that crosses a file boundary exist
in each instance; a failed chunk can be followed by a good one; a pass can be followed by
another on a later day, with a crash, a restore of an older copy and a cancellation in
between, any number of times. A third file or chunk repeats the situation of the second
(and the proofs do not depend on the bounds at all). In `extraction_apart` the series
begins on a Thursday so that a weekend lies within eight days. `universe` needs two days for
a snapshot to be hidden by a newer one, and two migrations for the first to be there when
the second fails; each of the two may be opened by a service over a copy with none, one or
both, beside a command. In `scheduler` one call per walk is enough for a call to be
cancelled, refused or retried between two others of the other job, and two sessions for two
overlapping logins; a third session would be a third login, for which a further login of
either job in the same process is the second.

**Fairness.** Weak fairness of the steps of a running job (`PassStep`, `BackfillStep`,
`IncrementalStep`, `NightlyStep` and `BackfillStep` of `OptionsJobs`, `JobStep` of each job of `Scheduler`): the goroutine runs, and every external call returns with a
result or an error. It does not say which: all failures may happen for ever. `Exit` is
fair in `Extraction` because `main` is blocked on nothing but the jobs. In `Scheduler` time is
fair too (backoffs end; the 90 seconds of a login are part of `JobStep`, through
`GiveUpRun`). Nothing else is assumed of the clock, of Litestream, of signals, crashes or restarts.

**Assumptions on the environment.** `extraction_apart` and `options` keep the two jobs apart
(`MayOverlap = FALSE`), which the code does not enforce: cron runs them in goroutines of
their own and a backfill by hand is possible at any time. `extraction_overlap` shows what
happens to candles without it. To an options file it happens in the same way
(`AppendOptionCandles`, `writer.go:30-39`): with `MayOverlap = TRUE` in `Options.cfg` TLC
refutes `KeysNeverLost` (a lost append), `CleanChunk`, `WalkFills` and `GapsPredateNightly`
(a checkpoint that the other run has moved).

## 4. The proofs

About `Backfill`, for every value of the constants that satisfies `StorageAssumption`,
`PeriodAssumption` (periods are intervals of days) and `JobsAssumption`:

| Theorem | States |
|---|---|
| `TypeCorrect` | `Spec => []TypeOK` |
| `FilesCorrect` | `Spec => []OneFilePerDay` |
| `ArchiveGrows` | `Spec => RowsNeverLost` |
| `Monotone` | `Spec => CkptMonotone` |
| `NoGap` | `Spec => []NoSilentGap` |
| `CleanChunks` | `Spec => CleanChunk` |
| `Fills` | `Spec => BackfillFills` |
| `Complete` | without intraday series and refusals, `Spec => []Covered` |
| `WalkCorrect` | `Spec => []IInv`, the inductive invariant |
| `Implementation` | `Spec => ImplementsArchive` |

About `Extraction`, from the same assumptions and `ExtractionAssumption`; the last three
have the hypothesis `~MayOverlap`, without which the code does not keep the first of them
(`extraction_overlap`):

| Theorem | States |
|---|---|
| `TypeCorrect` | `Spec => []TypeOK`, also when the jobs overlap |
| `FilesCorrect` | `Spec => []OneFilePerDay`, also when the jobs overlap |
| `ArchiveGrows` | `Spec => RowsNeverLost` |
| `Monotone` | `Spec => CkptMonotone` |
| `Jumps` | `Spec => GapsAreJumps` |

About `OptionsJobs`, from `OptionsAssumption`, `PeriodAssumption` and the hypothesis
`~MayOverlap`, which all of them have: the nightly run and the backfill do not overlap, as a
schedule may ensure and the code does not (section 3). The last three also have the
hypothesis `DistinctKeys`: two matched contracts of one underlying differ in expiry,
strike or type. Kite lists no such pair of one underlying; a prefix match that takes in
another underlying may (section 5), and one contract's rows then replace the other's.

| Theorem | States |
|---|---|
| `TypeCorrect` | `Spec => []TypeOK` |
| `BooksCorrect` | `Spec => []BooksOK` |
| `OwnContracts` | if only own contracts match, `Spec => []OwnContractsOnly` |
| `KeysKept` | `Spec => KeysNeverLost` |
| `CleanChunks` | `Spec => CleanChunk` |
| `Fills` | `Spec => WalkFills` |
| `GapsPredate` | `Spec => GapsPredateNightly` |

About `DateRanges`, for any number of years from any first year, any weekday of its first
day, any chunk lengths and any ranges in it (`DateAssumption`, `HorizonAssumption`):

| Theorem | States |
|---|---|
| `RangesTile` | `Spec => []Tiles` |
| `SubChunksInOneFile` | `Spec => []OneFile` |
| `ChunksFit` | `Spec => []AtMostMaxDays` |
| `TradingDayIsLatest` | `Spec => []LatestWeekday` |
| `CalendarHasPeriods` | the calendar's years and months satisfy `PeriodAssumption` of `Windows` |
| `SlicesAreCalendar` | the two period loops cut where `SliceEnd` of `Windows` does |

About `Universe` and `Database`, from `DatabaseAssumption` and `UniverseAssumption`, that
is, for any listing, configuration and number of migrations:

| Theorem | States |
|---|---|
| `TypeCorrect` | `Spec => []TypeOK` |
| `MigrationsWhole` | `Spec => []Migrated` |
| `OpensAlone` | `Spec => []AloneOpens` |
| `BackfillReadsBack` | `Spec => []BackfillLoads` |
| `NightlyComplete` | with `FnOOnly` and at least one futures exchange, `Spec => []NightlySeesAll` |
| `BackfillComplete` | with `FnOOnly` and at least one futures exchange, `Spec => []HiddenOnlyByNewDay` |
| `LocksWait` | `Spec => []LockedOnlyTogether` |

About `Scheduler`, `Login` and `Client`, from `SchedulerAssumption` (finitely many jobs) and
`ClientAssumption`:

| Theorem | States |
|---|---|
| `TypeCorrect` | `Spec => []TypeOK` |
| `RateBounded` | `Spec => []RateBound` |
| `StopQuiets` | `Spec => []LateFew` |
| `RedirectsKept` | `Spec => []RedirectKept` |
| `TokenNewest` | `Spec => []NewestToken` |

`NoSilentGap`, `CleanChunk`, `BackfillFills`, `GapsAreJumps`, `WalkFills`,
`GapsPredateNightly` and the abstract archive are about the daily series, whatever intraday
series are walked beside them; of an intraday series they do not hold, and
`backfill_intraday` refutes `Covered` for one.

The argument for `Backfill`. The invariant comes in parts, by what they need. `FilesInv`
(types, `CursorsOK`: `from`, `to` and `sub` are in range because of where the loops stand,
and that the rows in memory belong to the file they are about to replace) holds whatever
another job writes meanwhile. `AheadOfCkpt` (a walk is ahead of its checkpoint) and
`RowsMerged` (the rows, once downloaded, contain the file) hold as long as no other job
writes; that is why an upload loses nothing. For `NoSilentGap` the checkpoint moves in one
step, `EndChunk`, but what entitles it to move was done in many: `WalkInv` therefore says
what each loop has achieved so far. `BeforeChunk`: of the instrument being walked,
everything between its checkpoint and the chunk is accounted for, also what a failed chunk
left behind (this is what makes a jump over it non-silent). `BeforeSub`: of the chunk,
everything before the sub-chunk is stored if `allOK` and accounted for if not cancelled.
`WindowFetched`: the rows in memory are all that Kite has of the sub-chunk. `IInv` is
`WalkInv` and `NoSilentGap`, and TLC checks it as an invariant of `backfill_safety`. The
refinement maps the archive's `Series` to the daily ones, its `have` to the days that a
reader finds, its `gaps` to `refused`, `done` to `ckpt` and `saved` to `replica`; `EndChunk`
with `allOK` is `Advance`, whose precondition follows from `IInv`.

The argument for `Extraction`. Every step is one of the backfill, one of the process, or one
of the nightly run, so that `ExtractionProofs` takes the lemmas of `BackfillProofs` through an
instance (`Walk`) and proves only what the nightly run adds. `SharedInv` (types, cursors, rows
of the right file, for both jobs) holds however they overlap. `MergedInv` adds that one
of the jobs is idle (`Apart`), hence that nobody writes a file between the download and the
upload of the other. `CkptMonotone` is not obvious, since `MarkDay` writes without reading:
`DatesOK` says that every checkpoint, its copy and the end of a running backfill lie at or
before the last trading day, that the day of a run is such a day and no earlier than any
checkpoint, and that the last trading day never moves back with the clock. `JumpInv` adds
`WalkInv` and `DayAtHand`; it does not say that there is no gap, because there may be: a gap
left by the nightly run lies behind the checkpoint and no later step makes it larger, since
`WalkInv` starts at the checkpoint that the walk has found.

The argument for `Options` follows that for `Backfill`, with a loop more: rows of all
contracts of the list are collected for a sub-chunk and appended at once. `BooksOK` is
inductive with the same for the rows in memory, because the merge drops a row that shares
its key with a new one. That a merged row of another contract does not replace one of the
list is where `DistinctKeys` is needed. What is accounted for is said per contract, and for
the contracts whose turn has come. `GapsPredateNightly` needs besides that a walk with a
checkpoint starts right after it (`OriginOK`), in both of its callers. `OptionsProofs` shows
these things of one run; `OptionsJobsProofs` takes its lemmas for either run through an
instance (`Night`, `Week`) and adds `Apart`, that one of the two is idle: a step of one is
then for the other a step that touches nothing it has in hand, because it has nothing.

The argument for `DateRanges`. `MonthStart` is a recursive function and the library's
induction cannot be applied to it here, so each fact about it (that it exists, that it is
natural, that it grows) is proved of the least month that would refute it, by the
well-foundedness of `<`. From these follow `MonthIs` and `YearIs` (a day between two starts is in that
month or year), then `PeriodSpan`: the days of a period have one file and the next day has
another. `YearEnds` and `MonthEnds` show that the dates the code computes, 31 December, day 0
of the next month, 1 January or the first of the next month, are the last day of the
cursor's period and the day after; for the first one that December has 31 days is needed.
The two loops are then one (`PeriodStep`), and with `chunkDateRange` they are one emission
(`Emission`): a range from the cursor, then the cursor moves past it.

The argument for `Universe`. Types split into those of the database, of the world and of the
loops, so that a step only has to be looked at for the parts it touches. `Migrated` needs
`MigrationInv`: a process that is past the check of a migration has seen every earlier one
recorded, and nothing takes a record back while it runs, so that a commit appends the next
one or adds nothing. `AloneOpens` needs `AloneInv`: while a process is alone nobody else is
opening the file, and what it is about to apply is not recorded, hence, by `Whole`, has had
no effect.

The snapshots need `SnapshotInv`. `RowsInv`: an exchange is in a snapshot with all of its
instruments or with none, because both writers fetch whole exchanges, and no snapshot is
dated after today. `NightInv`: the nightly run stores all exchanges, and its snapshot is
there for as long as it runs. `BackInv`: while a backfill is about to store one exchange,
every newer snapshot is whole, so that what it has just stored is in the newest one; and
what it has found stays in the snapshot in which it was found. `NightView` and `BackView`
say what is left to show between the first query and the second. Without `FnOOnly` the last
two properties are false of the code (section 5). `LockedOnlyTogether` needs `PoolInv`: the
pool of a process whose jobs have come one at a time has one connection, the first, idle or
in the hands of the job whose transaction is open.

The argument for `Scheduler`. `TypeInv` is `TypeOK` with `Counted`, which ties the stage of a
job to its call, its runs and its login. `RateInv` counts what may still be sent in the slot
beside what has been: `sent + |Due| <= slot + |Job|`, `Due` being the jobs whose backoff is
over or whose login is on a page; the limiter's own call is paid for by `slot`, a retry or
an exchange by leaving `Due`, which nobody enters before the next slot because a backoff is
never zero and a browser takes longer to open. `LateInv` bounds, for each job, what it has sent
since the cancellation together with what it may still send (`Owed`: a call under way, and
an exchange for each run that has not logged in yet) by `1 + left`: a call that begins later
is over at once, and a run that ends takes its login with it.
`TokenInv`: a session that waits to be installed and is not the newest means that logins
overlapped. `RedirectInv` holds of every page until the redirect is taken, not only while the login
waits.

Only model-checked: liveness (`PassEnds`, `StopReturns`, `RunEnds`), which needs `ENABLED`.
Every invariant and every action property of the passing runs is a theorem, and so is the
refinement; the conditions on a theorem are named above and are true of the runs that
check its property.

## 5. Where code and documentation disagree

- `backfill_gap`: a chunk that Kite refuses is not re-fetched on restart when a later
  chunk of the same pass succeeds, since the later one moves the checkpoint
  (`backfill.go:149`; the comment above it, `README.md:400` and `DATA.md:200` say it is).
  What does hold is `NoSilentGap`: the log has it.
- `backfill_intraday`: the backfill passes midnight of the last day as the end of an
  intraday window (`backfill.go:127`), what `endOfDay` exists to avoid
  (`shared.go:28-30`); the last day of every sub-chunk is lost. The nightly options run
  has the same window (`options.go:110`), with one day in it.
- `extraction_downtime`: the nightly run moves the checkpoint over the nights it missed
  (`incremental.go:183`), and the weekly backfill that `README.md:170` trusts to fill
  them starts behind it. `GapsAreJumps` shows that this is the only origin of a silent
  gap as long as the jobs do not overlap.
- `extraction_overlap`: overlapping appends to one file lose rows (`writer.go:17-25`
  against `DATA.md:434`); those to options files do the same (`writer.go:30-39`, section 3).
- `options_prefix`: the prefix match takes the contracts of every underlying with a longer
  name (`options.go:173` against the comment at 166-168).
- `universe_hidden`: the equity backfill loads the futures of an exchange only when
  `LatestInstruments` finds none, but then reads the newest snapshot of all exchanges; one
  that holds the equities alone, stored on a later day, hides the futures
  (`instruments.go:59`), and the F&O universe is empty without an error, which the comment at
  `backfill.go:79-81` rules out. `HiddenOnlyByNewDay` shows that this is the only way.

Noticed in reading, with the property that says what holds instead:

- `README.md:298` says that the limit on requests "is never exceeded"; retries do not pass
  the limiter (`kite.go:61-88`), nor does the exchange of a login (`login.go:169`).
  `RateBound`: one first attempt, and one retry or exchange of each job, in a slot.
- `Stop` cancels a context that a login does not have (`login.go:56`): each run of the weekly
  job that is left logs in and asks Kite for a session before its calls fail
  (`cron.go:107`, `backfill.go:41-54`). `LateFew` bounds what is sent.
- `shared.go:51-52` and `README.md:385` say that an auth error aborts the entire run; it ends
  one walk, and the next one runs into it again. A text that contains "403" for another
  reason, such as an instrument's number (`kite.go:73`), ends one too. No property is about
  this; the actions allow both (`WalkAnswered`).
- With `fno_only: false` the first query returns the indices too, and `include_indices` and
  `indices` have no effect (`shared.go:111`); object keys have no exchange (`keys.go:9`), and
  an earlier `backfill_from` does nothing once there is a checkpoint (`backfill.go:107`). The
  configuration in the repository meets neither of the first two.

## 6. Not modelled, and the plan

Not modelled: two backfills at the same time (in `Extraction`, `OptionsJobs` and
`Universe`); the clock of the second factor (`login.go:117-138`) and the time a browser takes
over its pages, both of them ways in which a login fails; parsing of the configuration and of flags (its values are constants; a
configuration that changes between two runs is not considered); the Parquet readers, which
keep no state and have no caller in the pipeline; selectors and keystrokes of the browser;
the contents of candles, and with them the order of rows in a file; `SearchInstruments`,
`OptionExpiries` and `Exists`, which have no caller; `run-local.sh`, which does what
`start.sh` does with Litestream beside the program and not above it; a container that fills
its disk; Kite's listing changing from one day to the next (`Options` has contracts that
expire).

Next, in this order:

1. `Merge`: `mergeCandles` and `mergeOptionCandles` with Go's unordered maps against the
   set-level merges used here: sorted, no duplicate key, idempotent.
2. A configuration that is edited between two runs: `backfill_from`, `chunk_days`, exchanges.
