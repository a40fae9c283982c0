------------------------------ MODULE Universe ------------------------------
(***************************************************************************)
(* Which instruments a job works on: the table of instrument snapshots,    *)
(* its two writers (the nightly run stores one snapshot of all exchanges,  *)
(* a backfill fetches one exchange when it finds nothing), the queries on  *)
(* the newest snapshot, and the jobs around them.  The jobs are goroutines *)
(* of the service, or the backfill is a command beside it (module          *)
(* Database).  Of what they do with an instrument only the write of its    *)
(* checkpoint is left, and the options walk is the module Options.         *)
(*                                                                         *)
(* Kite's listing does not change here; what is fetched on two days        *)
(* differs in its snapshot date alone.                                     *)
(***************************************************************************)
EXTENDS Database, FiniteSets

CONSTANTS
  Listed,                                  \* Kite's instruments
  EquityExchanges, FuturesExchanges, OptionsExchanges,
  FnOOnly, IncludeIndices, Indices         \* extraction.equity of the config

ASSUME UniverseAssumption ==
  /\ \A i \in Listed : DOMAIN i = {"symbol", "name", "exchange", "type", "segment"}
  /\ FnOOnly \in BOOLEAN /\ IncludeIndices \in BOOLEAN
  /\ EquityExchanges \cup FuturesExchanges \cup OptionsExchanges # {}

Job == {"nightly", "backfill"}
Asset == {"equity", "futures"}
Exchange == EquityExchanges \cup FuturesExchanges \cup OptionsExchanges
AnyExchange == CHOOSE ex \in Exchange : TRUE

VARIABLES
  today,     \* the date, UTC
  pc,        \* where a job stands
  home,      \* the process a job runs in
  asset,     \* what it extracts
  left,      \* the exchanges its loop still has before it
  cur,       \* the exchange of the loop
  wanted,    \* the instrument type it loads
  stamp,     \* the date of the snapshot it is about to store
  got,       \* what it has fetched for that
  conn,      \* the connection its transaction has
  view,      \* the instruments it has read from the table
  foundOn,   \* ghost: the snapshot in which the backfill found an exchange's futures
  together   \* ghost: both jobs have run in the service since it was started

jobVars == <<pc, home, asset, left, cur, wanted, stamp, got, conn, view>>
vars == <<databaseVars, today, jobVars, foundOn, together>>

Stage == {"idle", "fetch", "store", "commit", "publish", "next", "load", "dump",
          "reload", "query", "indices", "walk"}

TypeOK ==
  /\ DatabaseTypeOK([Day -> SUBSET Listed], Job)
  /\ today \in Day
  /\ pc \in [Job -> Stage]
  /\ home \in [Job -> Process]
  /\ asset \in [Job -> Asset]
  /\ left \in [Job -> SUBSET Exchange]
  /\ cur \in [Job -> Exchange]
  /\ wanted \in [Job -> {"EQ", "FUT"}]
  /\ stamp \in [Job -> Day]
  /\ got \in [Job -> SUBSET Listed]
  /\ conn \in [Job -> {First, Second}]
  /\ view \in [Job -> SUBSET Listed]
  /\ foundOn \in [FuturesExchanges -> SUBSET Day]
  /\ together \in BOOLEAN

Init ==
  /\ DatabaseInit([d \in Day |-> {}])
  /\ today = 1
  /\ pc = [j \in Job |-> "idle"]
  /\ home = [j \in Job |-> "service"]
  /\ asset = [j \in Job |-> "equity"]
  /\ left = [j \in Job |-> {}]
  /\ cur = [j \in Job |-> AnyExchange]
  /\ wanted = [j \in Job |-> "EQ"]
  /\ stamp = [j \in Job |-> 1]
  /\ got = [j \in Job |-> {}]
  /\ conn = [j \in Job |-> First]
  /\ view = [j \in Job |-> {}]
  /\ foundOn = [ex \in FuturesExchanges |-> {}]
  /\ together = FALSE

-----------------------------------------------------------------------------
(* The queries.                                                            *)

\* SELECT MAX(snapshot_date) FROM instruments, over all exchanges: a day or none.
Newest == {d \in Day : file.rows[d] # {} /\ \A e \in Day : e > d => file.rows[e] = {}}

Snapshot == UNION {file.rows[d] : d \in Newest}

LatestInstruments(ex, type) == {i \in Snapshot : i.exchange = ex /\ i.type = type}

LatestInstrumentsBySegment(ex, segment) ==
  {i \in Snapshot : i.exchange = ex /\ i.segment = segment}

\* The futures of the newest snapshot are named after their stocks.
FnOEquityInstruments(ex) ==
  IF FuturesExchanges = {} THEN LatestInstruments(ex, "EQ")
  ELSE {i \in LatestInstruments(ex, "EQ") :
          /\ i.segment # "INDICES"
          /\ \E x \in FuturesExchanges : \E f \in LatestInstruments(x, "FUT") :
               f.name = i.symbol}

\* equityInstrumentsFromDB, its first query and its second.
EquitiesFromDB(ex) ==
  IF FnOOnly THEN FnOEquityInstruments(ex) ELSE LatestInstruments(ex, "EQ")

\* Mutant: the list of indices in the config is not looked at.
AllIndicesFromDB(ex) == LatestInstrumentsBySegment(ex, "INDICES")

IndicesFromDB(ex) ==
  {i \in LatestInstrumentsBySegment(ex, "INDICES") :
     IncludeIndices /\ (Indices = {} \/ i.symbol \in Indices)}

-----------------------------------------------------------------------------
(* The loops.                                                              *)

Go(j, stage) == pc' = [pc EXCEPT ![j] = stage]

\* Locals of a loop that have no value between two rounds of it.
Forget(j) ==
  /\ got' = [got EXCEPT ![j] = {}]
  /\ conn' = [conn EXCEPT ![j] = First]
  /\ view' = [view EXCEPT ![j] = {}]

\* The loop of job j over the exchanges of an asset, which loads a type.
Loop(j, a, exchanges, type) ==
  /\ asset' = [asset EXCEPT ![j] = a]
  /\ left' = [left EXCEPT ![j] = exchanges]
  /\ wanted' = [wanted EXCEPT ![j] = type]
  /\ Forget(j)
  /\ Go(j, "next")
  /\ UNCHANGED <<cur, stamp, foundOn>>

\* The job is over, or an error ends it; the caller logs that.
Finish(j) ==
  /\ asset' = [asset EXCEPT ![j] = "equity"]
  /\ left' = [left EXCEPT ![j] = {}]
  /\ wanted' = [wanted EXCEPT ![j] = "EQ"]
  /\ Forget(j)
  /\ Go(j, "idle")
  /\ cur' = [cur EXCEPT ![j] = AnyExchange]
  /\ stamp' = [stamp EXCEPT ![j] = 1]
  /\ foundOn' = IF j = "backfill" THEN [ex \in FuturesExchanges |-> {}] ELSE foundOn

\* runEquityIncremental is over, done or not, and runFuturesIncremental comes.
EndPass(j) ==
  IF asset[j] = "equity" THEN Loop(j, "futures", FuturesExchanges, "FUT") ELSE Finish(j)

\* An error in a loop ends one pass of the nightly run, and the whole backfill.
Abandon(j) == IF j = "nightly" THEN EndPass(j) ELSE Finish(j)

\* The backfill has its futures only to have them in the database.
Preloading(j) == j = "backfill" /\ asset[j] = "equity" /\ wanted[j] = "FUT"

NextExchange(j) ==
  /\ pc[j] = "next" /\ left[j] # {}
  /\ \E ex \in left[j] :
       /\ cur' = [cur EXCEPT ![j] = ex]
       /\ left' = [left EXCEPT ![j] = @ \ {ex}]
  /\ Go(j, IF j = "backfill" THEN "load" ELSE "query")
  /\ UNCHANGED <<databaseVars, today, home, asset, wanted, stamp, got, conn, view, foundOn, together>>

EndLoop(j) ==
  /\ pc[j] = "next" /\ left[j] = {}
  /\ \/ Preloading(j) /\ Loop(j, "equity", EquityExchanges, "EQ")
     \/ ~Preloading(j) /\ Abandon(j)
  /\ UNCHANGED <<databaseVars, today, home, together>>

-----------------------------------------------------------------------------
(* Starting.                                                               *)

Shared(j, p) ==
  together' = (together \/ \E k \in Job \ {j} : pc[k] # "idle" /\ home[k] = p)

\* The date of the run is taken before anything is fetched.
StartNightly ==
  /\ at["service"] = "open" /\ pc["nightly"] = "idle"
  /\ stamp' = [stamp EXCEPT !["nightly"] = today]
  /\ left' = [left EXCEPT !["nightly"] = Exchange]
  /\ got' = [got EXCEPT !["nightly"] = {}]
  /\ Go("nightly", "fetch")
  /\ Shared("nightly", "service")
  /\ UNCHANGED <<databaseVars, today, home, asset, cur, wanted, conn, view, foundOn>>

\* A weekly job, or the only job of a command.  A command that is over has
\* nothing left but to end.
StartBackfill(p) ==
  /\ at[p] = "open" /\ pc["backfill"] = "idle" /\ home["backfill"] = "service"
  /\ home' = [home EXCEPT !["backfill"] = p]
  /\ \/ FnOOnly /\ Loop("backfill", "equity", FuturesExchanges, "FUT")
     \/ ~FnOOnly /\ Loop("backfill", "equity", EquityExchanges, "EQ")
     \/ Loop("backfill", "futures", FuturesExchanges, "FUT")
  /\ Shared("backfill", p)
  /\ UNCHANGED <<databaseVars, today>>

-----------------------------------------------------------------------------
(* Storing a snapshot.                                                     *)

\* Mutant: the date of the clock in India, which may be a day ahead.
StampLocal(j) == today + 1

\* loadOrFetchInstruments takes the date after the fetch.
Stamp(j) == today

\* Mutant: only the exchanges of the equities are asked for.
FetchedForEquity(ex) == {i \in Listed : i.exchange = ex /\ ex \in EquityExchanges}

\* Kite's dump of an exchange, all types.
Fetched(ex) == {i \in Listed : i.exchange = ex}

\* fetchAndStoreInstruments, one exchange.
FetchExchange ==
  /\ pc["nightly"] = "fetch"
  /\ \E ex \in left["nightly"] :
       /\ got' = [got EXCEPT !["nightly"] = @ \cup Fetched(ex)]
       /\ left' = [left EXCEPT !["nightly"] = @ \ {ex}]
  /\ Go("nightly", IF left'["nightly"] = {} THEN "store" ELSE "fetch")
  /\ UNCHANGED <<databaseVars, today, home, asset, cur, wanted, stamp, conn, view, foundOn, together>>

\* loadOrFetchInstruments, when the query has found nothing.
Dump ==
  /\ pc["backfill"] = "dump"
  /\ got' = [got EXCEPT !["backfill"] = Fetched(cur["backfill"])]
  /\ stamp' = [stamp EXCEPT !["backfill"] = Stamp("backfill")]
  /\ Go("backfill", "store")
  /\ UNCHANGED <<databaseVars, today, home, asset, left, cur, wanted, conn, view, foundOn, together>>

\* Kite fails, or the upload of the snapshot does; either ends the whole job.
FetchFails(j) ==
  /\ pc[j] \in {"fetch", "dump", "publish"}
  /\ Finish(j)
  /\ UNCHANGED <<databaseVars, today, home, together>>

\* Another job may use the pool of its process just now.
Crowded(j) == \E k \in Job \ {j} : pc[k] # "idle" /\ home[k] = home[j]

UsePool(j) == UseConnection(home[j], Crowded(j))

\* A write of job j may fail: the lock is taken and its connection does not wait.
LockError(j) ==
  /\ pc[j] \in {"store", "walk"} /\ writer # "none"
  /\ \E c \in Available(home[j], Crowded(j)) : ~Patient(c)

\* UpsertInstruments, its transaction.
BeginUpsert(j) ==
  /\ pc[j] = "store" /\ writer = "none"
  /\ writer' = j
  /\ \E c \in Available(home[j], Crowded(j)) :
       /\ conn' = [conn EXCEPT ![j] = c]
       /\ idle' = [idle EXCEPT ![home[j]] = @ \ {c}]
  /\ alone' = Disturb(home[j])
  /\ Go(j, "commit")
  /\ UNCHANGED <<file, replica, at, version, today, home, asset, left, cur, wanted, stamp,
                 got, view, foundOn, together>>

\* Mutant: the snapshot of the day is replaced.
RowsReplaced(rows, j) == [rows EXCEPT ![stamp[j]] = got[j]]

\* ON CONFLICT(snapshot_date, instrument_token) DO UPDATE.
Upserted(rows, j) == [rows EXCEPT ![stamp[j]] = @ \cup got[j]]

CommitUpsert(j) ==
  /\ pc[j] = "commit"
  /\ file' = [file EXCEPT !.rows = Upserted(@, j)]
  /\ writer' = "none"
  /\ idle' = [idle EXCEPT ![home[j]] = @ \cup {conn[j]}]
  /\ Go(j, IF j = "nightly" THEN "publish" ELSE "reload")
  /\ UNCHANGED <<replica, at, version, alone, today, home, asset, left, cur, wanted, stamp,
                 got, conn, view, foundOn, together>>

\* The upsert fails, and the job with it.
StoreLocked(j) ==
  /\ pc[j] = "store" /\ LockError(j)
  /\ UsePool(j)
  /\ Finish(j)
  /\ UNCHANGED <<file, replica, writer, at, version, alone, today, home, together>>

\* The snapshot is in R2 as well, and the equity pass comes.
Publish ==
  /\ pc["nightly"] = "publish"
  /\ Loop("nightly", "equity", EquityExchanges, "EQ")
  /\ UNCHANGED <<databaseVars, today, home, together>>

-----------------------------------------------------------------------------
(* Reading the snapshot.                                                   *)

\* Every query gives its connection back and touches nothing else.
Reading(j) ==
  /\ UsePool(j)
  /\ UNCHANGED <<file, replica, writer, at, version, alone, today, home, asset, left, cur,
                 wanted, stamp, got, conn, together>>

\* loadOrFetchInstruments returns what it has read to the loop of its caller.
Loaded(j) ==
  LET found == LatestInstruments(cur[j], wanted[j])
  IN  /\ foundOn' = IF wanted[j] = "FUT" THEN [foundOn EXCEPT ![cur[j]] = Newest] ELSE foundOn
      /\ IF asset[j] = "futures" THEN view' = [view EXCEPT ![j] = found] ELSE UNCHANGED view
      /\ Go(j, IF Preloading(j) THEN "next" ELSE IF asset[j] = "futures" THEN "walk" ELSE "query")

\* Its first query; when that finds nothing it asks Kite.
Load ==
  /\ pc["backfill"] = "load"
  /\ IF LatestInstruments(cur["backfill"], wanted["backfill"]) = {}
       THEN Go("backfill", "dump") /\ UNCHANGED <<view, foundOn>>
       ELSE Loaded("backfill")
  /\ Reading("backfill")

\* Its second, after the upsert, whatever it finds.
Reload == pc["backfill"] = "reload" /\ Loaded("backfill") /\ Reading("backfill")

\* equityInstrumentsFromDB; the futures of the nightly run.
Query(j) ==
  /\ pc[j] = "query"
  /\ view' = [view EXCEPT ![j] =
                IF asset[j] = "equity" THEN EquitiesFromDB(cur[j])
                ELSE LatestInstruments(cur[j], "FUT")]
  /\ Go(j, IF asset[j] = "equity" /\ IncludeIndices THEN "indices" ELSE "walk")
  /\ Reading(j)
  /\ UNCHANGED foundOn

QueryIndices(j) ==
  /\ pc[j] = "indices"
  /\ view' = [view EXCEPT ![j] = @ \cup IndicesFromDB(cur[j])]
  /\ Go(j, "walk")
  /\ Reading(j)
  /\ UNCHANGED foundOn

\* The checkpoint of an instrument is written.
Mark(j) ==
  /\ pc[j] = "walk" /\ view[j] # {} /\ writer = "none"
  /\ UsePool(j)
  /\ alone' = Disturb(home[j])
  /\ UNCHANGED <<file, replica, writer, at, version, today, jobVars, foundOn, together>>

EndWalk(j) ==
  /\ pc[j] = "walk"
  /\ Forget(j)
  /\ Go(j, "next")
  /\ UNCHANGED <<databaseVars, today, home, asset, left, cur, wanted, stamp, foundOn, together>>

\* A query fails, a checkpoint is locked out, the token is refused, or the
\* context is done.
LoopError(j) ==
  /\ pc[j] \in {"load", "reload", "query", "indices", "walk"}
  /\ Abandon(j)
  /\ UsePool(j)
  /\ UNCHANGED <<file, replica, writer, at, version, alone, today, home, together>>

-----------------------------------------------------------------------------
(* Processes.                                                              *)

\* The command of a backfill is done, killed, or cannot open the file.
EndCommand ==
  LET working == home["backfill"] = "command"
  IN  /\ CommandEnds(IF working THEN {"backfill"} ELSE {})
      /\ home' = [home EXCEPT !["backfill"] = "service"]
      /\ \/ working /\ Finish("backfill")
         \/ ~working /\ UNCHANGED <<pc, asset, left, cur, wanted, stamp, got, conn, view, foundOn>>
      /\ UNCHANGED <<today, together>>

NoJobs ==
  /\ pc' = [j \in Job |-> "idle"]
  /\ home' = [j \in Job |-> "service"]
  /\ asset' = [j \in Job |-> "equity"]
  /\ left' = [j \in Job |-> {}]
  /\ cur' = [j \in Job |-> AnyExchange]
  /\ wanted' = [j \in Job |-> "EQ"]
  /\ stamp' = [j \in Job |-> 1]
  /\ got' = [j \in Job |-> {}]
  /\ conn' = [j \in Job |-> First]
  /\ view' = [j \in Job |-> {}]
  /\ foundOn' = [ex \in FuturesExchanges |-> {}]
  /\ together' = FALSE

\* Stop, a kill, or an Open that fails (log.Fatalf).
EndContainer ==
  /\ ContainerEnds
  /\ NoJobs
  /\ UNCHANGED today

StartContainer ==
  /\ Boot
  /\ UNCHANGED <<today, jobVars, foundOn, together>>

Tick ==
  /\ today < LastDay
  /\ today' = today + 1
  /\ UNCHANGED <<databaseVars, jobVars, foundOn, together>>

\* A process goes on opening the file unless its Open fails.
Open(p) == ~OpenFails(p) /\ OpenStep(p) /\ UNCHANGED <<today, jobVars, foundOn, together>>

JobStep(j) ==
  \/ NextExchange(j) \/ EndLoop(j)
  \/ FetchFails(j) \/ BeginUpsert(j) \/ CommitUpsert(j) \/ StoreLocked(j)
  \/ Query(j) \/ QueryIndices(j) \/ Mark(j) \/ EndWalk(j) \/ LoopError(j)

Around ==
  \/ (StartCommand \/ Sync) /\ UNCHANGED <<today, jobVars, foundOn, together>>
  \/ StartContainer \/ EndCommand \/ EndContainer \/ Tick

Next ==
  \/ \E p \in Process : Open(p) \/ StartBackfill(p)
  \/ StartNightly \/ FetchExchange \/ Publish \/ Dump \/ Load \/ Reload
  \/ \E j \in Job : JobStep(j)
  \/ Around

Spec == Init /\ [][Next]_vars

-----------------------------------------------------------------------------
(* Properties.                                                             *)

Prefix(set) == \A v \in set : 1 .. v \subseteq set

\* "Open the SQLite file and run pending migrations": a migration and its record
\* reach the file, and any copy of it that can be restored, together and in order,
\* wherever a crash or another process falls (db.go:97-118); a process that has
\* its database has all of them.
Migrated ==
  /\ \A f \in {file, replica} : f.schema = f.recorded /\ Prefix(f.schema)
  /\ \A p \in Process : at[p] = "open" => file.schema = Migration

\* Open fails for no reason of its own: only another process that has touched the
\* file in the meantime makes it fail, so a restart is always a way out.
AloneOpens == \A p \in Process : OpenFails(p) => ~alone[p]

\* The busy timeout of the first connection (db.go:42) protects every write of a
\* job from the other process; only two jobs in one process come to a connection
\* of the pool that has no pragmas.
LockedOnlyTogether == \A j \in Job : LockError(j) => together

\* What the config asks for: the stocks with listed futures and the chosen
\* indices of an exchange (config.go:29-31).
WantedEquity(ex) ==
  {i \in Listed :
     /\ i.exchange = ex
     /\ \/ i.segment = "INDICES" /\ IncludeIndices /\ (Indices = {} \/ i.symbol \in Indices)
        \/ /\ i.segment # "INDICES" /\ i.type = "EQ"
           /\ FnOOnly => \E f \in Listed :
                           f.exchange \in FuturesExchanges /\ f.type = "FUT" /\ f.name = i.symbol}

WantedFutures(ex) == {i \in Listed : i.exchange = ex /\ i.type = "FUT"}

Wanted(j) == IF asset[j] = "equity" THEN WantedEquity(cur[j]) ELSE WantedFutures(cur[j])

\* The nightly run extracts exactly what the config asks for from the snapshot it
\* has just stored, unless a backfill has stored a later one, of one exchange,
\* past midnight (incremental.go:70, backfill.go:251).
NightlySeesAll ==
  pc["nightly"] = "walk" => \/ view["nightly"] = Wanted("nightly")
                             \/ \E d \in Newest : d > stamp["nightly"]

\* What a backfill has fetched because it was missing is what it reads back: a
\* futures backfill has the futures of its exchange, and an equity backfill that
\* asks for its universe has the equities of its exchange (backfill.go:237-271).
BackfillLoads ==
  /\ pc["backfill"] = "walk" /\ asset["backfill"] = "futures" =>
       view["backfill"] = Wanted("backfill")
  /\ pc["backfill"] = "query" =>
       LatestInstruments(cur["backfill"], "EQ") =
         {i \in Listed : i.exchange = cur["backfill"] /\ i.type = "EQ"}

\* An equity backfill extracts what the config asks for, unless a snapshot newer
\* than the one it found the futures of an exchange in hides them.
HiddenOnlyByNewDay ==
  pc["backfill"] = "walk" /\ asset["backfill"] = "equity" =>
    \/ view["backfill"] = Wanted("backfill")
    \/ \E ex \in FuturesExchanges : \E d \in Newest : \A e \in foundOn[ex] : e < d

\* "NFO instruments must be in the DB before the equity loop runs -- even when only
\* --type equity was requested and runFutures has not run" (backfill.go:79-81).
FuturesLoaded ==
  FnOOnly /\ pc["backfill"] = "query" =>
    \A ex \in FuturesExchanges : WantedFutures(ex) \subseteq Snapshot
=============================================================================
