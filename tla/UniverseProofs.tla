--------------------------- MODULE UniverseProofs ---------------------------
(***************************************************************************)
(* Theorems of Universe and Database, for every number of migrations, every*)
(* listing of Kite and every configuration.                                *)
(***************************************************************************)
EXTENDS Universe, TLAPS

(* Types.  The database and the loops of the jobs have a part of TypeOK    *)
(* each.                                                                   *)

\* A migration is only applied when there is one, which the type of version needs.
DatabaseTypes ==
  /\ DatabaseTypeOK([Day -> SUBSET Listed], Job)
  /\ \A p \in Process : at[p] \in {"apply", "commit"} => version[p] \in Migration

WorldTypes == today \in Day /\ home \in [Job -> Process] /\ together \in BOOLEAN

LoopTypes ==
  /\ pc \in [Job -> Stage]
  /\ asset \in [Job -> Asset]
  /\ left \in [Job -> SUBSET Exchange]
  /\ cur \in [Job -> Exchange]
  /\ wanted \in [Job -> {"EQ", "FUT"}]
  /\ stamp \in [Job -> Day]
  /\ got \in [Job -> SUBSET Listed]
  /\ conn \in [Job -> {First, Second}]
  /\ view \in [Job -> SUBSET Listed]
  /\ foundOn \in [FuturesExchanges -> SUBSET Day]

Types == DatabaseTypes /\ WorldTypes /\ LoopTypes

LEMMA TypeParts == Types => TypeOK
BY DEF Types, TypeOK, DatabaseTypes, WorldTypes, LoopTypes

LEMMA Days == Latest \in Nat /\ LastDay \in Nat /\ Day = 1 .. LastDay /\ 1 \in Day
BY DatabaseAssumption DEF Day

LEMMA Exchanges ==
  /\ AnyExchange \in Exchange
  /\ EquityExchanges \subseteq Exchange /\ FuturesExchanges \subseteq Exchange
BY UniverseAssumption DEF AnyExchange, Exchange

\* Whatever a query returns is among the instruments that Kite has listed.
LEMMA QueriesFindListed ==
  ASSUME DatabaseTypes, NEW ex, NEW type
  PROVE  /\ LatestInstruments(ex, type) \subseteq Listed
         /\ EquitiesFromDB(ex) \subseteq Listed /\ IndicesFromDB(ex) \subseteq Listed
         /\ Newest \subseteq Day
<1>1. \A d \in Day : file.rows[d] \subseteq Listed
  BY DEF DatabaseTypes, DatabaseTypeOK
<1>2. Newest \subseteq Day
  BY DEF Newest
<1>3. Snapshot \subseteq Listed
  BY <1>1, <1>2 DEF Snapshot
<1>4. QED
  BY <1>2, <1>3 DEF LatestInstruments, EquitiesFromDB, FnOEquityInstruments, IndicesFromDB,
                    LatestInstrumentsBySegment

LEMMA TypeInit == Init => Types
<1> SUFFICES ASSUME Init PROVE DatabaseTypes /\ WorldTypes /\ LoopTypes
  BY DEF Types
<1>1. WorldTypes /\ LoopTypes
  BY Days, Exchanges DEF Init, WorldTypes, LoopTypes, Stage, Process, Asset, Job
<1>2. PICK k \in 0 .. Latest :
        file = [schema |-> 1 .. k, recorded |-> 1 .. k, rows |-> [d \in Day |-> {}]]
  BY DEF Init, DatabaseInit
<1>3. 1 .. k \subseteq Migration
  BY <1>2, Days DEF Migration
<1>4. file \in [schema : SUBSET Migration, recorded : SUBSET Migration,
                rows : [Day -> SUBSET Listed]]
  BY <1>2, <1>3
<1>5. QED
  BY <1>1, <1>4, Days DEF Init, DatabaseInit, DatabaseTypes, DatabaseTypeOK, Down, Process

-----------------------------------------------------------------------------

LEMMA LoopTyped ==
  ASSUME LoopTypes, NEW j \in Job, NEW a \in Asset, NEW exchanges \in SUBSET Exchange,
         NEW type \in {"EQ", "FUT"}, Loop(j, a, exchanges, type)
  PROVE  LoopTypes'
BY DEF LoopTypes, Loop, Forget, Go, Stage

LEMMA FinishTyped ==
  ASSUME LoopTypes, NEW j \in Job, Finish(j)
  PROVE  LoopTypes'
BY Days, Exchanges DEF LoopTypes, Finish, Forget, Go, Stage, Asset

LEMMA AbandonTyped ==
  ASSUME LoopTypes, NEW j \in Job, Abandon(j) \/ EndPass(j)
  PROVE  LoopTypes'
BY LoopTyped, FinishTyped, Exchanges DEF Abandon, EndPass, Asset


LEMMA FetchesListed == \A ex : Fetched(ex) \subseteq Listed
BY DEF Fetched

\* A step of a job, in each of its loops.
LEMMA JobStepTypes ==
  ASSUME Types, NEW j \in Job, JobStep(j)
  PROVE  WorldTypes' /\ LoopTypes'
<1>0. DatabaseTypes /\ WorldTypes /\ LoopTypes
  BY DEF Types
<1>1. WorldTypes'
  BY <1>0 DEF JobStep, NextExchange, EndLoop, FetchFails, BeginUpsert, CommitUpsert, StoreLocked,
        Query, QueryIndices, Mark, EndWalk, LoopError, Reading, jobVars, WorldTypes
<1>2. CASE NextExchange(j)
  BY <1>0, <1>1, <1>2 DEF NextExchange, Go, LoopTypes, Stage
<1>3. CASE EndLoop(j)
  BY <1>0, <1>1, <1>3, LoopTyped, AbandonTyped, Exchanges DEF EndLoop, Asset
<1>4. CASE FetchFails(j) \/ StoreLocked(j)
  BY <1>0, <1>1, <1>4, FinishTyped DEF FetchFails, StoreLocked
<1>5. CASE BeginUpsert(j)
  <2>1. PICK c \in Available(home[j], Crowded(j)) : conn' = [conn EXCEPT ![j] = c]
    BY <1>5 DEF BeginUpsert
  <2>2. idle[home[j]] \subseteq {First, Second}
    BY <1>0 DEF DatabaseTypes, DatabaseTypeOK, WorldTypes
  <2>3. c \in {First, Second}
    BY <2>1, <2>2 DEF Available
  <2>4. QED
    BY <1>0, <1>1, <1>5, <2>1, <2>3 DEF BeginUpsert, Go, LoopTypes, Stage
<1>6. CASE CommitUpsert(j) \/ Mark(j)
  BY <1>0, <1>1, <1>6 DEF CommitUpsert, Mark, jobVars, Go, LoopTypes, Stage
<1>7. CASE Query(j) \/ QueryIndices(j)
  BY <1>0, <1>1, <1>7, QueriesFindListed DEF Query, QueryIndices, Reading, Go, LoopTypes, Stage
<1>8. CASE EndWalk(j)
  BY <1>0, <1>1, <1>8 DEF EndWalk, Forget, Go, LoopTypes, Stage
<1>9. CASE LoopError(j)
  BY <1>0, <1>1, <1>9, AbandonTyped DEF LoopError
<1>10. QED
  BY <1>1, <1>2, <1>3, <1>4, <1>5, <1>6, <1>7, <1>8, <1>9 DEF JobStep

LEMMA LoadedTyped ==
  ASSUME Types, NEW j \in Job, Loaded(j), UNCHANGED <<asset, left, cur, wanted, stamp, got, conn>>
  PROVE  LoopTypes'
<1>0. DatabaseTypes /\ LoopTypes
  BY DEF Types
<1>1. LatestInstruments(cur[j], wanted[j]) \subseteq Listed /\ Newest \subseteq Day
  BY <1>0, QueriesFindListed
<1>2. view' \in [Job -> SUBSET Listed]
  BY <1>0, <1>1 DEF Loaded, LoopTypes
<1>3. foundOn' \in [FuturesExchanges -> SUBSET Day]
  BY <1>0, <1>1 DEF Loaded, LoopTypes
<1>4. pc' \in [Job -> Stage]
  BY <1>0 DEF Loaded, LoopTypes, Go, Stage
<1>5. QED
  BY <1>0, <1>2, <1>3, <1>4 DEF LoopTypes

\* The steps of one of the jobs only.
OwnStep ==
  StartNightly \/ FetchExchange \/ Publish \/ Dump \/ Load \/ Reload
  \/ \E p \in Process : StartBackfill(p)

LEMMA OwnStepTypes ==
  ASSUME Types, OwnStep
  PROVE  WorldTypes' /\ LoopTypes'
<1>0. DatabaseTypes /\ WorldTypes /\ LoopTypes
  BY DEF Types
<1>1. WorldTypes'
  BY <1>0 DEF OwnStep, StartNightly, FetchExchange, Publish, Dump, Load, Reload, StartBackfill,
              Reading, Shared, WorldTypes, Job
<1>2. "nightly" \in Job /\ "backfill" \in Job
  BY DEF Job
<1>3. CASE StartNightly
  BY <1>0, <1>1, <1>2, <1>3 DEF StartNightly, WorldTypes, LoopTypes, Go, Stage
<1>4. CASE FetchExchange
  BY <1>0, <1>1, <1>2, <1>4, FetchesListed DEF FetchExchange, LoopTypes, Go, Stage
<1>5. CASE Publish
  BY <1>0, <1>1, <1>2, <1>5, LoopTyped, Exchanges DEF Publish, Asset
<1>6. CASE Dump
  BY <1>0, <1>1, <1>2, <1>6, FetchesListed DEF Dump, Stamp, WorldTypes, LoopTypes, Go, Stage
<1>7. CASE Load
  <2>1. CASE LatestInstruments(cur["backfill"], wanted["backfill"]) = {}
    BY <1>0, <1>1, <1>2, <1>7, <2>1 DEF Load, Reading, LoopTypes, Go, Stage
  <2>2. CASE LatestInstruments(cur["backfill"], wanted["backfill"]) # {}
    BY <1>1, <1>2, <1>7, <2>2, LoadedTyped DEF Load, Reading
  <2>3. QED
    BY <2>1, <2>2
<1>8. CASE Reload
  BY <1>1, <1>2, <1>8, LoadedTyped DEF Reload, Reading
<1>9. CASE \E p \in Process : StartBackfill(p)
  BY <1>0, <1>1, <1>2, <1>9, LoopTyped, Exchanges DEF StartBackfill, Asset
<1>10. QED
  BY <1>3, <1>4, <1>5, <1>6, <1>7, <1>8, <1>9 DEF OwnStep

\* Processes, Litestream and the clock.
OtherStep == (\E p \in Process : Open(p)) \/ Around

LEMMA OtherStepTypes ==
  ASSUME Types, OtherStep
  PROVE  WorldTypes' /\ LoopTypes'
<1>0. WorldTypes /\ LoopTypes
  BY DEF Types
<1>1. CASE UNCHANGED <<jobVars, foundOn, together>> /\ today' \in Day
  BY <1>0, <1>1 DEF jobVars, WorldTypes, LoopTypes
<1>2. CASE EndCommand
  <2>1. WorldTypes'
    BY <1>0, <1>2 DEF EndCommand, WorldTypes, Process
  <2>2. CASE Finish("backfill")
    BY <1>0, <2>1, <2>2, FinishTyped DEF Job
  <2>3. CASE UNCHANGED <<pc, asset, left, cur, wanted, stamp, got, conn, view, foundOn>>
    BY <1>0, <2>1, <2>3 DEF LoopTypes
  <2>4. QED
    BY <1>2, <2>2, <2>3 DEF EndCommand
<1>3. CASE EndContainer
  BY <1>0, <1>3, Days, Exchanges
  DEF EndContainer, NoJobs, WorldTypes, LoopTypes, Stage, Process, Asset
<1>4. CASE Tick
  <2>1. today' \in Day
    BY <1>0, <1>4, Days DEF Tick, WorldTypes
  <2>2. QED
    BY <1>1, <1>4, <2>1 DEF Tick
<1>5. QED
  BY <1>0, <1>1, <1>2, <1>3, <1>4 DEF OtherStep, Open, Around, StartContainer, WorldTypes

LEMMA Steps == Next <=> OwnStep \/ (\E j \in Job : JobStep(j)) \/ OtherStep
BY DEF Next, OwnStep, OtherStep

-----------------------------------------------------------------------------
(* What a step of a job may do to the database.                            *)

\* It leaves alone how far each process has come with its migrations and what it
\* has to go by, and can only end that a process is alone.
JobQuiet ==
  /\ UNCHANGED <<replica, at, version>>
  /\ file'.schema = file.schema /\ file'.recorded = file.recorded
  /\ \A p \in Process : alone'[p] => alone[p]

LEMMA DisturbQuiet ==
  ASSUME DatabaseTypes, NEW p \in Process
  PROVE  Disturb(p) \in [Process -> BOOLEAN] /\ \A q \in Process : Disturb(p)[q] => alone[q]
BY DEF Disturb, DatabaseTypes, DatabaseTypeOK

LEMMA PoolTyped ==
  ASSUME DatabaseTypes, NEW p \in Process, NEW b, UseConnection(p, b)
  PROVE  idle' \in [Process -> SUBSET {First, Second}]
<1>1. idle \in [Process -> SUBSET {First, Second}]
  BY DEF DatabaseTypes, DatabaseTypeOK
<1>2. PICK c \in Available(p, b) : idle' = [idle EXCEPT ![p] = @ \cup {c}]
  BY DEF UseConnection
<1>3. c \in {First, Second}
  BY <1>1, <1>2 DEF Available
<1>4. QED
  BY <1>1, <1>2, <1>3

\* A step that touches no more than the pool of one process.
LEMMA PoolOnly ==
  ASSUME DatabaseTypes, UNCHANGED <<file, replica, writer, at, version>>,
         alone' = alone \/ \E p \in Process : alone' = Disturb(p),
         idle' = idle \/ \E p \in Process, b \in BOOLEAN : UseConnection(p, b)
  PROVE  DatabaseTypes' /\ JobQuiet
<1>1. alone' \in [Process -> BOOLEAN] /\ \A p \in Process : alone'[p] => alone[p]
  BY DisturbQuiet DEF DatabaseTypes, DatabaseTypeOK
<1>2. idle' \in [Process -> SUBSET {First, Second}]
  BY PoolTyped DEF DatabaseTypes, DatabaseTypeOK
<1>3. QED
  BY <1>1, <1>2 DEF JobQuiet, DatabaseTypes, DatabaseTypeOK

LEMMA UsesPool ==
  ASSUME WorldTypes, NEW j \in Job, UsePool(j)
  PROVE  \E p \in Process, b \in BOOLEAN : UseConnection(p, b)
<1>1. home[j] \in Process /\ Crowded(j) \in BOOLEAN
  BY DEF WorldTypes, Crowded
<1>2. QED
  BY <1>1 DEF UsePool

LEMMA JobDatabase ==
  ASSUME Types, NEW j \in Job, JobStep(j)
  PROVE  DatabaseTypes' /\ JobQuiet
<1>0. DatabaseTypes /\ WorldTypes /\ LoopTypes
  BY DEF Types
<1>1. home[j] \in Process
  BY <1>0 DEF WorldTypes
<1>2. CASE UNCHANGED databaseVars
  BY <1>0, <1>2, PoolOnly DEF databaseVars
<1>3. CASE UsePool(j) /\ UNCHANGED <<file, replica, writer, at, version>>
            /\ (alone' = alone \/ alone' = Disturb(home[j]))
  BY <1>0, <1>1, <1>3, PoolOnly, UsesPool
<1>4. CASE BeginUpsert(j)
  <2>1. PICK c : idle' = [idle EXCEPT ![home[j]] = @ \ {c}]
    BY <1>4 DEF BeginUpsert
  <2>2. idle' \in [Process -> SUBSET {First, Second}]
    BY <1>0, <1>1, <2>1 DEF DatabaseTypes, DatabaseTypeOK
  <2>3. alone' \in [Process -> BOOLEAN] /\ \A p \in Process : alone'[p] => alone[p]
    BY <1>0, <1>1, <1>4, DisturbQuiet DEF BeginUpsert
  <2>4. QED
    BY <1>0, <1>4, <2>2, <2>3 DEF BeginUpsert, JobQuiet, DatabaseTypes, DatabaseTypeOK
<1>5. CASE CommitUpsert(j)
  <2>1. file.rows \in [Day -> SUBSET Listed] /\ stamp[j] \in Day /\ got[j] \subseteq Listed
    BY <1>0 DEF DatabaseTypes, DatabaseTypeOK, LoopTypes
  <2>2. Upserted(file.rows, j) \in [Day -> SUBSET Listed]
    BY <2>1 DEF Upserted
  <2>3. file' = [file EXCEPT !.rows = Upserted(file.rows, j)]
    BY <1>5 DEF CommitUpsert
  <2>4. /\ file' \in [schema : SUBSET Migration, recorded : SUBSET Migration,
                      rows : [Day -> SUBSET Listed]]
        /\ file'.schema = file.schema /\ file'.recorded = file.recorded
    BY <1>0, <2>2, <2>3 DEF DatabaseTypes, DatabaseTypeOK
  <2>5. idle' \in [Process -> SUBSET {First, Second}]
    BY <1>0, <1>1, <1>5 DEF CommitUpsert, DatabaseTypes, DatabaseTypeOK, LoopTypes
  <2>6. QED
    BY <1>0, <1>5, <2>4, <2>5 DEF CommitUpsert, JobQuiet, DatabaseTypes, DatabaseTypeOK
<1>6. QED
  BY <1>2, <1>3, <1>4, <1>5
  DEF JobStep, NextExchange, EndLoop, FetchFails, StoreLocked, Query, QueryIndices, Reading, Mark,
      EndWalk, LoopError

LEMMA OwnDatabase ==
  ASSUME Types, OwnStep
  PROVE  DatabaseTypes' /\ JobQuiet
<1>0. DatabaseTypes /\ WorldTypes
  BY DEF Types
<1>1. CASE UNCHANGED databaseVars
  BY <1>0, <1>1, PoolOnly DEF databaseVars
<1>2. CASE Load \/ Reload
  BY <1>0, <1>2, PoolOnly, UsesPool DEF Load, Reload, Reading, Job
<1>3. QED
  BY <1>1, <1>2 DEF OwnStep, StartNightly, FetchExchange, Publish, Dump, StartBackfill

\* Opening the file keeps the types of the database.
LEMMA OpenTypes ==
  ASSUME DatabaseTypes, NEW p \in Process, OpenStep(p)
  PROVE  DatabaseTypes'
<1> DEFINE Cursor == /\ at \in [Process -> {"down", "pragmas", "bootstrap", "check", "apply",
                                             "commit", "open"}]
                     /\ version \in [Process -> 1 .. Latest + 1]
                     /\ \A q \in Process :
                          at[q] \in {"apply", "commit"} => version[q] \in Migration
<1>0. Disturb(p) \in [Process -> BOOLEAN] /\ Cursor
  BY DisturbQuiet DEF DatabaseTypes, DatabaseTypeOK
<1>1. Migration = 1 .. Latest /\ Latest \in Nat
  BY Days DEF Migration
<1>2. CASE SetPragmas(p) \/ Bootstrap(p) \/ Execute(p)
  <2>1. Cursor'
    BY <1>0, <1>1, <1>2 DEF SetPragmas, Bootstrap, Execute
  <2>2. QED
    BY <1>0, <1>2, <2>1 DEF SetPragmas, Bootstrap, Execute, DatabaseTypes, DatabaseTypeOK
<1>3. CASE Check(p)
  <2>1. Cursor'
    <3>1. CASE version[p] \in file.recorded
      BY <1>0, <1>1, <1>3, <3>1 DEF Check
    <3>2. CASE version[p] \notin file.recorded
      BY <1>0, <1>1, <1>3, <3>2 DEF Check
    <3>3. QED
      BY <3>1, <3>2
  <2>2. QED
    BY <1>3, <2>1 DEF Check, DatabaseTypes, DatabaseTypeOK
<1>4. CASE Commit(p)
  <2>1. version[p] \in Migration
    BY <1>0, <1>4 DEF Commit
  <2>2. Cursor'
    BY <1>0, <1>1, <1>4, <2>1 DEF Commit
  <2>3. file' = [file EXCEPT !.schema = @ \cup {version[p]}, !.recorded = @ \cup {version[p]}]
    BY <1>4 DEF Commit
  <2>4. file' \in [schema : SUBSET Migration, recorded : SUBSET Migration,
                   rows : [Day -> SUBSET Listed]]
    BY <2>1, <2>3 DEF DatabaseTypes, DatabaseTypeOK
  <2>5. QED
    BY <1>0, <1>4, <2>2, <2>4 DEF Commit, DatabaseTypes, DatabaseTypeOK
<1>5. CASE Opened(p)
  <2>1. Cursor'
    BY <1>0, <1>1, <1>5 DEF Opened
  <2>2. QED
    BY <1>5, <2>1 DEF Opened, DatabaseTypes, DatabaseTypeOK
<1>6. QED
  BY <1>2, <1>3, <1>4, <1>5 DEF OpenStep

LEMMA OtherTypes ==
  ASSUME DatabaseTypes, OtherStep
  PROVE  DatabaseTypes'
<1>0. "command" \in Process /\ "service" \in Process
  BY DEF Process
<1>1. CASE \E p \in Process : Open(p)
  BY <1>1, OpenTypes DEF Open
<1>2. CASE StartCommand
  BY <1>0, <1>2, DisturbQuiet DEF StartCommand, DatabaseTypes, DatabaseTypeOK
<1>3. CASE Sync \/ StartContainer \/ Tick
  BY <1>3 DEF Sync, StartContainer, Boot, Tick, databaseVars, DatabaseTypes, DatabaseTypeOK
<1>4. CASE EndCommand
  <2>1. PICK who : CommandEnds(who)
    BY <1>4 DEF EndCommand
  <2>2. QED
    BY <1>0, <2>1, Days DEF CommandEnds, DatabaseTypes, DatabaseTypeOK
<1>5. CASE EndContainer
  BY <1>5, Days DEF EndContainer, ContainerEnds, Down, DatabaseTypes, DatabaseTypeOK
<1>6. QED
  BY <1>1, <1>2, <1>3, <1>4, <1>5 DEF OtherStep, Around

LEMMA TypeStep == Types /\ [Next]_vars => Types'
<1> SUFFICES ASSUME Types, [Next]_vars PROVE Types'
  OBVIOUS
<1>0. DatabaseTypes
  BY DEF Types
<1>1. CASE OwnStep
  BY <1>1, OwnStepTypes, OwnDatabase DEF Types
<1>2. CASE \E j \in Job : JobStep(j)
  BY <1>2, JobStepTypes, JobDatabase DEF Types
<1>3. CASE OtherStep
  BY <1>0, <1>3, OtherStepTypes, OtherTypes DEF Types
<1>4. CASE UNCHANGED vars
  BY <1>4 DEF vars, databaseVars, jobVars, Types, DatabaseTypes, WorldTypes, LoopTypes, DatabaseTypeOK
<1>5. QED
  BY <1>1, <1>2, <1>3, <1>4, Steps

\* Every variable stays in its type.
THEOREM TypeCorrect == Spec => []TypeOK
BY TypeInit, TypeStep, TypeParts, PTL DEF Spec

-----------------------------------------------------------------------------
(* Migrations.  Migrated is not inductive: that a commit appends the next  *)
(* migration rests on what its process has seen recorded, outside of the   *)
(* transaction, and on that nothing is ever taken back.                    *)

Whole(f) == f.schema = f.recorded /\ Prefix(f.schema)

MigrationInv ==
  /\ Whole(file) /\ Whole(replica)
  /\ \A p \in Process :
       /\ at[p] \in {"check", "apply", "commit"} =>
            \A v \in Migration : v < version[p] => v \in file.recorded
       /\ at[p] = "open" => file.schema = Migration

\* While a process is alone, what it has not found is not there.
AloneInv ==
  \A p \in Process : alone[p] =>
    /\ Opening(p) => \A q \in Process \ {p} : ~Opening(q)
    /\ at[p] = "apply" => version[p] \notin file.recorded

OpeningInv == MigrationInv /\ AloneInv

LEMMA OpeningInit == Init => OpeningInv
<1> SUFFICES ASSUME Init PROVE OpeningInv
  OBVIOUS
<1>1. PICK k \in 0 .. Latest :
        file = [schema |-> 1 .. k, recorded |-> 1 .. k, rows |-> [d \in Day |-> {}]]
  BY DEF Init, DatabaseInit
<1>2. Prefix(1 .. k)
  BY <1>1 DEF Prefix
<1>3. Whole(file) /\ Whole(replica)
  BY <1>1, <1>2 DEF Whole, Init, DatabaseInit
<1>4. \A p \in Process : at[p] = "down"
  BY DEF Init, DatabaseInit, Down
<1>5. QED
  BY <1>3, <1>4 DEF OpeningInv, MigrationInv, AloneInv, Opening

LEMMA QuietKeeps ==
  ASSUME DatabaseTypes, OpeningInv, JobQuiet
  PROVE  OpeningInv'
BY DEF JobQuiet, OpeningInv, MigrationInv, AloneInv, Whole, Opening

LEMMA Recorded ==
  ASSUME DatabaseTypes
  PROVE  /\ file.schema \subseteq Migration /\ file.recorded \subseteq Migration
         /\ \A p \in Process : version[p] \in Int /\ version[p] >= 1 /\ alone[p] \in BOOLEAN
BY Days DEF DatabaseTypes, DatabaseTypeOK, Migration

LEMMA OpenKeeps ==
  ASSUME DatabaseTypes, OpeningInv, NEW p \in Process, OpenStep(p)
  PROVE  OpeningInv'
<1> USE DEF OpeningInv
<1>1. CASE SetPragmas(p) \/ Bootstrap(p) \/ Execute(p)
  <2>1. UNCHANGED <<file, replica>> /\ \A q \in Process : alone'[q] => alone[q]
    BY <1>1, DisturbQuiet DEF SetPragmas, Bootstrap, Execute
  <2>2. MigrationInv'
    BY <1>1, <2>1, Recorded DEF SetPragmas, Bootstrap, Execute, MigrationInv, DatabaseTypes, DatabaseTypeOK,
                                Whole, Migration
  <2>3. AloneInv'
    BY <1>1, <2>1 DEF SetPragmas, Bootstrap, Execute, AloneInv, Opening, DatabaseTypes, DatabaseTypeOK
  <2>4. QED
    BY <2>2, <2>3
<1>2. CASE Check(p)
  <2>1. MigrationInv'
    BY <1>2, Recorded DEF Check, MigrationInv, DatabaseTypes, DatabaseTypeOK, Whole, Migration
  <2>2. AloneInv'
    BY <1>2 DEF Check, AloneInv, Opening, DatabaseTypes, DatabaseTypeOK
  <2>3. QED
    BY <2>1, <2>2
<1>3. CASE Commit(p)
  <2>1. version[p] \in Migration /\ \A v \in Migration : v < version[p] => v \in file.recorded
    BY <1>3 DEF Commit, MigrationInv, DatabaseTypes
  <2>2. file' = [file EXCEPT !.schema = @ \cup {version[p]}, !.recorded = @ \cup {version[p]}]
    BY <1>3 DEF Commit
  <2>3. /\ file'.schema = file.schema \cup {version[p]}
        /\ file'.recorded = file.recorded \cup {version[p]}
    BY <2>2 DEF DatabaseTypes, DatabaseTypeOK
  <2>4. Whole(file)'
    BY <2>1, <2>3, Recorded, Days DEF Whole, Prefix, MigrationInv, Migration
  <2>5. MigrationInv'
    BY <1>3, <2>1, <2>3, <2>4, Recorded, Days
    DEF Commit, MigrationInv, DatabaseTypes, DatabaseTypeOK, Migration, Whole
  <2>6. \A q \in Process : alone'[q] => alone[q] /\ (q = p \/ ~Opening(q))
    BY <1>3 DEF Commit, Disturb
  <2>7. AloneInv'
    BY <1>3, <2>6 DEF Commit, AloneInv, Opening, DatabaseTypes, DatabaseTypeOK
  <2>8. QED
    BY <2>5, <2>7
<1>4. CASE Opened(p)
  <2>1. \A v \in Migration : v \in file.recorded
    BY <1>4, Recorded, Days DEF Opened, MigrationInv, Migration
  <2>2. file.schema = Migration
    BY <2>1, Recorded DEF MigrationInv, Whole
  <2>3. MigrationInv'
    BY <1>4, <2>2 DEF Opened, MigrationInv, DatabaseTypes, DatabaseTypeOK, Whole
  <2>4. AloneInv'
    BY <1>4 DEF Opened, AloneInv, Opening, DatabaseTypes, DatabaseTypeOK
  <2>5. QED
    BY <2>3, <2>4
<1>5. QED
  BY <1>1, <1>2, <1>3, <1>4 DEF OpenStep

LEMMA OtherKeeps ==
  ASSUME DatabaseTypes, OpeningInv, OtherStep
  PROVE  OpeningInv'
<1> USE DEF OpeningInv
<1>0. Process = {"command", "service"}
  BY DEF Process
<1>1. CASE \E p \in Process : Open(p)
  BY <1>1, OpenKeeps DEF Open
<1>2. CASE StartCommand
  <2>1. MigrationInv'
    BY <1>2 DEF StartCommand, MigrationInv, DatabaseTypes, DatabaseTypeOK, Whole
  <2>2. ~Opening("command")
    BY <1>2 DEF StartCommand, Opening
  <2>3. /\ alone'["service"] => alone["service"] /\ ~Opening("service")
        /\ alone'["command"] => ~Opening("service")
    BY <1>0, <1>2 DEF StartCommand, Disturb
  <2>4. AloneInv'
    BY <1>0, <1>2, <2>3 DEF StartCommand, AloneInv, Opening, DatabaseTypes, DatabaseTypeOK
  <2>5. QED
    BY <2>1, <2>4
<1>3. CASE Sync \/ Tick
  BY <1>3 DEF Sync, Tick, databaseVars, MigrationInv, AloneInv, Opening, Whole
<1>4. CASE StartContainer
  <2>1. at = Down /\ at' = [at EXCEPT !["service"] = "pragmas"]
        /\ file' = replica /\ replica' = replica
    BY <1>4 DEF StartContainer, Boot
  <2>2. \A p \in Process : at'[p] \in {"down", "pragmas"}
    BY <2>1 DEF Down
  <2>3. at'["command"] = "down"
    BY <1>0, <2>1 DEF Down
  <2>4. QED
    BY <1>0, <2>1, <2>2, <2>3 DEF MigrationInv, AloneInv, Opening, Whole
<1>5. CASE EndCommand
  <2>1. PICK who : CommandEnds(who)
    BY <1>5 DEF EndCommand
  <2>2. MigrationInv'
    BY <1>0, <2>1 DEF CommandEnds, MigrationInv, DatabaseTypes, DatabaseTypeOK, Whole
  <2>3. AloneInv'
    BY <1>0, <2>1 DEF CommandEnds, AloneInv, Opening, DatabaseTypes, DatabaseTypeOK
  <2>4. QED
    BY <2>2, <2>3
<1>6. CASE EndContainer
  <2>1. \A p \in Process : at'[p] = "down"
    BY <1>6 DEF EndContainer, ContainerEnds, Down
  <2>2. QED
    BY <1>6, <2>1 DEF EndContainer, ContainerEnds, MigrationInv, AloneInv, Opening, Whole
<1>7. QED
  BY <1>1, <1>2, <1>3, <1>4, <1>5, <1>6 DEF OtherStep, Around

LEMMA OpeningStep == Types /\ OpeningInv /\ [Next]_vars => OpeningInv'
<1> SUFFICES ASSUME Types, OpeningInv, [Next]_vars PROVE OpeningInv'
  OBVIOUS
<1>0. DatabaseTypes
  BY DEF Types
<1>1. CASE OwnStep \/ \E j \in Job : JobStep(j)
  BY <1>0, <1>1, OwnDatabase, JobDatabase, QuietKeeps
<1>2. CASE OtherStep
  BY <1>0, <1>2, OtherKeeps
<1>3. CASE UNCHANGED vars
  BY <1>3 DEF vars, databaseVars, OpeningInv, MigrationInv, AloneInv, Opening, Whole
<1>4. QED
  BY <1>1, <1>2, <1>3, Steps

LEMMA OpeningAlways == Spec => [](Types /\ OpeningInv)
BY TypeInit, OpeningInit, TypeStep, OpeningStep, PTL DEF Spec

\* "Open the SQLite file and run pending migrations": whatever crashes, restores and
\* other processes come between, a migration and its record are in the file, and in
\* Litestream's copy, together and in order; an open database has them all.
THEOREM MigrationsWhole == Spec => []Migrated
<1>1. OpeningInv => Migrated
  BY DEF OpeningInv, MigrationInv, Migrated, Whole
<1>2. QED
  BY <1>1, OpeningAlways, PTL

\* A process whose Open fails has been disturbed by another one, so a restart on
\* its own gets through.
THEOREM OpensAlone == Spec => []AloneOpens
<1>1. Types /\ OpeningInv => AloneOpens
  <2> SUFFICES ASSUME DatabaseTypes, OpeningInv, NEW p \in Process, OpenFails(p), alone[p]
               PROVE  FALSE
    BY DEF AloneOpens, Types
  <2>1. CASE at[p] = "pragmas" /\ \E q \in Process \ {p} : Opening(q)
    BY <2>1 DEF OpeningInv, AloneInv, Opening
  <2>2. CASE at[p] = "apply" /\ ~Applicable(version[p])
    BY <2>2 DEF OpeningInv, AloneInv, MigrationInv, Whole, Applicable
  <2>3. QED
    BY <2>1, <2>2 DEF OpenFails
<1>2. QED
  BY <1>1, OpeningAlways, PTL

=============================================================================
