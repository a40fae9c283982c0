--------------------------- MODULE SnapshotProofs ---------------------------
(***************************************************************************)
(* Theorems of Universe about the snapshots: what a job reads from the     *)
(* table is what the configuration asks for, for every listing of Kite,    *)
(* every configuration of exchanges and any number of days.                *)
(* And about the pools of connections: only two jobs that share a process  *)
(* come to a connection without the busy timeout.                          *)
(***************************************************************************)
EXTENDS UniverseProofs, WellFoundedInduction

-----------------------------------------------------------------------------
(* The newest snapshot.                                                    *)

\* A set of days has a last one.
LEMMA LastOf ==
  ASSUME NEW n \in Nat, NEW S \in SUBSET (1 .. n), S # {}
  PROVE  \E d \in S : \A e \in S : e <= d
<1> DEFINE T == {n - d : d \in S}
<1>1. T \subseteq Nat /\ T # {}
  <2>1. \A d \in S : n - d \in Nat
    OBVIOUS
  <2>2. QED
    BY <2>1
<1>2. \E x \in T : \A y \in T : ~ (<<y, x>> \in OpToRel(<,Nat))
  BY <1>1, NatLessThanWellFounded, WFMin
<1>3. PICK x \in T : \A y \in T : ~(y < x)
  BY <1>1, <1>2 DEF OpToRel
<1>4. PICK d \in S : x = n - d
  OBVIOUS
<1>5. \A e \in S : ~(n - e < n - d)
  BY <1>3, <1>4
<1>6. QED
  BY <1>5

\* Where there is a snapshot there is a newest one.
LEMMA NewestExists ==
  ASSUME NEW rows, NEW d \in Day, rows[d] # {}
  PROVE  \E n \in Day : n >= d /\ rows[n] # {} /\ \A e \in Day : e > n => rows[e] = {}
<1> DEFINE S == {e \in Day : rows[e] # {}}
<1>1. S \in SUBSET (1 .. LastDay) /\ LastDay \in Nat /\ d \in S
  BY Days
<1>2. PICK n \in S : \A e \in S : e <= n
  <2> HIDE DEF S
  <2>1. QED
    BY <1>1, LastOf
<1>3. n \in Day /\ rows[n] # {} /\ n >= d
  BY <1>1, <1>2, Days
<1>4. \A e \in Day : e > n => rows[e] = {}
  BY <1>2, <1>3, Days
<1>5. QED
  BY <1>3, <1>4

LEMMA NewestOne ==
  ASSUME NEW d \in Newest, NEW e \in Newest
  PROVE  d = e
BY Days DEF Newest

LEMMA SnapshotIs ==
  ASSUME NEW d \in Newest
  PROVE  Snapshot = file.rows[d]
BY NewestOne DEF Snapshot

LEMMA NewestIsDay == \A d \in Newest : d \in Day /\ file.rows[d] # {}
BY DEF Newest

-----------------------------------------------------------------------------
(* The invariant.  An exchange is in a snapshot with all of its instruments *)
(* or with none, because both writers fetch whole exchanges.               *)

All == {i \in Listed : i.exchange \in Exchange}

Uniform(rows) ==
  \A d \in Day : rows[d] \subseteq All /\ \A i \in rows[d] : Fetched(i.exchange) \subseteq rows[d]

NoFuture(rows) == \A d \in Day : d > today => rows[d] = {}

RowsInv ==
  /\ Uniform(file.rows) /\ Uniform(replica.rows)
  /\ NoFuture(file.rows) /\ NoFuture(replica.rows)

\* The nightly run: it has fetched every exchange before it stores any, and then
\* its snapshot is there for as long as it runs.
NightInv ==
  /\ home["nightly"] = "service" /\ stamp["nightly"] <= today
  /\ pc["nightly"] \notin {"load", "dump", "reload"}
  /\ pc["nightly"] # "idle" => at["service"] = "open"
  /\ pc["nightly"] = "fetch" =>
       got["nightly"] = {i \in Listed : i.exchange \in Exchange \ left["nightly"]}
  /\ pc["nightly"] \in {"store", "commit"} => got["nightly"] = All
  /\ pc["nightly"] \in {"publish", "next", "query", "indices", "walk"} =>
       All \subseteq file.rows[stamp["nightly"]]

\* The backfill: a snapshot newer than the one it stores is whole; what it has
\* found, or fetched, stays in the newest snapshot until it asks for its universe.
BackInv ==
  /\ stamp["backfill"] <= today
  /\ pc["backfill"] \notin {"fetch", "publish"}
  /\ pc["backfill"] # "idle" => at[home["backfill"]] = "open"
  /\ pc["backfill"] = "idle" => \A ex \in FuturesExchanges : foundOn[ex] = {}
  /\ asset["backfill"] = "futures" => wanted["backfill"] = "FUT"
  /\ pc["backfill"] \in {"query", "indices"} => asset["backfill"] = "equity"
  /\ pc["backfill"] \in {"store", "commit"} =>
       /\ got["backfill"] = Fetched(cur["backfill"])
       /\ \A d \in Day : d > stamp["backfill"] /\ file.rows[d] # {} => All \subseteq file.rows[d]
  /\ pc["backfill"] \in {"reload", "query", "indices"} => Fetched(cur["backfill"]) \subseteq Snapshot
  /\ pc["backfill"] = "walk" /\ asset["backfill"] = "futures" =>
       view["backfill"] = WantedFutures(cur["backfill"])
  /\ \A ex \in FuturesExchanges : \A d \in foundOn[ex] : Fetched(ex) \subseteq file.rows[d]

SnapshotInv == RowsInv /\ NightInv /\ BackInv

\* An exchange of which something is in the newest snapshot is in it whole.
LEMMA FoundWhole ==
  ASSUME Uniform(file.rows), NEW i \in Snapshot
  PROVE  Fetched(i.exchange) \subseteq Snapshot
<1>1. PICK d \in Newest : i \in file.rows[d]
  BY DEF Snapshot
<1>2. QED
  BY <1>1, SnapshotIs, NewestIsDay DEF Uniform

\* A commit that adds whole exchanges, X of them among others, keeps X in the
\* newest snapshot, and adds it when nothing newer lacks it.
LEMMA CommitKeeps ==
  ASSUME Types, Types', NEW s \in Day, NEW X \in SUBSET Listed, NEW Y \in SUBSET Listed,
         X \subseteq Y,
         file'.rows = [file.rows EXCEPT ![s] = @ \cup Y],
         X \subseteq Snapshot \/ \A d \in Day : d > s /\ file.rows[d] # {} => X \subseteq file.rows[d]
  PROVE  X \subseteq Snapshot'
<1>1. file.rows \in [Day -> SUBSET Listed]
  BY DEF Types, DatabaseTypes, DatabaseTypeOK
<1>2. file'.rows[s] = file.rows[s] \cup Y /\ \A d \in Day \ {s} : file'.rows[d] = file.rows[d]
  BY <1>1
<1>3. SUFFICES ASSUME X # {}  PROVE X \subseteq Snapshot'
  OBVIOUS
<1>4. file'.rows[s] # {}
  BY <1>2, <1>3
<1>5. PICK n \in Day : n >= s /\ file'.rows[n] # {} /\ \A e \in Day : e > n => file'.rows[e] = {}
  BY <1>4, NewestExists
<1>6. n \in Newest'
  BY <1>5 DEF Newest
<1>7. CASE n = s
  BY <1>2, <1>6, <1>7 DEF Snapshot
<1>8. CASE n # s
  <2>1. n > s /\ file.rows[n] = file'.rows[n] /\ file.rows[n] # {}
    BY <1>2, <1>5, <1>8, Days
  <2>2. \A e \in Day : e > n => file.rows[e] = {}
    BY <1>2, <1>5, <2>1, Days
  <2>3. n \in Newest
    BY <2>1, <2>2 DEF Newest
  <2>4. X \subseteq file.rows[n]
    BY <2>1, <2>3, SnapshotIs
  <2>5. QED
    BY <1>6, <2>1, <2>4 DEF Snapshot
<1>9. QED
  BY <1>7, <1>8

-----------------------------------------------------------------------------
(* What a step leaves alone.                                               *)

\* The locals of job k.
Stays(k) ==
  /\ pc'[k] = pc[k] /\ home'[k] = home[k] /\ asset'[k] = asset[k] /\ left'[k] = left[k]
  /\ cur'[k] = cur[k] /\ wanted'[k] = wanted[k] /\ stamp'[k] = stamp[k]
  /\ got'[k] = got[k] /\ view'[k] = view[k]
  /\ k = "backfill" => foundOn' = foundOn

LEMMA LoopStays ==
  ASSUME LoopTypes, NEW j \in Job, NEW k \in Job \ {j}, NEW a, NEW exchanges, NEW type,
         Loop(j, a, exchanges, type), home' = home
  PROVE  Stays(k)
BY DEF LoopTypes, Loop, Forget, Go, Stays

LEMMA FinishStays ==
  ASSUME LoopTypes, NEW j \in Job, NEW k \in Job \ {j}, Finish(j), home'[k] = home[k]
  PROVE  Stays(k)
BY DEF LoopTypes, Finish, Forget, Go, Stays, Job

LEMMA AbandonStays ==
  ASSUME LoopTypes, NEW j \in Job, NEW k \in Job \ {j}, Abandon(j) \/ EndPass(j), home' = home
  PROVE  Stays(k)
BY LoopStays, FinishStays DEF Abandon, EndPass

\* A job's step leaves the other job alone.
LEMMA JobStays ==
  ASSUME Types, NEW j \in Job, NEW k \in Job \ {j}, JobStep(j)
  PROVE  Stays(k)
<1>0. LoopTypes /\ home \in [Job -> Process]
  BY DEF Types, WorldTypes
<1>1. CASE NextExchange(j)
  BY <1>0, <1>1 DEF NextExchange, Go, LoopTypes, Stays
<1>2. CASE EndLoop(j)
  BY <1>0, <1>2, LoopStays, AbandonStays DEF EndLoop
<1>3. CASE FetchFails(j) \/ StoreLocked(j)
  BY <1>0, <1>3, FinishStays DEF FetchFails, StoreLocked
<1>4. CASE BeginUpsert(j) \/ CommitUpsert(j)
  BY <1>0, <1>4 DEF BeginUpsert, CommitUpsert, Go, LoopTypes, Stays
<1>5. CASE Query(j) \/ QueryIndices(j)
  BY <1>0, <1>5 DEF Query, QueryIndices, Reading, Go, LoopTypes, Stays
<1>6. CASE Mark(j)
  BY <1>0, <1>6 DEF Mark, jobVars, Stays
<1>7. CASE EndWalk(j)
  BY <1>0, <1>7 DEF EndWalk, Forget, Go, LoopTypes, Stays
<1>8. CASE LoopError(j)
  BY <1>0, <1>8, AbandonStays DEF LoopError
<1>9. QED
  BY <1>1, <1>2, <1>3, <1>4, <1>5, <1>6, <1>7, <1>8 DEF JobStep

LEMMA OwnStays ==
  ASSUME Types
  PROVE  /\ StartNightly \/ FetchExchange \/ Publish => Stays("backfill")
         /\ Dump \/ Load \/ Reload \/ (\E p \in Process : StartBackfill(p)) => Stays("nightly")
<1>0. /\ LoopTypes /\ home \in [Job -> Process]
      /\ "nightly" \in Job \ {"backfill"} /\ "backfill" \in Job \ {"nightly"}
  BY DEF Types, WorldTypes, Job
<1>1. StartNightly \/ FetchExchange => Stays("backfill")
  BY <1>0 DEF StartNightly, FetchExchange, Go, LoopTypes, Stays
<1>2. Publish => Stays("backfill")
  BY <1>0, LoopStays DEF Publish
<1>3. Dump => Stays("nightly")
  BY <1>0 DEF Dump, Go, LoopTypes, Stays
<1>4. Load \/ Reload => Stays("nightly")
  BY <1>0 DEF Load, Reload, Loaded, Reading, Go, LoopTypes, Stays
<1>5. ASSUME NEW p \in Process, StartBackfill(p)  PROVE Stays("nightly")
  <2>1. home'["nightly"] = home["nightly"]
    BY <1>0, <1>5 DEF StartBackfill
  <2>2. QED
    BY <1>0, <1>5, <2>1 DEF StartBackfill, Loop, Forget, Go, LoopTypes, Stays
<1>6. QED
  BY <1>1, <1>2, <1>3, <1>4, <1>5

\* What a step does to the snapshots unless it commits one or restores a copy.
RowsStay ==
  /\ file'.rows = file.rows
  /\ replica'.rows = replica.rows \/ replica'.rows = file.rows
  /\ today' = today \/ today' = today + 1

LEMMA JobRows ==
  ASSUME Types, OwnStep \/ \E j \in Job : JobStep(j) /\ ~CommitUpsert(j)
  PROVE  RowsStay /\ UNCHANGED <<replica, at, today>>
<1>1. CASE OwnStep
  BY <1>1 DEF OwnStep, StartNightly, FetchExchange, Publish, Dump, Load, Reload, StartBackfill,
              Reading, databaseVars, RowsStay
<1>2. ASSUME NEW j \in Job, JobStep(j), ~CommitUpsert(j)
      PROVE  RowsStay /\ UNCHANGED <<replica, at, today>>
  BY <1>2 DEF JobStep, NextExchange, EndLoop, FetchFails, BeginUpsert, StoreLocked, Query,
              QueryIndices, Mark, EndWalk, LoopError, Reading, databaseVars, RowsStay
<1>3. QED
  BY <1>1, <1>2

LEMMA OtherRows ==
  ASSUME Types, OtherStep, ~StartContainer
  PROVE  RowsStay
<1>1. ASSUME NEW p \in Process, Open(p)  PROVE RowsStay
  <2>1. UNCHANGED <<replica, today>>
    BY <1>1 DEF Open, OpenStep, SetPragmas, Bootstrap, Check, Execute, Commit, Opened
  <2>2. CASE Commit(p)
    <3>1. file' = [file EXCEPT !.schema = @ \cup {version[p]}, !.recorded = @ \cup {version[p]}]
      BY <2>2 DEF Commit
    <3>2. file'.rows = file.rows
      BY <3>1 DEF Types, DatabaseTypes, DatabaseTypeOK
    <3>3. QED
      BY <2>1, <3>2 DEF RowsStay
  <2>3. CASE ~Commit(p)
    BY <1>1, <2>1, <2>3 DEF Open, OpenStep, SetPragmas, Bootstrap, Check, Execute, Opened, RowsStay
  <2>4. QED
    BY <2>2, <2>3
<1>2. CASE Around
  BY <1>2 DEF Around, StartCommand, Sync, EndCommand, CommandEnds, EndContainer, ContainerEnds,
              Tick, databaseVars, RowsStay
<1>3. QED
  BY <1>1, <1>2 DEF OtherStep

\* Whoever has its database keeps it, unless its process ends.
LEMMA OpenStays ==
  ASSUME Types, NEW p \in Process, at[p] = "open", [Next]_vars, ~EndContainer,
         EndCommand => p # "command"
  PROVE  at'[p] = "open"
<1>0. at \in [Process -> {"down", "pragmas", "bootstrap", "check", "apply", "commit", "open"}]
  BY DEF Types, DatabaseTypes, DatabaseTypeOK
<1>1. CASE OwnStep \/ \E j \in Job : JobStep(j)
  <2>1. at' = at
    BY <1>1, OwnDatabase, JobDatabase DEF JobQuiet
  <2>2. QED
    BY <2>1
<1>2. ASSUME NEW q \in Process, Open(q)  PROVE at'[p] = "open"
  BY <1>0, <1>2 DEF Open, OpenStep, SetPragmas, Bootstrap, Check, Execute, Commit, Opened
<1>3. CASE Around
  BY <1>0, <1>3 DEF Around, StartCommand, Sync, StartContainer, Boot, Down, EndCommand,
                    CommandEnds, Tick, databaseVars
<1>4. CASE UNCHANGED vars
  BY <1>4 DEF vars, databaseVars
<1>5. QED
  BY <1>1, <1>2, <1>3, <1>4, Steps DEF OtherStep

-----------------------------------------------------------------------------
(* The rows.                                                               *)

LEMMA CommitRows ==
  ASSUME Types, NEW j \in Job, CommitUpsert(j)
  PROVE  /\ stamp[j] \in Day /\ got[j] \in SUBSET Listed
         /\ file'.rows = [file.rows EXCEPT ![stamp[j]] = @ \cup got[j]]
         /\ UNCHANGED <<replica, at, today>>
<1>1. stamp[j] \in Day /\ got[j] \in SUBSET Listed
  BY DEF Types, LoopTypes
<1>2. file' = [file EXCEPT !.rows = Upserted(file.rows, j)]
  BY DEF CommitUpsert
<1>3. file'.rows = Upserted(file.rows, j)
  BY <1>2 DEF Types, DatabaseTypes, DatabaseTypeOK
<1>4. QED
  BY <1>1, <1>3 DEF CommitUpsert, Upserted

\* What a job is about to store is whole exchanges.
LEMMA GotWhole ==
  ASSUME Types, SnapshotInv, NEW j \in Job, pc[j] = "commit"
  PROVE  got[j] \subseteq All /\ \A i \in got[j] : Fetched(i.exchange) \subseteq got[j]
<1>1. CASE j = "nightly"
  <2>1. got[j] = All
    BY <1>1 DEF SnapshotInv, NightInv
  <2>2. QED
    BY <2>1 DEF All, Fetched
<1>2. CASE j = "backfill"
  <2>1. got[j] = Fetched(cur[j]) /\ cur[j] \in Exchange
    BY <1>2 DEF SnapshotInv, BackInv, Types, LoopTypes
  <2>2. QED
    BY <2>1 DEF All, Fetched
<1>3. QED
  BY <1>1, <1>2 DEF Job

LEMMA StampsPast ==
  ASSUME SnapshotInv, NEW j \in Job
  PROVE  stamp[j] <= today
BY DEF SnapshotInv, NightInv, BackInv, Job

LEMMA StartRows == StartContainer => file'.rows = replica.rows /\ replica' = replica /\ today' = today
BY DEF StartContainer, Boot

\* Rows are only added, except where a copy is restored, and the clock goes on.
LEMMA RowsGrow ==
  ASSUME Types, [Next]_vars, ~StartContainer
  PROVE  /\ \A d \in Day : file.rows[d] \subseteq file'.rows[d]
         /\ today \in Int /\ today' \in Int /\ today <= today'
<1>1. file.rows \in [Day -> SUBSET Listed] /\ today \in Int
  BY Days DEF Types, DatabaseTypes, DatabaseTypeOK, WorldTypes
<1>2. CASE RowsStay
  BY <1>1, <1>2 DEF RowsStay
<1>3. ASSUME NEW j \in Job, CommitUpsert(j)
      PROVE  (\A d \in Day : file.rows[d] \subseteq file'.rows[d]) /\ today' = today
  BY <1>1, <1>3, CommitRows
<1>4. CASE UNCHANGED vars
  BY <1>1, <1>4 DEF vars, databaseVars
<1>5. QED
  BY <1>1, <1>2, <1>3, <1>4, JobRows, OtherRows, Steps

LEMMA RowsStep ==
  ASSUME Types, SnapshotInv, [Next]_vars
  PROVE  RowsInv'
<1>0. RowsInv /\ today \in Int /\ file.rows \in [Day -> SUBSET Listed]
  BY Days DEF SnapshotInv, Types, WorldTypes, DatabaseTypes, DatabaseTypeOK
<1>1. CASE RowsStay
  BY <1>0, <1>1, Days DEF RowsStay, RowsInv, Uniform, NoFuture
<1>2. ASSUME NEW j \in Job, CommitUpsert(j)
      PROVE  RowsInv'
  <2>1. /\ stamp[j] \in Day /\ stamp[j] <= today
        /\ file'.rows = [file.rows EXCEPT ![stamp[j]] = @ \cup got[j]]
        /\ UNCHANGED <<replica, today>>
    BY <1>2, CommitRows, StampsPast
  <2>2. got[j] \subseteq All /\ \A i \in got[j] : Fetched(i.exchange) \subseteq got[j]
    BY <1>2, GotWhole DEF CommitUpsert
  <2>3. ASSUME NEW d \in Day
        PROVE  /\ file'.rows[d] \subseteq All
               /\ \A i \in file'.rows[d] : Fetched(i.exchange) \subseteq file'.rows[d]
               /\ d > today => file'.rows[d] = {}
    <3>1. CASE d = stamp[j]
      BY <1>0, <2>1, <2>2, <3>1, Days DEF RowsInv, Uniform
    <3>2. CASE d # stamp[j]
      BY <1>0, <2>1, <3>2 DEF RowsInv, Uniform, NoFuture
    <3>3. QED
      BY <3>1, <3>2
  <2>4. QED
    BY <1>0, <2>1, <2>3 DEF RowsInv, Uniform, NoFuture
<1>3. CASE StartContainer
  BY <1>0, <1>3, StartRows DEF RowsInv, Uniform, NoFuture
<1>4. CASE UNCHANGED vars
  BY <1>0, <1>4 DEF vars, databaseVars, RowsInv, Uniform, NoFuture
<1>5. QED
  BY <1>1, <1>2, <1>3, <1>4, JobRows, OtherRows, Steps

-----------------------------------------------------------------------------
(* The nightly run.                                                        *)

LEMMA NightStays ==
  ASSUME Types, SnapshotInv, [Next]_vars, ~StartContainer, ~EndContainer, Stays("nightly")
  PROVE  NightInv'
<1>1. at["service"] = "open" => at'["service"] = "open"
  BY OpenStays DEF Process
<1>2. today \in Int /\ today' \in Int /\ today <= today' /\ stamp["nightly"] \in Int
  BY RowsGrow, Days DEF Types, LoopTypes, Job
<1>3. \A d \in Day : file.rows[d] \subseteq file'.rows[d]
  BY RowsGrow
<1>4. stamp["nightly"] \in Day
  BY DEF Types, LoopTypes, Job
<1>5. QED
  BY <1>1, <1>2, <1>3, <1>4 DEF SnapshotInv, NightInv, Stays

\* The job is over, or in the loop of one of its passes.
LEMMA NightLoops ==
  ASSUME Types, SnapshotInv, home' = home, file' = file, at' = at, today' = today,
         \/ Finish("nightly")
         \/ /\ \E a, exchanges, type : Loop("nightly", a, exchanges, type)
            /\ pc["nightly"] \in {"publish", "next", "query", "indices", "walk"}
  PROVE  NightInv'
<1>0. NightInv /\ pc \in [Job -> Stage] /\ stamp \in [Job -> Day] /\ "nightly" \in Job /\ today \in Day
  BY DEF SnapshotInv, Types, LoopTypes, WorldTypes, Job
<1>1. CASE Finish("nightly")
  <2>1. pc'["nightly"] = "idle" /\ stamp'["nightly"] = 1 /\ 1 <= today
    BY <1>0, <1>1, Days DEF Finish, Go
  <2>2. QED
    BY <1>0, <2>1 DEF NightInv
<1>2. ASSUME NEW a, NEW exchanges, NEW type, Loop("nightly", a, exchanges, type),
             pc["nightly"] \in {"publish", "next", "query", "indices", "walk"}
      PROVE  NightInv'
  <2>1. pc'["nightly"] = "next" /\ stamp' = stamp
    BY <1>0, <1>2 DEF Loop, Go
  <2>2. QED
    BY <1>0, <1>2, <2>1 DEF NightInv
<1>3. QED
  BY <1>1, <1>2

LEMMA NightPasses ==
  ASSUME Types, SnapshotInv, home' = home, file' = file, at' = at, today' = today,
         Abandon("nightly") \/ EndPass("nightly"),
         pc["nightly"] \in {"publish", "next", "query", "indices", "walk"}
  PROVE  NightInv'
BY NightLoops DEF Abandon, EndPass

LEMMA NightJobStep ==
  ASSUME Types, SnapshotInv, JobStep("nightly")
  PROVE  NightInv'
<1>0. /\ NightInv /\ "nightly" \in Job
      /\ pc \in [Job -> Stage] /\ got \in [Job -> SUBSET Listed] /\ stamp \in [Job -> Day]
      /\ file.rows \in [Day -> SUBSET Listed]
  BY DEF SnapshotInv, Types, LoopTypes, DatabaseTypes, DatabaseTypeOK, Job
<1>1. at' = at /\ today' = today /\ home' = home
  BY <1>0, JobDatabase
  DEF JobQuiet, JobStep, NextExchange, EndLoop, FetchFails, BeginUpsert, CommitUpsert, StoreLocked,
      Query, QueryIndices, Mark, EndWalk, LoopError, Reading, jobVars
<1>2. CASE NextExchange("nightly") \/ EndWalk("nightly")
  BY <1>0, <1>1, <1>2 DEF NextExchange, EndWalk, Go, databaseVars, NightInv
<1>3. CASE EndLoop("nightly")
  BY <1>1, <1>3, NightPasses DEF EndLoop, Preloading, databaseVars
<1>4. CASE FetchFails("nightly") \/ StoreLocked("nightly")
  BY <1>1, <1>4, NightLoops DEF FetchFails, StoreLocked, databaseVars
<1>5. CASE BeginUpsert("nightly")
  BY <1>0, <1>1, <1>5 DEF BeginUpsert, Go, NightInv
<1>6. CASE CommitUpsert("nightly")
  <2>1. got["nightly"] = All
    BY <1>0, <1>6 DEF CommitUpsert, NightInv
  <2>2. All \subseteq file'.rows[stamp["nightly"]]
    <3>1. /\ stamp["nightly"] \in Day
          /\ file'.rows = [file.rows EXCEPT ![stamp["nightly"]] = @ \cup got["nightly"]]
      BY <1>0, <1>6, CommitRows
    <3>2. QED
      BY <1>0, <2>1, <3>1
  <2>3. pc'["nightly"] = "publish" /\ stamp' = stamp
    BY <1>0, <1>6 DEF CommitUpsert, Go
  <2>4. at["service"] = "open"
    BY <1>0, <1>6 DEF CommitUpsert, NightInv
  <2>5. QED
    BY <1>0, <1>1, <2>2, <2>3, <2>4 DEF NightInv
<1>7. CASE Query("nightly") \/ QueryIndices("nightly")
  BY <1>0, <1>1, <1>7 DEF Query, QueryIndices, Reading, Go, NightInv
<1>8. CASE Mark("nightly")
  BY <1>0, <1>1, <1>8 DEF Mark, jobVars, NightInv
<1>9. CASE LoopError("nightly")
  BY <1>0, <1>1, <1>9, NightPasses DEF LoopError, NightInv
<1>10. QED
  BY <1>2, <1>3, <1>4, <1>5, <1>6, <1>7, <1>8, <1>9 DEF JobStep

LEMMA NightOwnStep ==
  ASSUME Types, SnapshotInv, StartNightly \/ FetchExchange \/ Publish
  PROVE  NightInv'
<1>0. /\ NightInv /\ "nightly" \in Job
      /\ pc \in [Job -> Stage] /\ got \in [Job -> SUBSET Listed] /\ stamp \in [Job -> Day]
      /\ left \in [Job -> SUBSET Exchange] /\ today \in Day
  BY DEF SnapshotInv, Types, LoopTypes, WorldTypes, Job
<1>1. CASE StartNightly
  <2>1. /\ pc'["nightly"] = "fetch" /\ stamp'["nightly"] = today /\ got'["nightly"] = {}
        /\ left'["nightly"] = Exchange /\ at["service"] = "open"
        /\ UNCHANGED <<at, today, home>>
    BY <1>0, <1>1 DEF StartNightly, Go, databaseVars
  <2>2. QED
    BY <1>0, <2>1, Days DEF NightInv
<1>2. CASE FetchExchange
  <2>1. PICK ex \in left["nightly"] :
          /\ got' = [got EXCEPT !["nightly"] = @ \cup Fetched(ex)]
          /\ left' = [left EXCEPT !["nightly"] = @ \ {ex}]
    BY <1>2 DEF FetchExchange
  <2>2. got["nightly"] = {i \in Listed : i.exchange \in Exchange \ left["nightly"]}
    BY <1>0, <1>2 DEF FetchExchange, NightInv
  <2>3. /\ got'["nightly"] = got["nightly"] \cup Fetched(ex)
        /\ left'["nightly"] = left["nightly"] \ {ex} /\ ex \in Exchange
    BY <1>0, <2>1
  <2>4. got'["nightly"] = {i \in Listed : i.exchange \in Exchange \ left'["nightly"]}
    BY <2>2, <2>3 DEF Fetched
  <2>5. pc'["nightly"] = IF left'["nightly"] = {} THEN "store" ELSE "fetch"
    BY <1>0, <1>2 DEF FetchExchange, Go
  <2>6. pc'["nightly"] = "store" => got'["nightly"] = All
    BY <2>4, <2>5 DEF All
  <2>7. UNCHANGED <<at, today, home, stamp>> /\ at["service"] = "open"
    BY <1>0, <1>2 DEF FetchExchange, databaseVars, NightInv
  <2>8. QED
    BY <1>0, <2>4, <2>5, <2>6, <2>7 DEF NightInv
<1>3. CASE Publish
  BY <1>3, NightLoops DEF Publish, databaseVars
<1>4. QED
  BY <1>1, <1>2, <1>3

LEMMA OtherStaysNight ==
  ASSUME Types, OtherStep, ~StartContainer, ~EndContainer
  PROVE  Stays("nightly")
<1>0. "nightly" \in Job \ {"backfill"} /\ "nightly" \in Job
  BY DEF Job
<1>1. CASE UNCHANGED <<jobVars, foundOn>>
  BY <1>1 DEF jobVars, Stays
<1>2. CASE EndCommand
  <2>1. home'["nightly"] = home["nightly"]
    BY <1>0, <1>2 DEF EndCommand, Types, WorldTypes
  <2>2. CASE Finish("backfill")
    BY <1>0, <2>1, <2>2, FinishStays DEF Types, Job
  <2>3. CASE UNCHANGED <<pc, asset, left, cur, wanted, stamp, got, conn, view, foundOn>>
    BY <2>1, <2>3 DEF Stays
  <2>4. QED
    BY <1>2, <2>2, <2>3 DEF EndCommand
<1>3. QED
  BY <1>1, <1>2 DEF OtherStep, Open, Around, Tick

LEMMA NightStep ==
  ASSUME Types, SnapshotInv, [Next]_vars
  PROVE  NightInv'
<1>0. "nightly" \in Job /\ "nightly" \in Job \ {"backfill"} /\ Job = {"nightly", "backfill"}
  BY DEF Job
<1>1. CASE JobStep("nightly") \/ StartNightly \/ FetchExchange \/ Publish
  BY <1>1, NightJobStep, NightOwnStep
<1>2. CASE JobStep("backfill") \/ Dump \/ Load \/ Reload \/ \E p \in Process : StartBackfill(p)
  <2>1. Stays("nightly")
    BY <1>0, <1>2, JobStays, OwnStays
  <2>2. ~StartContainer /\ ~EndContainer
    <3>1. at' = at
      BY <1>0, <1>2, JobDatabase, OwnDatabase DEF OwnStep, JobQuiet
    <3>2. QED
      BY <3>1 DEF StartContainer, Boot, EndContainer, ContainerEnds, Types, DatabaseTypes,
                  DatabaseTypeOK, Down, Process
  <2>3. QED
    BY <2>1, <2>2, NightStays
<1>3. CASE OtherStep /\ ~StartContainer /\ ~EndContainer
  <2>1. Stays("nightly")
    BY <1>3, OtherStaysNight
  <2>2. QED
    BY <1>3, <2>1, NightStays
<1>4. CASE StartContainer
  <2>1. at["service"] = "down" /\ UNCHANGED <<today, pc, home, stamp>>
    BY <1>4 DEF StartContainer, Boot, jobVars, Down, Process
  <2>2. QED
    BY <2>1 DEF SnapshotInv, NightInv
<1>5. CASE EndContainer
  BY <1>0, <1>5, Days DEF EndContainer, NoJobs, NightInv, Types, WorldTypes
<1>6. CASE UNCHANGED vars
  BY <1>6 DEF vars, databaseVars, jobVars, SnapshotInv, NightInv
<1>7. QED
  BY <1>0, <1>1, <1>2, <1>3, <1>4, <1>5, <1>6, Steps DEF OwnStep

-----------------------------------------------------------------------------
(* The backfill.                                                           *)

LEMMA SnapshotStays == file'.rows = file.rows => Snapshot' = Snapshot /\ Newest' = Newest
BY DEF Snapshot, Newest

\* The nightly run commits a whole snapshot beside it.
LEMMA NightCommits ==
  ASSUME Types, SnapshotInv, CommitUpsert("nightly")
  PROVE  /\ \A d \in Day : file'.rows[d] = file.rows[d] \/ All \subseteq file'.rows[d]
         /\ \A X \in SUBSET All : X \subseteq Snapshot => X \subseteq Snapshot'
<1>0. "nightly" \in Job /\ file.rows \in [Day -> SUBSET Listed] /\ All \in SUBSET Listed
  BY DEF Types, DatabaseTypes, DatabaseTypeOK, Job, All
<1>1. /\ stamp["nightly"] \in Day
      /\ file'.rows = [file.rows EXCEPT ![stamp["nightly"]] = @ \cup got["nightly"]]
  BY <1>0, CommitRows
<1>2. got["nightly"] = All
  BY DEF SnapshotInv, NightInv, CommitUpsert
<1>3. Types'
  <2>1. [Next]_vars
    BY <1>0 DEF Next, JobStep
  <2>2. QED
    BY <2>1, TypeStep
<1>4. \A d \in Day : file'.rows[d] = file.rows[d] \/ All \subseteq file'.rows[d]
  BY <1>0, <1>1, <1>2
<1>5. ASSUME NEW X \in SUBSET All, X \subseteq Snapshot
      PROVE  X \subseteq Snapshot'
  <2>1. X \in SUBSET Listed /\ X \subseteq All
    BY <1>0
  <2>2. file'.rows = [file.rows EXCEPT ![stamp["nightly"]] = @ \cup All]
    BY <1>1, <1>2
  <2>3. QED
    BY <1>0, <1>1, <1>3, <1>5, <2>1, <2>2, CommitKeeps
<1>6. QED
  BY <1>4, <1>5

LEMMA BackStays ==
  ASSUME Types, SnapshotInv, [Next]_vars, ~StartContainer, ~EndContainer, Stays("backfill"),
         file'.rows = file.rows \/ CommitUpsert("nightly")
  PROVE  BackInv'
<1>0. /\ BackInv /\ "backfill" \in Job /\ stamp["backfill"] \in Day /\ foundOn \in [FuturesExchanges -> SUBSET Day]
      /\ home["backfill"] \in Process /\ cur["backfill"] \in Exchange
  BY DEF SnapshotInv, Types, LoopTypes, WorldTypes, Job
<1>1. pc["backfill"] # "idle" => at'[home["backfill"]] = "open"
  <2>1. EndCommand => home["backfill"] # "command"
    <3>1. EndCommand => home'["backfill"] = "service"
      BY <1>0 DEF EndCommand, Types, WorldTypes
    <3>2. QED
      BY <3>1 DEF Stays
  <2>2. QED
    BY <1>0, <2>1, OpenStays DEF BackInv
<1>2. today \in Int /\ today' \in Int /\ today <= today' /\ stamp["backfill"] \in Int
  BY <1>0, RowsGrow, Days
<1>3. \A d \in Day : file.rows[d] \subseteq file'.rows[d]
  BY RowsGrow
<1>4. \A d \in Day : file'.rows[d] = file.rows[d] \/ All \subseteq file'.rows[d]
  BY NightCommits
<1>5. Fetched(cur["backfill"]) \subseteq Snapshot => Fetched(cur["backfill"]) \subseteq Snapshot'
  <2>1. Fetched(cur["backfill"]) \in SUBSET All
    BY <1>0 DEF Fetched, All
  <2>2. QED
    BY <2>1, NightCommits, SnapshotStays
<1>6. stamp'["backfill"] <= today'
  BY <1>0, <1>2 DEF BackInv, Stays
<1>7. pc'["backfill"] \in {"store", "commit"} =>
        /\ got'["backfill"] = Fetched(cur'["backfill"])
        /\ \A d \in Day : d > stamp'["backfill"] /\ file'.rows[d] # {} => All \subseteq file'.rows[d]
  BY <1>0, <1>4 DEF BackInv, Stays
<1>8. \A ex \in FuturesExchanges : \A d \in foundOn'[ex] : Fetched(ex) \subseteq file'.rows[d]
  <2>1. foundOn' = foundOn
    BY DEF Stays
  <2>2. QED
    BY <1>0, <1>3, <2>1 DEF BackInv
<1>9. QED
  BY <1>0, <1>1, <1>5, <1>6, <1>7, <1>8 DEF BackInv, Stays, Fetched, WantedFutures

LEMMA BackEnds ==
  ASSUME Types, SnapshotInv, Finish("backfill"), today' = today
  PROVE  BackInv'
<1>1. /\ pc'["backfill"] = "idle" /\ stamp'["backfill"] = 1 /\ asset'["backfill"] = "equity"
      /\ foundOn' = [ex \in FuturesExchanges |-> {}]
  BY DEF Finish, Go, Types, LoopTypes, Job
<1>2. 1 <= today'
  BY Days DEF Types, WorldTypes
<1>3. QED
  BY <1>1, <1>2 DEF BackInv

LEMMA BackLoops ==
  ASSUME Types, SnapshotInv, NEW a, NEW exchanges, NEW type, Loop("backfill", a, exchanges, type),
         a = "futures" => type = "FUT",
         file' = file, today' = today, at'[home'["backfill"]] = "open"
  PROVE  BackInv'
<1>1. /\ pc'["backfill"] = "next" /\ stamp' = stamp /\ foundOn' = foundOn
      /\ asset'["backfill"] = a /\ wanted'["backfill"] = type
  BY DEF Loop, Go, Types, LoopTypes, Job
<1>2. QED
  BY <1>1 DEF SnapshotInv, BackInv, Fetched

\* The exchange that the backfill has found, or fetched, is in the newest snapshot.
LEMMA BackLoaded ==
  ASSUME Types, SnapshotInv, Loaded("backfill"), Reading("backfill"),
         pc["backfill"] \in {"load", "reload"},
         Fetched(cur["backfill"]) \subseteq Snapshot
  PROVE  BackInv'
<1>0. /\ BackInv /\ "backfill" \in Job /\ cur["backfill"] \in Exchange
      /\ asset["backfill"] \in {"equity", "futures"}
      /\ pc \in [Job -> Stage] /\ view \in [Job -> SUBSET Listed]
      /\ foundOn \in [FuturesExchanges -> SUBSET Day]
  BY DEF SnapshotInv, Types, LoopTypes, Job, Asset
<1>1. UNCHANGED <<file, at, today, home, asset, cur, wanted, stamp, got>>
  BY DEF Reading
<1>2. Snapshot' = Snapshot
  BY <1>1, SnapshotStays
<1>3. pc'["backfill"] = IF Preloading("backfill") THEN "next"
                        ELSE IF asset["backfill"] = "futures" THEN "walk" ELSE "query"
  BY <1>0 DEF Loaded, Go
<1>4. asset["backfill"] = "futures" => view'["backfill"] = WantedFutures(cur["backfill"])
  <2>1. Snapshot \subseteq Listed
    <3>1. \A d \in Newest : file.rows[d] \subseteq Listed
      BY NewestIsDay DEF Types, DatabaseTypes, DatabaseTypeOK
    <3>2. QED
      BY <3>1 DEF Snapshot
  <2>2. LatestInstruments(cur["backfill"], "FUT") = WantedFutures(cur["backfill"])
    BY <2>1 DEF LatestInstruments, WantedFutures, Fetched
  <2>3. asset["backfill"] = "futures" => wanted["backfill"] = "FUT"
    BY <1>0 DEF BackInv
  <2>4. QED
    BY <1>0, <2>2, <2>3 DEF Loaded
<1>5. ASSUME NEW ex \in FuturesExchanges, NEW d \in foundOn'[ex]
      PROVE  Fetched(ex) \subseteq file'.rows[d]
  <2>1. CASE d \in foundOn[ex]
    BY <1>0, <1>1, <2>1 DEF BackInv
  <2>2. CASE d \notin foundOn[ex]
    <3>1. ex = cur["backfill"] /\ d \in Newest
      BY <1>0, <2>2, <1>5 DEF Loaded
    <3>2. QED
      BY <1>1, <3>1, SnapshotIs
  <2>3. QED
    BY <2>1, <2>2
<1>6. at[home["backfill"]] = "open"
  BY <1>0 DEF BackInv
<1>7. QED
  BY <1>0, <1>1, <1>2, <1>3, <1>4, <1>5, <1>6 DEF BackInv, Preloading, Fetched, WantedFutures

LEMMA BackJobStep ==
  ASSUME Types, SnapshotInv, JobStep("backfill")
  PROVE  BackInv'
<1>0. /\ BackInv /\ "backfill" \in Job /\ stamp["backfill"] \in Day /\ cur["backfill"] \in Exchange
      /\ pc \in [Job -> Stage] /\ got \in [Job -> SUBSET Listed] /\ view \in [Job -> SUBSET Listed]
      /\ file.rows \in [Day -> SUBSET Listed]
      /\ foundOn \in [FuturesExchanges -> SUBSET Day]
  BY DEF SnapshotInv, Types, LoopTypes, DatabaseTypes, DatabaseTypeOK, Job
<1>1. at' = at /\ today' = today
  BY <1>0, JobDatabase
  DEF JobQuiet, JobStep, NextExchange, EndLoop, FetchFails, BeginUpsert, CommitUpsert, StoreLocked,
      Query, QueryIndices, Mark, EndWalk, LoopError, Reading
<1>2. CASE NextExchange("backfill")
  <2>1. pc'["backfill"] = "load" /\ UNCHANGED <<file, home, asset, wanted, stamp, foundOn>>
    BY <1>0, <1>2 DEF NextExchange, Go, databaseVars
  <2>2. at[home["backfill"]] = "open"
    BY <1>0, <1>2 DEF NextExchange, BackInv
  <2>3. QED
    BY <1>0, <1>1, <2>1, <2>2 DEF BackInv, Fetched
<1>3. CASE EndLoop("backfill")
  <2>1. UNCHANGED <<file, home>> /\ at[home["backfill"]] = "open"
    BY <1>0, <1>3 DEF EndLoop, databaseVars, BackInv
  <2>2. CASE Loop("backfill", "equity", EquityExchanges, "EQ")
    BY <1>1, <2>1, <2>2, BackLoops
  <2>3. CASE Abandon("backfill")
    BY <1>1, <2>3, BackEnds DEF Abandon
  <2>4. QED
    BY <1>3, <2>2, <2>3 DEF EndLoop
<1>4. CASE FetchFails("backfill") \/ StoreLocked("backfill") \/ LoopError("backfill")
  BY <1>1, <1>4, BackEnds DEF FetchFails, StoreLocked, LoopError, Abandon
<1>5. CASE BeginUpsert("backfill")
  <2>1. /\ pc["backfill"] = "store" /\ pc'["backfill"] = "commit"
        /\ UNCHANGED <<file, home, asset, cur, wanted, stamp, got, foundOn>>
    BY <1>0, <1>5 DEF BeginUpsert, Go
  <2>2. QED
    BY <1>0, <1>1, <2>1 DEF BackInv, Fetched
<1>6. CASE CommitUpsert("backfill")
  <2>1. /\ pc["backfill"] = "commit" /\ pc'["backfill"] = "reload"
        /\ UNCHANGED <<home, asset, cur, wanted, stamp, foundOn>>
    BY <1>0, <1>6 DEF CommitUpsert, Go
  <2>2. /\ got["backfill"] = Fetched(cur["backfill"])
        /\ \A d \in Day : d > stamp["backfill"] /\ file.rows[d] # {} => All \subseteq file.rows[d]
    BY <1>0, <2>1 DEF BackInv
  <2>3. file'.rows = [file.rows EXCEPT ![stamp["backfill"]] = @ \cup Fetched(cur["backfill"])]
    BY <1>0, <1>6, <2>2, CommitRows
  <2>4. Types'
    <3>1. [Next]_vars
      BY <1>0, <1>6 DEF Next, JobStep
    <3>2. QED
      BY <3>1, TypeStep
  <2>5. Fetched(cur["backfill"]) \in SUBSET Listed /\ Fetched(cur["backfill"]) \subseteq All
    BY <1>0 DEF Fetched, All
  <2>6. Fetched(cur["backfill"]) \subseteq Snapshot'
    <3> DEFINE X == Fetched(cur["backfill"])
    <3>1. \A d \in Day : d > stamp["backfill"] /\ file.rows[d] # {} => X \subseteq file.rows[d]
      BY <2>2, <2>5
    <3>2. /\ X \in SUBSET Listed /\ stamp["backfill"] \in Day
          /\ file'.rows = [file.rows EXCEPT ![stamp["backfill"]] = @ \cup X]
      BY <1>0, <2>3, <2>5
    <3> HIDE DEF X
    <3>3. X \subseteq Snapshot'
      BY <2>4, <3>1, <3>2, CommitKeeps
    <3>4. QED
      BY <3>3 DEF X
  <2>7. \A d \in Day : file.rows[d] \subseteq file'.rows[d]
    BY <1>0, <2>3
  <2>8. \A ex \in FuturesExchanges : \A d \in foundOn[ex] : Fetched(ex) \subseteq file'.rows[d]
    BY <1>0, <2>7 DEF BackInv
  <2>9. QED
    BY <1>0, <1>1, <2>1, <2>6, <2>8 DEF BackInv, Fetched
<1>7. CASE Query("backfill") \/ QueryIndices("backfill")
  <2>1. /\ pc["backfill"] \in {"query", "indices"}
        /\ pc'["backfill"] \in {"indices", "walk"}
        /\ UNCHANGED <<file, home, asset, cur, wanted, stamp, foundOn>>
    BY <1>0, <1>7 DEF Query, QueryIndices, Reading, Go
  <2>2. asset["backfill"] = "equity"
    BY <1>0, <2>1 DEF BackInv
  <2>3. QED
    BY <1>0, <1>1, <2>1, <2>2, SnapshotStays DEF BackInv, Fetched
<1>8. CASE Mark("backfill")
  BY <1>0, <1>1, <1>8 DEF Mark, jobVars, BackInv, Fetched, WantedFutures
<1>9. CASE EndWalk("backfill")
  <2>1. /\ pc["backfill"] = "walk" /\ pc'["backfill"] = "next"
        /\ UNCHANGED <<file, home, asset, cur, wanted, stamp, foundOn>>
    BY <1>0, <1>9 DEF EndWalk, Go, databaseVars
  <2>2. QED
    BY <1>0, <1>1, <2>1 DEF BackInv, Fetched
<1>10. QED
  BY <1>2, <1>3, <1>4, <1>5, <1>6, <1>7, <1>8, <1>9 DEF JobStep

LEMMA BackOwnStep ==
  ASSUME Types, SnapshotInv, Dump \/ Load \/ Reload \/ \E p \in Process : StartBackfill(p)
  PROVE  BackInv'
<1>0. /\ BackInv /\ RowsInv /\ "backfill" \in Job /\ today \in Day /\ home \in [Job -> Process]
      /\ pc \in [Job -> Stage] /\ got \in [Job -> SUBSET Listed] /\ stamp \in [Job -> Day]
  BY DEF SnapshotInv, Types, LoopTypes, WorldTypes, Job
<1>1. CASE Dump
  <2>1. /\ pc["backfill"] = "dump" /\ pc'["backfill"] = "store"
        /\ got'["backfill"] = Fetched(cur["backfill"]) /\ stamp'["backfill"] = today
        /\ UNCHANGED <<file, at, today, home, asset, cur, wanted, foundOn>>
    BY <1>0, <1>1 DEF Dump, Stamp, Go, databaseVars
  <2>2. \A d \in Day : d > today => file.rows[d] = {}
    BY <1>0 DEF RowsInv, NoFuture
  <2>3. today <= today
    BY <1>0, Days
  <2>4. QED
    BY <1>0, <2>1, <2>2, <2>3 DEF BackInv, Fetched
<1>2. CASE Load
  <2>1. CASE LatestInstruments(cur["backfill"], wanted["backfill"]) = {}
    <3>1. /\ pc["backfill"] = "load" /\ pc'["backfill"] = "dump"
          /\ UNCHANGED <<file, at, today, home, asset, cur, wanted, stamp, got, view, foundOn>>
      BY <1>0, <1>2, <2>1 DEF Load, Reading, Go
    <3>2. QED
      BY <1>0, <3>1 DEF BackInv, Fetched
  <2>2. CASE LatestInstruments(cur["backfill"], wanted["backfill"]) # {}
    <3>1. PICK i \in Snapshot : i.exchange = cur["backfill"]
      BY <2>2 DEF LatestInstruments
    <3>2. Fetched(cur["backfill"]) \subseteq Snapshot
      BY <1>0, <3>1, FoundWhole DEF RowsInv
    <3>3. QED
      BY <1>2, <2>2, <3>2, BackLoaded DEF Load
  <2>3. QED
    BY <2>1, <2>2
<1>3. CASE Reload
  <2>1. Fetched(cur["backfill"]) \subseteq Snapshot
    BY <1>0, <1>3 DEF Reload, BackInv
  <2>2. QED
    BY <1>3, <2>1, BackLoaded DEF Reload
<1>4. ASSUME NEW p \in Process, StartBackfill(p)
      PROVE  BackInv'
  <2>1. at'[home'["backfill"]] = "open" /\ UNCHANGED <<file, today>>
    BY <1>0, <1>4 DEF StartBackfill, databaseVars
  <2>2. PICK a, exchanges, type :
          Loop("backfill", a, exchanges, type) /\ (a = "futures" => type = "FUT")
    BY <1>4 DEF StartBackfill
  <2>3. QED
    BY <2>1, <2>2, BackLoops
<1>5. QED
  BY <1>1, <1>2, <1>3, <1>4

LEMMA BackStep ==
  ASSUME Types, SnapshotInv, [Next]_vars
  PROVE  BackInv'
<1>0. /\ BackInv /\ "backfill" \in Job \ {"nightly"} /\ "nightly" \in Job /\ Job = {"nightly", "backfill"}
  BY DEF SnapshotInv, Job
<1>1. CASE JobStep("backfill") \/ Dump \/ Load \/ Reload \/ \E p \in Process : StartBackfill(p)
  BY <1>1, BackJobStep, BackOwnStep
<1>2. CASE JobStep("nightly") \/ StartNightly \/ FetchExchange \/ Publish
  <2>1. Stays("backfill")
    BY <1>0, <1>2, JobStays, OwnStays
  <2>2. ~StartContainer /\ ~EndContainer
    <3>1. at' = at
      BY <1>0, <1>2, JobDatabase, OwnDatabase DEF OwnStep, JobQuiet
    <3>2. QED
      BY <3>1 DEF StartContainer, Boot, EndContainer, ContainerEnds, Types, DatabaseTypes,
                  DatabaseTypeOK, Down, Process
  <2>3. file'.rows = file.rows \/ CommitUpsert("nightly")
    BY <1>0, <1>2, JobRows DEF OwnStep, RowsStay
  <2>4. QED
    BY <2>1, <2>2, <2>3, BackStays
<1>3. CASE EndCommand
  <2>1. CASE Finish("backfill") /\ today' = today
    BY <2>1, BackEnds
  <2>2. CASE /\ home["backfill"] # "command"
             /\ UNCHANGED <<pc, asset, left, cur, wanted, stamp, got, conn, view, foundOn>>
    <3>1. home["backfill"] = "service" /\ home'["backfill"] = "service"
      BY <1>0, <1>3, <2>2 DEF EndCommand, Types, WorldTypes, Process
    <3>2. at'["service"] = at["service"] /\ file' = file /\ today' = today
      BY <1>3 DEF EndCommand, CommandEnds, Types, DatabaseTypes, DatabaseTypeOK, Process
    <3>3. QED
      BY <1>0, <2>2, <3>1, <3>2, SnapshotStays DEF BackInv, Fetched, WantedFutures
  <2>3. QED
    BY <1>3, <2>1, <2>2 DEF EndCommand
<1>4. CASE OtherStep /\ ~StartContainer /\ ~EndContainer /\ ~EndCommand
  <2>1. Stays("backfill")
    BY <1>4 DEF OtherStep, Open, Around, Tick, jobVars, Stays
  <2>2. file'.rows = file.rows
    BY <1>4, OtherRows DEF RowsStay
  <2>3. QED
    BY <1>4, <2>1, <2>2, BackStays
<1>5. CASE StartContainer
  <2>1. /\ \A p \in Process : at[p] = "down"
        /\ UNCHANGED <<today, pc, home, asset, wanted, stamp, foundOn>>
    BY <1>5 DEF StartContainer, Boot, jobVars, Down
  <2>2. home["backfill"] \in Process
    BY <1>0 DEF Types, WorldTypes
  <2>3. pc["backfill"] = "idle"
    BY <1>0, <2>1, <2>2 DEF BackInv
  <2>4. QED
    BY <1>0, <2>1, <2>3 DEF BackInv
<1>6. CASE EndContainer
  <2>1. /\ pc'["backfill"] = "idle" /\ stamp'["backfill"] = 1 /\ asset'["backfill"] = "equity"
        /\ foundOn' = [ex \in FuturesExchanges |-> {}] /\ today' = today
    BY <1>0, <1>6 DEF EndContainer, NoJobs
  <2>2. 1 <= today
    BY Days DEF Types, WorldTypes
  <2>3. QED
    BY <2>1, <2>2 DEF BackInv
<1>7. CASE UNCHANGED vars
  <2>1. UNCHANGED <<file, at, today, home, pc, asset, cur, wanted, stamp, got, view, foundOn>>
    BY <1>7 DEF vars, databaseVars, jobVars
  <2>2. QED
    BY <1>0, <2>1, SnapshotStays DEF BackInv, Fetched, WantedFutures
<1>8. QED
  BY <1>0, <1>1, <1>2, <1>3, <1>4, <1>5, <1>6, <1>7, Steps DEF OwnStep

LEMMA SnapshotInit == Init => SnapshotInv
<1> SUFFICES ASSUME Init PROVE SnapshotInv
  OBVIOUS
<1>1. \A d \in Day : file.rows[d] = {} /\ replica.rows[d] = {}
  BY DEF Init, DatabaseInit
<1>2. /\ \A j \in Job : pc[j] = "idle" /\ stamp[j] = 1 /\ home[j] = "service" /\ asset[j] = "equity"
      /\ today = 1 /\ foundOn = [ex \in FuturesExchanges |-> {}]
      /\ "nightly" \in Job /\ "backfill" \in Job
  BY DEF Init, Job
<1>3. RowsInv
  BY <1>1 DEF RowsInv, Uniform, NoFuture
<1>4. NightInv
  BY <1>2 DEF NightInv
<1>5. BackInv
  BY <1>2 DEF BackInv
<1>6. QED
  BY <1>3, <1>4, <1>5 DEF SnapshotInv

LEMMA SnapshotStep == Types /\ SnapshotInv /\ [Next]_vars => SnapshotInv'
BY RowsStep, NightStep, BackStep DEF SnapshotInv

LEMMA SnapshotAlways == Spec => [](Types /\ SnapshotInv)
BY TypeInit, SnapshotInit, TypeStep, SnapshotStep, PTL DEF Spec

\* What a backfill has fetched because it was missing is what it reads back, whatever
\* the nightly run stores between its two queries, and past any number of midnights.
THEOREM BackfillReadsBack == Spec => []BackfillLoads
<1>1. Types /\ SnapshotInv => BackfillLoads
  <2> SUFFICES ASSUME Types, SnapshotInv PROVE BackfillLoads
    OBVIOUS
  <2>1. Snapshot \subseteq Listed
    <3>1. \A d \in Newest : file.rows[d] \subseteq Listed
      BY NewestIsDay DEF Types, DatabaseTypes, DatabaseTypeOK
    <3>2. QED
      BY <3>1 DEF Snapshot
  <2>2. pc["backfill"] = "query" => Fetched(cur["backfill"]) \subseteq Snapshot
    BY DEF SnapshotInv, BackInv
  <2>3. QED
    BY <2>1, <2>2 DEF SnapshotInv, BackInv, BackfillLoads, LatestInstruments, Fetched, Wanted
<1>2. QED
  BY <1>1, SnapshotAlways, PTL

-----------------------------------------------------------------------------
(* What the queries give, where the config asks for the stocks with        *)
(* futures, as the deployed one does.                                      *)

\* The part of the universe that the first query is to give.
Stocks(ex) == {i \in WantedEquity(ex) : i.segment # "INDICES"}

\* A backfill past midnight has stored a newer snapshot.
Newer == \E d \in Newest : d > stamp["nightly"]

\* There is a snapshot newer than the futures that the backfill has found.
Hidden == \E ex \in FuturesExchanges : \E d \in Newest : \A e \in foundOn[ex] : e < d

NightView ==
  /\ pc["nightly"] = "indices" =>
       asset["nightly"] = "equity" /\ (view["nightly"] = Stocks(cur["nightly"]) \/ Newer)
  /\ pc["nightly"] = "walk" => view["nightly"] = Wanted("nightly") \/ Newer

BackView ==
  /\ pc["backfill"] = "indices" => view["backfill"] = Stocks(cur["backfill"]) \/ Hidden
  /\ pc["backfill"] = "walk" /\ asset["backfill"] = "equity" =>
       view["backfill"] = Wanted("backfill") \/ Hidden

LEMMA SnapshotListed == Types => Snapshot \subseteq Listed
<1> SUFFICES ASSUME Types PROVE Snapshot \subseteq Listed
  OBVIOUS
<1>1. \A d \in Newest : file.rows[d] \subseteq Listed
  BY NewestIsDay DEF Types, DatabaseTypes, DatabaseTypeOK
<1>2. QED
  BY <1>1 DEF Snapshot

\* The newest snapshot only gets newer.
LEMMA NewestGrows ==
  ASSUME Types, [Next]_vars, ~StartContainer, NEW d \in Newest
  PROVE  \E n \in Newest' : n >= d
<1>1. d \in Day /\ file.rows[d] # {}
  BY NewestIsDay
<1>2. file'.rows[d] # {}
  BY <1>1, RowsGrow
<1>3. PICK n \in Day : n >= d /\ file'.rows[n] # {} /\ \A e \in Day : e > n => file'.rows[e] = {}
  BY <1>1, <1>2, NewestExists
<1>4. n \in Newest'
  BY <1>3 DEF Newest
<1>5. QED
  BY <1>3, <1>4

LEMMA NewerStays ==
  ASSUME Types, [Next]_vars, ~StartContainer, stamp'["nightly"] = stamp["nightly"], Newer
  PROVE  Newer'
<1>1. PICK d \in Newest : d > stamp["nightly"]
  BY DEF Newer
<1>2. PICK n \in Newest' : n >= d
  BY <1>1, NewestGrows
<1>3. d \in Int /\ stamp["nightly"] \in Int
  BY NewestIsDay, Days DEF Types, LoopTypes, Job
<1>4. n \in Int
  BY <1>2, Days DEF Newest
<1>5. n > stamp'["nightly"]
  BY <1>1, <1>2, <1>3, <1>4
<1>6. QED
  BY <1>2, <1>5 DEF Newer

LEMMA HiddenStays ==
  ASSUME Types, [Next]_vars, ~StartContainer, foundOn' = foundOn, Hidden
  PROVE  Hidden'
<1>1. PICK ex \in FuturesExchanges : \E d \in Newest : \A e \in foundOn[ex] : e < d
  BY DEF Hidden
<1>2. PICK d \in Newest : \A e \in foundOn[ex] : e < d
  BY <1>1
<1>3. PICK n \in Newest' : n >= d
  BY <1>2, NewestGrows
<1>4. d \in Int /\ \A e \in foundOn[ex] : e \in Int
  BY NewestIsDay, Days DEF Types, LoopTypes
<1>5. n \in Int
  BY <1>3, Days DEF Newest
<1>6. \A e \in foundOn'[ex] : e < n
  BY <1>2, <1>3, <1>4, <1>5
<1>7. QED
  BY <1>3, <1>6 DEF Hidden

\* The first query, when the exchange and the futures are in the newest snapshot.
LEMMA EquitiesWhole ==
  ASSUME Types, FnOOnly, FuturesExchanges # {}, NEW ex \in Exchange,
         Fetched(ex) \subseteq Snapshot,
         Fetched(ex) = {} \/ \A x \in FuturesExchanges : Fetched(x) \subseteq Snapshot
  PROVE  EquitiesFromDB(ex) = Stocks(ex)
<1>1. Snapshot \subseteq Listed
  BY SnapshotListed
<1>2. EquitiesFromDB(ex) =
        {i \in LatestInstruments(ex, "EQ") :
           /\ i.segment # "INDICES"
           /\ \E x \in FuturesExchanges : \E f \in LatestInstruments(x, "FUT") : f.name = i.symbol}
  BY DEF EquitiesFromDB, FnOEquityInstruments
<1>3. LatestInstruments(ex, "EQ") = {i \in Fetched(ex) : i.type = "EQ"}
  BY <1>1 DEF LatestInstruments, Fetched
<1>4. Stocks(ex) =
        {i \in Fetched(ex) :
           /\ i.segment # "INDICES" /\ i.type = "EQ"
           /\ \E f \in Listed : f.exchange \in FuturesExchanges /\ f.type = "FUT" /\ f.name = i.symbol}
  BY DEF Stocks, WantedEquity, Fetched
<1>5. CASE Fetched(ex) = {}
  BY <1>2, <1>3, <1>4, <1>5
<1>6. CASE \A x \in FuturesExchanges : Fetched(x) \subseteq Snapshot
  <2>1. \A x \in FuturesExchanges :
          LatestInstruments(x, "FUT") = {f \in Listed : f.exchange = x /\ f.type = "FUT"}
    BY <1>1, <1>6 DEF LatestInstruments, Fetched
  <2>2. \A i \in Fetched(ex) :
          (\E x \in FuturesExchanges : \E f \in LatestInstruments(x, "FUT") : f.name = i.symbol)
          <=> \E f \in Listed : f.exchange \in FuturesExchanges /\ f.type = "FUT" /\ f.name = i.symbol
    BY <2>1
  <2>3. QED
    BY <1>2, <1>3, <1>4, <2>2
<1>7. QED
  BY <1>5, <1>6

\* The second query.
LEMMA IndicesWhole ==
  ASSUME Types, NEW ex \in Exchange, Fetched(ex) \subseteq Snapshot
  PROVE  Stocks(ex) \cup IndicesFromDB(ex) = WantedEquity(ex)
<1>1. Snapshot \subseteq Listed
  BY SnapshotListed
<1>2. IndicesFromDB(ex) =
        {i \in Listed : /\ i.exchange = ex /\ i.segment = "INDICES"
                        /\ IncludeIndices /\ (Indices = {} \/ i.symbol \in Indices)}
  BY <1>1 DEF IndicesFromDB, LatestInstrumentsBySegment, Fetched
<1>3. QED
  BY <1>2 DEF Stocks, WantedEquity

LEMMA NoIndices == ~IncludeIndices => \A ex : Stocks(ex) = WantedEquity(ex)
BY DEF Stocks, WantedEquity

LEMMA FuturesWhole ==
  ASSUME Types, NEW ex \in Exchange, Fetched(ex) \subseteq Snapshot
  PROVE  LatestInstruments(ex, "FUT") = WantedFutures(ex)
BY SnapshotListed DEF LatestInstruments, WantedFutures, Fetched

\* Unless a backfill has stored a newer one, the nightly run's snapshot is the newest.
LEMMA NightWhole ==
  ASSUME Types, SnapshotInv, pc["nightly"] \in {"query", "indices"}, ~Newer
  PROVE  \A ex \in Exchange : Fetched(ex) \subseteq Snapshot
<1>0. stamp["nightly"] \in Day /\ All \subseteq file.rows[stamp["nightly"]]
  BY DEF SnapshotInv, NightInv, Types, LoopTypes, Job
<1>1. All \subseteq Snapshot
  <2>1. SUFFICES ASSUME All # {} PROVE All \subseteq Snapshot
    OBVIOUS
  <2>2. file.rows[stamp["nightly"]] # {}
    BY <1>0, <2>1
  <2>3. PICK n \in Day : /\ n >= stamp["nightly"] /\ file.rows[n] # {}
                         /\ \A e \in Day : e > n => file.rows[e] = {}
    BY <1>0, <2>2, NewestExists
  <2>4. n \in Newest
    BY <2>3 DEF Newest
  <2>5. n = stamp["nightly"]
    BY <1>0, <2>3, <2>4, Days DEF Newer
  <2>6. QED
    BY <1>0, <2>4, <2>5, SnapshotIs
<1>2. QED
  BY <1>1 DEF All, Fetched

\* Unless a newer snapshot hides one, the futures that the backfill has found are in
\* the newest.
LEMMA BackWhole ==
  ASSUME Types, SnapshotInv, pc["backfill"] \in {"query", "indices"}, ~Hidden
  PROVE  /\ Fetched(cur["backfill"]) \subseteq Snapshot
         /\ \/ Fetched(cur["backfill"]) = {}
            \/ \A x \in FuturesExchanges : Fetched(x) \subseteq Snapshot
<1>1. Fetched(cur["backfill"]) \subseteq Snapshot
  BY DEF SnapshotInv, BackInv
<1>2. SUFFICES ASSUME NEW i \in Snapshot, NEW x \in FuturesExchanges
               PROVE  Fetched(x) \subseteq Snapshot
  BY <1>1
<1>3. PICK d \in Newest : i \in file.rows[d]
  BY DEF Snapshot
<1>4. PICK e \in foundOn[x] : ~(e < d)
  BY <1>3 DEF Hidden
<1>5. /\ d \in Day /\ e \in Day /\ e >= d
      /\ \A n \in Day : n > d => file.rows[n] = {}
  BY <1>3, <1>4, Days DEF Newest, Types, LoopTypes
<1>6. Fetched(x) \subseteq file.rows[e]
  BY <1>4 DEF SnapshotInv, BackInv
<1>7. CASE e = d
  BY <1>3, <1>6, <1>7, SnapshotIs
<1>8. CASE e # d
  BY <1>5, <1>6, <1>8, Days
<1>9. QED
  BY <1>7, <1>8

LEMMA NightViewStep ==
  ASSUME Types, SnapshotInv, NightView, [Next]_vars, FnOOnly, FuturesExchanges # {}
  PROVE  NightView'
<1>0. /\ "nightly" \in Job /\ "nightly" \in Job \ {"backfill"} /\ Job = {"nightly", "backfill"}
      /\ pc \in [Job -> Stage] /\ view \in [Job -> SUBSET Listed] /\ asset \in [Job -> Asset]
      /\ cur["nightly"] \in Exchange
  BY DEF Types, LoopTypes, Job
<1>1. CASE Stays("nightly") /\ ~StartContainer
  <2>1. Newer => Newer'
    BY <1>1, NewerStays DEF Stays
  <2>2. QED
    BY <1>1, <2>1 DEF NightView, Stays, Stocks, WantedEquity, Wanted, WantedFutures
<1>2. CASE pc'["nightly"] \notin {"indices", "walk"}
  BY <1>2 DEF NightView
<1>3. CASE Query("nightly")
  <2>1. /\ pc["nightly"] = "query"
        /\ UNCHANGED <<file, stamp, asset, cur>>
        /\ view'["nightly"] = IF asset["nightly"] = "equity" THEN EquitiesFromDB(cur["nightly"])
                              ELSE LatestInstruments(cur["nightly"], "FUT")
        /\ pc'["nightly"] = IF asset["nightly"] = "equity" /\ IncludeIndices THEN "indices" ELSE "walk"
    BY <1>0, <1>3 DEF Query, Reading, Go
  <2>2. Newer' = Newer
    BY <2>1 DEF Newer, Newest
  <2>3. CASE Newer
    BY <2>1, <2>2, <2>3 DEF NightView
  <2>4. CASE ~Newer
    <3>1. \A ex \in Exchange : Fetched(ex) \subseteq Snapshot
      BY <2>1, <2>4, NightWhole
    <3>2. \A x \in FuturesExchanges : Fetched(x) \subseteq Snapshot
      BY <3>1, Exchanges
    <3>3. /\ EquitiesFromDB(cur["nightly"]) = Stocks(cur["nightly"])
          /\ LatestInstruments(cur["nightly"], "FUT") = WantedFutures(cur["nightly"])
      BY <1>0, <3>1, <3>2, EquitiesWhole, FuturesWhole
    <3>4. QED
      BY <2>1, <3>3, NoIndices DEF NightView, Wanted, Stocks, WantedEquity, WantedFutures
  <2>5. QED
    BY <2>3, <2>4
<1>4. CASE QueryIndices("nightly")
  <2>1. /\ pc["nightly"] = "indices" /\ pc'["nightly"] = "walk"
        /\ UNCHANGED <<file, stamp, asset, cur>>
        /\ view'["nightly"] = view["nightly"] \cup IndicesFromDB(cur["nightly"])
    BY <1>0, <1>4 DEF QueryIndices, Reading, Go
  <2>2. Newer' = Newer
    BY <2>1 DEF Newer, Newest
  <2>3. CASE Newer
    BY <2>1, <2>2, <2>3 DEF NightView
  <2>4. CASE ~Newer
    <3>1. Fetched(cur["nightly"]) \subseteq Snapshot
      BY <1>0, <2>1, <2>4, NightWhole
    <3>2. view'["nightly"] = WantedEquity(cur["nightly"])
      BY <1>0, <2>1, <2>4, <3>1, IndicesWhole DEF NightView
    <3>3. asset["nightly"] = "equity"
      BY <2>1 DEF NightView
    <3>4. QED
      BY <2>1, <3>2, <3>3 DEF NightView, Wanted, WantedEquity
  <2>5. QED
    BY <2>3, <2>4
<1>5. CASE Mark("nightly")
  BY <1>5 DEF Mark, jobVars, NightView, Newer, Newest, Stocks, WantedEquity, Wanted, WantedFutures
<1>6. CASE UNCHANGED vars
  BY <1>6 DEF vars, databaseVars, jobVars, NightView, Newer, Newest, Stocks, WantedEquity, Wanted,
              WantedFutures
<1>7. QED
  <2>1. CASE JobStep("nightly") \/ StartNightly \/ FetchExchange \/ Publish
    <3>1. \/ pc'["nightly"] \notin {"indices", "walk"}
          \/ Query("nightly") \/ QueryIndices("nightly") \/ Mark("nightly")
      BY <1>0, <2>1
      DEF JobStep, NextExchange, EndLoop, FetchFails, BeginUpsert, CommitUpsert, StoreLocked,
          EndWalk, LoopError, Abandon, EndPass, Loop, Finish, StartNightly, FetchExchange, Publish, Go
    <3>2. QED
      BY <1>2, <1>3, <1>4, <1>5, <3>1
  <2>2. CASE JobStep("backfill") \/ Dump \/ Load \/ Reload \/ \E p \in Process : StartBackfill(p)
    <3>1. at' = at /\ Stays("nightly")
      BY <1>0, <2>2, JobDatabase, OwnDatabase, JobStays, OwnStays DEF OwnStep, JobQuiet
    <3>2. ~StartContainer
      BY <3>1 DEF StartContainer, Boot, Types, DatabaseTypes, DatabaseTypeOK, Down, Process
    <3>3. QED
      BY <1>1, <3>1, <3>2
  <2>3. CASE StartContainer
    <3>1. at["service"] = "down" /\ pc' = pc
      BY <2>3 DEF StartContainer, Boot, jobVars, Down, Process
    <3>2. QED
      BY <1>2, <3>1 DEF SnapshotInv, NightInv
  <2>4. CASE EndContainer
    BY <1>0, <1>2, <2>4 DEF EndContainer, NoJobs
  <2>5. CASE OtherStep /\ ~StartContainer /\ ~EndContainer
    BY <1>1, <2>5, OtherStaysNight
  <2>6. QED
    BY <1>0, <1>6, <2>1, <2>2, <2>3, <2>4, <2>5, Steps DEF OwnStep

LEMMA BackViewStep ==
  ASSUME Types, SnapshotInv, BackView, [Next]_vars, FnOOnly, FuturesExchanges # {}
  PROVE  BackView'
<1>0. /\ "backfill" \in Job /\ "backfill" \in Job \ {"nightly"} /\ Job = {"nightly", "backfill"}
      /\ pc \in [Job -> Stage] /\ view \in [Job -> SUBSET Listed] /\ asset \in [Job -> Asset]
      /\ cur["backfill"] \in Exchange
  BY DEF Types, LoopTypes, Job
<1>1. CASE Stays("backfill") /\ ~StartContainer
  <2>1. Hidden => Hidden'
    BY <1>1, HiddenStays DEF Stays
  <2>2. QED
    BY <1>1, <2>1 DEF BackView, Stays, Stocks, WantedEquity, Wanted, WantedFutures
<1>2. CASE \/ pc'["backfill"] \notin {"indices", "walk"}
           \/ pc'["backfill"] = "walk" /\ asset'["backfill"] = "futures"
  BY <1>2 DEF BackView
<1>3. CASE Query("backfill")
  <2>1. /\ pc["backfill"] = "query"
        /\ UNCHANGED <<file, foundOn, asset, cur>>
        /\ view'["backfill"] = IF asset["backfill"] = "equity" THEN EquitiesFromDB(cur["backfill"])
                               ELSE LatestInstruments(cur["backfill"], "FUT")
        /\ pc'["backfill"] = IF asset["backfill"] = "equity" /\ IncludeIndices THEN "indices" ELSE "walk"
    BY <1>0, <1>3 DEF Query, Reading, Go
  <2>2. Hidden' = Hidden
    BY <2>1 DEF Hidden, Newest
  <2>3. CASE Hidden
    BY <2>1, <2>2, <2>3 DEF BackView
  <2>4. CASE ~Hidden
    <3>1. /\ Fetched(cur["backfill"]) \subseteq Snapshot
          /\ \/ Fetched(cur["backfill"]) = {}
             \/ \A x \in FuturesExchanges : Fetched(x) \subseteq Snapshot
      BY <2>1, <2>4, BackWhole
    <3>2. EquitiesFromDB(cur["backfill"]) = Stocks(cur["backfill"])
      BY <1>0, <3>1, EquitiesWhole
    <3>3. asset["backfill"] = "equity"
      BY <2>1 DEF SnapshotInv, BackInv
    <3>4. QED
      BY <2>1, <3>2, <3>3, NoIndices DEF BackView, Wanted, Stocks, WantedEquity
  <2>5. QED
    BY <2>3, <2>4
<1>4. CASE QueryIndices("backfill")
  <2>1. /\ pc["backfill"] = "indices" /\ pc'["backfill"] = "walk"
        /\ UNCHANGED <<file, foundOn, asset, cur>>
        /\ view'["backfill"] = view["backfill"] \cup IndicesFromDB(cur["backfill"])
    BY <1>0, <1>4 DEF QueryIndices, Reading, Go
  <2>2. Hidden' = Hidden
    BY <2>1 DEF Hidden, Newest
  <2>3. CASE Hidden
    BY <2>1, <2>2, <2>3 DEF BackView
  <2>4. CASE ~Hidden
    <3>1. Fetched(cur["backfill"]) \subseteq Snapshot
      BY <1>0, <2>1, <2>4, BackWhole
    <3>2. view'["backfill"] = WantedEquity(cur["backfill"])
      BY <1>0, <2>1, <2>4, <3>1, IndicesWhole DEF BackView
    <3>3. QED
      BY <2>1, <3>2 DEF BackView, Wanted, WantedEquity
  <2>5. QED
    BY <2>3, <2>4
<1>5. CASE Mark("backfill")
  BY <1>5 DEF Mark, jobVars, BackView, Hidden, Newest, Stocks, WantedEquity, Wanted, WantedFutures
<1>6. CASE UNCHANGED vars
  BY <1>6 DEF vars, databaseVars, jobVars, BackView, Hidden, Newest, Stocks, WantedEquity, Wanted,
              WantedFutures
<1>7. QED
  <2>1. CASE JobStep("backfill") \/ Dump \/ Load \/ Reload \/ \E p \in Process : StartBackfill(p)
    <3>1. CASE Load \/ Reload
      BY <1>0, <1>2, <3>1 DEF Load, Reload, Loaded, Reading, Go
    <3>2. CASE Dump \/ \E p \in Process : StartBackfill(p)
      BY <1>0, <1>2, <3>2 DEF Dump, StartBackfill, Loop, Go
    <3>3. CASE JobStep("backfill")
      <4>1. \/ pc'["backfill"] \notin {"indices", "walk"}
            \/ Query("backfill") \/ QueryIndices("backfill") \/ Mark("backfill")
        BY <1>0, <3>3
        DEF JobStep, NextExchange, EndLoop, FetchFails, BeginUpsert, CommitUpsert, StoreLocked,
            EndWalk, LoopError, Abandon, Loop, Finish, Go
      <4>2. QED
        BY <1>2, <1>3, <1>4, <1>5, <4>1
    <3>4. QED
      BY <2>1, <3>1, <3>2, <3>3
  <2>2. CASE JobStep("nightly") \/ StartNightly \/ FetchExchange \/ Publish
    <3>1. at' = at /\ Stays("backfill")
      BY <1>0, <2>2, JobDatabase, OwnDatabase, JobStays, OwnStays DEF OwnStep, JobQuiet
    <3>2. ~StartContainer
      BY <3>1 DEF StartContainer, Boot, Types, DatabaseTypes, DatabaseTypeOK, Down, Process
    <3>3. QED
      BY <1>1, <3>1, <3>2
  <2>3. CASE StartContainer
    <3>1. (\A p \in Process : at[p] = "down") /\ pc' = pc /\ home["backfill"] \in Process
      BY <1>0, <2>3 DEF StartContainer, Boot, jobVars, Down, Types, WorldTypes
    <3>2. pc'["backfill"] = "idle"
      BY <3>1 DEF SnapshotInv, BackInv
    <3>3. QED
      BY <1>2, <3>2
  <2>4. CASE EndContainer
    BY <1>0, <1>2, <2>4 DEF EndContainer, NoJobs
  <2>5. CASE EndCommand /\ Finish("backfill")
    BY <1>0, <1>2, <2>5 DEF Finish, Go
  <2>6. CASE OtherStep /\ ~StartContainer /\ ~EndContainer /\ ~(EndCommand /\ Finish("backfill"))
    <3>1. UNCHANGED <<pc, asset, cur, view, foundOn>>
      BY <2>6 DEF OtherStep, Open, Around, Tick, EndCommand, jobVars
    <3>2. Hidden => Hidden'
      BY <2>6, <3>1, HiddenStays
    <3>3. QED
      BY <3>1, <3>2 DEF BackView, Stocks, WantedEquity, Wanted, WantedFutures
  <2>7. QED
    BY <1>0, <1>6, <2>1, <2>2, <2>3, <2>4, <2>5, <2>6, Steps DEF OwnStep

LEMMA ViewsAlways ==
  ASSUME FnOOnly, FuturesExchanges # {}
  PROVE  Spec => [](NightView /\ BackView)
<1>1. Init => NightView /\ BackView
  BY DEF Init, NightView, BackView, Job
<1>2. Types /\ SnapshotInv /\ NightView /\ BackView /\ [Next]_vars => (NightView /\ BackView)'
  BY NightViewStep, BackViewStep
<1>3. QED
  BY <1>1, <1>2, SnapshotAlways, PTL DEF Spec

\* Where the config asks for the stocks with futures, the nightly run walks exactly
\* what the config asks for, for as long as the snapshot it has stored is the newest.
THEOREM NightlyComplete ==
  ASSUME FnOOnly, FuturesExchanges # {}
  PROVE  Spec => []NightlySeesAll
<1>1. NightView => NightlySeesAll
  BY DEF NightView, NightlySeesAll, Newer
<1>2. QED
  BY <1>1, ViewsAlways, PTL

\* And a backfill, unless there is a snapshot newer than the one in which it has found
\* the futures of some exchange.
THEOREM BackfillComplete ==
  ASSUME FnOOnly, FuturesExchanges # {}
  PROVE  Spec => []HiddenOnlyByNewDay
<1>1. BackView => HiddenOnlyByNewDay
  BY DEF BackView, HiddenOnlyByNewDay, Hidden
<1>2. QED
  BY <1>1, ViewsAlways, PTL

-----------------------------------------------------------------------------
(* Connections.                                                            *)

\* A process whose pool has been used by one job at a time since it was opened.
Apart(p) == at[p] = "open" /\ (p = "service" => ~together)

Works(j, p) == pc[j] # "idle" /\ home[j] = p

Holds(j, p) == pc[j] = "commit" /\ home[j] = p

\* Its pool has one connection, the one that Open has set the pragmas on.
PoolInv ==
  \A p \in Process : Apart(p) =>
    /\ \A j, k \in Job : Works(j, p) /\ Works(k, p) => j = k
    /\ \A j \in Job : Holds(j, p) => idle[p] = {} /\ conn[j] = First
    /\ (\A j \in Job : ~Holds(j, p)) => idle[p] = {First}

\* A job has its process open.
LEMMA WorksOpen ==
  ASSUME SnapshotInv, NEW j \in Job, pc[j] # "idle"
  PROVE  at[home[j]] = "open"
BY DEF SnapshotInv, NightInv, BackInv, Job

LEMMA Connections == First # Second
BY DEF First, Second

\* A job that is alone in its process gets the first connection.
LEMMA GetsFirst ==
  ASSUME PoolInv, NEW j \in Job, home[j] \in Process, Apart(home[j]), pc[j] \notin {"idle", "commit"}
  PROVE  idle[home[j]] = {First} /\ Available(home[j], Crowded(j)) = {First}
<1>1. \A k \in Job : Works(k, home[j]) => k = j
  BY DEF PoolInv, Works
<1>2. \A k \in Job : ~Holds(k, home[j])
  BY <1>1 DEF Holds, Works
<1>3. idle[home[j]] = {First}
  BY <1>2 DEF PoolInv
<1>4. ~Crowded(j)
  BY <1>1 DEF Crowded, Works
<1>5. QED
  BY <1>3, <1>4 DEF Available

\* A call that takes a connection and gives it back leaves such a pool as it is.
LEMMA PoolsStay ==
  ASSUME Types, PoolInv, NEW j \in Job, pc[j] \notin {"idle", "commit"},
         idle' = idle \/ UsePool(j)
  PROVE  \A p \in Process : Apart(p) => idle'[p] = idle[p]
<1>1. CASE idle' = idle
  BY <1>1
<1>2. CASE UsePool(j)
  <2>1. PICK c \in Available(home[j], Crowded(j)) : idle' = [idle EXCEPT ![home[j]] = @ \cup {c}]
    BY <1>2 DEF UsePool, UseConnection
  <2>2. home[j] \in Process /\ idle \in [Process -> SUBSET {First, Second}]
    BY DEF Types, WorldTypes, DatabaseTypes, DatabaseTypeOK
  <2>3. Apart(home[j]) => idle'[home[j]] = idle[home[j]]
    <3>1. SUFFICES ASSUME Apart(home[j]) PROVE idle'[home[j]] = idle[home[j]]
      OBVIOUS
    <3>2. idle[home[j]] = {First} /\ c = First
      BY <2>1, <2>2, <3>1, GetsFirst
    <3>3. QED
      BY <2>1, <2>2, <3>2
  <2>4. QED
    BY <2>1, <2>2, <2>3
<1>3. QED
  BY <1>1, <1>2

\* A step of a job that does not begin or commit a transaction.
LEMMA PoolQuiet ==
  ASSUME Types, PoolInv, NEW j \in Job, UNCHANGED <<at, home, together>>,
         \A k \in Job \ {j} : pc'[k] = pc[k] /\ conn'[k] = conn[k],
         pc[j] \notin {"idle", "commit"}, pc'[j] # "commit",
         idle' = idle \/ UsePool(j)
  PROVE  PoolInv'
<1> SUFFICES ASSUME NEW p \in Process, Apart(p)
             PROVE  /\ \A i, k \in Job : Works(i, p)' /\ Works(k, p)' => i = k
                    /\ \A k \in Job : Holds(k, p)' => idle'[p] = {} /\ conn'[k] = First
                    /\ (\A k \in Job : ~Holds(k, p)') => idle'[p] = {First}
  BY DEF PoolInv, Apart
<1>1. idle'[p] = idle[p]
  BY PoolsStay
<1>2. \A k \in Job : Works(k, p)' => Works(k, p)
  BY DEF Works
<1>3. \A k \in Job : Holds(k, p)' <=> Holds(k, p)
  BY DEF Holds
<1>4. \A k \in Job : Holds(k, p) => conn'[k] = conn[k]
  BY DEF Holds
<1>5. QED
  BY <1>1, <1>2, <1>3, <1>4 DEF PoolInv

LEMMA FinishQuiet ==
  ASSUME Types, NEW j \in Job, Finish(j)
  PROVE  pc'[j] # "commit" /\ \A k \in Job \ {j} : pc'[k] = pc[k] /\ conn'[k] = conn[k]
BY DEF Finish, Forget, Go, Types, LoopTypes

LEMMA LoopQuiet ==
  ASSUME Types, NEW j \in Job, NEW a, NEW exchanges, NEW type, Loop(j, a, exchanges, type)
  PROVE  pc'[j] = "next" /\ \A k \in Job \ {j} : pc'[k] = pc[k] /\ conn'[k] = conn[k]
BY DEF Loop, Forget, Go, Types, LoopTypes

LEMMA AbandonQuiet ==
  ASSUME Types, NEW j \in Job, Abandon(j)
  PROVE  pc'[j] # "commit" /\ \A k \in Job \ {j} : pc'[k] = pc[k] /\ conn'[k] = conn[k]
BY FinishQuiet, LoopQuiet DEF Abandon, EndPass

LEMMA PoolJobStep ==
  ASSUME Types, PoolInv, NEW j \in Job, JobStep(j)
  PROVE  PoolInv'
<1>0. /\ pc \in [Job -> Stage] /\ conn \in [Job -> {First, Second}] /\ home[j] \in Process
      /\ idle \in [Process -> SUBSET {First, Second}]
  BY DEF Types, LoopTypes, WorldTypes, DatabaseTypes, DatabaseTypeOK
<1>1. at' = at /\ UNCHANGED <<home, together>>
  BY JobDatabase
  DEF JobQuiet, JobStep, NextExchange, EndLoop, FetchFails, BeginUpsert, CommitUpsert, StoreLocked,
      Query, QueryIndices, Mark, EndWalk, LoopError, Reading, jobVars
<1>2. CASE NextExchange(j) \/ EndWalk(j)
  BY <1>0, <1>1, <1>2, PoolQuiet DEF NextExchange, EndWalk, Forget, Go, databaseVars
<1>3. CASE EndLoop(j)
  <2>1. pc'[j] # "commit" /\ \A k \in Job \ {j} : pc'[k] = pc[k] /\ conn'[k] = conn[k]
    BY <1>3, LoopQuiet, AbandonQuiet DEF EndLoop
  <2>2. QED
    BY <1>1, <1>3, <2>1, PoolQuiet DEF EndLoop, databaseVars
<1>4. CASE FetchFails(j)
  BY <1>1, <1>4, FinishQuiet, PoolQuiet DEF FetchFails, databaseVars
<1>5. CASE StoreLocked(j)
  BY <1>1, <1>5, FinishQuiet, PoolQuiet DEF StoreLocked
<1>6. CASE LoopError(j)
  BY <1>1, <1>6, AbandonQuiet, PoolQuiet DEF LoopError
<1>7. CASE Query(j) \/ QueryIndices(j)
  <2>1. /\ pc[j] \in {"query", "indices"} /\ pc'[j] \in {"indices", "walk"}
        /\ \A k \in Job \ {j} : pc'[k] = pc[k] /\ conn'[k] = conn[k]
        /\ UsePool(j)
    BY <1>0, <1>7 DEF Query, QueryIndices, Reading, Go
  <2>2. QED
    BY <1>1, <2>1, PoolQuiet
<1>8. CASE Mark(j)
  BY <1>1, <1>8, PoolQuiet DEF Mark, jobVars
<1>9. CASE BeginUpsert(j)
  <2>1. PICK c \in Available(home[j], Crowded(j)) :
          conn' = [conn EXCEPT ![j] = c] /\ idle' = [idle EXCEPT ![home[j]] = @ \ {c}]
    BY <1>9 DEF BeginUpsert
  <2>2. pc[j] = "store" /\ pc' = [pc EXCEPT ![j] = "commit"]
    BY <1>9 DEF BeginUpsert, Go
  <2>3. SUFFICES ASSUME NEW p \in Process, Apart(p)
                 PROVE  /\ \A i, k \in Job : Works(i, p)' /\ Works(k, p)' => i = k
                        /\ \A k \in Job : Holds(k, p)' => idle'[p] = {} /\ conn'[k] = First
                        /\ (\A k \in Job : ~Holds(k, p)') => idle'[p] = {First}
    BY <1>1 DEF PoolInv, Apart
  <2>4. \A k \in Job : Works(k, p)' <=> Works(k, p)
    BY <1>0, <1>1, <2>2 DEF Works
  <2>5. CASE p = home[j]
    <3>1. idle[p] = {First} /\ c = First
      BY <1>0, <2>1, <2>2, <2>3, <2>5, GetsFirst
    <3>2. idle'[p] = {} /\ conn'[j] = First
      BY <1>0, <2>1, <2>5, <3>1
    <3>3. Holds(j, p)' /\ Works(j, p)
      BY <1>0, <1>1, <2>2, <2>5 DEF Holds, Works
    <3>4. \A k \in Job : Holds(k, p)' => Works(k, p)'
      BY DEF Holds, Works
    <3>5. \A i, k \in Job : Works(i, p) /\ Works(k, p) => i = k
      BY <2>3 DEF PoolInv
    <3>6. \A k \in Job : Holds(k, p)' => k = j
      BY <2>4, <3>3, <3>4, <3>5
    <3>7. QED
      BY <2>4, <3>2, <3>3, <3>5, <3>6
  <2>6. CASE p # home[j]
    <3>1. idle'[p] = idle[p]
      BY <1>0, <2>1, <2>6
    <3>2. \A k \in Job : (Holds(k, p)' <=> Holds(k, p)) /\ (Holds(k, p) => conn'[k] = conn[k])
      BY <1>0, <1>1, <2>1, <2>2, <2>6 DEF Holds
    <3>3. QED
      BY <2>3, <2>4, <3>1, <3>2 DEF PoolInv
  <2>7. QED
    BY <2>5, <2>6
<1>10. CASE CommitUpsert(j)
  <2>1. /\ pc[j] = "commit" /\ conn' = conn
        /\ pc' = [pc EXCEPT ![j] = IF j = "nightly" THEN "publish" ELSE "reload"]
        /\ idle' = [idle EXCEPT ![home[j]] = @ \cup {conn[j]}]
    BY <1>10 DEF CommitUpsert, Go
  <2>2. SUFFICES ASSUME NEW p \in Process, Apart(p)
                 PROVE  /\ \A i, k \in Job : Works(i, p)' /\ Works(k, p)' => i = k
                        /\ \A k \in Job : Holds(k, p)' => idle'[p] = {} /\ conn'[k] = First
                        /\ (\A k \in Job : ~Holds(k, p)') => idle'[p] = {First}
    BY <1>1 DEF PoolInv, Apart
  <2>3. \A k \in Job : Works(k, p)' <=> Works(k, p)
    BY <1>0, <1>1, <2>1 DEF Works
  <2>4. CASE p = home[j]
    <3>1. Holds(j, p) /\ Works(j, p)
      BY <2>1, <2>4 DEF Holds, Works
    <3>2. idle[p] = {} /\ conn[j] = First
      BY <2>2, <3>1 DEF PoolInv
    <3>3. idle'[p] = {First}
      BY <1>0, <2>1, <2>4, <3>2
    <3>4. \A i, k \in Job : Works(i, p) /\ Works(k, p) => i = k
      BY <2>2 DEF PoolInv
    <3>5. \A k \in Job : ~Holds(k, p)'
      <4>1. ASSUME NEW k \in Job, Holds(k, p)'  PROVE FALSE
        <5>1. Works(k, p)' /\ pc'[k] = "commit"
          BY <4>1 DEF Holds, Works
        <5>2. k = j
          BY <2>3, <3>1, <3>4, <5>1
        <5>3. QED
          BY <1>0, <2>1, <5>1, <5>2
      <4>2. QED
        BY <4>1
    <3>6. QED
      BY <2>3, <3>3, <3>4, <3>5
  <2>5. CASE p # home[j]
    <3>1. idle'[p] = idle[p]
      BY <1>0, <2>1, <2>5
    <3>2. \A k \in Job : Holds(k, p)' <=> Holds(k, p)
      BY <1>0, <1>1, <2>1, <2>5 DEF Holds
    <3>3. QED
      BY <2>1, <2>2, <2>3, <3>1, <3>2 DEF PoolInv
  <2>6. QED
    BY <2>4, <2>5
<1>11. QED
  BY <1>2, <1>3, <1>4, <1>5, <1>6, <1>7, <1>8, <1>9, <1>10 DEF JobStep

\* A job begins: it is alone in its process, or together says otherwise.
LEMMA PoolStart ==
  ASSUME Types, PoolInv, NEW j \in Job, NEW p \in Process, Shared(j, p),
         pc[j] = "idle", home' = [home EXCEPT ![j] = p],
         \A k \in Job \ {j} : pc'[k] = pc[k] /\ conn'[k] = conn[k],
         pc'[j] # "commit", UNCHANGED <<at, idle>>,
         home["nightly"] = "service", p = "service" \/ j = "backfill"
  PROVE  PoolInv'
<1>0. home \in [Job -> Process]
  BY DEF Types, WorldTypes
<1> SUFFICES ASSUME NEW q \in Process, Apart(q)'
             PROVE  /\ \A i, k \in Job : Works(i, q)' /\ Works(k, q)' => i = k
                    /\ \A k \in Job : Holds(k, q)' => idle'[q] = {} /\ conn'[k] = First
                    /\ (\A k \in Job : ~Holds(k, q)') => idle'[q] = {First}
  BY DEF PoolInv
<1>1. Apart(q)
  BY DEF Apart, Shared
<1>2. \A k \in Job \ {j} : (Works(k, q)' <=> Works(k, q)) /\ (Holds(k, q)' <=> Holds(k, q))
  BY <1>0 DEF Works, Holds
<1>3. ~Holds(j, q)' /\ ~Holds(j, q)
  BY DEF Holds
<1>4. Works(j, q)' => \A k \in Job \ {j} : ~Works(k, q)
  <2>1. SUFFICES ASSUME Works(j, q)' PROVE \A k \in Job \ {j} : ~Works(k, q)
    OBVIOUS
  <2>2. q = p
    BY <1>0, <2>1 DEF Works
  <2>3. CASE p = "service"
    BY <2>2, <2>3 DEF Apart, Shared, Works
  <2>4. CASE p # "service"
    BY <2>4, <2>2 DEF Works, Job
  <2>5. QED
    BY <2>3, <2>4
<1>5. QED
  BY <1>1, <1>2, <1>3, <1>4 DEF PoolInv

LEMMA PoolOwnStep ==
  ASSUME Types, SnapshotInv, PoolInv, OwnStep
  PROVE  PoolInv'
<1>0. /\ "nightly" \in Job /\ "backfill" \in Job /\ home \in [Job -> Process]
      /\ pc \in [Job -> Stage] /\ conn \in [Job -> {First, Second}]
      /\ home["nightly"] = "service" /\ "service" \in Process
  BY DEF Types, LoopTypes, WorldTypes, SnapshotInv, NightInv, Job, Process
<1>1. CASE StartNightly
  <2>1. /\ pc["nightly"] = "idle" /\ Shared("nightly", "service")
        /\ pc' = [pc EXCEPT !["nightly"] = "fetch"]
        /\ home' = [home EXCEPT !["nightly"] = "service"] /\ UNCHANGED <<at, idle, conn>>
    BY <1>0, <1>1 DEF StartNightly, Go, databaseVars
  <2>2. /\ pc'["nightly"] # "commit"
        /\ \A k \in Job \ {"nightly"} : pc'[k] = pc[k] /\ conn'[k] = conn[k]
        /\ at' = at /\ idle' = idle
    BY <1>0, <2>1
  <2>3. QED
    BY <1>0, <2>1, <2>2, PoolStart, Zenon
<1>2. CASE FetchExchange
  <2>1. /\ pc["nightly"] = "fetch" /\ pc'["nightly"] \in {"store", "fetch"}
        /\ \A k \in Job \ {"nightly"} : pc'[k] = pc[k] /\ conn'[k] = conn[k]
        /\ UNCHANGED <<at, home, together, idle>>
    BY <1>0, <1>2 DEF FetchExchange, Go, databaseVars
  <2>2. QED
    BY <1>0, <2>1, PoolQuiet
<1>3. CASE Publish
  <2>1. pc'["nightly"] = "next" /\ \A k \in Job \ {"nightly"} : pc'[k] = pc[k] /\ conn'[k] = conn[k]
    BY <1>0, <1>3, LoopQuiet DEF Publish
  <2>2. pc["nightly"] = "publish" /\ UNCHANGED <<at, home, together, idle>>
    BY <1>3 DEF Publish, databaseVars
  <2>3. QED
    BY <1>0, <2>1, <2>2, PoolQuiet
<1>4. CASE Dump
  <2>1. /\ pc["backfill"] = "dump" /\ pc'["backfill"] = "store"
        /\ \A k \in Job \ {"backfill"} : pc'[k] = pc[k] /\ conn'[k] = conn[k]
        /\ UNCHANGED <<at, home, together, idle>>
    BY <1>0, <1>4 DEF Dump, Go, databaseVars
  <2>2. QED
    BY <1>0, <2>1, PoolQuiet
<1>5. CASE Load \/ Reload
  <2>1. /\ pc["backfill"] \in {"load", "reload"}
        /\ pc'["backfill"] \in {"dump", "next", "walk", "query"}
        /\ \A k \in Job \ {"backfill"} : pc'[k] = pc[k]
    BY <1>0, <1>5 DEF Load, Reload, Loaded, Go
  <2>2. UNCHANGED <<at, home, together, conn>> /\ UsePool("backfill")
    BY <1>5 DEF Load, Reload, Reading
  <2>3. QED
    BY <1>0, <2>1, <2>2, PoolQuiet
<1>6. ASSUME NEW p \in Process, StartBackfill(p)
      PROVE  PoolInv'
  <2>1. /\ pc["backfill"] = "idle" /\ Shared("backfill", p)
        /\ home' = [home EXCEPT !["backfill"] = p] /\ UNCHANGED <<at, idle>>
    BY <1>6 DEF StartBackfill, databaseVars
  <2>2. pc'["backfill"] = "next" /\ \A k \in Job \ {"backfill"} : pc'[k] = pc[k] /\ conn'[k] = conn[k]
    BY <1>0, <1>6, LoopQuiet DEF StartBackfill
  <2>3. QED
    BY <1>0, <2>1, <2>2, PoolStart
<1>7. QED
  BY <1>1, <1>2, <1>3, <1>4, <1>5, <1>6 DEF OwnStep

LEMMA PoolOtherStep ==
  ASSUME Types, SnapshotInv, PoolInv, OtherStep
  PROVE  PoolInv'
<1>0. /\ home \in [Job -> Process] /\ Process = {"service", "command"}
      /\ Job = {"nightly", "backfill"} /\ home["nightly"] = "service"
      /\ idle \in [Process -> SUBSET {First, Second}]
      /\ at \in [Process -> {"down", "pragmas", "bootstrap", "check", "apply", "commit", "open"}]
  BY DEF Types, WorldTypes, DatabaseTypes, DatabaseTypeOK, SnapshotInv, NightInv, Process, Job
\* The jobs stay as they are, and whoever is open was so before.
<1>1. ASSUME UNCHANGED <<jobVars, together>>,
             \A p \in Process : at'[p] = "open" => at[p] = "open" /\ idle'[p] = idle[p]
      PROVE  PoolInv'
  BY <1>1 DEF jobVars, PoolInv, Apart, Works, Holds
<1>2. ASSUME NEW p \in Process, Open(p)  PROVE PoolInv'
  <2>1. UNCHANGED <<jobVars, together>>
    BY <1>2 DEF Open
  <2>2. CASE Opened(p)
    <3>1. /\ at[p] = "check" /\ at' = [at EXCEPT ![p] = "open"]
          /\ idle' = [idle EXCEPT ![p] = {First}]
      BY <2>2 DEF Opened
    <3>2. \A j \in Job : ~Works(j, p) /\ ~Holds(j, p)
      BY <3>1, WorksOpen DEF Works, Holds
    <3>3. idle'[p] = {First}
      BY <1>0, <3>1
    <3>4. \A q \in Process \ {p} : at'[q] = at[q] /\ idle'[q] = idle[q]
      BY <1>0, <3>1
    <3>5. \A q \in Process, j \in Job : (Works(j, q)' <=> Works(j, q)) /\ (Holds(j, q)' <=> Holds(j, q))
      BY <2>1 DEF jobVars, Works, Holds
    <3>6. conn' = conn /\ together' = together
      BY <2>1 DEF jobVars
    <3>7. QED
      BY <3>2, <3>3, <3>4, <3>5, <3>6 DEF PoolInv, Apart
  <2>3. CASE ~Opened(p)
    <3>1. \A q \in Process : at'[q] = "open" => at[q] = "open" /\ idle'[q] = idle[q]
      BY <1>0, <1>2, <2>3 DEF Open, OpenStep, SetPragmas, Bootstrap, Check, Execute, Commit
    <3>2. QED
      BY <1>1, <2>1, <3>1
  <2>4. QED
    BY <2>2, <2>3
<1>3. CASE StartCommand /\ UNCHANGED <<jobVars, together>>
  BY <1>0, <1>1, <1>3 DEF StartCommand
<1>4. CASE Sync /\ UNCHANGED <<jobVars, together>>
  BY <1>1, <1>4 DEF Sync
<1>5. CASE Tick
  BY <1>1, <1>5 DEF Tick, databaseVars
<1>6. CASE StartContainer
  BY <1>0, <1>1, <1>6 DEF StartContainer, Boot, Down
<1>7. CASE EndContainer
  <2>1. \A p \in Process : at'[p] = "down"
    BY <1>7 DEF EndContainer, ContainerEnds, Down
  <2>2. QED
    BY <2>1 DEF PoolInv, Apart
<1>8. CASE EndCommand
  <2>1. /\ at' = [at EXCEPT !["command"] = "down"] /\ idle' = [idle EXCEPT !["command"] = {}]
        /\ together' = together /\ home' = [home EXCEPT !["backfill"] = "service"]
    BY <1>8 DEF EndCommand, CommandEnds
  <2>2. /\ at'["command"] = "down" /\ at'["service"] = at["service"]
        /\ idle'["service"] = idle["service"]
        /\ home'["backfill"] = "service" /\ home'["nightly"] = "service"
    BY <1>0, <2>1
  <2>3. pc'["nightly"] = pc["nightly"] /\ conn'["nightly"] = conn["nightly"]
    BY <1>0, <1>8, FinishQuiet DEF EndCommand
  <2>4. CASE home["backfill"] = "command"
    <3>1. pc'["backfill"] = "idle"
      BY <1>0, <1>8, <2>4 DEF EndCommand, Finish, Go, Types, LoopTypes
    <3>2. ~Holds("backfill", "service") /\ ~Works("backfill", "service")
      BY <2>4 DEF Holds, Works
    <3>3. ~Holds("backfill", "service")' /\ ~Works("backfill", "service")'
      BY <3>1 DEF Holds, Works
    <3>4. /\ Holds("nightly", "service")' <=> Holds("nightly", "service")
          /\ Works("nightly", "service")' <=> Works("nightly", "service")
      BY <1>0, <2>2, <2>3 DEF Holds, Works
    <3>5. QED
      BY <1>0, <2>1, <2>2, <2>3, <3>2, <3>3, <3>4 DEF PoolInv, Apart
  <2>5. CASE home["backfill"] # "command"
    <3>1. home["backfill"] = "service" /\ pc' = pc /\ conn' = conn
      BY <1>0, <1>8, <2>5 DEF EndCommand
    <3>2. home' = home
      BY <1>0, <2>1, <3>1
    <3>3. QED
      BY <1>0, <2>1, <2>2, <3>1, <3>2 DEF PoolInv, Apart, Works, Holds
  <2>6. QED
    BY <2>4, <2>5
<1>9. QED
  BY <1>2, <1>3, <1>4, <1>5, <1>6, <1>7, <1>8 DEF OtherStep, Around

LEMMA PoolStep == Types /\ SnapshotInv /\ PoolInv /\ [Next]_vars => PoolInv'
<1> SUFFICES ASSUME Types, SnapshotInv, PoolInv, [Next]_vars PROVE PoolInv'
  OBVIOUS
<1>1. CASE OwnStep \/ OtherStep \/ \E j \in Job : JobStep(j)
  BY <1>1, PoolOwnStep, PoolOtherStep, PoolJobStep
<1>2. CASE UNCHANGED vars
  BY <1>2 DEF vars, databaseVars, jobVars, PoolInv, Apart, Works, Holds
<1>3. QED
  BY <1>1, <1>2, Steps

\* A write of a job fails on the lock only when two jobs have run in the service since
\* it was started; the command, whose one job has its pool to itself, always waits.
THEOREM LocksWait == Spec => []LockedOnlyTogether
<1>1. Init => PoolInv
  BY DEF Init, DatabaseInit, Down, PoolInv, Apart
<1>2. Types /\ SnapshotInv /\ PoolInv => LockedOnlyTogether
  <2> SUFFICES ASSUME Types, SnapshotInv, PoolInv, NEW j \in Job, LockError(j), ~together
               PROVE  FALSE
    BY DEF LockedOnlyTogether, Types, WorldTypes
  <2>1. home[j] \in Process /\ pc[j] \in {"store", "walk"}
    BY DEF Types, WorldTypes, LockError
  <2>2. Apart(home[j])
    BY <2>1, WorksOpen DEF Apart
  <2>3. Available(home[j], Crowded(j)) = {First}
    BY <2>1, <2>2, GetsFirst
  <2>4. QED
    BY <2>3 DEF LockError, Patient
<1>3. QED
  BY <1>1, <1>2, SnapshotAlways, PoolStep, PTL DEF Spec

=============================================================================
