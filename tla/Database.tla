------------------------------ MODULE Database ------------------------------
(***************************************************************************)
(* The SQLite file and the processes that open it: the service, which      *)
(* start.sh starts over a copy restored from R2, and a command that        *)
(* somebody runs inside the container beside it.  sqlite.Open sets its     *)
(* pragmas and applies the migrations one by one, each in a transaction of *)
(* its own, after a check outside of it.                                   *)
(*                                                                         *)
(* What a process does with an open file is the module Universe.           *)
(***************************************************************************)
EXTENDS Integers

CONSTANTS
  Latest,        \* the newest migration; they are numbered from 1
  AddsColumn,    \* migrations that fail when their effect is there already
  LastDay        \* the horizon of the calendar

ASSUME DatabaseAssumption ==
  Latest \in Nat /\ AddsColumn \subseteq 1 .. Latest /\ LastDay \in Nat \ {0}

Day == 1 .. LastDay
Migration == 1 .. Latest
Process == {"service", "command"}

\* Connections of a process's pool: Open sets the pragmas on the first, the pool
\* opens another when that one is in use.
First == 1
Second == 2

VARIABLES
  file,      \* committed content: effects of migrations, their records, snapshots
  replica,   \* Litestream's copy of it
  writer,    \* who holds the write lock: a process that migrates, a job, or "none"
  at,        \* where a process stands in Open
  version,   \* the migration it looks at
  idle,      \* idle connections of a process's pool
  alone      \* ghost: nobody else has touched the file since a process began to open it

databaseVars == <<file, replica, writer, at, version, idle, alone>>

Down == [p \in Process |-> "down"]

DatabaseTypeOK(Rows, Jobs) ==
  /\ {file, replica} \subseteq
       [schema : SUBSET Migration, recorded : SUBSET Migration, rows : Rows]
  /\ writer \in Process \cup Jobs \cup {"none"}
  /\ at \in [Process -> {"down", "pragmas", "bootstrap", "check", "apply", "commit", "open"}]
  /\ version \in [Process -> 1 .. Latest + 1]
  /\ idle \in [Process -> SUBSET {First, Second}]
  /\ alone \in [Process -> BOOLEAN]

\* A copy that any earlier version of the program left behind, or none.
DatabaseInit(rows) ==
  /\ \E k \in 0 .. Latest : file = [schema |-> 1 .. k, recorded |-> 1 .. k, rows |-> rows]
  /\ replica = file
  /\ writer = "none"
  /\ at = Down
  /\ version = [p \in Process |-> 1]
  /\ idle = [p \in Process |-> {}]
  /\ alone = [p \in Process |-> TRUE]

-----------------------------------------------------------------------------
(* Opening.                                                                *)

Opening(p) == at[p] \notin {"down", "open"}

\* Whoever touches the file disturbs a process that is opening it.
Disturb(p) == [q \in Process |-> alone[q] /\ (q = p \/ ~Opening(q))]

\* start.sh, when the container starts: the copy becomes the file.
Boot ==
  /\ at = Down
  /\ file' = replica
  /\ at' = [at EXCEPT !["service"] = "pragmas"]
  /\ UNCHANGED <<replica, writer, version, idle, alone>>

\* docker exec of a command.
StartCommand ==
  /\ at["service"] # "down" /\ at["command"] = "down"
  /\ at' = [at EXCEPT !["command"] = "pragmas"]
  /\ alone' = [Disturb("command") EXCEPT !["command"] = writer = "none" /\ ~Opening("service")]
  /\ UNCHANGED <<file, replica, writer, version, idle>>

\* The three pragmas, then CREATE TABLE IF NOT EXISTS schema_migrations.
SetPragmas(p) ==
  /\ at[p] = "pragmas"
  /\ at' = [at EXCEPT ![p] = "bootstrap"]
  /\ alone' = Disturb(p)
  /\ UNCHANGED <<file, replica, writer, version, idle>>

\* With busy_timeout set, a write waits for the lock.
Bootstrap(p) ==
  /\ at[p] = "bootstrap" /\ writer = "none"
  /\ at' = [at EXCEPT ![p] = "check"]
  /\ version' = [version EXCEPT ![p] = 1]
  /\ alone' = Disturb(p)
  /\ UNCHANGED <<file, replica, writer, idle>>

\* SELECT COUNT(*) FROM schema_migrations, outside the transaction.
Check(p) ==
  /\ at[p] = "check" /\ version[p] \in Migration
  /\ IF version[p] \in file.recorded
       THEN version' = [version EXCEPT ![p] = @ + 1] /\ UNCHANGED at
       ELSE at' = [at EXCEPT ![p] = "apply"] /\ UNCHANGED version
  /\ UNCHANGED <<file, replica, writer, idle, alone>>

\* The statements of a migration fail when its column is there, and the record
\* of it when its row is.
Applicable(v) ==
  /\ v \in AddsColumn => v \notin file.schema
  /\ v \notin file.recorded

\* Mutant: the statements run outside the transaction that records them.
ExecuteAtOnce(p) ==
  /\ at[p] = "apply" /\ writer = "none" /\ Applicable(version[p])
  /\ file' = [file EXCEPT !.schema = @ \cup {version[p]}]
  /\ writer' = p
  /\ at' = [at EXCEPT ![p] = "commit"]
  /\ alone' = Disturb(p)
  /\ UNCHANGED <<replica, version, idle>>

\* Begin, the statements, and the record of the migration, not yet committed.
Execute(p) ==
  /\ at[p] = "apply" /\ writer = "none" /\ Applicable(version[p])
  /\ writer' = p
  /\ at' = [at EXCEPT ![p] = "commit"]
  /\ alone' = Disturb(p)
  /\ UNCHANGED <<file, replica, version, idle>>

Commit(p) ==
  /\ at[p] = "commit"
  /\ file' = [file EXCEPT !.schema = @ \cup {version[p]},
                          !.recorded = @ \cup {version[p]}]
  /\ writer' = "none"
  /\ at' = [at EXCEPT ![p] = "check"]
  /\ version' = [version EXCEPT ![p] = @ + 1]
  /\ alone' = Disturb(p)
  /\ UNCHANGED <<replica, idle>>

\* Open returns with one idle connection.
Opened(p) ==
  /\ at[p] = "check" /\ version[p] > Latest
  /\ at' = [at EXCEPT ![p] = "open"]
  /\ idle' = [idle EXCEPT ![p] = {First}]
  /\ version' = [version EXCEPT ![p] = 1]
  /\ alone' = [alone EXCEPT ![p] = TRUE]
  /\ UNCHANGED <<file, replica, writer>>

\* A new file changes its journal mode before the busy timeout is set; a migration
\* does not apply.
OpenFails(p) ==
  \/ at[p] = "pragmas" /\ file.schema = {} /\ \E q \in Process \ {p} : Opening(q)
  \/ at[p] = "apply" /\ writer = "none" /\ ~Applicable(version[p])

-----------------------------------------------------------------------------
(* How a process ends.  Its transaction is rolled back, which here means   *)
(* that it never reached file.                                             *)

\* The command ends, by log.Fatal, a kill or a return; who is among its jobs.
CommandEnds(who) ==
  /\ at["command"] # "down"
  /\ at' = [at EXCEPT !["command"] = "down"]
  /\ writer' = IF writer \in who \cup {"command"} THEN "none" ELSE writer
  /\ version' = [version EXCEPT !["command"] = 1]
  /\ idle' = [idle EXCEPT !["command"] = {}]
  /\ alone' = [alone EXCEPT !["command"] = TRUE]
  /\ UNCHANGED <<file, replica>>

\* The service ends and the container with it; Litestream may get to copy the
\* file once more.
ContainerEnds ==
  /\ at["service"] # "down"
  /\ at' = Down
  /\ writer' = "none"
  /\ version' = [p \in Process |-> 1]
  /\ idle' = [p \in Process |-> {}]
  /\ alone' = [p \in Process |-> TRUE]
  /\ replica' \in {replica, file}
  /\ UNCHANGED file

\* Litestream, every sync-interval.
Sync ==
  /\ at["service"] # "down"
  /\ replica' = file
  /\ UNCHANGED <<file, writer, at, version, idle, alone>>

OpenStep(p) ==
  \/ SetPragmas(p) \/ Bootstrap(p) \/ Check(p) \/ Execute(p) \/ Commit(p) \/ Opened(p)

-----------------------------------------------------------------------------
(* The pool.                                                               *)

\* The connections that a call may get: an idle one or, when there is none or
\* another goroutine may have it just now, a new one.
Available(p, crowded) ==
  IF idle[p] = {} \/ crowded THEN idle[p] \cup {Second} ELSE idle[p]

\* A call that takes a connection and gives it back.
UseConnection(p, crowded) ==
  \E c \in Available(p, crowded) : idle' = [idle EXCEPT ![p] = @ \cup {c}]

\* Mutant: the busy timeout is not set.
PatientNever(c) == FALSE

\* Connections that wait for the write lock (for five seconds, which no writer
\* needs); the others fail when it is taken.
Patient(c) == c = First
=============================================================================
