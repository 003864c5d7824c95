------------------------------ MODULE Migrations ------------------------------
(***************************************************************************)
(* The migrations of Manager and Orchestrator, which share one database.   *)
(* Every instance migrates before it serves: it takes the advisory lock of *)
(* its service, reads what its tracking table says was applied and runs    *)
(* the other scripts, each with its record in one transaction.  Instances  *)
(* start together, with older or newer scripts; transactions deadlock,     *)
(* connections break and processes die.                                    *)
(***************************************************************************)
EXTENDS Naturals, FiniteSets

CONSTANTS
  Instances,         \* processes of the two services
  ServiceOf,         \* the service of each
  ScriptsOf,         \* the versions each brings along, a set of numbers
  Statements,        \* [service -> [version -> the statements of the script]]
  Legacy,            \* versions of the Manager applied before there was a tracking table
  MaxMigrationAttempts,  \* attempts of a transaction that deadlocks
  MaxMigrationFaults     \* bound on deadlocks, breaks and crashes

VARIABLES
  tracked,    \* per tracking table: the versions recorded
  effects,    \* per service and version: how often the script took effect
  lock,       \* per service: who holds the advisory lock
  migration,  \* per instance: [pc, applied, attempt]
  excused,    \* instances whose start met a fault
  mishaps     \* faults so far

migrationVars == <<tracked, effects, lock, migration, excused, mishaps>>

DbServices == {"manager", "orchestrator"}
Versions == UNION {ScriptsOf[i] : i \in Instances}

ASSUME MigrationAssumption ==
  ServiceOf \in [Instances -> DbServices] /\ ScriptsOf \in [Instances -> SUBSET Nat]

TrackingTableShared(s) == "schema_migrations"  \* mutant
\* The versions of both services count from one: their tables must differ.
TrackingTable(s) == IF s = "manager" THEN "manager_schema_migrations" ELSE "schema_migrations"
Tracked(s) == tracked[TrackingTable(s)]

\* Statements that a clause makes repeatable, and those that only a guard of the
\* catalogue or a handler of duplicate_object does.
ClauseKinds == {"table", "index", "column", "sequence", "trigger"}
GuardKinds == {"constraint", "primaryKey", "unique", "foreignKey", "check", "type"}

\* What the static guard reports of a script.
findNonIdempotentDdl(script) ==
  {st.kind : st \in {x \in script : x.kind \in ClauseKinds /\ ~x.clause}}
    \cup {st.kind : st \in {x \in script : x.kind \in GuardKinds /\ x.region = "none"}}

\* What the database makes of a statement that is run again.
Repeats(st) == st.clause \/ st.region # "none"

\* The scripts of the repository pass the guard: its test says so of every one.
ASSUME ScriptsPassGuard ==
  \A i \in Instances : \A v \in ScriptsOf[i] :
    findNonIdempotentDdl(Statements[ServiceOf[i]][v]) = {}

MigrationInit ==
  /\ tracked = [t \in {TrackingTable(s) : s \in DbServices} |-> {}]
  /\ effects = [s \in DbServices |->
       [v \in Versions |-> IF s = "manager" /\ v \in Legacy THEN 1 ELSE 0]]
  /\ lock = [s \in DbServices |-> "free"]
  /\ migration = [i \in Instances |-> [pc |-> "connecting", applied |-> {}, attempt |-> 1]]
  /\ excused = {} /\ mishaps = 0

Set(i, record) == migration' = [migration EXCEPT ![i] = record]
Pc(i) == migration[i].pc

UnlockedMigration(i) ==  \* mutant
  /\ Pc(i) = "connecting"
  /\ Set(i, [migration[i] EXCEPT !.pc = "reading"])
  /\ UNCHANGED <<tracked, effects, lock, excused, mishaps>>
\* pg_advisory_lock waits until the lock is free.
TakeLock(i) ==
  /\ Pc(i) = "connecting" /\ lock[ServiceOf[i]] = "free"
  /\ lock' = [lock EXCEPT ![ServiceOf[i]] = i]
  /\ Set(i, [migration[i] EXCEPT !.pc = "reading"])
  /\ UNCHANGED <<tracked, effects, excused, mishaps>>

\* The tracking table is created when missing and read once.
ReadApplied(i) ==
  /\ Pc(i) = "reading"
  /\ Set(i, [migration[i] EXCEPT !.pc = "applying", !.applied = Tracked(ServiceOf[i])])
  /\ UNCHANGED <<tracked, effects, lock, excused, mishaps>>

\* The script that is next, in the order of the versions.
Missing(i) == ScriptsOf[i] \ migration[i].applied
IsNext(i, v) == v \in Missing(i) /\ \A w \in Missing(i) : v <= w

\* One transaction: the script, its record, the commit.  A script that is not
\* repeatable fails where it ran before, a record that exists is refused.
Succeeds(i, v) ==
  LET s == ServiceOf[i] IN
  /\ v \notin Tracked(s)
  /\ effects[s][v] > 0 => \A st \in Statements[s][v] : Repeats(st)

TransactionUntracked(i, v) ==  \* mutant
  effects' = [effects EXCEPT ![ServiceOf[i]][v] = @ + 1] /\ UNCHANGED tracked
Transaction(i, v) ==
  /\ effects' = [effects EXCEPT ![ServiceOf[i]][v] = @ + 1]
  /\ tracked' = [tracked EXCEPT ![TrackingTable(ServiceOf[i])] = @ \cup {v}]

Apply(i, v) ==
  /\ Pc(i) = "applying" /\ IsNext(i, v) /\ Succeeds(i, v)
  /\ Transaction(i, v)
  /\ Set(i, [migration[i] EXCEPT !.applied = @ \cup {v}, !.attempt = 1])
  /\ UNCHANGED <<lock, excused, mishaps>>

\* What fails for good is rolled back; the lock is released and the start fails.
FreeOf(i) == [lock EXCEPT ![ServiceOf[i]] = IF @ = i THEN "free" ELSE @]
Fail(i) == Set(i, [migration[i] EXCEPT !.pc = "failed"]) /\ lock' = FreeOf(i)

Refuse(i, v) ==
  /\ Pc(i) = "applying" /\ IsNext(i, v) /\ ~Succeeds(i, v)
  /\ Fail(i)
  /\ UNCHANGED <<tracked, effects, excused, mishaps>>

Mishap(i) == mishaps < MaxMigrationFaults /\ mishaps' = mishaps + 1 /\ excused' = excused \cup {i}

\* A deadlock with the statements of a service that is at work: the transaction
\* is undone.  The Manager begins it anew, a bounded number of times and only if
\* the rollback succeeds; the Orchestrator gives up.
Deadlock(i, v) ==
  /\ Pc(i) = "applying" /\ IsNext(i, v) /\ Mishap(i)
  /\ \/ /\ ServiceOf[i] = "manager" /\ migration[i].attempt < MaxMigrationAttempts
        /\ Set(i, [migration[i] EXCEPT !.attempt = @ + 1])
        /\ UNCHANGED lock
     \/ Fail(i)
  /\ UNCHANGED <<tracked, effects>>

\* The connection breaks when the commit is under way: it took place, but the
\* instance does not know and fails.
LoseCommit(i, v) ==
  /\ Pc(i) = "applying" /\ IsNext(i, v) /\ Succeeds(i, v) /\ Mishap(i)
  /\ Transaction(i, v)
  /\ Fail(i)

Finish(i) ==
  /\ Pc(i) = "applying" /\ Missing(i) = {}
  /\ Set(i, [migration[i] EXCEPT !.pc = "serving"])
  /\ lock' = FreeOf(i)
  /\ UNCHANGED <<tracked, effects, excused, mishaps>>

\* The process dies; the database undoes its transaction and frees its lock.
Die(i) ==
  /\ Pc(i) \notin {"failed"} /\ Mishap(i)
  /\ Fail(i)
  /\ UNCHANGED <<tracked, effects>>

StartAgain(i) ==
  /\ Pc(i) = "failed"
  /\ Set(i, [pc |-> "connecting", applied |-> {}, attempt |-> 1])
  /\ excused' = excused \ {i}
  /\ UNCHANGED <<tracked, effects, lock, mishaps>>

MigrationNext ==
  \E i \in Instances :
    \/ TakeLock(i) \/ ReadApplied(i) \/ Finish(i) \/ Die(i) \/ StartAgain(i)
    \/ \E v \in Versions : Apply(i, v) \/ Refuse(i, v) \/ Deadlock(i, v) \/ LoseCommit(i, v)
MigrationSpec == MigrationInit /\ [][MigrationNext]_migrationVars

---------------------------------------------------------------------------
(* Properties *)

\* Whoever serves has every one of its scripts in the database, and no script
\* took effect twice but the ones of a database older than the tracking table,
\* whatever starts together, dies or loses its connection.
ServesMigrated ==
  /\ \A i \in Instances : Pc(i) = "serving" =>
       \A v \in ScriptsOf[i] : effects[ServiceOf[i]][v] > 0
  /\ \A s \in DbServices : \A v \in Versions :
       effects[s][v] <= (IF s = "manager" /\ v \in Legacy THEN 2 ELSE 1)

\* A start that met no fault succeeds: neither another instance that migrates at
\* the same time nor a database older than the tracking table stops it.
StartsUnlessFault == \A i \in Instances : Pc(i) = "failed" => i \in excused
=============================================================================
