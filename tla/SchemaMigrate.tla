----------------------------- MODULE SchemaMigrate -----------------------------
(***************************************************************************)
(* The ClickHouse schema and the processes that build it: hub replicas,    *)
(* whose schemaGate (hub/cmd/hub/schema.go) checks the schema, applies the *)
(* embedded migrations itself a few times and opens once it is complete,   *)
(* and `hub migrate` Jobs.  Store.Migrate (storage/clickhouse/migrate.go)  *)
(* takes no lock: every statement and every ledger row is a step of its    *)
(* own, can fail, and interleaves with everybody else's.                   *)
(*                                                                         *)
(* A migration is a number, in apply order, and a sequence of guarded      *)
(* statements: CREATE ... IF NOT EXISTS of an object with a definition, or *)
(* DROP VIEW IF EXISTS.  A derived view has a base table.                  *)
(***************************************************************************)
EXTENDS Naturals, Sequences

CONSTANTS
    Hubs, Jobs,         \* the processes
    Versions,           \* migrations.Ordered, as numbers
    Statements,         \* version -> its statements
    Expected,           \* process -> the versions of its module set
    Objects, Views,     \* tables and views; the views
    BaseOf,             \* view -> the table it reads
    Defs, Absent,       \* definitions of an object; no such object
    AutoMigrate,        \* AVURUOBS_SCHEMA_AUTOMIGRATE
    Faults,             \* queries fail and processes crash
    MaxApply            \* schemaMaxApplyAttempts

Procs == Hubs \cup Jobs
Stmts == [op : {"create", "drop"}, obj : Objects, def : Defs]

\* The version that first creates an object.
Creates(v, o) == \E i \in 1..Len(Statements[v]) :
                    Statements[v][i].op = "create" /\ Statements[v][i].obj = o

\* The embedded .sql files: only views are dropped (migrate.go:34-36), and a
\* view comes after its base table, in every module set that has it.
ASSUME SchemaAssumption ==
    /\ Hubs \cap Jobs = {}
    /\ Versions \subseteq Nat
    /\ Statements \in [Versions -> Seq(Stmts)]
    /\ \A v \in Versions : Len(Statements[v]) > 0
    /\ Views \subseteq Objects /\ BaseOf \in [Views -> Objects \ Views]
    /\ Expected \in [Procs -> SUBSET Versions]
    /\ Absent \notin Defs
    /\ AutoMigrate \in BOOLEAN /\ Faults \in BOOLEAN /\ MaxApply \in Nat
    /\ \A v \in Versions : \A i \in 1..Len(Statements[v]) :
          Statements[v][i].op = "drop" => Statements[v][i].obj \in Views
    /\ \A p \in Procs : \A v \in Expected[p], o \in Views :
          Creates(v, o) => \E w \in Expected[p] : w < v /\ Creates(w, BaseOf[o])

Mentions(v, o) == \E i \in 1..Len(Statements[v]) : Statements[v][i].obj = o

\* What a version does to an object ends with creating it, once.
Rebuilds(v, o) ==
    \E c \in 1..Len(Statements[v]) :
        /\ Statements[v][c].op = "create" /\ Statements[v][c].obj = o
        /\ \A i \in 1..Len(Statements[v]) : Statements[v][i].obj = o /\ i # c =>
              i < c /\ Statements[v][i].op = "drop"
Drops(v, o) == \E i \in 1..Len(Statements[v]) : Statements[v][i].op = "drop" /\ Statements[v][i].obj = o

\* The versions of one object: all in a module set or none (ByModule tags 0006
\* and 0023 alike, 0007 and 0024 alike), one of them the newest, and each after
\* the first drops what there is before it creates the object anew.
ASSUME ChainsAssumption == \A o \in Objects :
    LET vs == {v \in Versions : Mentions(v, o)} IN
    /\ \A p \in Procs : vs \subseteq Expected[p] \/ vs \cap Expected[p] = {}
    /\ vs # {} => \E v \in vs : \A w \in vs : w <= v
    /\ \A v \in vs : Rebuilds(v, o) /\ ((\E w \in vs : w < v) => Drops(v, o))

VARIABLES
    objs,       \* definition of every object, Absent when there is none
    ledger,     \* the versions in schema_migrations ({} also when no ledger)
    pc,         \* check, wait, open; ensure, read, apply, record; done, failed
    todo,       \* versions Migrate has not yet walked past
    stmt,       \* the next statement of the version it is at
    attempts,   \* self-heal attempts of a hub
    reported,   \* reportOnce has spoken
    cutShort    \* history: a migrator stopped part-way through its versions

db == <<objs, ledger>>
schemaVars == <<objs, ledger, pc, todo, stmt, attempts, reported, cutShort>>

SchemaInit ==
    /\ objs = [o \in Objects |-> Absent] /\ ledger = {}
    /\ pc = [p \in Procs |-> IF p \in Hubs THEN "check" ELSE "ensure"]
    /\ todo = [p \in Procs |-> {}] /\ stmt = [p \in Procs |-> 1]
    /\ attempts = [p \in Procs |-> 0] /\ reported = [p \in Procs |-> FALSE]
    /\ cutShort = "no"

Goto(p, l) == pc' = [pc EXCEPT ![p] = l]

-----------------------------------------------------------------------------
(* schemaGate.run.                                                         *)

\* SchemaStatus fails.
CheckFails(p) ==
    /\ p \in Hubs /\ pc[p] = "check" /\ Faults
    /\ Goto(p, "wait")
    /\ UNCHANGED <<db, todo, stmt, attempts, reported, cutShort>>

\* Mutant of CheckReady: any recorded version will do.
CheckReadyAny(p) ==
    /\ p \in Hubs /\ pc[p] = "check" /\ Expected[p] \cap ledger # {}
    /\ Goto(p, "open")
    /\ UNCHANGED <<db, todo, stmt, attempts, reported, cutShort>>

\* SchemaStatus: the ledger holds every expected version; the gate opens.
\* (Rows are only ever added to the ledger, so the two queries it takes read
\* it as it was at one moment.)
CheckReady(p) ==
    /\ p \in Hubs /\ pc[p] = "check" /\ Expected[p] \subseteq ledger
    /\ Goto(p, "open")
    /\ UNCHANGED <<db, todo, stmt, attempts, reported, cutShort>>

\* Mutant of CheckMissing: the gate gives up with its last attempt.
CheckMissingGivesUp(p) ==
    /\ p \in Hubs /\ pc[p] = "check" /\ ~(Expected[p] \subseteq ledger)
    /\ IF ~AutoMigrate \/ attempts[p] >= MaxApply
       THEN /\ reported' = [reported EXCEPT ![p] = TRUE]
            /\ Goto(p, "failed") /\ UNCHANGED attempts
       ELSE /\ attempts' = [attempts EXCEPT ![p] = @ + 1]
            /\ Goto(p, "ensure") /\ UNCHANGED reported
    /\ UNCHANGED <<db, todo, stmt, cutShort>>

\* Something is missing: report once and wait, or run Migrate.
CheckMissing(p) ==
    /\ p \in Hubs /\ pc[p] = "check" /\ ~(Expected[p] \subseteq ledger)
    /\ IF ~AutoMigrate \/ attempts[p] >= MaxApply
       THEN /\ reported' = [reported EXCEPT ![p] = TRUE]
            /\ Goto(p, "wait") /\ UNCHANGED attempts
       ELSE /\ attempts' = [attempts EXCEPT ![p] = @ + 1]
            /\ Goto(p, "ensure") /\ UNCHANGED reported
    /\ UNCHANGED <<db, todo, stmt, cutShort>>

\* recheck has passed.
Recheck(p) ==
    /\ pc[p] = "wait"
    /\ Goto(p, "check")
    /\ UNCHANGED <<db, todo, stmt, attempts, reported, cutShort>>

-----------------------------------------------------------------------------
(* Store.Migrate.                                                          *)

\* The version the walk over Expected is at.
AtVersion(S) == CHOOSE v \in S : \A w \in S : v <= w

\* Where Migrate goes once `rest` is what is left: it returns to the gate,
\* which re-checks at once, or the Job ends.
Continue(p, rest) ==
    IF rest # {} THEN Goto(p, "apply")
    ELSE Goto(p, IF p \in Hubs THEN "check" ELSE "done")

\* ensureLedger: CREATE DATABASE and CREATE TABLE, both guarded.
EnsureLedger(p) ==
    /\ pc[p] = "ensure"
    /\ Goto(p, "read")
    /\ UNCHANGED <<db, todo, stmt, attempts, reported, cutShort>>

\* appliedVersions, the ledger read into a set once.
ReadApplied(p) ==
    /\ pc[p] = "read"
    /\ todo' = [todo EXCEPT ![p] = Expected[p] \ ledger]
    /\ stmt' = [stmt EXCEPT ![p] = 1]
    /\ Continue(p, Expected[p] \ ledger)
    /\ UNCHANGED <<db, attempts, reported, cutShort>>

Pending(p) == Statements[AtVersion(todo[p])][stmt[p]]

\* A view cannot be created over a table that is not there.
HasBase(s) == s.op = "create" /\ s.obj \in Views => objs[BaseOf[s.obj]] # Absent

\* Mutant of Effect: the view is not dropped before it is created anew.
EffectUndropped(s) ==
    [objs EXCEPT ![s.obj] = IF s.op = "create" /\ @ = Absent THEN s.def ELSE @]

\* What a guarded statement does.
Effect(s) ==
    [objs EXCEPT ![s.obj] = IF s.op = "drop" THEN Absent
                            ELSE IF @ = Absent THEN s.def ELSE @]

\* On to the next statement, or to the ledger row.
Advance(p) ==
    /\ stmt' = [stmt EXCEPT ![p] = @ + 1]
    /\ IF stmt[p] < Len(Statements[AtVersion(todo[p])])
       THEN Goto(p, "apply") ELSE Goto(p, "record")

\* One statement of the version.
ExecStatement(p) ==
    /\ pc[p] = "apply" /\ HasBase(Pending(p))
    /\ objs' = Effect(Pending(p))
    /\ Advance(p)
    /\ UNCHANGED <<ledger, todo, attempts, reported, cutShort>>

\* The ledger row, the version's commit marker.
RecordVersion(p) ==
    LET v == AtVersion(todo[p]) IN
    /\ pc[p] = "record"
    /\ ledger' = ledger \cup {v}
    /\ todo' = [todo EXCEPT ![p] = @ \ {v}]
    /\ stmt' = [stmt EXCEPT ![p] = 1]
    /\ Continue(p, todo[p] \ {v})
    /\ UNCHANGED <<objs, attempts, reported, cutShort>>

\* Migrate is past its read of the ledger and not through its versions.
PartWay(p) == pc[p] \in {"apply", "record"}

\* Mutant of MigrateFails: the error is logged and the version recorded.
MigrateFailsLogged(p) ==
    /\ pc[p] = "apply" /\ Faults
    /\ Goto(p, "record")
    /\ UNCHANGED <<db, todo, stmt, attempts, reported, cutShort>>

\* A statement fails, and Migrate with it: the gate waits, the Job fails.
MigrateFails(p) ==
    /\ pc[p] \in {"ensure", "read", "apply", "record"}
    /\ Faults \/ (pc[p] = "apply" /\ ~HasBase(Pending(p)))
    /\ todo' = [todo EXCEPT ![p] = {}] /\ stmt' = [stmt EXCEPT ![p] = 1]
    /\ Goto(p, IF p \in Hubs THEN "wait" ELSE "failed")
    /\ cutShort' = IF PartWay(p) THEN "yes" ELSE cutShort
    /\ UNCHANGED <<db, attempts, reported>>

\* The process dies and is started again, a failed Job included.
Restart(p) ==
    /\ Faults /\ pc[p] # "done"
    /\ Goto(p, IF p \in Hubs THEN "check" ELSE "ensure")
    /\ todo' = [todo EXCEPT ![p] = {}] /\ stmt' = [stmt EXCEPT ![p] = 1]
    /\ attempts' = [attempts EXCEPT ![p] = 0]
    /\ reported' = [reported EXCEPT ![p] = FALSE]
    /\ cutShort' = IF PartWay(p) THEN "yes" ELSE cutShort
    /\ UNCHANGED db

Step(p) ==
    \/ CheckFails(p) \/ CheckReady(p) \/ CheckMissing(p) \/ Recheck(p)
    \/ EnsureLedger(p) \/ ReadApplied(p) \/ ExecStatement(p) \/ RecordVersion(p)
    \/ MigrateFails(p)

SchemaNext == \E p \in Procs : Step(p) \/ Restart(p)

SchemaSpec == SchemaInit /\ [][SchemaNext]_schemaVars

\* Every process keeps running, and the schema query does not fail for ever.
SchemaFairSpec == SchemaSpec /\ \A p \in Procs : WF_schemaVars(Step(p)) /\ SF_schemaVars(CheckReady(p))

-----------------------------------------------------------------------------
(* Properties.                                                             *)

SchemaTypeOK ==
    /\ objs \in [Objects -> Defs \cup {Absent}] /\ ledger \subseteq Versions
    /\ pc \in [Procs -> {"check", "wait", "open", "ensure", "read", "apply", "record",
                         "done", "failed"}]
    /\ todo \in [Procs -> SUBSET Versions] /\ stmt \in [Procs -> Nat]
    /\ attempts \in [Procs -> 0..MaxApply] /\ reported \in [Procs -> BOOLEAN]
    /\ cutShort \in {"no", "yes"}

\* The ledger row is the commit marker: a recorded version has every table it
\* creates, however many processes migrated, failed and crashed on the way -
\* so behind an open gate every expected table is there (migrate.go:20-28).
RecordedTablesExist ==
    \A v \in ledger, o \in Objects \ Views : Creates(v, o) => objs[o] # Absent

\* Behind an open gate every expected version is recorded and every table of
\* it exists (schema.go:33-35: "is the ClickHouse schema this install expects
\* actually there?").
OpenGateHasTables ==
    \A p \in Hubs : pc[p] = "open" =>
        \A v \in Expected[p], o \in Objects \ Views :
            Creates(v, o) => v \in ledger /\ objs[o] # Absent

\* Nobody gets to a derived view before its base table exists
\* (migrate.go:27-28 "each caller walks Expected top-down").
NoOrphanView == \A p \in Procs : pc[p] = "apply" => HasBase(Pending(p))

\* The definition an object ends up with: the last one of the newest version.
Newest(o) == CHOOSE v \in Versions : Mentions(v, o) /\ \A w \in Versions : Mentions(w, o) => w <= v
Final(o) ==
    LET new == Statements[Newest(o)]
        is == {i \in 1..Len(new) : new[i].op = "create" /\ new[i].obj = o}
    IN  new[CHOOSE i \in is : \A j \in is : j <= i].def

\* Once everybody has finished, every object has its newest definition: the
\* only hazard of migrating concurrently is the window in which a redefined
\* view does not exist (migrate.go:30-36).
SettlesRight ==
    (\A p \in Procs : pc[p] \in {"open", "done"}) =>
        \A o \in Objects : (\E v \in ledger : Creates(v, o)) => objs[o] = Final(o)

\* Migrating concurrently is not what leaves a view missing or out of date
\* for good: whatever the interleaving of the DROP VIEWs and CREATEs of any
\* migrators, with failing checks and restarts around them, the last one
\* through leaves every definition right, as long as nobody stops part-way
\* through its versions (migrate.go:23-36, 0023_error_fingerprint_v2.sql:33).
SettlesUnlessCutShort == cutShort = "no" => SettlesRight

\* A gate whose schema is complete opens, and one that used up its attempts
\* opens when someone else completes it (schema.go:26-28 "Checking continues
\* forever; only APPLYING stops").
GateOpens ==
    \A p \in Hubs : <>[](Expected[p] \subseteq ledger) => []<>(pc[p] = "open")

\* The tables are those that exist, the open gates those of the hubs that serve.
Contract == INSTANCE SchemaContract WITH
    Gates <- Hubs, Migrators <- Procs, Wants <- Expected,
    TablesOf <- [v \in Versions |-> {o \in Objects \ Views : Creates(v, o)}],
    built <- {o \in Objects \ Views : objs[o] # Absent},
    applied <- ledger,
    opened <- {p \in Hubs : pc[p] = "open"}

\* The processes that race, fail and crash over one database without
\* transactions keep what the migrations promise: tables are never lost,
\* versions go on record in the order of a module set and after their tables,
\* and a gate opens on a complete schema only (migrate.go:20-36, schema.go:26-35).
KeepsContract == Contract!ContractSpec
===============================================================================
