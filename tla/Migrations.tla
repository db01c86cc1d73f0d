------------------------------ MODULE Migrations ----------------------------
(***************************************************************************)
(* Database.initialize: the processes of a deployment start on one         *)
(* database, which may be empty, of an earlier schema version, or left     *)
(* half way by a process that died (storage/database.py,                   *)
(* storage/migrations.py, storage/schema_version.py).                      *)
(*                                                                         *)
(* The SQLite driver opens no transaction before DDL, so every CREATE and  *)
(* ALTER is committed on its own; what is missing is looked up once before *)
(* the first of them.  Tables are reduced to one that is created before    *)
(* schema_versions and gets columns in each of three versions, the version *)
(* table itself, and one of version 5.                                     *)
(***************************************************************************)
EXTENDS Naturals, FiniteSets, FiniteSetsExt, Sequences, SequencesExt

CONSTANTS
    Processes,
    Crashes             \* bound on the processes that die

CURRENT_SCHEMA_VERSION == 5
Tables == << "alert_groups", "schema_versions", "runtime_jobs" >>
RuntimeTables == << "runtime_jobs" >>

\* The columns a version adds to those of the one before.
AddedBy == [v \in 2..4 |-> << << v, "a" >>, << v, "b" >> >>]
ColumnsOf(v) == UNION {ToSet(AddedBy[u]) : u \in 2..Min({v, 4})}

Idle == [pc |-> "idle"]

VARIABLES
    tables, columns, versions,      \* the database
    process,                        \* where each start is
    crashes

vars == << tables, columns, versions, process, crashes >>

TypeOK ==
    /\ tables \subseteq ToSet(Tables) /\ columns \subseteq ColumnsOf(5)
    /\ versions \subseteq 1..CURRENT_SCHEMA_VERSION /\ crashes \in 0..Crashes
    /\ \A p \in Processes : process[p] # Idle =>
        process[p].pc \in {"read", "migrate", "alter", "runtime", "create", "register"}

\* Empty, or as an earlier release left it.
Init ==
    /\ \/ tables = {} /\ columns = {} /\ versions = {}
       \/ \E v \in 1..5 :
            /\ tables = ToSet(Tables) \ (IF v < 5 THEN ToSet(RuntimeTables) ELSE {})
            /\ columns = ColumnsOf(v) /\ versions = {v}
    /\ process = [p \in Processes |-> Idle] /\ crashes = 0

Goto(p, pc) == process' = [process EXCEPT ![p].pc = pc]
\* An error raised to the caller of initialize, or its end.
Leave(p) == process' = [process EXCEPT ![p] = Idle]
Database == << tables, columns, versions >>
\* The first of those in order that are still to be made.
First(order, todo) ==
    order[CHOOSE i \in DOMAIN order :
            order[i] \in todo /\ \A j \in DOMAIN order : order[j] \in todo => i <= j]

-----------------------------------------------------------------------------
\* initialize refuses tables without a version table.
Refused == tables # {} /\ "schema_versions" \notin tables
Start(p) ==
    /\ process[p] = Idle /\ ~Refused
    /\ process' = [process EXCEPT ![p] =
           [pc |-> IF "schema_versions" \in tables THEN "read" ELSE "create",
            version |-> 0, todo |-> {}, begun |-> FALSE]]
    /\ UNCHANGED << Database, crashes >>

\* SELECT MAX(version): none is an empty version table.
MaxVersion == IF versions = {} THEN 0 ELSE Max(versions)
ReadVersion(p) ==
    /\ process[p].pc = "read"
    /\ process' = [process EXCEPT ![p].version = MaxVersion,
           ![p].pc = CASE MaxVersion \in {0, CURRENT_SCHEMA_VERSION} -> "create"
                       [] MaxVersion \in 1..3 -> "migrate"
                       [] MaxVersion = 4 -> "runtime"]
    /\ UNCHANGED << Database, crashes >>

\* _add_columns: the tables must exist; the missing columns are looked up.
Target(p) == process[p].version + 1
LookUpColumns(p) ==
    /\ process[p].pc = "migrate"
    /\ IF "alert_groups" \in tables
       THEN process' = [process EXCEPT ![p].pc = "alter",
                ![p].todo = ToSet(AddedBy[Target(p)]) \ columns]
       ELSE Leave(p)
    /\ UNCHANGED << Database, crashes >>

\* ALTER TABLE fails on a column another process added meanwhile.
AddColumn(p) ==
    /\ process[p].pc = "alter" /\ process[p].todo # {}
    /\ LET c == First(AddedBy[Target(p)], process[p].todo) IN
        IF c \in columns
        THEN Leave(p) /\ UNCHANGED columns
        ELSE /\ columns' = columns \union {c}
             /\ process' = [process EXCEPT ![p].todo = @ \ {c}]
    /\ UNCHANGED << tables, versions, crashes >>

\* The version is a primary key.
Record(p, v, next) ==
    IF v \in versions
    THEN Leave(p) /\ UNCHANGED versions
    ELSE /\ versions' = versions \union {v}
         /\ process' = [process EXCEPT ![p].pc = next, ![p].version = v, ![p].begun = FALSE]

ColumnsAdded_Unless(p) == Cardinality(process[p].todo) <= 1
ColumnsAdded(p) == process[p].todo = {}
RecordMigration(p) ==
    /\ process[p].pc = "alter" /\ ColumnsAdded(p)
    /\ Record(p, Target(p), IF Target(p) < 4 THEN "migrate" ELSE "runtime")
    /\ UNCHANGED << tables, columns, crashes >>

\* create_all: missing tables are looked up first, then created one by one; a
\* new table has all its columns.
LookUpTables(p, wanted) ==
    /\ ~process[p].begun
    /\ process' = [process EXCEPT ![p].begun = TRUE, ![p].todo = ToSet(wanted) \ tables]
    /\ UNCHANGED << Database, crashes >>

CreateTable(p) ==
    /\ process[p].pc \in {"runtime", "create"} /\ process[p].begun /\ process[p].todo # {}
    /\ LET t == First(Tables, process[p].todo) IN
        IF t \in tables
        THEN Leave(p) /\ UNCHANGED Database
        ELSE /\ tables' = tables \union {t}
             /\ columns' = IF t = "alert_groups" THEN ColumnsOf(5) ELSE columns
             /\ process' = [process EXCEPT ![p].todo = @ \ {t}]
             /\ UNCHANGED versions
    /\ UNCHANGED crashes

CreateRuntimeTables(p) == process[p].pc = "runtime" /\ LookUpTables(p, RuntimeTables)
CreateAll(p) == process[p].pc = "create" /\ LookUpTables(p, Tables)

RecordRuntime(p) ==
    /\ process[p].pc = "runtime" /\ process[p].begun /\ process[p].todo = {}
    /\ Record(p, 5, "create")
    /\ UNCHANGED << tables, columns, crashes >>

\* ensure_schema_version reads, and inserts in the same transaction.
ReadEnsured(p) ==
    /\ process[p].pc = "create" /\ process[p].begun /\ process[p].todo = {}
    /\ IF MaxVersion = 0 THEN Goto(p, "register") ELSE Leave(p)
    /\ UNCHANGED << Database, crashes >>

Register(p) ==
    /\ process[p].pc = "register" /\ Leave(p)
    /\ versions' = versions \union {CURRENT_SCHEMA_VERSION}
    /\ UNCHANGED << tables, columns, crashes >>

Crash(p) ==
    /\ process[p] # Idle /\ crashes < Crashes /\ crashes' = crashes + 1
    /\ Leave(p) /\ UNCHANGED Database

Next ==
    \E p \in Processes :
        \/ Start(p) \/ ReadVersion(p) \/ LookUpColumns(p) \/ AddColumn(p) \/ RecordMigration(p)
        \/ CreateRuntimeTables(p) \/ CreateAll(p) \/ CreateTable(p) \/ RecordRuntime(p)
        \/ ReadEnsured(p) \/ Register(p) \/ Crash(p)

Spec == Init /\ [][Next]_vars

-----------------------------------------------------------------------------
\* A recorded version stands for its columns and tables, whoever added them and
\* whoever died meanwhile, and a database with a version is never refused.
VersionIsWhole ==
    /\ versions # {} => ~Refused /\ ColumnsOf(Max(versions)) \subseteq columns
    /\ CURRENT_SCHEMA_VERSION \in versions => tables = ToSet(Tables)

\* docs/data_model.md: repeated initialization is idempotent.  A first start
\* cut short before the version table is created cannot be repeated.
CanInitializeAgain == ~Refused \/ \E p \in Processes : process[p] # Idle
=============================================================================
