--------------------------- MODULE SchemaMigration ---------------------------
(***************************************************************************)
(* Migrator.applyPending(): under an advisory lock, the scripts of the     *)
(* versions that schema_version lacks, in order.  A script ends with a     *)
(* COMMIT of its own, so what it created is there before its version is    *)
(* recorded, and a process that stops in between leaves it unrecorded.     *)
(***************************************************************************)
EXTENDS Integers

CONSTANTS
    Migrator,
    NoMigrator,
    LastVersion,
    Repeatable, \* the versions whose script may run again: IF NOT EXISTS throughout
    MaxRuns     \* bound of the model: the runs of a script

ASSUME MigrationConstants ==
    /\ NoMigrator \notin Migrator
    /\ LastVersion \in Nat
    /\ Repeatable \subseteq 1..LastVersion
    /\ MaxRuns \in Nat

VARIABLES
    advisory,  \* the holder of the advisory lock
    todo,      \* migrator -> the pending versions it read and has not recorded
    ran,       \* migrator -> the version whose script it ran last, until recorded
    created,   \* the versions whose objects the database has
    recorded,  \* the versions in schema_version
    runs,      \* history: version -> how often its script was committed
    unrecorded \* history: the versions whose migrator stopped before recording them

migrationVars == <<advisory, todo, ran, created, recorded, runs, unrecorded>>

Version == 1..LastVersion

MigrationTypeOK ==
    /\ advisory \in Migrator \cup {NoMigrator}
    /\ todo \in [Migrator -> SUBSET Version]
    /\ ran \in [Migrator -> SUBSET Version]
    /\ created \subseteq Version
    /\ recorded \subseteq Version
    /\ runs \in [Version -> Nat]
    /\ unrecorded \subseteq Version

MigrationInit ==
    /\ advisory = NoMigrator
    /\ todo = [m \in Migrator |-> {}]
    /\ ran = [m \in Migrator |-> {}]
    /\ created = {}
    /\ recorded = {}
    /\ runs = [v \in Version |-> 0]
    /\ unrecorded = {}

AdvisoryIgnored(m) == advisory # m

\* pg_advisory_lock(): waits for the holder to unlock or to lose its connection.
AdvisoryFree(m) == advisory = NoMigrator

\* The lock is taken and the pending versions are read behind it.
BeginMigration(m) ==
    /\ AdvisoryFree(m)
    /\ todo[m] = {}
    /\ advisory' = m
    /\ todo' = [todo EXCEPT ![m] = Version \ recorded]
    /\ UNCHANGED <<ran, created, recorded, runs, unrecorded>>

Unlock(m) == IF advisory = m THEN NoMigrator ELSE advisory

\* The connection ends, or an exception unwinds to the unlock.
Leave(m) ==
    /\ advisory' = Unlock(m)
    /\ todo' = [todo EXCEPT ![m] = {}]
    /\ ran' = [ran EXCEPT ![m] = {}]
    /\ unrecorded' = unrecorded \cup (ran[m] \ recorded)

IsNext(m, v) == v \in todo[m] /\ \A u \in todo[m] : v <= u

\* _applyOne(): the script commits what it creates ...
RunScript(m, v) ==
    /\ IsNext(m, v) /\ ran[m] = {}
    /\ runs[v] < MaxRuns
    /\ v \in created => v \in Repeatable
    /\ created' = created \cup {v}
    /\ ran' = [ran EXCEPT ![m] = {v}]
    /\ runs' = [runs EXCEPT ![v] = @ + 1]
    /\ UNCHANGED <<advisory, todo, recorded, unrecorded>>

\* ... and the version is inserted, by its primary key at most once.
RecordVersion(m, v) ==
    /\ v \in ran[m]
    /\ IF v \in recorded
       THEN Leave(m) /\ UNCHANGED recorded
       ELSE /\ recorded' = recorded \cup {v}
            /\ todo' = [todo EXCEPT ![m] = @ \ {v}]
            /\ ran' = [ran EXCEPT ![m] = {}]
            /\ UNCHANGED <<advisory, unrecorded>>
    /\ UNCHANGED <<created, runs>>

\* Nothing is pending any more; or the next script fails, as one that is not
\* repeatable does when its objects are there; or the process stops anywhere.
EndMigration(m) ==
    /\ advisory = m \/ todo[m] # {}
    /\ Leave(m)
    /\ UNCHANGED <<created, recorded, runs>>

MigrationNext == \E m \in Migrator :
    \/ BeginMigration(m)
    \/ EndMigration(m)
    \/ \E v \in Version : RunScript(m, v) \/ RecordVersion(m, v)

MigrationSpec == MigrationInit /\ [][MigrationNext]_migrationVars

-----------------------------------------------------------------------------
\* The versions recorded are 1..k, each with its objects; beyond them the database
\* has at most the objects of version k + 1; and no script runs twice unless a
\* migrator stopped between its commit and its record, whoever migrates at once.
MigrationsInOrder ==
    /\ \A v \in recorded : v \in created /\ \A u \in 1..v : u \in recorded
    /\ \A v \in created : \A u \in 1..(v - 1) : u \in recorded
    /\ \A v \in Version : runs[v] > 1 => v \in unrecorded
=============================================================================
