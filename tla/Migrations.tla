----------------------------- MODULE Migrations ------------------------------
(***************************************************************************)
(* The platform schema and the runners that migrate it                     *)
(* (durability/migrations.py): apply_platform_migrations, run by           *)
(* deployments that may start at the same time and come from different     *)
(* builds, and the gate every job passes before it uses the database.      *)
(*                                                                         *)
(* A migration is its identity: its version is its place in its build, its *)
(* name and checksum are the model value there.  A runner's statements are *)
(* one transaction: what it applied is visible to the others only when it  *)
(* commits, and gone when it fails.  Two things come before its lock: the  *)
(* set-up of the checkpoint library's tables, statement by statement and   *)
(* each committed by itself, and the bootstrap of the history table inside *)
(* the transaction.  There runners can make each other fail.               *)
(***************************************************************************)
EXTENDS Naturals, Sequences, FiniteSets

CONSTANTS
    Runners,          \* migration-owner connections
    Builds,           \* [Runners -> Seq(identity)]: PLATFORM_MIGRATIONS
    Expected,         \* the build of the runtime that the gate admits
    Earlier,          \* what an earlier build left, unless the database is new
    FREE,             \* the advisory lock is not held
    VendorVersion     \* steps of the checkpoint library's own schema

Identities == UNION {{Builds[r][i] : i \in 1..Len(Builds[r])} : r \in Runners}

(* _validate_installed_migrations: contiguous by construction of the table  *)
(* as a sequence; no unknown version; every identity as in this build.      *)
Agrees(installed, build) ==
    /\ Len(installed) <= Len(build)
    /\ \A v \in 1..Len(installed) : installed[v] = build[v]

(* _validate_migration_inventory: names are unique; every build is non-empty. *)
ASSUME BuildAssumption ==
    /\ Runners # {}
    /\ \A r \in Runners : Builds[r] \in Seq(Identities) /\ Len(Builds[r]) > 0
    /\ \A r \in Runners : \A i, j \in 1..Len(Builds[r]) :
         Builds[r][i] = Builds[r][j] => i = j
    /\ Earlier \in Seq(Identities) /\ \E r \in Runners : Agrees(Earlier, Builds[r])
    /\ FREE \notin Runners
    /\ VendorVersion \in Nat

VARIABLES
    history,     \* platform_schema_migrations, by version
    schema,      \* committed steps: how often each migration was applied
    vendor,      \* steps recorded in checkpoint_migrations
    table,       \* platform_schema_migrations: absent, open (created in a
                 \* transaction that has not committed) or there
    lock,        \* holder of the advisory transaction lock
    runner       \* what each runner has reached, read and applied

migrationVars == <<history, schema, vendor, table, lock, runner>>

(* seen counts the vendor steps a runner has read or made, made says that   *)
(* its transaction created the history table; fresh is history: the         *)
(* database was not fully set up when the runner started.  A runner that    *)
(* returned, refused the history or failed on its own has ended.            *)
At(pc) ==
    [pc |-> pc, installed |-> <<>>, work |-> <<>>, seen |-> 0, made |-> FALSE, fresh |-> FALSE]

MigrationInit ==
    /\ \/ history = <<>> /\ vendor = 0 /\ table = "absent"
       \/ history = Earlier /\ vendor = VendorVersion /\ table = "there"
    /\ schema = [m \in Identities |-> Cardinality({v \in 1..Len(history) : history[v] = m})]
    /\ lock = FREE
    /\ runner = [r \in Runners |-> At("idle")]

(* require_platform_schema_version and read_platform_schema_version.        *)
GateOpen == Agrees(history, Expected) /\ Len(history) = Len(Expected)

(* The vendor's schema or the history table is not complete yet.            *)
NotSetUp == vendor < VendorVersion \/ table # "there"

(* apply_platform_migrations switches to autocommit; the library's set-up   *)
(* reads how far its schema is.  A runner that failed may be run again.     *)
BeginSetup(r) ==
    /\ runner[r].pc \in {"idle", "overtaken"}
    /\ runner' = [runner EXCEPT ![r] =
         [At("setup") EXCEPT !.seen = vendor, !.fresh = NotSetUp]]
    /\ UNCHANGED <<history, schema, vendor, table, lock>>

(* AsyncPostgresSaver.setup makes one step after another and records each,  *)
(* without a lock: a step that another runner has recorded meanwhile, or is *)
(* making at the same time, fails.                                          *)
Rival(r) ==
    \E q \in Runners \ {r} : runner[q].pc = "setup" /\ runner[q].seen = runner[r].seen

SetUpVendor(r) ==
    /\ runner[r].pc = "setup" /\ runner[r].seen < VendorVersion
    /\ \/ /\ vendor = runner[r].seen
          /\ vendor' = vendor + 1
          /\ runner' = [runner EXCEPT ![r].seen = @ + 1]
       \/ /\ vendor # runner[r].seen \/ Rival(r)
          /\ runner' = [runner EXCEPT ![r].pc = "overtaken"]
          /\ UNCHANGED vendor
    /\ UNCHANGED <<history, schema, table, lock>>

(* _require_checkpoint_vendor_schema: an unexpected vendor schema refuses   *)
(* the runner.                                                              *)
RequireVendor(r) ==
    /\ runner[r].pc = "setup" /\ runner[r].seen = VendorVersion
    /\ \/ runner' = [runner EXCEPT ![r].pc = "bootstrap"]
       \/ runner' = [runner EXCEPT ![r] = At("ended")]
    /\ UNCHANGED <<history, schema, vendor, table, lock>>

(* CREATE TABLE IF NOT EXISTS, the first statement of the transaction.      *)
(* While another transaction has created the table and not committed, the   *)
(* statement waits; it fails when the other commits, and creates the table  *)
(* when the other is rolled back.                                           *)
Bootstrap(r) ==
    /\ runner[r].pc \in {"bootstrap", "blocked"}
    /\ \/ /\ table = "absent" /\ table' = "open"
          /\ runner' = [runner EXCEPT ![r].pc = "waiting", ![r].made = TRUE]
       \/ /\ table = "open" /\ runner[r].pc = "bootstrap"
          /\ runner' = [runner EXCEPT ![r].pc = "blocked"]
          /\ UNCHANGED table
       \/ /\ table = "there"
          /\ runner' = [runner EXCEPT ![r].pc =
               IF @ = "blocked" THEN "overtaken" ELSE "waiting"]
          /\ UNCHANGED table
    /\ UNCHANGED <<history, schema, vendor, lock>>

(* Mutant: the lock is taken for one statement, not for the transaction.    *)
LockBriefly(r) ==
    /\ runner[r].pc = "waiting" /\ lock = FREE
    /\ runner' = [runner EXCEPT ![r].pc = "locked"]
    /\ UNCHANGED <<history, schema, vendor, table, lock>>

(* pg_advisory_xact_lock, held until the transaction ends.                  *)
TakeLock(r) ==
    /\ runner[r].pc = "waiting" /\ lock = FREE
    /\ lock' = r
    /\ runner' = [runner EXCEPT ![r].pc = "locked"]
    /\ UNCHANGED <<history, schema, vendor, table>>

(* The end of a transaction releases the lock; a rollback takes the history *)
(* table it created with it.                                                *)
Released(r) == IF lock = r THEN FREE ELSE lock
RolledBack(r) == lock' = Released(r) /\ table' = IF runner[r].made THEN "absent" ELSE table

(* _read_installed_migrations, after the lock was granted.                  *)
ReadInstalled(r) ==
    /\ runner[r].pc = "locked"
    /\ IF Agrees(history, Builds[r])
         THEN /\ runner' = [runner EXCEPT ![r].pc = "applying", ![r].installed = history]
              /\ UNCHANGED <<lock, table>>
         ELSE /\ runner' = [runner EXCEPT ![r] = At("ended")]
              /\ RolledBack(r)
    /\ UNCHANGED <<history, schema, vendor>>

NextVersion(r) == Len(runner[r].installed) + Len(runner[r].work) + 1

(* The steps of the next migration this runner did not find, and its row.   *)
ApplyMigration(r) ==
    /\ runner[r].pc = "applying"
    /\ NextVersion(r) <= Len(Builds[r])
    /\ runner' = [runner EXCEPT ![r].work = Append(@, Builds[r][NextVersion(r)])]
    /\ UNCHANGED <<history, schema, vendor, table, lock>>

(* The primary key of platform_schema_migrations refuses a version another  *)
(* transaction committed meanwhile: the runner's transaction fails.         *)
Commit(r) ==
    /\ runner[r].pc = "applying"
    /\ NextVersion(r) > Len(Builds[r])
    /\ IF runner[r].work = <<>> \/ Len(history) = Len(runner[r].installed)
         THEN /\ history' = history \o runner[r].work
              /\ schema' = [m \in Identities |->
                   schema[m] + Cardinality({i \in 1..Len(runner[r].work) :
                                              runner[r].work[i] = m})]
              /\ table' = "there"
              /\ lock' = Released(r)
              /\ runner' = [runner EXCEPT ![r] = At("ended")]
         ELSE /\ runner' = [runner EXCEPT ![r] = At("collided")]
              /\ RolledBack(r)
              /\ UNCHANGED <<history, schema>>
    /\ UNCHANGED vendor

(* A step fails, an unsupported payload refuses the data migration, or the  *)
(* runner dies: its transaction is rolled back, the vendor steps it made    *)
(* stay, and it may run again.                                              *)
Abort(r) ==
    /\ runner[r].pc \in {"setup", "bootstrap", "blocked", "waiting", "locked", "applying"}
    /\ runner' = [runner EXCEPT ![r] = At("idle")]
    /\ RolledBack(r)
    /\ UNCHANGED <<history, schema, vendor>>

Run(r) ==
    \/ BeginSetup(r) \/ SetUpVendor(r) \/ RequireVendor(r) \/ Bootstrap(r)
    \/ TakeLock(r) \/ ReadInstalled(r) \/ ApplyMigration(r) \/ Commit(r)

MigrationStep == \E r \in Runners : Run(r) \/ Abort(r)
-----------------------------------------------------------------------------
(* What the database went through is what its history says: every recorded  *)
(* migration was applied exactly once, nothing else was, and the history is *)
(* the beginning of a build, whatever runners of whatever builds started,   *)
(* failed or ran again.  And runners at the same time do not make each      *)
(* other fail once they are past the lock, where one that waited reads what *)
(* the other committed; before it, in the vendor's set-up and the           *)
(* bootstrap, only one that started before the database was fully set up    *)
(* does (migrations.py, apply_platform_migrations).                         *)
HistoryTellsSchema ==
    /\ \A m \in Identities :
         schema[m] = Cardinality({v \in 1..Len(history) : history[v] = m})
    /\ \E r \in Runners : Agrees(history, Builds[r])
    /\ \A r \in Runners : /\ runner[r].pc # "collided"
                          /\ runner[r].pc = "overtaken" => runner[r].fresh
=============================================================================
