---------------------------- MODULE StoreOpening ----------------------------
(***************************************************************************)
(* Creating, opening and migrating the database file (Store.initialize,    *)
(* connect, _migrate, transaction).  Processes open the store whenever     *)
(* they need it; any of them may find a file another process is still      *)
(* writing, or a version 1 store, and any of them may die between two      *)
(* commits.  Names that Retention has too are told apart: StoreProofs reads*)
(* both, the file and the rows kept in it.                                 *)
(***************************************************************************)
EXTENDS Naturals, FiniteSets

CONSTANTS
  Openers,      \* processes of the current release
  OldCommands,  \* command rows a version 1 store already holds
  NewCommands,  \* commands that callers may still send
  MaxCrashes    \* bound: processes killed

ASSUME OpeningAssumption == MaxCrashes \in Nat

CurrentSchema == 2    \* CURRENT_SCHEMA_VERSION

VARIABLES
  database,  \* the file as the next sqlite3.connect would see it
  pc,        \* what each process is doing
  accepted,  \* commands whose transaction was committed in the present file
  applied,   \* history: schema changes committed by migrations
  crashes

openingVars == <<database, pc, accepted, applied, crashes>>

\* tables: sqlite_master lists one; settings: every setting is inserted;
\* intent: the state of version 2 in schema_migrations
Files == [exists : BOOLEAN, tables : BOOLEAN, version : 0..CurrentSchema,
          settings : BOOLEAN, intent : {"none", "started", "complete"},
          commands : SUBSET (OldCommands \cup NewCommands)]

NoFile == [exists |-> FALSE, tables |-> FALSE, version |-> 0,
           settings |-> FALSE, intent |-> "none", commands |-> {}]

\* a store of the previous release
Previous == [exists |-> TRUE, tables |-> TRUE, version |-> 1,
             settings |-> TRUE, intent |-> "none", commands |-> OldCommands]

Steps == {"closed", "created", "tables", "schema", "seeding",  \* in initialize
          "outdated", "intended",                              \* in _migrate
          "open", "refused"}

OpeningInit ==
  /\ database \in {NoFile, Previous}
  /\ pc = [o \in Openers |-> "closed"]
  /\ accepted = database.commands
  /\ applied = 0
  /\ crashes = 0

Proceed(o, step) == pc' = [pc EXCEPT ![o] = step]

----------------------------------------------------------------------------
\* Store.initialize

\* O_CREAT | O_EXCL: one process creates the file, any other is told that the
\* store is already initialized.
Create(o) ==
  /\ pc[o] = "closed"
  /\ IF database.exists THEN Proceed(o, "refused") /\ UNCHANGED database
     ELSE Proceed(o, "created") /\ database' = [database EXCEPT !.exists = TRUE]
  /\ UNCHANGED <<accepted, applied, crashes>>

\* executescript runs in autocommit mode: its tables appear one by one, and
\* the version is set by its last statement.
WriteTables(o) ==
  /\ pc[o] = "created"
  /\ database' = [database EXCEPT !.tables = TRUE]
  /\ Proceed(o, "tables")
  /\ UNCHANGED <<accepted, applied, crashes>>

WriteVersion(o) ==
  /\ pc[o] = "tables"
  /\ database' = [database EXCEPT !.intent = "complete", !.version = CurrentSchema]
  /\ Proceed(o, "schema")
  /\ UNCHANGED <<accepted, applied, crashes>>

WriteSettings(o) ==
  /\ pc[o] = "schema"
  /\ database' = [database EXCEPT !.settings = TRUE]
  /\ Proceed(o, "seeding")
  /\ UNCHANGED <<accepted, applied, crashes>>

\* seed_passive_inventory: the last statements of initialize
Seed(o) ==
  /\ pc[o] = "seeding"
  /\ Proceed(o, "closed")
  /\ UNCHANGED <<database, accepted, applied, crashes>>

Initializing(o) == pc[o] \in {"created", "tables", "schema", "seeding"}

Removed == NoFile

\* sqlite3.Error: the half-written file and its log are removed, with any
\* command accepted in it so far.  A process that had it open keeps a file that
\* nobody will see again.
InitFails(o) ==
  /\ Initializing(o)
  /\ database' = Removed
  /\ accepted' = {}
  /\ pc' = [q \in Openers |-> IF q = o \/ pc[q] = "open" THEN "closed" ELSE pc[q]]
  /\ UNCHANGED <<applied, crashes>>

----------------------------------------------------------------------------
\* Store.connect and _migrate

\* Seeded fault: an intent that was recorded is taken for a finished migration.
FaultyVerdict == IF database.intent # "none" \/ ~database.tables THEN "open" ELSE
                 IF database.version = 1 THEN "outdated" ELSE "refused"

\* What an opener makes of the file.  An empty database is opened without
\* looking at its version; one with tables and no version is refused.
Verdict == IF ~database.tables \/ database.version = CurrentSchema THEN "open"
           ELSE IF database.version = 1 THEN "outdated" ELSE "refused"

\* The version is read outside any transaction.
Connect(o) ==
  /\ pc[o] = "closed" /\ database.exists
  /\ Proceed(o, Verdict)
  /\ UNCHANGED <<database, accepted, applied, crashes>>

\* First commit: the intent, whatever another opener has done meanwhile.
CommitIntent(o) ==
  /\ pc[o] = "outdated"
  /\ database' = [database EXCEPT !.intent = "started"]
  /\ Proceed(o, "intended")
  /\ UNCHANGED <<accepted, applied, crashes>>

\* Seeded fault: only the rows of the previous release are copied.
FaultyRebuilt(rows) == rows \cap OldCommands

\* commands_new is filled from commands, which it then replaces.
Rebuilt(rows) == rows

\* Second commit: table commands is rebuilt, the version set, the intent closed.
Migrate(o) ==
  /\ pc[o] = "intended"
  /\ database' = [database EXCEPT !.version = CurrentSchema, !.intent = "complete",
                          !.commands = Rebuilt(@)]
  /\ applied' = applied + 1
  /\ Proceed(o, "open")
  /\ UNCHANGED <<accepted, crashes>>

\* The database stays locked for too long, or a statement fails: the
\* transaction is rolled back and the caller gets an error.
MigrationFails(o) ==
  /\ pc[o] \in {"outdated", "intended"}
  /\ Proceed(o, "refused")
  /\ UNCHANGED <<database, accepted, applied, crashes>>

\* Store.transaction on an open connection: the version is checked first, and
\* a command needs the settings.
Transact(o) ==
  /\ pc[o] = "open"
  /\ IF database.version = CurrentSchema /\ database.settings
     THEN \E c \in NewCommands \cup OldCommands :
            /\ database' = [database EXCEPT !.commands = @ \cup {c}]
            /\ accepted' = accepted \cup {c}
     ELSE UNCHANGED <<database, accepted>>
  /\ Proceed(o, "closed")
  /\ UNCHANGED <<applied, crashes>>

\* A caller that got an error may try again.
Retry(o) ==
  /\ pc[o] = "refused"
  /\ Proceed(o, "closed")
  /\ UNCHANGED <<database, accepted, applied, crashes>>

\* The process is killed; an open transaction is rolled back.
Kill(o) ==
  /\ crashes < MaxCrashes
  /\ pc[o] \notin {"closed", "refused"}
  /\ Proceed(o, "closed")
  /\ crashes' = crashes + 1
  /\ UNCHANGED <<database, accepted, applied>>

----------------------------------------------------------------------------

OpenerStep(o) == \/ Connect(o) \/ CommitIntent(o) \/ Migrate(o)
                 \/ Transact(o) \/ Retry(o)

OpeningNext == \E o \in Openers :
  \/ Create(o) \/ WriteTables(o) \/ WriteVersion(o) \/ WriteSettings(o) \/ Seed(o)
  \/ InitFails(o) \/ OpenerStep(o) \/ MigrationFails(o) \/ Kill(o)

OpeningSpec == OpeningInit /\ [][OpeningNext]_openingVars

\* Some process keeps opening the store (the loops of the manager and workers),
\* each open runs to its end, and a migration does not fail for ever.
FairOpening == OpeningSpec /\ \A o \in Openers :
  /\ WF_openingVars(OpenerStep(o))
  /\ SF_openingVars(Connect(o)) /\ SF_openingVars(CommitIntent(o)) /\ SF_openingVars(Migrate(o))

----------------------------------------------------------------------------
\* Properties

\* The file, and what each process does with it, is as described; only a file
\* that exists has content.
OpeningTypeOK ==
  /\ database \in Files
  /\ pc \in [Openers -> Steps]
  /\ accepted \subseteq OldCommands \cup NewCommands
  /\ applied \in Nat /\ crashes \in 0..MaxCrashes
  /\ ~database.exists => database = NoFile

\* The file is always one the schema knows, only an existing one has content
\* (OpeningTypeOK), and no accepted command is lost, however many openers migrate the
\* same store while others already work in it (_migrate rebuilds table commands).
CommandsKept == OpeningTypeOK /\ accepted \subseteq database.commands

\* A store of the previous release is eventually migrated, although openers
\* die or fail between the two commits (connect, _migrate).
EventuallyMigrated == database.version = 1 ~> database.version = CurrentSchema

\* features/hardening.feature: "Concurrent openers cannot apply the same
\* migration twice".
MigratedOnce == applied <= 1
=============================================================================
