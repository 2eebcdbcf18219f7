------------------------------- MODULE Startup -------------------------------
(***************************************************************************)
(* What the API, the workers and the bot do to each other when they start  *)
(* on one data directory: db.init_db creates or extends the schema, and    *)
(* the first use of a one-time code creates or reads the key file          *)
(* (auth._secret_for).  Nothing serializes them.                           *)
(***************************************************************************)
EXTENDS Naturals, FiniteSets

CONSTANTS
    Procs,       \* processes started side by side
    NumTables,   \* Base.metadata.sorted_tables, in the order they are created
    JobsTable,   \* the one of them that older installations have
    NumColumns,  \* columns it was given later
    Attempts,    \* the parameter attempts of init_db
    MaxCrashes,  \* bound on the processes killed while they start
    NoKey

Tables  == 1 .. NumTables
Columns == 1 .. NumColumns

ASSUME StartupAssumption ==
    /\ NumTables \in Nat /\ NumColumns \in Nat /\ JobsTable \in Tables
    /\ Attempts \in Nat \ {0} /\ MaxCrashes \in Nat
    /\ NoKey \notin Procs /\ "short" \notin Procs /\ NoKey # "short"

VARIABLES
    tables,  \* tables in the database
    columns, \* columns of its jobs table
    keyFile, \* .auth-secret: NoKey for no file, "short" for less than 32 bytes,
             \* or the process whose random key it holds
    at,      \* where a process is
    missing, \* the tables its create_all found missing
    attempt, \* passes of init_db's loop that failed
    lost,    \* those that failed because another process was faster
    column,  \* the column it looks at
    key,     \* the key it works with
    crashes  \* processes killed so far

startVars == <<tables, columns, keyFile, at, missing, attempt, lost, column, key, crashes>>

Places == {"check", "create", "raced", "columns", "alter", "ready", "write",
           "read", "serving", "dead"}

Step(p, from, to) == at[p] = from /\ at' = [at EXCEPT ![p] = to]

-----------------------------------------------------------------------------
\* The loop around create_all.  It looks for all the tables first ...
CheckTablesOnce(p) ==                      \* mutant: a retry trusts its first look
    /\ Step(p, "check", "create")
    /\ missing' = [missing EXCEPT ![p] = IF attempt[p] = 0 THEN Tables \ tables ELSE @]
    /\ UNCHANGED <<tables, columns, keyFile, attempt, lost, column, key, crashes>>
CheckTables(p) ==
    /\ Step(p, "check", "create")
    /\ missing' = [missing EXCEPT ![p] = Tables \ tables]
    /\ UNCHANGED <<tables, columns, keyFile, attempt, lost, column, key, crashes>>

\* The first of them; create_all does not look again.
IsNext(p, t) == t \in missing[p] /\ \A u \in missing[p] : t <= u

\* ... then creates those it missed, one statement each ...
CreateTable(p) ==
    /\ Step(p, "create", "create")
    /\ \E t \in Tables \ tables :
        /\ IsNext(p, t)
        /\ missing' = [missing EXCEPT ![p] = @ \ {t}]
        /\ tables' = tables \cup {t}
        /\ columns' = IF t = JobsTable THEN Columns ELSE columns
    /\ UNCHANGED <<keyFile, attempt, lost, column, key, crashes>>

TablesCreated(p) ==
    /\ missing[p] = {}
    /\ Step(p, "create", "columns")
    /\ UNCHANGED <<tables, columns, keyFile, missing, attempt, lost, column, key, crashes>>

\* ... until one exists already: on the last attempt that is fatal ...
LosesRaceAlways(p) ==                      \* mutant: the attempts are not counted
    /\ \E t \in tables : IsNext(p, t)
    /\ Step(p, "create", "raced")
    /\ lost' = [lost EXCEPT ![p] = @ + 1]
    /\ UNCHANGED <<tables, columns, keyFile, missing, attempt, column, key, crashes>>
LosesRace(p) ==
    /\ \E t \in tables : IsNext(p, t)
    /\ Step(p, "create", IF attempt[p] = Attempts - 1 THEN "dead" ELSE "raced")
    /\ lost' = [lost EXCEPT ![p] = @ + 1]
    /\ UNCHANGED <<tables, columns, keyFile, missing, attempt, column, key, crashes>>

\* ... and before it is not, if by now every table is there.
AfterRaceTrusting(p) ==                    \* mutant: every race is a success
    /\ Step(p, "raced", "columns")
    /\ UNCHANGED <<tables, columns, keyFile, missing, attempt, lost, column, key, crashes>>
AfterRace(p) ==
    /\ Step(p, "raced", IF tables = Tables THEN "columns" ELSE "check")
    /\ attempt' = [attempt EXCEPT ![p] = IF tables = Tables THEN @ ELSE @ + 1]
    /\ UNCHANGED <<tables, columns, keyFile, missing, lost, column, key, crashes>>

\* The database stays locked for the 30 seconds a statement waits.
Locked(p) ==
    /\ missing[p] # {}
    /\ IF attempt[p] = Attempts - 1
       THEN Step(p, "create", "dead") /\ UNCHANGED attempt
       ELSE /\ Step(p, "create", "check")
            /\ attempt' = [attempt EXCEPT ![p] = @ + 1]
    /\ UNCHANGED <<tables, columns, keyFile, missing, lost, column, key, crashes>>

-----------------------------------------------------------------------------
\* The columns: look, ALTER, and on an error look again.

LookForColumn(p) ==
    /\ column[p] \in Columns
    /\ IF column[p] \in columns
       THEN /\ Step(p, "columns", "columns")
            /\ column' = [column EXCEPT ![p] = @ + 1]
       ELSE Step(p, "columns", "alter") /\ UNCHANGED column
    /\ UNCHANGED <<tables, columns, keyFile, missing, attempt, lost, key, crashes>>

AlterTable(p) ==
    /\ Step(p, "alter", "columns")
    /\ columns' = columns \cup {column[p]}
    /\ column' = [column EXCEPT ![p] = @ + 1]
    /\ UNCHANGED <<tables, keyFile, missing, attempt, lost, key, crashes>>

\* Another error, a database that stays locked: fatal if the column is still
\* not there.
AlterFails(p) ==
    /\ column[p] \notin columns
    /\ Step(p, "alter", "dead")
    /\ UNCHANGED <<tables, columns, keyFile, missing, attempt, lost, column, key, crashes>>

\* The switch to WAL, last of all.
SchemaDone(p) ==
    /\ column[p] \notin Columns
    /\ Step(p, "columns", "ready")
    /\ UNCHANGED <<tables, columns, keyFile, missing, attempt, lost, column, key, crashes>>

WalFails(p) ==
    /\ column[p] \notin Columns
    /\ Step(p, "columns", "dead")
    /\ UNCHANGED <<tables, columns, keyFile, missing, attempt, lost, column, key, crashes>>

-----------------------------------------------------------------------------
\* The key: O_EXCL decides who writes it; the others poll until it is whole.

OpenKeyTruncates(p) ==                     \* mutant: O_TRUNC instead of O_EXCL
    /\ Step(p, "ready", "write")
    /\ keyFile' = "short"
    /\ UNCHANGED <<tables, columns, missing, attempt, lost, column, key, crashes>>
OpenKey(p) ==
    /\ Step(p, "ready", IF keyFile = NoKey THEN "write" ELSE "read")
    /\ keyFile' = IF keyFile = NoKey THEN "short" ELSE keyFile
    /\ UNCHANGED <<tables, columns, missing, attempt, lost, column, key, crashes>>

WriteKey(p) ==
    /\ Step(p, "write", "serving")
    /\ keyFile' = p
    /\ key' = [key EXCEPT ![p] = p]
    /\ UNCHANGED <<tables, columns, missing, attempt, lost, column, crashes>>

ReadKey(p) ==
    /\ keyFile \in Procs
    /\ Step(p, "read", "serving")
    /\ key' = [key EXCEPT ![p] = keyFile]
    /\ UNCHANGED <<tables, columns, keyFile, missing, attempt, lost, column, crashes>>

\* After a second the request fails; the next one tries again.
KeyTimeoutFatal(p) ==                      \* mutant: a failed read is remembered
    /\ keyFile \notin Procs
    /\ Step(p, "read", "dead")
    /\ UNCHANGED <<tables, columns, keyFile, missing, attempt, lost, column, key, crashes>>
KeyTimeout(p) ==
    /\ keyFile \notin Procs
    /\ Step(p, "read", "ready")
    /\ UNCHANGED <<tables, columns, keyFile, missing, attempt, lost, column, key, crashes>>

\* A process is killed and started again; the database and the file stay.
Restart(p) ==
    /\ crashes < MaxCrashes
    /\ crashes' = crashes + 1
    /\ at' = [at EXCEPT ![p] = "check"]
    /\ missing' = [missing EXCEPT ![p] = {}]
    /\ attempt' = [attempt EXCEPT ![p] = 0]
    /\ lost' = [lost EXCEPT ![p] = 0]
    /\ column' = [column EXCEPT ![p] = 1]
    /\ key' = [key EXCEPT ![p] = NoKey]
    /\ UNCHANGED <<tables, columns, keyFile>>

\* A new installation, or one from before some of the columns.
StartupInit ==
    /\ \/ tables = {} /\ columns = {}
       \/ tables = {JobsTable} /\ columns \in SUBSET Columns
    /\ keyFile = NoKey
    /\ at = [p \in Procs |-> "check"]
    /\ missing = [p \in Procs |-> {}]
    /\ attempt = [p \in Procs |-> 0]
    /\ lost = [p \in Procs |-> 0]
    /\ column = [p \in Procs |-> 1]
    /\ key = [p \in Procs |-> NoKey]
    /\ crashes = 0

ProcStep(p) ==
    \/ CheckTables(p) \/ CreateTable(p) \/ TablesCreated(p) \/ LosesRace(p)
    \/ AfterRace(p) \/ LookForColumn(p) \/ AlterTable(p) \/ SchemaDone(p)
    \/ OpenKey(p) \/ WriteKey(p) \/ ReadKey(p) \/ KeyTimeout(p)

StartupNext ==
    \E p \in Procs :
        ProcStep(p) \/ Locked(p) \/ AlterFails(p) \/ WalFails(p) \/ Restart(p)

StartupSpec == StartupInit /\ [][StartupNext]_startVars

\* Every process gets to run; a reader of the key polls while it is written.
StartupFairness == \A p \in Procs : WF_startVars(ProcStep(p)) /\ SF_startVars(ReadKey(p))

FairStartupSpec == StartupSpec /\ StartupFairness

-----------------------------------------------------------------------------
(* Safety. *)

StartupTypeOK ==
    /\ tables \subseteq Tables /\ columns \subseteq Columns
    /\ keyFile \in Procs \cup {NoKey, "short"}
    /\ at \in [Procs -> Places]
    /\ missing \in [Procs -> SUBSET Tables]
    /\ attempt \in [Procs -> 0 .. Attempts - 1]
    /\ lost \in [Procs -> 0 .. Attempts]
    /\ column \in [Procs -> 1 .. NumColumns + 1]
    /\ key \in [Procs -> Procs \cup {NoKey}]
    /\ crashes \in 0 .. MaxCrashes

\* Whoever is through init_db finds every table and every column, whoever of
\* them all created it.
ReadySchema ==
    \A p \in Procs : at[p] \in {"ready", "write", "read", "serving"} =>
        tables = Tables /\ columns = Columns

\* All processes work with one key, the one in the file: a code whose digest
\* the bot stored is the code the API accepts.
OneKey == \A p \in Procs : key[p] # NoKey => key[p] = keyFile

\* A process loses no more races than there are tables: each one it loses is
\* over a table that was not there when it looked.
LossesAreProgress == \A p \in Procs : lost[p] <= Cardinality(tables)

-----------------------------------------------------------------------------
(* Liveness, under FairStartupSpec. *)

\* The writer of the key was killed between creating the file and filling it:
\* _secret_for has no way out of this, nobody removes the file.
Torn == keyFile = "short" /\ \A p \in Procs : at[p] # "write"

\* Whoever needs the key has it some day, unless the file is torn or a restart
\* of its own fails in the database.
KeyShared ==
    \A p \in Procs :
        at[p] = "ready" ~> \/ key[p] # NoKey \/ Torn
                           \/ at[p] = "dead" /\ crashes > 0
=============================================================================
