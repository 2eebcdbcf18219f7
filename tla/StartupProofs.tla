---------------------------- MODULE StartupProofs ----------------------------
(***************************************************************************)
(* What holds of processes that start side by side, for any number of      *)
(* them, of tables, of columns and of restarts.                            *)
(***************************************************************************)
EXTENDS Startup, FiniteSetTheorems, TLAPS

\* The loop of init_db counts a lost race at the latest on its next pass.
AttemptsCounted ==
    \A p \in Procs :
        /\ at[p] \in {"check", "create"} => lost[p] <= attempt[p]
        /\ at[p] = "raced" => lost[p] <= attempt[p] + 1 /\ attempt[p] < Attempts - 1

\* A column is altered only while there is one to look at.
AltersColumn == \A p \in Procs : at[p] = "alter" => column[p] \in Columns

TypeInv == StartupTypeOK /\ AttemptsCounted /\ AltersColumn

\* What a process has seen of the schema is there: the tables it did not miss
\* while it creates the others, and the columns it is past.
SchemaInv ==
    \A p \in Procs :
        /\ at[p] = "create" => Tables \ missing[p] \subseteq tables
        /\ at[p] \in {"check", "create", "raced"} => column[p] = 1
        /\ at[p] \in {"columns", "alter"} =>
              tables = Tables /\ 1 .. column[p] - 1 \subseteq columns
        /\ at[p] \in {"ready", "write", "read", "serving"} =>
              tables = Tables /\ columns = Columns

\* The key file has one writer, and nobody has a key before it is written.
KeyInv ==
    /\ \A p \in Procs : key[p] # NoKey => keyFile = key[p]
    /\ \A p \in Procs : at[p] = "write" => keyFile = "short"
    /\ \A p, q \in Procs : at[p] = "write" /\ at[q] = "write" => p = q

\* The races a process lost were over different tables, none of which it takes
\* for missing any more.
LossesInv ==
    \A p \in Procs :
        /\ lost[p] <= Cardinality(tables)
        /\ at[p] = "create" => lost[p] <= Cardinality(tables \ missing[p])

-----------------------------------------------------------------------------

\* The types hold when the first process starts.
LEMMA TypeInit == StartupInit => TypeInv
  BY StartupAssumption
  DEF StartupInit, TypeInv, StartupTypeOK, AttemptsCounted, AltersColumn, Places,
      Tables, Columns

\* Every step of a process keeps the types.
LEMMA TypeStep == TypeInv /\ [StartupNext]_startVars => TypeInv'
<1> SUFFICES ASSUME TypeInv, [StartupNext]_startVars PROVE TypeInv'
  OBVIOUS
<1> USE StartupAssumption
        DEF TypeInv, StartupTypeOK, AttemptsCounted, AltersColumn, Places, Step,
            Tables, Columns
<1>1. ASSUME NEW p \in Procs, CheckTables(p) PROVE TypeInv'
  BY <1>1 DEF CheckTables
<1>2. ASSUME NEW p \in Procs, CreateTable(p) PROVE TypeInv'
  BY <1>2 DEF CreateTable
<1>3. ASSUME NEW p \in Procs, TablesCreated(p) PROVE TypeInv'
  BY <1>3 DEF TablesCreated
<1>4. ASSUME NEW p \in Procs, LosesRace(p) PROVE TypeInv'
  BY <1>4 DEF LosesRace
<1>5. ASSUME NEW p \in Procs, AfterRace(p) PROVE TypeInv'
  BY <1>5 DEF AfterRace
<1>6. ASSUME NEW p \in Procs, LookForColumn(p) PROVE TypeInv'
  BY <1>6 DEF LookForColumn
<1>7. ASSUME NEW p \in Procs, AlterTable(p) PROVE TypeInv'
  <2>1. column[p] \in 1 .. NumColumns
    BY <1>7 DEF AlterTable
  <2>2. column' \in [Procs -> 1 .. NumColumns + 1]
    BY <1>7, <2>1 DEF AlterTable
  <2>3. columns' \subseteq 1 .. NumColumns
    BY <1>7, <2>1 DEF AlterTable
  <2> QED BY <1>7, <2>2, <2>3 DEF AlterTable
<1>8. ASSUME NEW p \in Procs, SchemaDone(p) PROVE TypeInv'
  BY <1>8 DEF SchemaDone
<1>9. ASSUME NEW p \in Procs, OpenKey(p) PROVE TypeInv'
  BY <1>9 DEF OpenKey
<1>10. ASSUME NEW p \in Procs, WriteKey(p) PROVE TypeInv'
  BY <1>10 DEF WriteKey
<1>11. ASSUME NEW p \in Procs, ReadKey(p) PROVE TypeInv'
  BY <1>11 DEF ReadKey
<1>12. ASSUME NEW p \in Procs, KeyTimeout(p) PROVE TypeInv'
  BY <1>12 DEF KeyTimeout
<1>13. ASSUME NEW p \in Procs, Locked(p) PROVE TypeInv'
  BY <1>13 DEF Locked
<1>14. ASSUME NEW p \in Procs, Restart(p) PROVE TypeInv'
  BY <1>14 DEF Restart
<1>15. CASE UNCHANGED startVars
  BY <1>15 DEF startVars
<1>16. ASSUME NEW p \in Procs, AlterFails(p) \/ WalFails(p) PROVE TypeInv'
  BY <1>16 DEF AlterFails, WalFails
<1> QED
  BY <1>1, <1>2, <1>3, <1>4, <1>5, <1>6, <1>7, <1>8, <1>9, <1>10, <1>11, <1>12,
     <1>13, <1>14, <1>15, <1>16
  DEF StartupNext, ProcStep

\* So they always do.
LEMMA Typed == StartupSpec => []TypeInv
  BY TypeInit, TypeStep, PTL DEF StartupSpec

\* Every variable keeps its type; in particular no process goes through the
\* loop of init_db, or loses a race, more often than its attempts allow.
THEOREM StartupTyping == StartupSpec => []StartupTypeOK
<1>1. TypeInv => StartupTypeOK
  BY DEF TypeInv
<1> QED BY <1>1, Typed, PTL

-----------------------------------------------------------------------------

\* The invariant of the schema needs nothing but the types.
LEMMA SchemaStep == TypeInv /\ SchemaInv /\ [StartupNext]_startVars => SchemaInv'
<1> SUFFICES ASSUME TypeInv, SchemaInv, [StartupNext]_startVars PROVE SchemaInv'
  OBVIOUS
<1> USE StartupAssumption DEF TypeInv, StartupTypeOK, SchemaInv, Step, Columns
<1>1. ASSUME NEW p \in Procs, CheckTables(p) PROVE SchemaInv'
  BY <1>1 DEF CheckTables
<1>2. ASSUME NEW p \in Procs, CreateTable(p) PROVE SchemaInv'
  BY <1>2 DEF CreateTable, IsNext
<1>3. ASSUME NEW p \in Procs, TablesCreated(p) PROVE SchemaInv'
  <2>1. tables = Tables
    BY <1>3 DEF TablesCreated
  <2>2. column[p] = 1 /\ 1 .. column[p] - 1 = {}
    BY <1>3 DEF TablesCreated
  <2> QED BY <1>3, <2>1, <2>2 DEF TablesCreated
<1>4. ASSUME NEW p \in Procs, LosesRace(p) PROVE SchemaInv'
  BY <1>4 DEF LosesRace
<1>5. ASSUME NEW p \in Procs, AfterRace(p) PROVE SchemaInv'
  BY <1>5 DEF AfterRace
<1>6. ASSUME NEW p \in Procs, LookForColumn(p) PROVE SchemaInv'
  <2>1. CASE column[p] \in columns
    <3>1. /\ column'[p] = column[p] + 1 /\ column[p] \in 1 .. NumColumns
          /\ \A q \in Procs \ {p} : column'[q] = column[q]
          /\ \A q \in Procs : at'[q] = at[q]
          /\ UNCHANGED <<tables, columns, missing>>
      BY <1>6, <2>1 DEF LookForColumn
    <3>2. 1 .. column'[p] - 1 = (1 .. column[p] - 1) \cup {column[p]}
      BY <3>1
    <3> QED BY <1>6, <2>1, <3>1, <3>2 DEF LookForColumn
  <2>2. CASE column[p] \notin columns
    BY <1>6, <2>2 DEF LookForColumn
  <2> QED BY <2>1, <2>2
<1>7. ASSUME NEW p \in Procs, AlterTable(p) PROVE SchemaInv'
  <2>1. /\ columns' = columns \cup {column[p]} /\ column[p] \in 1 .. NumColumns
        /\ column'[p] = column[p] + 1
    BY <1>7 DEF AlterTable, AltersColumn
  <2>2. 1 .. column'[p] - 1 \subseteq columns'
    <3>1. 1 .. column[p] - 1 \subseteq columns
      BY <1>7 DEF AlterTable
    <3>2. \A c \in 1 .. column'[p] - 1 : c \in 1 .. column[p] - 1 \/ c = column[p]
      BY <2>1
    <3> QED BY <2>1, <3>1, <3>2
  <2>3. columns' \subseteq 1 .. NumColumns
    BY <2>1
  <2>4. \A q \in Procs \ {p} : column'[q] = column[q] /\ at'[q] = at[q]
    BY <1>7 DEF AlterTable
  <2>5. /\ tables' = tables /\ missing' = missing
        /\ at[p] = "alter" /\ at'[p] = "columns"
    BY <1>7 DEF AlterTable
  <2> QED BY <2>1, <2>2, <2>3, <2>4, <2>5
<1>8. ASSUME NEW p \in Procs, SchemaDone(p) PROVE SchemaInv'
  <2>1. column[p] \in 1 .. NumColumns + 1 /\ column[p] \notin 1 .. NumColumns
    BY <1>8 DEF SchemaDone
  <2>2. column[p] - 1 = NumColumns
    BY <2>1
  <2>3. columns = 1 .. NumColumns /\ tables = Tables
    BY <1>8, <2>2 DEF SchemaDone
  <2> QED BY <1>8, <2>3 DEF SchemaDone
<1>9. ASSUME NEW p \in Procs, OpenKey(p) PROVE SchemaInv'
  BY <1>9 DEF OpenKey
<1>10. ASSUME NEW p \in Procs, WriteKey(p) PROVE SchemaInv'
  BY <1>10 DEF WriteKey
<1>11. ASSUME NEW p \in Procs, ReadKey(p) PROVE SchemaInv'
  BY <1>11 DEF ReadKey
<1>12. ASSUME NEW p \in Procs, KeyTimeout(p) PROVE SchemaInv'
  BY <1>12 DEF KeyTimeout
<1>13. ASSUME NEW p \in Procs, Locked(p) PROVE SchemaInv'
  BY <1>13 DEF Locked
<1>14. ASSUME NEW p \in Procs, Restart(p) PROVE SchemaInv'
  BY <1>14 DEF Restart
<1>15. CASE UNCHANGED startVars
  BY <1>15 DEF startVars
<1>16. ASSUME NEW p \in Procs, AlterFails(p) \/ WalFails(p) PROVE SchemaInv'
  BY <1>16 DEF AlterFails, WalFails
<1> QED
  BY <1>1, <1>2, <1>3, <1>4, <1>5, <1>6, <1>7, <1>8, <1>9, <1>10, <1>11, <1>12,
     <1>13, <1>14, <1>15, <1>16
  DEF StartupNext, ProcStep

\* Whoever is through init_db works on the whole schema, although create_all
\* and ALTER TABLE are not atomic across processes, and whoever crashed.
THEOREM SchemaIsReady == StartupSpec => []ReadySchema
<1>1. StartupInit => SchemaInv
  BY DEF StartupInit, SchemaInv
<1>2. SchemaInv => ReadySchema
  BY DEF SchemaInv, ReadySchema
<1> QED BY <1>1, <1>2, SchemaStep, Typed, PTL DEF StartupSpec

-----------------------------------------------------------------------------

\* Only the process that created the key file is about to write it.
LEMMA KeyStep == TypeInv /\ KeyInv /\ [StartupNext]_startVars => KeyInv'
<1> SUFFICES ASSUME TypeInv, KeyInv, [StartupNext]_startVars PROVE KeyInv'
  OBVIOUS
<1> USE StartupAssumption DEF TypeInv, StartupTypeOK, KeyInv, Step
<1>1. ASSUME NEW p \in Procs, OpenKey(p) PROVE KeyInv'
  BY <1>1 DEF OpenKey
<1>2. ASSUME NEW p \in Procs, WriteKey(p) PROVE KeyInv'
  BY <1>2 DEF WriteKey
<1>3. ASSUME NEW p \in Procs, ReadKey(p) PROVE KeyInv'
  BY <1>3 DEF ReadKey
<1>4. ASSUME NEW p \in Procs, Restart(p) PROVE KeyInv'
  BY <1>4 DEF Restart
<1>5. ASSUME NEW p \in Procs, KeyTimeout(p) PROVE KeyInv'
  BY <1>5 DEF KeyTimeout
<1>6. ASSUME NEW p \in Procs, CheckTables(p) \/ CreateTable(p) \/ TablesCreated(p)
      PROVE  KeyInv'
  BY <1>6 DEF CheckTables, CreateTable, TablesCreated
<1>7. ASSUME NEW p \in Procs, LosesRace(p) \/ AfterRace(p) \/ Locked(p)
      PROVE  KeyInv'
  BY <1>7 DEF LosesRace, AfterRace, Locked
<1>8. ASSUME NEW p \in Procs, LookForColumn(p) \/ AlterTable(p) \/ SchemaDone(p)
      PROVE  KeyInv'
  BY <1>8 DEF LookForColumn, AlterTable, SchemaDone
<1>9. ASSUME NEW p \in Procs, AlterFails(p) \/ WalFails(p) PROVE KeyInv'
  BY <1>9 DEF AlterFails, WalFails
<1>10. CASE UNCHANGED startVars
  BY <1>10 DEF startVars
<1> QED
  BY <1>1, <1>2, <1>3, <1>4, <1>5, <1>6, <1>7, <1>8, <1>9, <1>10
  DEF StartupNext, ProcStep

\* All processes that have a key have the one in the file, however many of
\* them create, read and lose it.
THEOREM KeyIsOne == StartupSpec => []OneKey
<1>1. StartupInit => KeyInv
  BY DEF StartupInit, KeyInv
<1>2. KeyInv => OneKey
  BY DEF KeyInv, OneKey
<1> QED BY <1>1, <1>2, KeyStep, Typed, PTL DEF StartupSpec

-----------------------------------------------------------------------------

\* A set of tables can be counted.
LEMMA TablesFinite ==
    ASSUME NEW S \in SUBSET Tables
    PROVE  IsFiniteSet(S) /\ Cardinality(S) \in Nat
<1>1. 1 \in Int /\ NumTables \in Int
  BY StartupAssumption
<1>2. IsFiniteSet(Tables)
  BY <1>1, FS_Interval DEF Tables
<1>3. IsFiniteSet(S)
  BY <1>2, FS_Subset
<1> QED BY <1>3, FS_CardinalityType

\* Fewer tables are not more.
LEMMA TablesMonotone ==
    ASSUME NEW S \in SUBSET Tables, NEW T \in SUBSET S
    PROVE  Cardinality(T) <= Cardinality(S)
  BY TablesFinite, FS_Subset

\* A step that changes neither the races lost nor the tables missed can only
\* add to the tables.
LEMMA LossesKept ==
    ASSUME TypeInv, LossesInv, tables \subseteq tables', tables' \subseteq Tables,
           lost' = lost, NEW p \in Procs,
           at'[p] = "create" => at[p] = "create" /\ missing'[p] = missing[p]
    PROVE  /\ lost'[p] <= Cardinality(tables')
           /\ at'[p] = "create" => lost'[p] <= Cardinality(tables' \ missing'[p])
<1>1. Cardinality(tables) <= Cardinality(tables')
  BY TablesMonotone
<1>2. Cardinality(tables \ missing[p]) <= Cardinality(tables' \ missing[p])
  BY TablesMonotone
<1>3. /\ Cardinality(tables) \in Nat /\ Cardinality(tables') \in Nat
      /\ Cardinality(tables \ missing[p]) \in Nat
      /\ Cardinality(tables' \ missing[p]) \in Nat
      /\ lost[p] \in Nat
  BY TablesFinite DEF TypeInv, StartupTypeOK
<1> QED BY <1>1, <1>2, <1>3 DEF LossesInv

\* Each lost race is over a table that is there and was missed.
LEMMA LossesStep == TypeInv /\ LossesInv /\ [StartupNext]_startVars => LossesInv'
<1> SUFFICES ASSUME TypeInv, LossesInv, [StartupNext]_startVars PROVE LossesInv'
  OBVIOUS
<1> TypeInv'
  BY TypeStep
<1> DEFINE Calm(p) == /\ tables \subseteq tables' /\ lost' = lost
                      /\ at'[p] = "create" => at[p] = "create" /\ missing'[p] = missing[p]
<1>a. ASSUME \A q \in Procs : Calm(q) PROVE LossesInv'
  BY <1>a, LossesKept DEF LossesInv, TypeInv, StartupTypeOK
<1> USE DEF TypeInv, StartupTypeOK, Step
<1>1. ASSUME NEW p \in Procs, CheckTables(p) PROVE LossesInv'
  <2>1. \A q \in Procs \ {p} : Calm(q)
    BY <1>1 DEF CheckTables
  <2>2. tables' = tables /\ lost' = lost /\ tables' \ missing'[p] = tables
    BY <1>1 DEF CheckTables
  <2> QED BY <2>1, <2>2, LossesKept DEF LossesInv
<1>2. ASSUME NEW p \in Procs, CreateTable(p) PROVE LossesInv'
  <2>1. \A q \in Procs \ {p} : Calm(q)
    BY <1>2 DEF CreateTable
  <2>2. /\ lost' = lost /\ at[p] = "create" /\ tables \subseteq tables'
        /\ tables \ missing[p] \subseteq tables' \ missing'[p]
    BY <1>2 DEF CreateTable
  <2>3. /\ Cardinality(tables) <= Cardinality(tables')
        /\ Cardinality(tables \ missing[p]) <= Cardinality(tables' \ missing'[p])
    BY <2>2, TablesMonotone
  <2>4. /\ Cardinality(tables) \in Nat /\ Cardinality(tables') \in Nat
        /\ Cardinality(tables \ missing[p]) \in Nat
        /\ Cardinality(tables' \ missing'[p]) \in Nat
        /\ lost[p] \in Nat
    BY TablesFinite
  <2>5. /\ lost'[p] <= Cardinality(tables')
        /\ lost'[p] <= Cardinality(tables' \ missing'[p])
    BY <2>2, <2>3, <2>4 DEF LossesInv
  <2>6. \A q \in Procs \ {p} :
           /\ lost'[q] <= Cardinality(tables')
           /\ at'[q] = "create" => lost'[q] <= Cardinality(tables' \ missing'[q])
    BY <2>1, LossesKept
  <2> QED BY <2>5, <2>6 DEF LossesInv
<1>3. ASSUME NEW p \in Procs, LosesRace(p) PROVE LossesInv'
  <2>1. PICK t \in tables : t \in missing[p]
    BY <1>3 DEF LosesRace, IsNext
  <2>2. /\ tables' = tables /\ missing' = missing /\ at[p] = "create"
        /\ at'[p] # "create" /\ lost'[p] = lost[p] + 1
        /\ \A q \in Procs \ {p} : at'[q] = at[q] /\ lost'[q] = lost[q]
    BY <1>3 DEF LosesRace
  <2>3. Cardinality((tables \ missing[p]) \cup {t}) = Cardinality(tables \ missing[p]) + 1
    BY <2>1, TablesFinite, FS_AddElement
  <2>4. Cardinality((tables \ missing[p]) \cup {t}) <= Cardinality(tables)
    BY <2>1, TablesMonotone
  <2>5. /\ Cardinality(tables) \in Nat /\ lost[p] \in Nat
        /\ Cardinality(tables \ missing[p]) \in Nat
    BY TablesFinite
  <2>6. lost'[p] <= Cardinality(tables')
    BY <2>2, <2>3, <2>4, <2>5 DEF LossesInv
  <2> QED BY <2>2, <2>6 DEF LossesInv
<1>4. ASSUME NEW p \in Procs, AfterRace(p) \/ Locked(p) \/ TablesCreated(p)
      PROVE  LossesInv'
  BY <1>4, <1>a DEF AfterRace, Locked, TablesCreated
<1>5. ASSUME NEW p \in Procs, LookForColumn(p) \/ AlterTable(p) \/ SchemaDone(p)
      PROVE  LossesInv'
  BY <1>5, <1>a DEF LookForColumn, AlterTable, SchemaDone
<1>6. ASSUME NEW p \in Procs, OpenKey(p) \/ WriteKey(p) \/ ReadKey(p) \/ KeyTimeout(p)
      PROVE  LossesInv'
  BY <1>6, <1>a DEF OpenKey, WriteKey, ReadKey, KeyTimeout
<1>7. ASSUME NEW p \in Procs, Restart(p) PROVE LossesInv'
  <2>1. /\ tables' = tables /\ at'[p] = "check" /\ lost'[p] = 0
        /\ \A q \in Procs \ {p} :
               at'[q] = at[q] /\ lost'[q] = lost[q] /\ missing'[q] = missing[q]
    BY <1>7 DEF Restart
  <2>2. 0 <= Cardinality(tables)
    BY TablesFinite
  <2> QED BY <2>1, <2>2 DEF LossesInv
<1>8. ASSUME NEW p \in Procs, AlterFails(p) \/ WalFails(p) PROVE LossesInv'
  BY <1>8, <1>a DEF AlterFails, WalFails
<1>9. CASE UNCHANGED startVars
  BY <1>9, <1>a DEF startVars
<1> QED
  BY <1>1, <1>2, <1>3, <1>4, <1>5, <1>6, <1>7, <1>8, <1>9 DEF StartupNext, ProcStep

\* A process loses no more races than there are tables, however many processes
\* start side by side (init_db).
THEOREM LossesEnd == StartupSpec => []LossesAreProgress
<1>1. StartupInit => LossesInv
  <2>1. ASSUME StartupInit PROVE tables \subseteq Tables
    BY <2>1, StartupAssumption DEF StartupInit
  <2>2. ASSUME StartupInit PROVE 0 <= Cardinality(tables)
    BY <2>1, <2>2, TablesFinite
  <2> QED BY <2>2 DEF StartupInit, LossesInv
<1>2. LossesInv => LossesAreProgress
  BY DEF LossesInv, LossesAreProgress
<1> QED BY <1>1, <1>2, LossesStep, Typed, PTL DEF StartupSpec
=============================================================================
