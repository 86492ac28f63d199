---------------------------- MODULE SqlStoreProofs ----------------------------
(***************************************************************************)
(* Proofs about the SQL database, for any number of processes, identities, *)
(* tokens and writers: whoever migrates it, writes to it or dies, and      *)
(* whenever.                                                               *)
(***************************************************************************)
EXTENDS Startup, RanksProofs, SequenceTheorems

-----------------------------------------------------------------------------
(* What a step of the deployment does to the database.                     *)
SqlStep ==
  \/ \E p \in Procs : SchemaStart(p) \/ SchemaStep(p) \/ SchemaEnds(p)
  \/ \E k \in Keys, t \in Tokens : RegisterDevice(k, t) \/ OldRegister(k, t) \/ UnregisterDevice(k, t)
  \/ \E t \in Tokens : DeactivateDevice(t)
  \/ \E w \in Writers, fee \in Fees : WriteBoxWide(w, TRUE, fee)
  \/ \E w \in Writers : WriteBoxWide(w, FALSE, DefaultFee) \/ WriteStep(w) \/ WriteFails(w)
  \/ OrphanBuildEnds
  \/ UNCHANGED sqlVars

LEMMA StepsOfTheDatabase ==
  ASSUME [Next]_vars
  PROVE  SqlStep
<1>1. ASSUME NEW p \in Procs, MainStep(p) \/ Shutdown(p) \/ Crash(p) 
      PROVE  SqlStep
  BY <1>1 DEF MainStep, Boot, Configure, OpenStore, EnsureSchema, Timeout, SchemaReady, CreateWallet, Mount,
     Shutdown, Crash, Exit, Gone, SqlStep
<1>2. ASSUME NEW p \in Procs, DeviceRequest(p) \/ BoxWideRequest(p)
      PROVE  SqlStep
  BY <1>2 DEF DeviceRequest, BoxWideRequest, SqlStep
<1>3. ASSUME \/ \E p \in Procs, c \in Clients, forged \in Forgeries : Lookup(p, c, forged)
             \/ \E p \in Procs : Search(p)
             \/ RegistryChanges \/ Tick \/ UNCHANGED vars
      PROVE  SqlStep
  BY <1>3 DEF Lookup, Search, RegistryChanges, Tick, vars, SqlStep
<1>4. ASSUME BuildEnds \/ Outside \/ \E w \in Writers : StoreStep(w) \/ StoreFails(w)
      PROVE  SqlStep
  BY <1>4 DEF BuildEnds, Outside, StoreStep, StoreFails, SqlStep
<1> QED BY <1>1, <1>2, <1>3, <1>4 DEF Next

(* The statement after each, of PostgreSQL and of SQLite.                  *)
PostgresAfter ==
  [tables |-> "findInvalid", findInvalid |-> "dropInvalid", dropInvalid |-> "createIndex",
   createIndex |-> "buildIndex", buildIndex |-> "indexes", indexes |-> "dropTokenKey",
   dropTokenKey |-> "seed", seed |-> "done"]
SqliteAfter ==
  [findTokenKey |-> "rebuild", rebuild |-> "tables", tables |-> "createIndex",
   createIndex |-> "indexes", indexes |-> "seed", seed |-> "done"]

LEMMA StatementsInOrder ==
  ASSUME NEW p \in Procs
  PROVE  /\ db.driver = Postgres /\ mig[p] \in DOMAIN PostgresAfter => After(p) = PostgresAfter[mig[p]]
         /\ db.driver = Sqlite /\ mig[p] \in DOMAIN SqliteAfter => After(p) = SqliteAfter[mig[p]]
<1>1. ASSUME db.driver = Postgres, NEW s \in DOMAIN PostgresAfter, mig[p] = s
      PROVE  After(p) = PostgresAfter[s]
  <2>1. Migrations = PostgresMigrations
    BY <1>1 DEF Migrations
  <2>2. \A j \in 1 .. 8 : PostgresMigrations[j] = s =>
          PostgresAfter[s] = IF j = 8 THEN "done" ELSE PostgresMigrations[j + 1]
    BY <1>1 DEF PostgresMigrations, PostgresAfter
  <2>3. \E j \in 1 .. 8 : PostgresMigrations[j] = s
    BY <1>1 DEF PostgresMigrations, PostgresAfter
  <2>4. Len(PostgresMigrations) = 8 /\ DOMAIN PostgresMigrations = 1 .. 8
    BY DEF PostgresMigrations
  <2> QED BY <1>1, <2>1, <2>2, <2>3, <2>4 DEF After
<1>2. ASSUME db.driver = Sqlite, NEW s \in DOMAIN SqliteAfter, mig[p] = s
      PROVE  After(p) = SqliteAfter[s]
  <2>1. Migrations = SqliteMigrations
    BY <1>2 DEF Migrations, Postgres, Sqlite
  <2>2. \A j \in 1 .. 6 : SqliteMigrations[j] = s =>
          SqliteAfter[s] = IF j = 6 THEN "done" ELSE SqliteMigrations[j + 1]
    BY <1>2 DEF SqliteMigrations, SqliteAfter
  <2>3. \E j \in 1 .. 6 : SqliteMigrations[j] = s
    BY <1>2 DEF SqliteMigrations, SqliteAfter
  <2>4. Len(SqliteMigrations) = 6 /\ DOMAIN SqliteMigrations = 1 .. 6
    BY DEF SqliteMigrations
  <2> QED BY <1>2, <2>1, <2>2, <2>3, <2>4 DEF After
<1> QED BY <1>1, <1>2

-----------------------------------------------------------------------------
(* EnsureSchema.                                                           *)

(* A process executes the statements of the database's own driver.         *)
Statements == IF db.driver = Postgres THEN DOMAIN PostgresAfter ELSE DOMAIN SqliteAfter

SchemaTyped ==
  /\ db \in Databases
  /\ mig \in [Procs -> {None, "done"} \cup Statements]
  /\ alone \in [Procs -> BOOLEAN]

(* What a process that is alone in EnsureSchema knows of the index: past   *)
(* the look for an invalid one it is valid or has still to be built, and   *)
(* past the build it is valid.  SQLite's index is never invalid.           *)
IndexKnown ==
  /\ db.driver = Sqlite => db.index \in {None, "valid"}
  /\ \A p \in Procs : alone[p] =>
       /\ Migrating(p) /\ \A q \in Procs \ {p} : ~ Migrating(q)
       /\ mig[p] = "createIndex" => db.index \in {None, "valid"}
       /\ mig[p] = "buildIndex" => db.index = "building"
       /\ mig[p] \in {"indexes", "dropTokenKey", "seed"} => db.index = "valid"

(* On PostgreSQL the old key is dropped only when the new one is there.    *)
KeyBeforeDrop ==
  db.driver = Postgres => \A p \in Procs : mig[p] = "dropTokenKey" => db.pairKey

SchemaInv == SchemaTyped /\ IndexKnown /\ KeyBeforeDrop

LEMMA SchemaInit == Init => SchemaInv
<1> SUFFICES ASSUME Init
             PROVE  SchemaInv
  OBVIOUS
<1> DEFINE driver == IF OnSql THEN cfg.DBDriver ELSE Sqlite
           old == deployment.legacy # {}
<1>1. driver \in {Postgres, Sqlite}
  BY DEF OnSql
<1>2. db \in Databases
  <2>1. db = [driver |-> driver, devices |-> old, tokenKey |-> old, pairKey |-> FALSE, index |-> None, fees |-> old]
    BY DEF Init
  <2>2. old \in BOOLEAN
    OBVIOUS
  <2> HIDE DEF driver, old
  <2> QED BY <1>1, <2>1, <2>2 DEF Databases
<1>3. mig = [p \in Procs |-> None] /\ alone = [p \in Procs |-> FALSE] /\ db.index = None
  BY DEF Init
<1>4. None # "dropTokenKey"
  BY NoneIsNothing
<1>5. SchemaTyped
  BY <1>2, <1>3 DEF SchemaTyped
<1>6. IndexKnown
  BY <1>3 DEF IndexKnown
<1>7. KeyBeforeDrop
  BY <1>3, <1>4 DEF KeyBeforeDrop
<1> QED BY <1>5, <1>6, <1>7 DEF SchemaInv

(* One statement moves one process on, and what it does to the database    *)
(* leaves the rest of it alone.                                            *)
LEMMA SchemaNext ==
  ASSUME SchemaInv, SqlStep
  PROVE  SchemaInv'
<1> USE NoneIsNothing DEF SchemaInv
<1>0. /\ db \in Databases /\ mig \in [Procs -> {None, "done"} \cup Statements]
      /\ alone \in [Procs -> BOOLEAN]
  BY DEF SchemaTyped
<1>1. ASSUME NEW p \in Procs, SchemaStart(p)
      PROVE  SchemaInv'
  <2>1. db' = db /\ Head(Migrations) \in Statements /\ Head(Migrations) \in {"tables", "findTokenKey"}
    BY <1>0, <1>1 DEF SchemaStart, Migrations, Statements, PostgresMigrations, SqliteMigrations, PostgresAfter, SqliteAfter
  <2>2. mig' = [mig EXCEPT ![p] = Head(Migrations)]
    BY <1>1 DEF SchemaStart
  <2>3. alone' = [q \in Procs |-> q = p /\ \A o \in Procs \ {p} : ~ Migrating(o)]
    BY <1>1 DEF SchemaStart
  <2>4. Statements' = Statements
    BY <2>1 DEF Statements
  <2> QED BY <1>0, <2>1, <2>2, <2>3, <2>4 DEF SchemaTyped, IndexKnown, KeyBeforeDrop, Migrating
<1>2. ASSUME NEW p \in Procs, Tables(p)
      PROVE  SchemaInv'
  <2>1. mig[p] \in Statements /\ After(p) = IF db.driver = Postgres THEN "findInvalid" ELSE "createIndex"
    BY <1>0, <1>2, StatementsInOrder DEF Tables, Statements, PostgresAfter, SqliteAfter, Databases, Postgres, Sqlite
  <2>2. db' \in Databases /\ db'.driver = db.driver /\ db'.index = db.index /\ db'.pairKey = db.pairKey
    BY <1>0, <1>2 DEF Tables, Databases
  <2>3. mig' = [mig EXCEPT ![p] = After(p)] /\ alone' = [alone EXCEPT ![p] = @ /\ After(p) # "done"]
    BY <1>2 DEF Tables, Goes
  <2>4. Statements' = Statements
    BY <2>2 DEF Statements
  <2>5. SchemaTyped'
    BY <1>0, <2>1, <2>2, <2>3, <2>4 DEF SchemaTyped, Statements, PostgresAfter, SqliteAfter
  <2>6. IndexKnown'
    BY <1>0, <1>2, <2>1, <2>2, <2>3 DEF Tables, IndexKnown, Migrating, Databases, Postgres, Sqlite
  <2>7. KeyBeforeDrop'
    BY <1>0, <1>2, <2>1, <2>2, <2>3 DEF Tables, KeyBeforeDrop, Postgres, Sqlite
  <2> QED BY <2>5, <2>6, <2>7
<1>3. ASSUME NEW p \in Procs, FindInvalid(p)
      PROVE  SchemaInv'
  BY <1>0, <1>3, StatementsInOrder DEF FindInvalid, Goes, SchemaTyped, IndexKnown, KeyBeforeDrop, Migrating, Databases,
     Statements, PostgresAfter, SqliteAfter, Postgres, Sqlite, InvalidIndex
<1>4. ASSUME NEW p \in Procs, DropInvalid(p)
      PROVE  SchemaInv'
  BY <1>0, <1>4, StatementsInOrder DEF DropInvalid, Goes, SchemaTyped, IndexKnown, KeyBeforeDrop, Migrating, Databases,
     Statements, PostgresAfter, SqliteAfter, Postgres, Sqlite
<1>5. ASSUME NEW p \in Procs, CreateIndex(p)
      PROVE  SchemaInv'
  BY <1>0, <1>5, StatementsInOrder DEF CreateIndex, Goes, SchemaTyped, IndexKnown, KeyBeforeDrop, Migrating, Databases,
     Statements, PostgresAfter, SqliteAfter, Postgres, Sqlite
<1>6. ASSUME NEW p \in Procs, BuildIndex(p)
      PROVE  SchemaInv'
  BY <1>0, <1>6, StatementsInOrder DEF BuildIndex, Goes, SchemaTyped, IndexKnown, KeyBeforeDrop, Migrating, Databases,
     Statements, PostgresAfter, SqliteAfter, Postgres, Sqlite
<1>7. ASSUME NEW p \in Procs, Indexes(p)
      PROVE  SchemaInv'
  <2>1. mig[p] \in Statements /\ After(p) = IF db.driver = Postgres THEN "dropTokenKey" ELSE "seed"
    BY <1>0, <1>7, StatementsInOrder DEF Indexes, Statements, PostgresAfter, SqliteAfter, Databases, Postgres, Sqlite
  <2>2. db' \in Databases /\ db'.driver = db.driver /\ db'.index = db.index /\ db'.pairKey = TRUE
    BY <1>0, <1>7 DEF Indexes, Databases
  <2>3. mig' = [mig EXCEPT ![p] = After(p)] /\ alone' = [alone EXCEPT ![p] = @ /\ After(p) # "done"]
    BY <1>7 DEF Indexes, Goes
  <2>4. Statements' = Statements
    BY <2>2 DEF Statements
  <2>5. SchemaTyped'
    BY <1>0, <2>1, <2>2, <2>3, <2>4 DEF SchemaTyped, Statements, PostgresAfter, SqliteAfter
  <2>6. IndexKnown'
    BY <1>0, <1>7, <2>1, <2>2, <2>3 DEF Indexes, IndexKnown, Migrating
  <2>7. KeyBeforeDrop'
    BY <1>0, <1>7, <2>1, <2>2, <2>3 DEF Indexes, KeyBeforeDrop, Postgres, Sqlite
  <2> QED BY <2>5, <2>6, <2>7
<1>8. ASSUME NEW p \in Procs, DropTokenKey(p)
      PROVE  SchemaInv'
  <2>1. mig[p] \in Statements /\ db.driver = Postgres /\ After(p) = "seed"
    BY <1>0, <1>8, StatementsInOrder DEF DropTokenKey, Statements, PostgresAfter, SqliteAfter, Databases, Postgres, Sqlite
  <2>2. db' \in Databases /\ db'.driver = db.driver /\ db'.index = db.index /\ db'.pairKey = db.pairKey
    BY <1>0, <1>8 DEF DropTokenKey, Databases
  <2>3. mig' = [mig EXCEPT ![p] = After(p)] /\ alone' = [alone EXCEPT ![p] = @ /\ After(p) # "done"]
    BY <1>8 DEF DropTokenKey, Goes
  <2>4. Statements' = Statements
    BY <2>2 DEF Statements
  <2>5. SchemaTyped'
    BY <1>0, <2>1, <2>2, <2>3, <2>4 DEF SchemaTyped, Statements, PostgresAfter, SqliteAfter
  <2>6. IndexKnown'
    BY <1>0, <1>8, <2>1, <2>2, <2>3 DEF DropTokenKey, IndexKnown, Migrating
  <2>7. KeyBeforeDrop'
    BY <1>0, <1>8, <2>1, <2>2, <2>3 DEF DropTokenKey, KeyBeforeDrop, Postgres, Sqlite
  <2> QED BY <2>5, <2>6, <2>7
<1>9. ASSUME NEW p \in Procs, Seed(p)
      PROVE  SchemaInv'
  <2>1. mig[p] \in Statements /\ After(p) = "done"
    BY <1>0, <1>9, StatementsInOrder DEF Seed, Statements, PostgresAfter, SqliteAfter, Databases, Postgres, Sqlite
  <2>2. db' \in Databases /\ db'.driver = db.driver /\ db'.index = db.index /\ db'.pairKey = db.pairKey
    BY <1>0, <1>9 DEF Seed, Databases
  <2>3. mig' = [mig EXCEPT ![p] = After(p)] /\ alone' = [alone EXCEPT ![p] = @ /\ After(p) # "done"]
    BY <1>9 DEF Seed, Goes
  <2>4. Statements' = Statements
    BY <2>2 DEF Statements
  <2>5. SchemaTyped'
    BY <1>0, <2>1, <2>2, <2>3, <2>4 DEF SchemaTyped, Statements, PostgresAfter, SqliteAfter
  <2>6. IndexKnown'
    BY <1>0, <1>9, <2>1, <2>2, <2>3 DEF Seed, IndexKnown, Migrating
  <2>7. KeyBeforeDrop'
    BY <1>0, <1>9, <2>1, <2>2, <2>3 DEF Seed, KeyBeforeDrop, Postgres, Sqlite
  <2> QED BY <2>5, <2>6, <2>7
<1>10. ASSUME NEW p \in Procs, FindTokenKey(p)
      PROVE  SchemaInv'
  BY <1>0, <1>10, StatementsInOrder DEF FindTokenKey, Goes, SchemaTyped, IndexKnown, KeyBeforeDrop, Migrating, Databases,
     Statements, PostgresAfter, SqliteAfter, Postgres, Sqlite
<1>11. ASSUME NEW p \in Procs, Rebuild(p)
      PROVE  SchemaInv'
  <2>1. mig[p] \in Statements /\ db.driver = Sqlite /\ After(p) = "tables"
    BY <1>0, <1>11, StatementsInOrder DEF Rebuild, Statements, PostgresAfter, SqliteAfter, Databases, Postgres, Sqlite
  <2>2. db' \in Databases /\ db'.driver = db.driver /\ db'.index = db.index
    BY <1>0, <1>11 DEF Rebuild, Databases
  <2>3. mig' = [mig EXCEPT ![p] = After(p)] /\ alone' = [alone EXCEPT ![p] = @ /\ After(p) # "done"]
    BY <1>11 DEF Rebuild, Goes
  <2>4. Statements' = Statements
    BY <2>2 DEF Statements
  <2>5. SchemaTyped'
    BY <1>0, <2>1, <2>2, <2>3, <2>4 DEF SchemaTyped, Statements, PostgresAfter, SqliteAfter
  <2>6. IndexKnown'
    BY <1>0, <1>11, <2>1, <2>2, <2>3 DEF Rebuild, IndexKnown, Migrating
  <2>7. KeyBeforeDrop'
    BY <1>0, <1>11, <2>1, <2>2, <2>3 DEF Rebuild, KeyBeforeDrop, Postgres, Sqlite
  <2> QED BY <2>5, <2>6, <2>7
<1>12. ASSUME NEW p \in Procs, SchemaEnds(p)
       PROVE  SchemaInv'
  BY <1>0, <1>12 DEF SchemaEnds, SchemaTyped, IndexKnown, KeyBeforeDrop, Migrating, Statements
<1>13. CASE OrphanBuildEnds
  BY <1>0, <1>13 DEF OrphanBuildEnds, SchemaTyped, IndexKnown, KeyBeforeDrop, Migrating, Databases, Statements
<1>15. ASSUME UNCHANGED <<db, mig, alone>>
       PROVE  SchemaInv'
  BY <1>0, <1>15 DEF SchemaTyped, IndexKnown, KeyBeforeDrop, Migrating, Statements
<1>16. ASSUME NEW w \in Writers, NEW fee, NEW set, WriteBoxWide(w, set, fee) \/ WriteStep(w) \/ WriteFails(w)
       PROVE  SchemaInv'
  BY <1>15, <1>16 DEF WriteBoxWide, WriteStep, Lock, InsertBoxWide, UpdateBoxWide, Commit, WriteFails, Writing
<1>17. ASSUME NEW k \in Keys, NEW t \in Tokens,
              \/ RegisterDevice(k, t) \/ OldRegister(k, t) \/ UnregisterDevice(k, t) \/ DeactivateDevice(t)
       PROVE  SchemaInv'
  BY <1>15, <1>17 DEF RegisterDevice, OldRegister, UnregisterDevice, DeactivateDevice
<1>18. CASE UNCHANGED sqlVars
  BY <1>15, <1>18 DEF sqlVars
<1>19. ASSUME NEW t \in Tokens, DeactivateDevice(t)
       PROVE  SchemaInv'
  BY <1>15, <1>19 DEF DeactivateDevice
<1> QED
  BY <1>1, <1>2, <1>3, <1>4, <1>5, <1>6, <1>7, <1>8, <1>9, <1>10, <1>11, <1>12, <1>13, <1>16, <1>17,
     <1>18, <1>19 DEF SqlStep, SchemaStep

(* Only the last statement brings a process through.                       *)
LEMMA DoneAfterSeed ==
  ASSUME SchemaInv, SqlStep, NEW p \in Procs, mig[p] # "done", mig'[p] = "done"
  PROVE  Seed(p)
<1> USE NoneIsNothing
<1>0. mig \in [Procs -> {None, "done"} \cup Statements] /\ db.driver \in {Postgres, Sqlite}
  BY DEF SchemaInv, SchemaTyped, Databases
<1>1. PICK q \in Procs : SchemaStart(q) \/ SchemaStep(q) \/ SchemaEnds(q)
  BY <1>0 DEF SqlStep, RegisterDevice, OldRegister, UnregisterDevice, DeactivateDevice, WriteBoxWide, WriteStep,
     Lock, InsertBoxWide, UpdateBoxWide, Commit, WriteFails, Writing, OrphanBuildEnds, sqlVars
<1>2. ~ SchemaStart(q) /\ ~ SchemaEnds(q)
  BY <1>0 DEF SchemaStart, SchemaEnds, Migrations, PostgresMigrations, SqliteMigrations
<1>3. ~ FindInvalid(q) /\ ~ FindTokenKey(q)
  BY <1>0 DEF FindInvalid, FindTokenKey, Goes
<1>4. p = q
  BY <1>0, <1>1, <1>2 DEF SchemaStep, Tables, FindInvalid, DropInvalid, CreateIndex, BuildIndex, Indexes,
     DropTokenKey, Seed, FindTokenKey, Rebuild, Goes
<1>5. mig[q] \in Statements
  BY <1>0, <1>1, <1>2 DEF SchemaStep, Tables, FindInvalid, DropInvalid, CreateIndex, BuildIndex, Indexes,
     DropTokenKey, Seed, FindTokenKey, Rebuild
<1>6. After(q) = "done" => mig[q] = "seed"
  BY <1>0, <1>5, StatementsInOrder DEF Statements, PostgresAfter, SqliteAfter, Postgres, Sqlite
<1>7. After(q) = "done"
  BY <1>0, <1>1, <1>2, <1>3, <1>4 DEF SchemaStep, Tables, DropInvalid, CreateIndex, BuildIndex, Indexes,
     DropTokenKey, Seed, Rebuild, Goes
<1> QED
  BY <1>1, <1>2, <1>3, <1>4, <1>6, <1>7 DEF SchemaStep, Tables, DropInvalid, CreateIndex, BuildIndex, Indexes,
     DropTokenKey, Rebuild

(* The invariant of EnsureSchema, whichever processes are in it.           *)
THEOREM SchemaInvariant == Spec => []SchemaInv
<1>1. SchemaInv /\ [Next]_vars => SchemaInv'
  BY StepsOfTheDatabase, SchemaNext
<1> QED BY <1>1, SchemaInit, PTL DEF Spec

(* A process that was alone from the first statement of EnsureSchema to    *)
(* the last leaves a valid index on the messages, whatever builds earlier  *)
(* processes had left behind, running or failed.                           *)
THEOREM LoneBootsHealTheIndex == Spec => LoneBootHealsIndex
<1>1. ASSUME SchemaInv, [Next]_vars, NEW p \in Procs, alone[p], mig'[p] = "done"
      PROVE  db'.index = "valid"
  <2>1. mig[p] # "done" /\ db \in Databases
    BY <1>1 DEF SchemaInv, SchemaTyped, IndexKnown, Migrating
  <2>2. Seed(p)
    BY <1>1, <2>1, StepsOfTheDatabase, DoneAfterSeed
  <2>3. db.index = "valid"
    BY <1>1, <2>2 DEF Seed, SchemaInv, IndexKnown
  <2> QED BY <2>1, <2>2, <2>3 DEF Seed, Databases
<1>2. SchemaInv /\ [Next]_vars =>
        [\A p \in Procs : alone[p] /\ mig'[p] = "done" => db'.index = "valid"]_<<db, mig, alone>>
  BY <1>1
<1> QED BY <1>2, SchemaInvariant, PTL DEF Spec, LoneBootHealsIndex

(* What the statements a process has executed on PostgreSQL have done.      *)
StatementsHold ==
  db.driver = Postgres =>
    \A p \in Procs :
      /\ mig[p] \notin {None, "tables"} => db.devices
      /\ mig[p] \in {"dropTokenKey", "seed", "done"} => db.pairKey
      /\ mig[p] \in {"seed", "done"} => ~ db.tokenKey
      /\ mig[p] = "done" => db.fees

(* No later statement, of whichever process, undoes it: the rebuild, which *)
(* drops the keys, is SQLite's.                                            *)
LEMMA StatementsHoldNext ==
  ASSUME StatementsHold, SchemaInv, SqlStep
  PROVE  StatementsHold'
<1> USE NoneIsNothing
<1>0. /\ db \in Databases /\ mig \in [Procs -> {None, "done"} \cup Statements]
      /\ (db.driver = Postgres => mig \in [Procs -> {None, "done"} \cup DOMAIN PostgresAfter])
  BY DEF SchemaInv, SchemaTyped, Statements
<1>1. ASSUME NEW p \in Procs, NEW step, mig' = [mig EXCEPT ![p] = step],
             db'.driver = db.driver, db.devices => db'.devices, db.pairKey => db'.pairKey,
             db'.tokenKey => db.tokenKey, db.fees => db'.fees,
             db.driver = Postgres =>
               /\ step \notin {None, "tables"} => db'.devices
               /\ step \in {"dropTokenKey", "seed", "done"} => db'.pairKey
               /\ step \in {"seed", "done"} => ~ db'.tokenKey
               /\ step = "done" => db'.fees
      PROVE  StatementsHold'
  BY <1>0, <1>1 DEF StatementsHold
<1>2. ASSUME NEW p \in Procs, SchemaStart(p) \/ SchemaEnds(p)
      PROVE  StatementsHold'
  <2>1. CASE SchemaStart(p)
    <3>1. db' = db /\ mig' = [mig EXCEPT ![p] = Head(Migrations)]
      BY <2>1 DEF SchemaStart
    <3>2. db.driver = Postgres => Head(Migrations) = "tables"
      BY DEF Migrations, PostgresMigrations
    <3> QED BY <1>1, <3>1, <3>2
  <2>2. CASE SchemaEnds(p)
    BY <1>1, <2>2 DEF SchemaEnds
  <2> QED BY <1>2, <2>1, <2>2
<1>3. ASSUME NEW p \in Procs, SchemaStep(p), db.driver = Postgres
      PROVE  StatementsHold'
  <2>1. mig[p] \in DOMAIN PostgresAfter => After(p) = PostgresAfter[mig[p]]
    BY <1>3, StatementsInOrder
  <2>2. /\ mig[p] \notin {None, "tables"} => db.devices
        /\ mig[p] \in {"dropTokenKey", "seed"} => db.pairKey
        /\ mig[p] = "seed" => ~ db.tokenKey
    BY <1>3 DEF StatementsHold
  <2>3. CASE Tables(p)
    <3>1. After(p) = "findInvalid" /\ mig' = [mig EXCEPT ![p] = After(p)]
      BY <2>1, <2>3 DEF Tables, Goes, PostgresAfter
    <3>2. db' = [db EXCEPT !.devices = TRUE]
      BY <2>3 DEF Tables
    <3>3. /\ db'.driver = db.driver /\ db'.devices /\ db'.pairKey = db.pairKey
          /\ db'.tokenKey = db.tokenKey /\ db'.fees = db.fees
      BY <1>0, <3>2 DEF Databases
    <3> QED BY <1>1, <3>1, <3>3
  <2>4. CASE FindInvalid(p) \/ DropInvalid(p) \/ CreateIndex(p) \/ BuildIndex(p)
    <3>1. \E step \in {"dropInvalid", "createIndex", "buildIndex", "indexes"} : mig' = [mig EXCEPT ![p] = step]
      BY <1>3, <2>1, <2>4 DEF FindInvalid, DropInvalid, CreateIndex, BuildIndex, Goes, PostgresAfter
    <3>2. /\ db'.driver = db.driver /\ db'.devices = db.devices /\ db'.pairKey = db.pairKey
          /\ db'.tokenKey = db.tokenKey /\ db'.fees = db.fees
      BY <1>0, <2>4 DEF FindInvalid, DropInvalid, CreateIndex, BuildIndex, Databases
    <3>3. db.devices
      BY <2>2, <2>4 DEF FindInvalid, DropInvalid, CreateIndex, BuildIndex
    <3> QED BY <1>1, <3>1, <3>2, <3>3
  <2>5. CASE Indexes(p)
    <3>1. After(p) = "dropTokenKey" /\ mig' = [mig EXCEPT ![p] = After(p)] /\ db.devices
      BY <2>1, <2>5 DEF Indexes, Goes, PostgresAfter
    <3>2. db' = [db EXCEPT !.pairKey = TRUE]
      BY <2>5 DEF Indexes
    <3>3. /\ db'.driver = db.driver /\ db'.devices = db.devices /\ db'.pairKey
          /\ db'.tokenKey = db.tokenKey /\ db'.fees = db.fees
      BY <1>0, <3>2 DEF Databases
    <3> QED BY <1>1, <3>1, <3>3
  <2>6. CASE DropTokenKey(p)
    <3>1. After(p) = "seed" /\ mig' = [mig EXCEPT ![p] = After(p)] /\ db.devices /\ db.pairKey
      BY <2>1, <2>2, <2>6 DEF DropTokenKey, Goes, PostgresAfter
    <3>2. db' = [db EXCEPT !.tokenKey = FALSE]
      BY <2>6 DEF DropTokenKey
    <3>3. /\ db'.driver = db.driver /\ db'.devices = db.devices /\ db'.pairKey = db.pairKey
          /\ ~ db'.tokenKey /\ db'.fees = db.fees
      BY <1>0, <3>2 DEF Databases
    <3> QED BY <1>1, <3>1, <3>3
  <2>7. CASE Seed(p)
    <3>1. After(p) = "done" /\ mig' = [mig EXCEPT ![p] = After(p)] /\ db.devices /\ db.pairKey /\ ~ db.tokenKey
      BY <2>1, <2>2, <2>7 DEF Seed, Goes, PostgresAfter
    <3>2. db' = [db EXCEPT !.fees = TRUE]
      BY <2>7 DEF Seed
    <3>3. /\ db'.driver = db.driver /\ db'.devices = db.devices /\ db'.pairKey = db.pairKey
          /\ db'.tokenKey = db.tokenKey /\ db'.fees
      BY <1>0, <3>2 DEF Databases
    <3> QED BY <1>1, <3>1, <3>3
  <2>8. ~ FindTokenKey(p) /\ ~ Rebuild(p)
    BY <1>0, <1>3 DEF FindTokenKey, Rebuild, PostgresAfter
  <2> QED BY <1>3, <2>3, <2>4, <2>5, <2>6, <2>7, <2>8 DEF SchemaStep
<1>4. ASSUME NEW p \in Procs, SchemaStep(p), db.driver # Postgres
      PROVE  StatementsHold'
  <2>1. db'.driver = db.driver
    BY <1>0, <1>4 DEF SchemaStep, Tables, FindInvalid, DropInvalid, CreateIndex, BuildIndex, Indexes,
       DropTokenKey, Seed, FindTokenKey, Rebuild, Databases
  <2> QED BY <1>4, <2>1 DEF StatementsHold
<1>5. CASE OrphanBuildEnds
  <2>1. /\ mig' = mig /\ db'.driver = db.driver /\ db'.devices = db.devices /\ db'.pairKey = db.pairKey
        /\ db'.tokenKey = db.tokenKey /\ db'.fees = db.fees
    BY <1>0, <1>5 DEF OrphanBuildEnds, Databases
  <2> QED BY <2>1 DEF StatementsHold
<1>6. CASE UNCHANGED <<db, mig>>
  BY <1>6 DEF StatementsHold
<1> QED
  BY <1>2, <1>3, <1>4, <1>5, <1>6 DEF SqlStep, RegisterDevice, OldRegister, UnregisterDevice, DeactivateDevice,
     WriteBoxWide, WriteStep, Lock, InsertBoxWide, UpdateBoxWide, Commit, WriteFails, Writing, sqlVars

(* What a process that is through EnsureSchema relies on is there as long  *)
(* as it runs, on PostgreSQL, whoever else boots, migrates or dies.        *)
THEOREM SchemaAlwaysStands == Spec => []SchemaStands
<1>1. Init => StatementsHold
  <2> SUFFICES ASSUME Init
               PROVE  StatementsHold
    OBVIOUS
  <2>1. mig = [p \in Procs |-> None]
    BY DEF Init
  <2> QED BY <2>1, NoneIsNothing DEF StatementsHold
<1>2. SchemaInv /\ StatementsHold /\ [Next]_vars => StatementsHold'
  BY StepsOfTheDatabase, StatementsHoldNext
<1>3. StatementsHold => SchemaStands
  BY NoneIsNothing DEF StatementsHold, SchemaStands
<1> QED BY <1>1, <1>2, <1>3, SchemaInvariant, PTL DEF Spec

-----------------------------------------------------------------------------
(* The box-wide permission.                                                *)

WritesTyped ==
  /\ boxWide \in Seq(Fees \cup {DefaultFee})
  /\ write \in [Writers -> Writes \cup {None}]
  /\ chosen \in Fees \cup {None}

(* What a running write may rely on.  On PostgreSQL the advisory lock lets *)
(* one writer past it; the row a writer is about to commit is still        *)
(* missing, and the one it is about to update is there.                    *)
WriteSound(w) ==
  LET c == write[w] IN
  c # None =>
    /\ c.set => c.fee \in Fees
    /\ db.driver = Sqlite => c.at \in {"insert", "update"}
    /\ c.pending <=> c.at = "commit" /\ boxWide = <<>>
    /\ c.at = "update" => c.set /\ boxWide # <<>>

OnePastLock ==
  db.driver = Postgres =>
    \A v, w \in Writers :
      write[v] # None /\ write[v].at # "lock" /\ write[w] # None /\ write[w].at # "lock" => v = w

WriteInv ==
  /\ db.driver \in {Postgres, Sqlite}
  /\ WritesTyped /\ OnePastLock /\ BoxWideChoiceStands
  /\ \A w \in Writers : WriteSound(w)

LEMMA WriteInit == Init => WriteInv
<1> SUFFICES ASSUME Init
             PROVE  WriteInv
  OBVIOUS
<1>1. boxWide = <<>> /\ write = [w \in Writers |-> None] /\ chosen = None
  BY DEF Init
<1>2. db.driver \in {Postgres, Sqlite}
  BY SchemaInit DEF SchemaInv, SchemaTyped, Databases
<1> QED BY <1>1, <1>2 DEF WriteInv, WritesTyped, OnePastLock, BoxWideChoiceStands, WriteSound

LEMMA OneRowUpdated ==
  ASSUME NEW S, NEW s \in Seq(S), s # <<>>, Len(s) <= 1, NEW e
  PROVE  [i \in DOMAIN s |-> e] = <<e>>
<1>1. Len(s) # 0 /\ Len(s) \in Nat
  BY EmptySeq
<1>2. Len(s) = 1 /\ DOMAIN s = {1}
  BY <1>1
<1> QED BY <1>2

LEMMA WriteNext ==
  ASSUME WriteInv, SchemaInv, SqlStep
  PROVE  WriteInv'
<1>0. /\ db.driver \in {Postgres, Sqlite} /\ boxWide \in Seq(Fees \cup {DefaultFee})
      /\ write \in [Writers -> Writes \cup {None}] /\ chosen \in Fees \cup {None}
      /\ Len(boxWide) <= 1 /\ (chosen # None => boxWide = <<chosen>>)
  BY DEF WriteInv, WritesTyped, BoxWideChoiceStands
<1>1. db'.driver = db.driver
  <2>1. db \in Databases
    BY DEF SchemaInv, SchemaTyped
  <2> QED
    BY <2>1 DEF Databases, SqlStep, SchemaStart, SchemaEnds, SchemaStep, Tables, FindInvalid, DropInvalid,
       CreateIndex, BuildIndex, Indexes, DropTokenKey, Seed, FindTokenKey, Rebuild, OrphanBuildEnds,
       RegisterDevice, OldRegister, UnregisterDevice, DeactivateDevice, WriteBoxWide, WriteStep, Lock,
       InsertBoxWide, UpdateBoxWide, Commit, WriteFails, Writing, sqlVars
(* A write that is not done yet changes nothing but itself.                *)
<1>2. ASSUME NEW w \in Writers, NEW c \in Writes \cup {None}, write' = [write EXCEPT ![w] = c],
             UNCHANGED <<boxWide, chosen>>, WriteSound(w)', OnePastLock'
      PROVE  WriteInv'
  BY <1>0, <1>1, <1>2 DEF WriteInv, WritesTyped, BoxWideChoiceStands, WriteSound
<1>3. ASSUME NEW w \in Writers, NEW set \in BOOLEAN, NEW fee \in Fees \cup {DefaultFee}, set => fee \in Fees,
             WriteBoxWide(w, set, fee)
      PROVE  WriteInv'
  <2> DEFINE c == [at |-> IF db.driver = Postgres THEN "lock" ELSE "insert", set |-> set, fee |-> fee, pending |-> FALSE]
  <2>1. c \in Writes
    BY <1>0 DEF Writes
  <2>2. write' = [write EXCEPT ![w] = c] /\ UNCHANGED <<boxWide, chosen>> /\ write[w] = None
    BY <1>3 DEF WriteBoxWide, Writing
  <2>3. write'[w] = c
    BY <1>0, <2>2
  <2>4. WriteSound(w)'
    BY <1>0, <1>1, <1>3, <2>3 DEF WriteSound, Postgres, Sqlite
  <2>5. OnePastLock'
    BY <1>0, <1>1, <2>2, <2>3 DEF OnePastLock, WriteInv
  <2> HIDE DEF c
  <2> QED BY <1>2, <2>1, <2>2, <2>4, <2>5
<1>4. ASSUME NEW w \in Writers, Lock(w)
      PROVE  WriteInv'
  <2> DEFINE c == [write[w] EXCEPT !.at = "insert"]
  <2>1. write[w] \in Writes /\ c \in Writes /\ write[w].at = "lock" /\ write[w] # None
    BY <1>0, <1>4 DEF Lock, Writes
  <2>2. write' = [write EXCEPT ![w] = c] /\ UNCHANGED <<boxWide, chosen>> /\ write'[w] = c
    BY <1>0, <1>4 DEF Lock, Writing
  <2>3. c.at = "insert" /\ c.set = write[w].set /\ c.fee = write[w].fee /\ c.pending = write[w].pending
    BY <2>1 DEF Writes
  <2>4. WriteSound(w)'
    BY <1>0, <1>1, <2>1, <2>2, <2>3 DEF WriteSound, WriteInv
  <2>5. OnePastLock'
    BY <1>0, <1>1, <1>4, <2>2 DEF OnePastLock, WriteInv, Lock, LockFree
  <2> HIDE DEF c
  <2> QED BY <1>2, <2>1, <2>2, <2>4, <2>5
<1>5. ASSUME NEW w \in Writers, WriteFails(w)
      PROVE  WriteInv'
  <2>1. write' = [write EXCEPT ![w] = None] /\ UNCHANGED <<boxWide, chosen>> /\ write'[w] = None
    BY <1>0, <1>5 DEF WriteFails, Writing
  <2>2. WriteSound(w)' /\ OnePastLock'
    BY <1>0, <1>1, <2>1 DEF WriteSound, OnePastLock, WriteInv
  <2> QED BY <1>2, <2>1, <2>2
(* A write that is done leaves its own fee, or what it found.              *)
<1>6. ASSUME NEW w \in Writers, write[w] # None, write[w].at # "lock", write' = [write EXCEPT ![w] = None],
             \/ /\ boxWide' = <<write[w].fee>>
                /\ chosen' = IF write[w].set THEN write[w].fee ELSE chosen
                /\ ~ write[w].set => boxWide = <<>>
             \/ UNCHANGED <<boxWide, chosen>>
      PROVE  WriteInv'
  <2>0. write[w] \in Writes /\ write[w].fee \in Fees \cup {DefaultFee} /\ (write[w].set => write[w].fee \in Fees)
    BY <1>0, <1>6 DEF Writes, WriteInv, WriteSound
  <2>1. boxWide' \in Seq(Fees \cup {DefaultFee}) /\ chosen' \in Fees \cup {None} /\ BoxWideChoiceStands'
    <3>1. CASE boxWide' = <<write[w].fee>> /\ write[w].set /\ chosen' = write[w].fee
      BY <2>0, <3>1 DEF BoxWideChoiceStands
    <3>2. CASE boxWide' = <<write[w].fee>> /\ boxWide = <<>> /\ chosen' = chosen
      <4>1. chosen = None
        BY <1>0, <3>2
      <4> QED BY <2>0, <3>2, <4>1 DEF BoxWideChoiceStands
    <3>3. CASE UNCHANGED <<boxWide, chosen>>
      BY <1>0, <3>3 DEF BoxWideChoiceStands
    <3> QED BY <1>6, <3>1, <3>2, <3>3
  <2>2. boxWide # <<>> => boxWide' # <<>>
    BY <1>6
  <2>3. OnePastLock'
    BY <1>0, <1>1, <1>6 DEF OnePastLock, WriteInv
  <2>4. ASSUME NEW v \in Writers, write'[v] # None
        PROVE  WriteSound(v)'
    <3>1. v # w /\ write'[v] = write[v] /\ write[v] \in Writes
      BY <1>0, <1>6, <2>4
    <3>2. db.driver = Postgres => write[v].at = "lock"
      BY <1>6, <2>4, <3>1 DEF WriteInv, OnePastLock
    <3>3. write[v].at # "commit"
      BY <1>0, <2>4, <3>1, <3>2 DEF WriteInv, WriteSound
    <3>4. write[v].at = "update" => write[v].set /\ boxWide # <<>>
      BY <2>4, <3>1 DEF WriteInv, WriteSound
    <3>5. /\ write[v].set => write[v].fee \in Fees
          /\ db.driver = Sqlite => write[v].at \in {"insert", "update"}
          /\ write[v].pending <=> FALSE
      BY <2>4, <3>1, <3>3 DEF WriteInv, WriteSound
    <3> QED BY <1>1, <2>2, <3>1, <3>3, <3>4, <3>5 DEF WriteSound
  <2>5. \A v \in Writers : WriteSound(v)'
    BY <2>4 DEF WriteSound
  <2>6. write' \in [Writers -> Writes \cup {None}]
    BY <1>0, <1>6
  <2> QED BY <1>0, <1>1, <2>1, <2>3, <2>5, <2>6 DEF WriteInv, WritesTyped
<1>7. ASSUME NEW w \in Writers, NEW at \in {"update", "commit"}, NEW pending \in BOOLEAN,
             write[w] # None, write[w].at # "lock",
             write' = [write EXCEPT ![w] = [[write[w] EXCEPT !.at = at] EXCEPT !.pending = pending]],
             UNCHANGED <<boxWide, chosen>>,
             db.driver = Sqlite => at = "update",
             pending <=> at = "commit" /\ boxWide = <<>>,
             at = "update" => write[w].set /\ boxWide # <<>>
      PROVE  WriteInv'
  <2> DEFINE c == [[write[w] EXCEPT !.at = at] EXCEPT !.pending = pending]
  <2>1. write[w] \in Writes /\ c \in Writes
    BY <1>0, <1>7 DEF Writes
  <2>2. c.at = at /\ c.set = write[w].set /\ c.fee = write[w].fee /\ c.pending = pending
    BY <2>1 DEF Writes
  <2>3. write'[w] = c
    BY <1>0, <1>7
  <2>4. write[w].set => write[w].fee \in Fees
    BY <1>7 DEF WriteInv, WriteSound
  <2> HIDE DEF c
  <2>5. WriteSound(w)'
    BY <1>1, <1>7, <2>2, <2>3, <2>4 DEF WriteSound
  <2>6. OnePastLock'
    BY <1>0, <1>1, <1>7, <2>3 DEF OnePastLock, WriteInv
  <2> QED BY <1>2, <1>7, <2>1, <2>5, <2>6 DEF c
<1>8. ASSUME NEW w \in Writers, InsertBoxWide(w)
      PROVE  WriteInv'
  <2> DEFINE c == write[w]
             absent == boxWide = <<>>
  <2>0. c \in Writes /\ c # None /\ c.at = "insert" /\ c.pending = FALSE
    BY <1>0, <1>8 DEF InsertBoxWide, WriteInv, WriteSound, Writes
  <2>1. CASE ~ absent /\ c.set /\ Writing(w, [c EXCEPT !.at = "update"]) /\ UNCHANGED <<boxWide, chosen>>
    <3>1. [c EXCEPT !.at = "update"] = [[c EXCEPT !.at = "update"] EXCEPT !.pending = FALSE]
      BY <2>0 DEF Writes
    <3> QED BY <1>7, <2>0, <2>1, <3>1 DEF Writing
  <2>2. CASE db.driver = Postgres /\ Writing(w, [c EXCEPT !.at = "commit", !.pending = absent]) /\ UNCHANGED <<boxWide, chosen>>
    BY <1>7, <2>0, <2>2 DEF Writing, Postgres, Sqlite
  <2>3. CASE /\ absent \/ ~ c.set
             /\ boxWide' = IF absent THEN <<c.fee>> ELSE boxWide
             /\ Done(w) /\ Writing(w, None)
    BY <1>6, <2>0, <2>3 DEF Writing, Done
  <2> QED BY <1>8, <2>1, <2>2, <2>3 DEF InsertBoxWide
<1>9. ASSUME NEW w \in Writers, UpdateBoxWide(w)
      PROVE  WriteInv'
  <2> DEFINE c == write[w]
  <2>0. c \in Writes /\ c # None /\ c.at = "update" /\ c.set /\ boxWide # <<>> /\ c.pending = FALSE
    BY <1>0, <1>9 DEF UpdateBoxWide, WriteInv, WriteSound, Writes
  <2>1. CASE db.driver = Postgres /\ Writing(w, [c EXCEPT !.at = "commit"]) /\ UNCHANGED <<boxWide, chosen>>
    <3>1. [c EXCEPT !.at = "commit"] = [[c EXCEPT !.at = "commit"] EXCEPT !.pending = FALSE]
      BY <2>0 DEF Writes
    <3> QED BY <1>7, <2>0, <2>1, <3>1 DEF Writing, Postgres, Sqlite
  <2>2. CASE boxWide' = [i \in DOMAIN boxWide |-> c.fee] /\ Done(w) /\ Writing(w, None)
    <3>1. boxWide' = <<c.fee>>
      BY <1>0, <2>0, <2>2, OneRowUpdated
    <3> QED BY <1>6, <2>0, <2>2, <3>1 DEF Writing, Done
  <2> QED BY <1>9, <2>1, <2>2 DEF UpdateBoxWide
<1>10. ASSUME NEW w \in Writers, Commit(w)
       PROVE  WriteInv'
  <2> DEFINE c == write[w]
  <2>0. c \in Writes /\ c # None /\ c.at = "commit" /\ (c.pending <=> boxWide = <<>>)
    BY <1>0, <1>10 DEF Commit, WriteInv, WriteSound
  <2>1. CASE c.pending
    <3>1. boxWide = <<>> /\ boxWide' = <<c.fee>>
      BY <1>0, <1>10, <2>0, <2>1 DEF Commit
    <3> QED BY <1>6, <1>10, <2>0, <3>1 DEF Commit, Writing, Done
  <2>2. CASE ~ c.pending /\ c.set
    <3>1. boxWide' = [i \in DOMAIN boxWide |-> c.fee]
      BY <1>10, <2>2 DEF Commit
    <3>2. boxWide' = <<c.fee>>
      BY <1>0, <2>0, <2>2, <3>1, OneRowUpdated
    <3> QED BY <1>6, <1>10, <2>0, <2>2, <3>2 DEF Commit, Writing, Done
  <2>3. CASE ~ c.pending /\ ~ c.set
    BY <1>6, <1>10, <2>0, <2>3 DEF Commit, Writing, Done
  <2> QED BY <2>1, <2>2, <2>3
<1>11. ASSUME UNCHANGED <<boxWide, write, chosen>>
       PROVE  WriteInv'
  BY <1>0, <1>1, <1>11 DEF WriteInv, WritesTyped, OnePastLock, BoxWideChoiceStands, WriteSound
<1>12. ASSUME \/ \E p \in Procs : SchemaStart(p) \/ SchemaStep(p) \/ SchemaEnds(p)
              \/ \E k \in Keys, t \in Tokens : RegisterDevice(k, t) \/ OldRegister(k, t) \/ UnregisterDevice(k, t)
              \/ \E t \in Tokens : DeactivateDevice(t)
              \/ OrphanBuildEnds
              \/ UNCHANGED sqlVars
       PROVE  WriteInv'
  BY <1>11, <1>12 DEF SchemaStart, SchemaEnds, SchemaStep, Tables, FindInvalid, DropInvalid,
     CreateIndex, BuildIndex, Indexes, DropTokenKey, Seed, FindTokenKey, Rebuild, Goes, OrphanBuildEnds, RegisterDevice, OldRegister, UnregisterDevice, DeactivateDevice, sqlVars
<1>13. ASSUME NEW w \in Writers, WriteStep(w)
       PROVE  WriteInv'
  BY <1>4, <1>8, <1>9, <1>10, <1>13 DEF WriteStep
<1>14. ASSUME NEW w \in Writers, \/ WriteBoxWide(w, FALSE, DefaultFee)
                                 \/ \E fee \in Fees : WriteBoxWide(w, TRUE, fee)
       PROVE  WriteInv'
  BY <1>3, <1>14
<1> QED BY <1>5, <1>12, <1>13, <1>14 DEF SqlStep

(* The box-wide permission is one row, of the fee the recipient set last.  *)
THEOREM BoxWideChoicesStand == Spec => []BoxWideChoiceStands
<1>1. Init => SchemaInv /\ WriteInv
  BY SchemaInit, WriteInit
<1>2. SchemaInv /\ WriteInv /\ [Next]_vars => SchemaInv' /\ WriteInv'
  BY StepsOfTheDatabase, SchemaNext, WriteNext
<1>3. WriteInv => BoxWideChoiceStands
  BY DEF WriteInv
<1> QED BY <1>1, <1>2, <1>3, PTL DEF Spec

-----------------------------------------------------------------------------
(* The device registrations.                                               *)

(* Numbers with a bound have a largest one.                                *)
LEMMA MaxOfBounded ==
  ASSUME NEW S \in SUBSET Nat, S # {}, NEW n \in Nat, \A x \in S : x <= n
  PROVE  Max(S) \in S /\ \A x \in S : x <= Max(S)
<1> DEFINE Bounds == {b \in Nat : \A x \in S : x <= b}
<1>1. PICK m \in Bounds : \A b \in Bounds : m <= b
  <2>1. n \in Bounds /\ Bounds \in SUBSET Nat
    OBVIOUS
  <2> HIDE DEF Bounds
  <2> QED BY <2>1, LeastNumber
<1>2. m \in S
  <2>1. SUFFICES ASSUME m \notin S
                 PROVE  FALSE
    OBVIOUS
  <2>2. PICK x \in S : TRUE
    OBVIOUS
  <2>3. m \in Nat /\ m # 0 /\ \A y \in S : y \in Nat /\ y < m
    BY <1>1, <2>1, <2>2
  <2>4. m - 1 \in Bounds
    BY <2>3
  <2> QED BY <1>1, <2>3, <2>4
<1>3. \A y \in S : m >= y
  BY <1>1
<1>4. Max(S) \in S /\ \A y \in S : Max(S) >= y
  BY <1>2, <1>3 DEF Max
<1> QED BY <1>4

DevicesTyped ==
  /\ devices \subseteq DeviceRows /\ lastId \in Nat
  /\ \A r \in devices : r.id <= lastId
  /\ told \in [Keys -> [Tokens -> Nat \cup {None}]]

(* While the old key is there, a token is stored once.                     *)
TokensUnique == db.tokenKey => \A a, b \in devices : a.token = b.token => a = b

DeviceInv == DevicesTyped /\ TokensUnique /\ RegistrationsSurvive /\ RegistrationsGuarded

LEMMA DeviceInit == Init => DeviceInv
<1> SUFFICES ASSUME Init
             PROVE  DeviceInv
  OBVIOUS
<1>1. /\ deployment \in Deployments /\ devices = deployment.legacy
      /\ lastId = Max({0} \cup {r.id : r \in devices})
      /\ told = [k \in Keys |-> [t \in Tokens |->
                   IF Rows(k, t) = {} THEN None ELSE (CHOOSE r \in Rows(k, t) : TRUE).id]]
      /\ db.tokenKey = (deployment.legacy # {})
  BY DEF Init
<1>2. /\ devices \subseteq DeviceRows
      /\ \A a, b \in devices : a.token = b.token => a = b
      /\ devices # {} => \E last \in devices : \A r \in devices : r.id <= last.id
  BY <1>1, StartupAssumption
<1>3. \A r \in devices : r.id \in Nat
  BY <1>2 DEF DeviceRows
<1>4. \E n \in Nat : \A r \in devices : r.id <= n
  BY <1>2, <1>3
<1>5. lastId \in Nat /\ \A r \in devices : r.id <= lastId
  <2> DEFINE Ids == {0} \cup {r.id : r \in devices}
  <2>1. Ids \in SUBSET Nat /\ Ids # {}
    BY <1>3
  <2>2. PICK n \in Nat : \A x \in Ids : x <= n
    BY <1>3, <1>4
  <2>3. Max(Ids) \in Ids /\ \A x \in Ids : x <= Max(Ids)
    <3> HIDE DEF Ids
    <3> QED BY <2>1, <2>2, MaxOfBounded
  <2> QED BY <1>1, <2>1, <2>3
<1>6. ASSUME NEW k \in Keys, NEW t \in Tokens
      PROVE  /\ told[k][t] \in Nat \cup {None}
             /\ told[k][t] # None => \E r \in Rows(k, t) : r.id = told[k][t]
  <2>1. told[k][t] = IF Rows(k, t) = {} THEN None ELSE (CHOOSE r \in Rows(k, t) : TRUE).id
    BY <1>1
  <2>2. Rows(k, t) # {} => (CHOOSE r \in Rows(k, t) : TRUE) \in Rows(k, t)
    OBVIOUS
  <2> QED BY <1>3, <2>1, <2>2 DEF Rows
<1>7. told \in [Keys -> [Tokens -> Nat \cup {None}]]
  BY <1>1, <1>6
<1>8. RegistrationsGuarded
  BY <1>1, <1>2 DEF RegistrationsGuarded, PairsUnique
<1> QED BY <1>2, <1>5, <1>6, <1>7, <1>8 DEF DeviceInv, DevicesTyped, TokensUnique, RegistrationsSurvive

(* What the statements of other components leave alone.                    *)
LEMMA DevicesLeftAlone ==
  ASSUME DeviceInv, UNCHANGED <<devices, lastId, told>>, db'.driver = db.driver,
         db'.tokenKey => db.tokenKey,
         db.driver = Postgres => (db.tokenKey \/ db.pairKey => db'.tokenKey \/ db'.pairKey)
  PROVE  DeviceInv'
BY DEF DeviceInv, DevicesTyped, TokensUnique, RegistrationsSurvive, RegistrationsGuarded, PairsUnique, Rows

(* A registration that is inserted.                                        *)
LEMMA DeviceInserted ==
  ASSUME DeviceInv, NEW k \in Keys, NEW t \in Tokens, Insert(k, t), UNCHANGED db,
         Rows(k, t) = {}, db.tokenKey => Holding(t) = {}, db.tokenKey \/ db.pairKey
  PROVE  DeviceInv'
<1> DEFINE row == [id |-> lastId + 1, key |-> k, token |-> t, active |-> TRUE]
<1>1. /\ devices' = devices \cup {row} /\ lastId' = lastId + 1
      /\ told' = [told EXCEPT ![k][t] = lastId + 1]
  BY DEF Insert
<1>2. /\ devices \subseteq DeviceRows /\ lastId \in Nat /\ told \in [Keys -> [Tokens -> Nat \cup {None}]]
      /\ \A r \in devices : r.id <= lastId /\ r.id \in Nat
  BY DEF DeviceInv, DevicesTyped, DeviceRows
<1>3. row \in DeviceRows /\ row.id = lastId + 1 /\ row.key = k /\ row.token = t
  BY <1>2 DEF DeviceRows
<1> HIDE DEF row
<1>4. DevicesTyped'
  BY <1>1, <1>2, <1>3 DEF DevicesTyped
<1>5. \A r \in devices : ~ (r.key = k /\ r.token = t)
  BY DEF Rows
<1>6. db.tokenKey => \A r \in devices : r.token # t
  BY DEF Holding
<1>7. TokensUnique'
  BY <1>1, <1>3, <1>6 DEF DeviceInv, TokensUnique
<1>8. RegistrationsGuarded'
  BY <1>1, <1>3, <1>5 DEF DeviceInv, RegistrationsGuarded, PairsUnique
<1>9. ASSUME NEW o \in Keys, NEW u \in Tokens, told'[o][u] # None
      PROVE  \E r \in Rows(o, u)' : r.id = told'[o][u]
  <2>1. CASE o = k /\ u = t
    BY <1>1, <1>2, <1>3, <2>1 DEF Rows
  <2>2. CASE ~ (o = k /\ u = t)
    <3>1. told'[o][u] = told[o][u]
      BY <1>1, <1>2, <2>2
    <3>2. PICK r \in Rows(o, u) : r.id = told[o][u]
      BY <1>9, <3>1 DEF DeviceInv, RegistrationsSurvive
    <3> QED BY <1>1, <3>1, <3>2 DEF Rows
  <2> QED BY <2>1, <2>2
<1> QED BY <1>4, <1>7, <1>8, <1>9 DEF DeviceInv, RegistrationsSurvive

(* A registration whose row is written again: by its own identity, or, as  *)
(* long as a token is stored once, moved to another.                       *)
LEMMA DeviceReplaced ==
  ASSUME DeviceInv, NEW k \in Keys, NEW t \in Tokens, NEW r \in devices, r.token = t,
         NEW row \in DeviceRows, row.id = r.id, row.token = t, row.key = k,
         Replace(r, row), UNCHANGED db, r.key = k \/ db.tokenKey,
         told' \in [Keys -> [Tokens -> Nat \cup {None}]], told'[k][t] = r.id,
         \A o \in Keys, u \in Tokens :
           (o # k \/ u # t) => \/ told'[o][u] = told[o][u] /\ (r.key = k \/ u # t)
                              \/ told'[o][u] = None
  PROVE  DeviceInv'
<1>1. devices' = (devices \ {r}) \cup {row} /\ lastId' = lastId
  BY DEF Replace
<1>2. /\ devices \subseteq DeviceRows /\ lastId \in Nat
      /\ \A s \in devices : s.id <= lastId
  BY DEF DeviceInv, DevicesTyped
<1>3. DevicesTyped'
  BY <1>1, <1>2 DEF DevicesTyped
<1>4. \A a, b \in devices : a.key = b.key /\ a.token = b.token => a = b
  BY DEF DeviceInv, RegistrationsGuarded, PairsUnique
<1>5. db.tokenKey => \A a, b \in devices : a.token = b.token => a = b
  BY DEF DeviceInv, TokensUnique
<1>6. TokensUnique'
  BY <1>1, <1>5 DEF TokensUnique
<1>7. RegistrationsGuarded'
  <2>1. \A s \in devices \ {r} : ~ (s.key = k /\ s.token = t)
    BY <1>4, <1>5
  <2> QED BY <1>1, <1>4, <2>1 DEF DeviceInv, RegistrationsGuarded, PairsUnique
<1>8. ASSUME NEW o \in Keys, NEW u \in Tokens, told'[o][u] # None
      PROVE  \E s \in Rows(o, u)' : s.id = told'[o][u]
  <2>1. CASE o = k /\ u = t
    BY <1>1, <2>1 DEF Rows
  <2>2. CASE ~ (o = k /\ u = t)
    <3>1. told'[o][u] = told[o][u] /\ (r.key = k \/ u # t)
      BY <1>8, <2>2
    <3>2. PICK s \in Rows(o, u) : s.id = told[o][u]
      BY <1>8, <3>1 DEF DeviceInv, RegistrationsSurvive
    <3>3. s # r
      BY <2>2, <3>1, <3>2 DEF Rows
    <3> QED BY <1>1, <3>1, <3>2, <3>3 DEF Rows
  <2> QED BY <2>1, <2>2
<1> QED BY <1>3, <1>6, <1>7, <1>8 DEF DeviceInv, RegistrationsSurvive

LEMMA DeviceNext ==
  ASSUME DeviceInv, SchemaInv, SqlStep
  PROVE  DeviceInv'
<1> USE NoneIsNothing
<1>0. /\ db \in Databases /\ devices \subseteq DeviceRows /\ lastId \in Nat
      /\ \A r \in devices : r.id <= lastId /\ r.id \in Nat
      /\ told \in [Keys -> [Tokens -> Nat \cup {None}]]
  BY DEF DeviceInv, DevicesTyped, SchemaInv, SchemaTyped, DeviceRows
<1>1. ASSUME NEW p \in Procs,
             \/ Tables(p) \/ FindInvalid(p) \/ DropInvalid(p) \/ CreateIndex(p) \/ BuildIndex(p)
             \/ Indexes(p) \/ Seed(p) \/ FindTokenKey(p) \/ SchemaStart(p) \/ SchemaEnds(p)
      PROVE  DeviceInv'
  <2>1. /\ UNCHANGED <<devices, lastId, told>> /\ db'.driver = db.driver /\ db'.tokenKey = db.tokenKey
        /\ db.pairKey => db'.pairKey
    BY <1>0, <1>1 DEF Databases, Tables, FindInvalid, DropInvalid, CreateIndex, BuildIndex, Indexes, Seed,
       FindTokenKey, SchemaStart, SchemaEnds
  <2> QED BY <2>1, DevicesLeftAlone
<1>2. ASSUME NEW p \in Procs, DropTokenKey(p)
      PROVE  DeviceInv'
  <2>1. /\ UNCHANGED <<devices, lastId, told>> /\ db'.driver = db.driver /\ db'.tokenKey = FALSE
        /\ db'.pairKey = db.pairKey
    BY <1>0, <1>2 DEF Databases, DropTokenKey
  <2>2. db.driver = Postgres => db.pairKey
    BY <1>2 DEF DropTokenKey, SchemaInv, KeyBeforeDrop
  <2> QED BY <2>1, <2>2, DevicesLeftAlone
<1>3. ASSUME NEW p \in Procs, Rebuild(p)
      PROVE  DeviceInv'
  <2>1. /\ devices' = devices /\ told' = told /\ lastId' = Max({0} \cup {r.id : r \in devices})
        /\ db'.driver = db.driver /\ db'.tokenKey = FALSE
    BY <1>0, <1>3 DEF Databases, Rebuild, Copied
  <2>2. db.driver # Postgres
    BY <1>3 DEF Rebuild, SchemaInv, SchemaTyped, Statements, PostgresAfter
  <2>3. lastId' \in Nat /\ \A r \in devices : r.id <= lastId'
    <3> DEFINE Ids == {0} \cup {r.id : r \in devices}
    <3>1. Ids \in SUBSET Nat /\ Ids # {} /\ \A x \in Ids : x <= lastId
      BY <1>0
    <3>2. Max(Ids) \in Ids /\ \A x \in Ids : x <= Max(Ids)
      <4> HIDE DEF Ids
      <4> QED BY <1>0, <3>1, MaxOfBounded
    <3> QED BY <2>1, <3>1, <3>2
  <2> QED BY <1>0, <2>1, <2>2, <2>3 DEF DeviceInv, DevicesTyped, TokensUnique, RegistrationsSurvive,
         RegistrationsGuarded, PairsUnique, Rows
<1>4. CASE OrphanBuildEnds
  <2>1. /\ UNCHANGED <<devices, lastId, told>> /\ db'.driver = db.driver /\ db'.tokenKey = db.tokenKey
        /\ db'.pairKey = db.pairKey
    BY <1>0, <1>4 DEF Databases, OrphanBuildEnds
  <2> QED BY <2>1, DevicesLeftAlone
<1>5. ASSUME NEW w \in Writers, NEW fee, NEW set, WriteBoxWide(w, set, fee) \/ WriteStep(w) \/ WriteFails(w)
      PROVE  DeviceInv'
  <2>1. UNCHANGED <<db, devices, lastId, told>>
    BY <1>5 DEF WriteBoxWide, WriteStep, Lock, InsertBoxWide, UpdateBoxWide, Commit, WriteFails, Writing
  <2> QED BY <2>1, DevicesLeftAlone
<1>6. CASE UNCHANGED sqlVars
  BY <1>6, DevicesLeftAlone DEF sqlVars
<1>7. ASSUME NEW k \in Keys, NEW t \in Tokens, RegisterDevice(k, t)
      PROVE  DeviceInv'
  <2>1. CASE Rows(k, t) = {} /\ ~ (db.tokenKey /\ Holding(t) # {}) /\ Insert(k, t)
    BY <1>7, <2>1, DeviceInserted DEF RegisterDevice
  <2>2. ASSUME NEW r \in Rows(k, t), Replace(r, [r EXCEPT !.active = TRUE]), told' = [told EXCEPT ![k][t] = r.id]
        PROVE  DeviceInv'
    <3>1. r \in devices /\ r \in DeviceRows /\ r.key = k /\ r.token = t
      BY <1>0 DEF Rows
    <3> DEFINE row == [r EXCEPT !.active = TRUE]
    <3>2. row \in DeviceRows /\ row.id = r.id /\ row.token = t /\ row.key = k
      BY <3>1 DEF DeviceRows
    <3>3. /\ told' \in [Keys -> [Tokens -> Nat \cup {None}]] /\ told'[k][t] = r.id
          /\ \A o \in Keys, u \in Tokens : o # k \/ u # t => told'[o][u] = told[o][u]
      BY <1>0, <2>2, <3>1
    <3>4. UNCHANGED db /\ Replace(r, row)
      BY <1>7, <2>2 DEF RegisterDevice
    <3> HIDE DEF row
    <3> QED BY <3>1, <3>2, <3>3, <3>4, DeviceReplaced
  <2> QED BY <1>7, <2>1, <2>2 DEF RegisterDevice
<1>8. ASSUME NEW k \in Keys, NEW t \in Tokens, OldRegister(k, t)
      PROVE  DeviceInv'
  <2>0. db.tokenKey /\ UNCHANGED db
    BY <1>8 DEF OldRegister
  <2>1. CASE Holding(t) = {} /\ Insert(k, t)
    <3>1. Rows(k, t) = {}
      BY <2>1 DEF Rows, Holding
    <3> QED BY <2>0, <2>1, <3>1, DeviceInserted
  <2>2. ASSUME NEW r \in Holding(t), Replace(r, [r EXCEPT !.key = k, !.active = TRUE]),
               told' = [o \in Keys |-> [told[o] EXCEPT ![t] = IF o = k THEN r.id ELSE None]]
        PROVE  DeviceInv'
    <3>1. r \in devices /\ r \in DeviceRows /\ r.token = t
      BY <1>0 DEF Holding
    <3> DEFINE row == [r EXCEPT !.key = k, !.active = TRUE]
    <3>2. row \in DeviceRows /\ row.id = r.id /\ row.token = t /\ row.key = k
      BY <3>1 DEF DeviceRows
    <3>3. r.id \in Nat
      BY <1>0, <3>1
    <3>4. \A o \in Keys : told[o] \in [Tokens -> Nat \cup {None}]
      BY <1>0
    <3>5. /\ told' \in [Keys -> [Tokens -> Nat \cup {None}]] /\ told'[k][t] = r.id
          /\ \A o \in Keys, u \in Tokens :
               (o # k \/ u # t) => (told'[o][u] = told[o][u] /\ u # t) \/ told'[o][u] = None
      BY <2>2, <3>3, <3>4
    <3> HIDE DEF row
    <3>6. Replace(r, row)
      BY <2>2 DEF row
    <3> QED BY <2>0, <3>1, <3>2, <3>5, <3>6, DeviceReplaced
  <2> QED BY <1>8, <2>1, <2>2 DEF OldRegister
<1>9. ASSUME NEW k \in Keys, NEW t \in Tokens, UnregisterDevice(k, t)
      PROVE  DeviceInv'
  <2>1. /\ devices' = devices \ Rows(k, t) /\ told' = [told EXCEPT ![k][t] = None]
        /\ UNCHANGED <<db, lastId>>
    BY <1>9 DEF UnregisterDevice, Unregistered
  <2>2. /\ told' \in [Keys -> [Tokens -> Nat \cup {None}]] /\ told'[k][t] = None
        /\ \A o \in Keys, u \in Tokens : o # k \/ u # t => told'[o][u] = told[o][u]
    BY <1>0, <2>1
  <2>3. ASSUME NEW o \in Keys, NEW u \in Tokens, told'[o][u] # None
        PROVE  \E s \in Rows(o, u)' : s.id = told'[o][u]
    <3>1. (o # k \/ u # t) /\ told'[o][u] = told[o][u]
      BY <2>2, <2>3
    <3>2. PICK s \in Rows(o, u) : s.id = told[o][u]
      BY <2>3, <3>1 DEF DeviceInv, RegistrationsSurvive
    <3>3. s \notin Rows(k, t)
      BY <3>1, <3>2 DEF Rows
    <3> QED BY <2>1, <3>1, <3>2, <3>3 DEF Rows
  <2> QED BY <1>0, <2>1, <2>2, <2>3 DEF DeviceInv, DevicesTyped, TokensUnique, RegistrationsSurvive,
         RegistrationsGuarded, PairsUnique
<1>10. ASSUME NEW t \in Tokens, DeactivateDevice(t)
       PROVE  DeviceInv'
  <2> DEFINE Off(r) == IF r.token = t THEN [r EXCEPT !.active = FALSE] ELSE r
  <2>1. devices' = {Off(r) : r \in devices} /\ UNCHANGED <<db, lastId, told>>
    BY <1>10 DEF DeactivateDevice
  <2>2. ASSUME NEW r \in devices
        PROVE  Off(r) \in DeviceRows /\ Off(r).id = r.id /\ Off(r).key = r.key /\ Off(r).token = r.token
    BY <1>0 DEF DeviceRows
  <2> HIDE DEF Off
  <2>3. DevicesTyped'
    BY <1>0, <2>1, <2>2 DEF DevicesTyped
  <2>4. TokensUnique' /\ RegistrationsGuarded'
    BY <2>1, <2>2 DEF DeviceInv, TokensUnique, RegistrationsGuarded, PairsUnique
  <2>5. ASSUME NEW o \in Keys, NEW u \in Tokens, told'[o][u] # None
        PROVE  \E s \in Rows(o, u)' : s.id = told'[o][u]
    <3>1. PICK s \in Rows(o, u) : s.id = told[o][u]
      BY <2>1, <2>5 DEF DeviceInv, RegistrationsSurvive
    <3>2. s \in devices /\ Off(s) \in devices'
      BY <2>1, <3>1 DEF Rows
    <3> QED BY <2>1, <2>2, <3>1, <3>2 DEF Rows
  <2> QED BY <2>3, <2>4, <2>5 DEF DeviceInv, RegistrationsSurvive
<1> QED
  BY <1>1, <1>2, <1>3, <1>4, <1>5, <1>6, <1>7, <1>8, <1>9, <1>10 DEF SqlStep, SchemaStep

(* The invariant of the device registrations, old release and new.         *)
THEOREM DeviceInvariant == Spec => []DeviceInv
<1>1. Init => SchemaInv /\ DeviceInv
  BY SchemaInit, DeviceInit
<1>2. SchemaInv /\ DeviceInv /\ [Next]_vars => SchemaInv' /\ DeviceInv'
  BY StepsOfTheDatabase, SchemaNext, DeviceNext
<1> QED BY <1>1, <1>2, PTL DEF Spec

(* What a client was told it has registered stays there under its id,      *)
(* while processes of both releases register and any number of them        *)
(* rebuild the table, or die doing so.                                     *)
THEOREM RegistrationsAlwaysSurvive == Spec => []RegistrationsSurvive
<1>1. DeviceInv => RegistrationsSurvive
  BY DEF DeviceInv
<1> QED BY <1>1, DeviceInvariant, PTL

(* No pair is ever stored twice, and PostgreSQL's table is never without a *)
(* key while it holds a row.                                               *)
THEOREM RegistrationsAlwaysGuarded == Spec => []RegistrationsGuarded
<1>1. DeviceInv => RegistrationsGuarded
  BY DEF DeviceInv
<1> QED BY <1>1, DeviceInvariant, PTL

-----------------------------------------------------------------------------
(* The types of the database: a process is at a statement of the driver's  *)
(* own list.                                                               *)
THEOREM SqlTyped == Spec => []SqlTypeOK
<1>1. Init => SchemaInv /\ DeviceInv /\ WriteInv
  BY SchemaInit, DeviceInit, WriteInit
<1>2. SchemaInv /\ DeviceInv /\ WriteInv /\ [Next]_vars => SchemaInv' /\ DeviceInv' /\ WriteInv'
  BY StepsOfTheDatabase, SchemaNext, DeviceNext, WriteNext
<1>3. ASSUME SchemaInv, DeviceInv, WriteInv
      PROVE  SqlTypeOK
  <2>1. db.driver \in {Postgres, Sqlite}
    BY <1>3 DEF WriteInv
  <2>2. Statements \subseteq Range(Migrations)
    <3>1. \A s \in DOMAIN PostgresAfter : \E j \in 1 .. 8 : PostgresMigrations[j] = s
      BY DEF PostgresMigrations, PostgresAfter
    <3>2. \A s \in DOMAIN SqliteAfter : \E j \in 1 .. 6 : SqliteMigrations[j] = s
      BY DEF SqliteMigrations, SqliteAfter
    <3>3. DOMAIN PostgresMigrations = 1 .. 8 /\ DOMAIN SqliteMigrations = 1 .. 6
      BY DEF PostgresMigrations, SqliteMigrations
    <3> QED BY <3>1, <3>2, <3>3 DEF Statements, Migrations, Range
  <2> QED BY <1>3, <2>2 DEF SqlTypeOK, SchemaInv, SchemaTyped, DeviceInv, DevicesTyped, WriteInv, WritesTyped
<1> QED BY <1>1, <1>2, <1>3, PTL DEF Spec
=============================================================================
