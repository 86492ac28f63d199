------------------------------- MODULE SqlStore -------------------------------
(***************************************************************************)
(* The SQL backend: EnsureSchema, statement by statement, as several       *)
(* processes boot against one database; the device registrations of the    *)
(* previous and of this release; and the box-wide permission, whose key no *)
(* constraint guards.                                                      *)
(*                                                                         *)
(* Every statement is one step, and so is the transaction that rebuilds    *)
(* SQLite's device table.  What PostgreSQL does in several steps is several *)
(* steps here: an index built concurrently is there but invalid until the  *)
(* build ends, and whoever wants to build or drop it waits meanwhile.      *)
(***************************************************************************)
EXTENDS Naturals, Sequences, FiniteSetsExt

CONSTANTS
  Procs,         \* server processes
  Keys, Tokens,  \* identity keys, and FCM tokens
  Writers,       \* requests that write the box-wide permission
  Fees,          \* the fees a recipient sets
  DefaultFee,    \* the fee that is stored if there is none
  None

(* None stands for what is not there: it is no statement of EnsureSchema,  *)
(* no state of an index and no fee.                                        *)
ASSUME NoneIsNothing ==
  None \notin {"tables", "findInvalid", "dropInvalid", "createIndex", "buildIndex", "indexes", "dropTokenKey",
               "seed", "findTokenKey", "rebuild", "done", "building", "invalid", "valid"}

VARIABLES
  db,        \* the schema: see Databases
  devices,   \* device_registrations: a set of rows
  lastId,    \* the last id handed out
  mig,       \* mig[p]: the statement of EnsureSchema p executes next
  boxWide,   \* the committed box-wide rows of one recipient and box: their fees
  write,     \* write[w]: a running write of the box-wide permission
  (* observers, never read by the server *)
  told,      \* told[k][t]: the id the client of a registration was given, or None
  chosen,    \* what the recipient last set, or None
  alone      \* alone[p]: p is in EnsureSchema, and nobody else has been since

sqlVars == <<db, devices, lastId, mig, boxWide, write, told, chosen, alone>>

Postgres == "postgres"
Sqlite == "sqlite3"

(* A database, with or without the device table; its keys on the token and *)
(* on the pair; the index on messages; and the delivery fees.              *)
Databases ==
  [driver: {Postgres, Sqlite}, devices: BOOLEAN, tokenKey: BOOLEAN, pairKey: BOOLEAN,
   index: {None, "building", "invalid", "valid"}, fees: BOOLEAN]

DeviceRows == [id: Nat \ {0}, key: Keys, token: Tokens, active: BOOLEAN]
Writes == [at: {"lock", "insert", "update", "commit"}, set: BOOLEAN, fee: Fees \cup {DefaultFee}, pending: BOOLEAN]

-----------------------------------------------------------------------------
(* Mutant: the old key is never dropped.                                   *)
PostgresMigrationsKeepKey ==
  <<"tables", "findInvalid", "dropInvalid", "createIndex", "buildIndex", "indexes", "seed">>

(* Mutant: the old key is dropped before the new one is there.             *)
PostgresMigrationsDropFirst ==
  <<"tables", "findInvalid", "dropInvalid", "createIndex", "buildIndex", "dropTokenKey", "indexes", "seed">>

(* postgresMigrations, and the fees.                                       *)
PostgresMigrations ==
  <<"tables", "findInvalid", "dropInvalid", "createIndex", "buildIndex", "indexes", "dropTokenKey", "seed">>

(* rebuildSQLiteDevicesTable, sqliteMigrations, and the fees.              *)
SqliteMigrations ==
  <<"findTokenKey", "rebuild", "tables", "createIndex", "indexes", "seed">>

Migrations == IF db.driver = Postgres THEN PostgresMigrations ELSE SqliteMigrations

(* A process that is not in EnsureSchema is at None, one that is through   *)
(* at "done".                                                              *)
Migrating(p) == mig[p] \notin {None, "done"}

Goes(p, step) ==
  /\ mig' = [mig EXCEPT ![p] = step]
  /\ alone' = [alone EXCEPT ![p] = @ /\ step # "done"]
  /\ UNCHANGED <<boxWide, write, chosen>>

After(p) ==
  LET i == CHOOSE j \in DOMAIN Migrations : Migrations[j] = mig[p]
  IN IF i = Len(Migrations) THEN "done" ELSE Migrations[i + 1]

SchemaStart(p) ==
  /\ mig' = [mig EXCEPT ![p] = Head(Migrations)]
  /\ alone' = [q \in Procs |-> q = p /\ \A o \in Procs \ {p} : ~ Migrating(o)]
  /\ UNCHANGED <<db, devices, lastId, boxWide, write, told, chosen>>

(* CREATE TABLE IF NOT EXISTS: a new device table has no key on the token. *)
Tables(p) ==
  /\ mig[p] = "tables"
  /\ db' = [db EXCEPT !.devices = TRUE]
  /\ Goes(p, After(p))
  /\ UNCHANGED <<devices, lastId, told>>

(* Mutant: an invalid leftover stays.                                      *)
InvalidIndexNever == FALSE

(* The index a build left behind, or is still building: both are invalid.  *)
InvalidIndex == db.index \in {"invalid", "building"}

FindInvalid(p) ==
  /\ mig[p] = "findInvalid"
  /\ Goes(p, IF InvalidIndex THEN "dropInvalid" ELSE "createIndex")
  /\ UNCHANGED <<db, devices, lastId, told>>

(* The drop waits for a build, and then drops what is there; an index that *)
(* somebody else has dropped is an error, see SchemaFails.                 *)
DropInvalid(p) ==
  /\ mig[p] = "dropInvalid"
  /\ db.index \notin {"building", None}
  /\ db' = [db EXCEPT !.index = None]
  /\ Goes(p, After(p))
  /\ UNCHANGED <<devices, lastId, told>>

(* CREATE INDEX IF NOT EXISTS, which takes an invalid index for one.  On   *)
(* PostgreSQL it is CONCURRENTLY, and waits for another build.             *)
CreateIndex(p) ==
  /\ mig[p] = "createIndex"
  /\ db.index # "building"
  /\ db' = [db EXCEPT !.index = IF @ # None THEN @ ELSE IF db.driver = Postgres THEN "building" ELSE "valid"]
  /\ Goes(p, IF db.driver = Postgres /\ db.index # None THEN "indexes" ELSE After(p))
  /\ UNCHANGED <<devices, lastId, told>>

BuildIndex(p) ==
  /\ mig[p] = "buildIndex"
  /\ db' = [db EXCEPT !.index = "valid"]
  /\ Goes(p, After(p))
  /\ UNCHANGED <<devices, lastId, told>>

(* No two rows of one pair: what the unique index asks of the rows.        *)
PairsUnique == \A a, b \in devices : a.key = b.key /\ a.token = b.token => a = b

(* commonMigrations, of which the unique index matters.                    *)
Indexes(p) ==
  /\ mig[p] = "indexes"
  /\ db.devices /\ PairsUnique
  /\ db' = [db EXCEPT !.pairKey = TRUE]
  /\ Goes(p, After(p))
  /\ UNCHANGED <<devices, lastId, told>>

(* postgresDropLegacyTokenKey.                                             *)
DropTokenKey(p) ==
  /\ mig[p] = "dropTokenKey"
  /\ db' = [db EXCEPT !.tokenKey = FALSE]
  /\ Goes(p, After(p))
  /\ UNCHANGED <<devices, lastId, told>>

(* The delivery fees that are missing.                                     *)
Seed(p) ==
  /\ mig[p] = "seed"
  /\ db' = [db EXCEPT !.fees = TRUE]
  /\ Goes(p, After(p))
  /\ UNCHANGED <<devices, lastId, told>>

(* hasLegacyTokenKey is asked outside the transaction.                     *)
FindTokenKey(p) ==
  /\ mig[p] = "findTokenKey"
  /\ Goes(p, IF db.tokenKey THEN "rebuild" ELSE "tables")
  /\ UNCHANGED <<db, devices, lastId, told>>

(* Mutant: the rows are copied without their ids.                          *)
CopiedRenumbered(rows) == {[r EXCEPT !.id = 1 + Cardinality({o \in rows : o.id > r.id})] : r \in rows}

(* INSERT INTO ... SELECT, the ids included.                               *)
Copied(rows) == rows

(* The indexes go with the old table, the new one counts on from the       *)
(* largest id it was given.                                                *)
Rebuild(p) ==
  /\ mig[p] = "rebuild"
  /\ devices' = Copied(devices)
  /\ lastId' = Max({0} \cup {r.id : r \in devices'})
  /\ db' = [db EXCEPT !.tokenKey = FALSE, !.pairKey = FALSE]
  /\ Goes(p, After(p))
  /\ UNCHANGED told

SchemaStep(p) ==
  \/ Tables(p) \/ FindInvalid(p) \/ DropInvalid(p) \/ CreateIndex(p) \/ BuildIndex(p) \/ Indexes(p)
  \/ DropTokenKey(p) \/ Seed(p) \/ FindTokenKey(p) \/ Rebuild(p)

(* A process ends, in EnsureSchema or later: a build it was waiting for is *)
(* left to the database, and so are its writes, see WriteFails.            *)
SchemaEnds(p) ==
  /\ mig' = [mig EXCEPT ![p] = None]
  /\ alone' = [alone EXCEPT ![p] = FALSE]
  /\ UNCHANGED <<db, devices, lastId, boxWide, write, told, chosen>>

(* PostgreSQL ends the build whose process is gone: it is cancelled, or    *)
(* goes through.                                                           *)
OrphanBuildEnds ==
  /\ db.index = "building"
  /\ \A p \in Procs : mig[p] # "buildIndex"
  /\ \E outcome \in {"invalid", "valid"} : db' = [db EXCEPT !.index = outcome]
  /\ UNCHANGED <<devices, lastId, mig, boxWide, write, told, chosen, alone>>

(* Mutant: the index is created without IF NOT EXISTS.                     *)
SchemaFailsIfThere(p) == mig[p] \in {"dropInvalid", "createIndex"} /\ (db.index = None) = (mig[p] = "dropInvalid")

(* DROP INDEX of an index that is gone is an error.                        *)
SchemaFails(p) == mig[p] = "dropInvalid" /\ db.index = None

-----------------------------------------------------------------------------
(* The device statements.                                                  *)
Rows(k, t) == {r \in devices : r.key = k /\ r.token = t}
Holding(t) == {r \in devices : r.token = t}

(* A row of another id is inserted; the client is told the id.             *)
Insert(k, t) ==
  /\ devices' = devices \cup {[id |-> lastId + 1, key |-> k, token |-> t, active |-> TRUE]}
  /\ lastId' = lastId + 1
  /\ told' = [told EXCEPT ![k][t] = lastId + 1]

Replace(old, row) ==
  /\ devices' = (devices \ {old}) \cup {row}
  /\ UNCHANGED lastId

(* RegisterDevice: ON CONFLICT (identity_key, fcm_token) needs the index,  *)
(* and a key on the token refuses another identity.                        *)
RegisterDevice(k, t) ==
  /\ db.pairKey
  /\ \/ /\ Rows(k, t) = {} /\ ~ (db.tokenKey /\ Holding(t) # {})
        /\ Insert(k, t)
     \/ \E r \in Rows(k, t) :
          /\ Replace(r, [r EXCEPT !.active = TRUE])
          /\ told' = [told EXCEPT ![k][t] = r.id]
  /\ UNCHANGED <<db, mig, boxWide, write, chosen, alone>>

(* The previous release: ON CONFLICT (fcm_token) moves the row to the new  *)
(* identity, and finds no key once it is dropped.                          *)
OldRegister(k, t) ==
  /\ db.tokenKey
  /\ \/ Holding(t) = {} /\ Insert(k, t)
     \/ \E r \in Holding(t) :
          /\ Replace(r, [r EXCEPT !.key = k, !.active = TRUE])
          /\ told' = [o \in Keys |-> [told[o] EXCEPT ![t] = IF o = k THEN r.id ELSE None]]
  /\ UNCHANGED <<db, mig, boxWide, write, chosen, alone>>

Unregistered(k, t) == Rows(k, t)

UnregisterDevice(k, t) ==
  /\ devices' = devices \ Unregistered(k, t)
  /\ told' = [told EXCEPT ![k][t] = None]
  /\ UNCHANGED <<db, lastId, mig, boxWide, write, chosen, alone>>

(* DeactivateDevice: every identity's registration of the token.           *)
DeactivateDevice(t) ==
  /\ devices' = {IF r.token = t THEN [r EXCEPT !.active = FALSE] ELSE r : r \in devices}
  /\ UNCHANGED <<db, lastId, mig, boxWide, write, told, chosen, alone>>

-----------------------------------------------------------------------------
(* The box-wide permission.  A statement of a transaction reads what is    *)
(* committed and writes into pending; without one it writes at once.       *)
Writing(w, next) ==
  /\ write' = [write EXCEPT ![w] = next]
  /\ UNCHANGED <<db, devices, lastId, mig, told, alone>>

(* The recipient takes a set that is done for what holds from now on.      *)
Done(w) == chosen' = IF write[w].set THEN write[w].fee ELSE chosen

(* SetPermission (set) or SetPermissionIfAbsent of the box-wide row.       *)
WriteBoxWide(w, set, fee) ==
  /\ write[w] = None
  /\ Writing(w, [at |-> IF db.driver = Postgres THEN "lock" ELSE "insert",
                 set |-> set, fee |-> fee, pending |-> FALSE])
  /\ UNCHANGED <<boxWide, chosen>>

(* Mutant: nobody waits for the advisory lock.                             *)
LockFreeAlways == TRUE

(* pg_advisory_xact_lock, held until the transaction ends.                 *)
LockFree == ~ \E v \in Writers : write[v] # None /\ write[v].at # "lock"

Lock(w) ==
  /\ write[w] # None /\ write[w].at = "lock"
  /\ LockFree
  /\ Writing(w, [write[w] EXCEPT !.at = "insert"])
  /\ UNCHANGED <<boxWide, chosen>>

(* insertBoxWideIfAbsent; a set that finds a row goes on to update it.     *)
InsertBoxWide(w) ==
  LET c == write[w]
      absent == boxWide = <<>>
  IN /\ c # None /\ c.at = "insert"
     /\ \/ /\ ~ absent /\ c.set
           /\ Writing(w, [c EXCEPT !.at = "update"])
           /\ UNCHANGED <<boxWide, chosen>>
        \/ /\ absent \/ ~ c.set
           /\ \/ /\ db.driver = Postgres
                 /\ Writing(w, [c EXCEPT !.at = "commit", !.pending = absent])
                 /\ UNCHANGED <<boxWide, chosen>>
              \/ /\ db.driver = Sqlite
                 /\ boxWide' = IF absent THEN <<c.fee>> ELSE boxWide
                 /\ Done(w)
                 /\ Writing(w, None)

(* The update, which on PostgreSQL is committed in Commit.                 *)
UpdateBoxWide(w) ==
  LET c == write[w]
  IN /\ c # None /\ c.at = "update"
     /\ \/ /\ db.driver = Postgres
           /\ Writing(w, [c EXCEPT !.at = "commit"])
           /\ UNCHANGED <<boxWide, chosen>>
        \/ /\ db.driver = Sqlite
           /\ boxWide' = [i \in DOMAIN boxWide |-> c.fee]
           /\ Done(w)
           /\ Writing(w, None)

(* A set has inserted its row, or updates the one it found.                *)
Commit(w) ==
  LET c == write[w]
  IN /\ c # None /\ c.at = "commit"
     /\ boxWide' = IF c.pending THEN Append(boxWide, c.fee)
                   ELSE IF c.set THEN [i \in DOMAIN boxWide |-> c.fee] ELSE boxWide
     /\ Done(w)
     /\ Writing(w, None)

WriteStep(w) == Lock(w) \/ InsertBoxWide(w) \/ UpdateBoxWide(w) \/ Commit(w)

(* The request fails, its client or its process goes away: the transaction *)
(* is rolled back, and between two statements of SQLite nothing is written *)
(* yet.                                                                    *)
WriteFails(w) ==
  /\ write[w] # None
  /\ Writing(w, None)
  /\ UNCHANGED <<boxWide, chosen>>

-----------------------------------------------------------------------------
SqlTypeOK ==
  /\ db \in Databases /\ devices \subseteq DeviceRows /\ lastId \in Nat
  /\ \A p \in Procs : mig[p] \in {None, "done"} \cup Range(Migrations)
  /\ boxWide \in Seq(Fees \cup {DefaultFee}) /\ \A w \in Writers : write[w] = None \/ write[w] \in Writes
  /\ told \in [Keys -> [Tokens -> Nat \cup {None}]]
  /\ chosen \in Fees \cup {None} /\ alone \in [Procs -> BOOLEAN]

(* What a client was told it has registered is there, under the id it was  *)
(* given, until it is unregistered or an old replica moves the token: also *)
(* while the table is rebuilt, by several processes and by one that dies.  *)
RegistrationsSurvive ==
  \A k \in Keys, t \in Tokens :
    told[k][t] # None => \E r \in Rows(k, t) : r.id = told[k][t]

(* No pair is stored twice, at no moment of an upgrade, so that the unique *)
(* index can always be built; and PostgreSQL's table is never without any  *)
(* key while it holds a row.                                               *)
RegistrationsGuarded ==
  /\ PairsUnique
  /\ db.driver = Postgres /\ devices # {} => db.tokenKey \/ db.pairKey

(* What a process that is through EnsureSchema relies on stays as it found *)
(* it on PostgreSQL, whoever else boots, migrates or dies: there is a      *)
(* delivery fee, the pair has the key RegisterDevice's ON CONFLICT names,  *)
(* and no key on the token alone refuses a second identity.                *)
SchemaStands ==
  db.driver = Postgres /\ (\E p \in Procs : mig[p] = "done") =>
    db.devices /\ db.pairKey /\ ~ db.tokenKey /\ db.fees

(* A process that goes through EnsureSchema with nobody else in it leaves  *)
(* a valid index on the messages, whatever a failed build left behind.     *)
LoneBootHealsIndex ==
  [][\A p \in Procs : alone[p] /\ mig'[p] = "done" => db'.index = "valid"]_<<db, mig, alone>>

(* The box-wide permission is one row, of the fee the recipient set last:  *)
(* writers that meet leave neither a second row nor their default in it.   *)
BoxWideChoiceStands ==
  /\ Len(boxWide) <= 1
  /\ chosen # None => boxWide = <<chosen>>
=============================================================================
