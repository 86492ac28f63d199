-------------------------------- MODULE Startup --------------------------------
(***************************************************************************)
(* The server processes of one deployment: main(), from the configuration  *)
(* to serving and back, with the SQL database they share, requests that    *)
(* reach the database, public lookups that pass the rate limiter, and      *)
(* searches of the registry.                                               *)
(*                                                                         *)
(* A process that fails exits, whatever it had started, and is started     *)
(* again.  EnsureSchema of the MongoDB store is one step here; Devices has *)
(* its steps.                                                              *)
(***************************************************************************)
EXTENDS RateLimiter, SqlStore, HandleSearch

CONSTANTS
  Deployments,   \* the deployments, see below
  Clients,       \* addresses that look handles up
  Proxies,       \* the proxies in front of a process, the nearest last
  Forgeries,     \* what a client may have written into X-Forwarded-For itself
  MaxMinute      \* a bound

(* A deployment has an environment, and a SQL database that is new or has  *)
(* the device rows of the previous release; it is slow if an index on its  *)
(* messages takes longer to build than a process waits for its setup; and  *)
(* its proxies join the lines of X-Forwarded-For, or each adds a line of   *)
(* its own.  Its bounds are the kinds of its requests, how many there are  *)
(* of them, and how often a process ends that could go on.                 *)
ASSUME StartupAssumption ==
  /\ \A d \in Deployments :
       /\ DOMAIN d.env \subseteq STRING /\ d.legacy \subseteq DeviceRows
       /\ \A k \in Numbers \cap DOMAIN d.env : d.env[k] = Malformed \/ d.env[k] \in Int
       /\ \A a, b \in d.legacy : a.token = b.token \/ a.id = b.id => a = b
       /\ d.legacy # {} => \E last \in d.legacy : \A r \in d.legacy : r.id <= last.id
       /\ d.asks \subseteq {"device", "boxWide", "lookup", "search"} /\ d.requests \in Nat /\ d.ends \in Nat
       /\ d.slow \in BOOLEAN /\ d.joins \in BOOLEAN
  /\ Proxies \in Seq(Range(Proxies)) \ {<<>>} /\ Range(Proxies) \cap Clients = {}
  /\ \A f \in Forgeries : f \in Seq(Range(f))
  /\ Malformed \notin Clients
  /\ MaxMinute \in Nat \ {0}
  /\ Searchers = Procs

VARIABLES
  deployment,
  proc,      \* proc[p]: a process
  minute,    \* the clock
  limiter,   \* limiter[p]: the counts of p's RateLimiter
  requests, ends,       \* how many there were
  (* observers, of what p did this minute *)
  passed,    \* passed[p][c]: the lookups of c it let through
  refused,   \* refused[p]: whose lookups it has refused
  wrote      \* wrote[p]: who sent it lookups with addresses of its own choice

lookupVars == <<passed, refused, wrote>>
procVars == <<deployment, proc, minute, limiter, requests, ends, lookupVars>>
vars == <<procVars, sqlVars, searchVars>>

(* Every process loads the same configuration.                             *)
Loaded == [d \in Deployments |-> Load(d.env)]
env == deployment.env
cfg == Loaded[deployment]

Down == [at |-> "down", push |-> FALSE, public |-> FALSE, verifiers |-> {}, sweeper |-> FALSE]

Processes ==
  [at: {"down", "config", "schema", "wallet", "mount", "serving"}, push: BOOLEAN,
   public: BOOLEAN, verifiers: SUBSET {AppStore, GooglePlay}, sweeper: BOOLEAN]

Nobody == [c \in Clients |-> 0]

(* A deployment with a SQL database.                                       *)
OnSql == cfg # Refused /\ cfg.StorageBackend = "sql" /\ cfg.DBDriver \in {Sqlite, Postgres}

Init ==
  /\ deployment \in Deployments
  /\ LET old == deployment.legacy # {} IN
       db = [driver |-> IF OnSql THEN cfg.DBDriver ELSE Sqlite, devices |-> old, tokenKey |-> old,
             pairKey |-> FALSE, index |-> None, fees |-> old]
  /\ devices = deployment.legacy
  /\ lastId = Max({0} \cup {r.id : r \in devices})
  /\ told = [k \in Keys |-> [t \in Tokens |->
               IF Rows(k, t) = {} THEN None ELSE (CHOOSE r \in Rows(k, t) : TRUE).id]]
  /\ mig = [p \in Procs |-> None] /\ alone = [p \in Procs |-> FALSE]
  /\ boxWide = <<>> /\ write = [w \in Writers |-> None] /\ chosen = None
  /\ proc = [p \in Procs |-> Down]
  /\ minute = 1
  /\ active \in (IF "search" \in deployment.asks THEN SUBSET Handles ELSE {{}})
  /\ search = [p \in Procs |-> Idle]
  /\ limiter = [p \in Procs |-> NewRateLimiter]
  /\ requests = 0 /\ ends = 0
  /\ passed = [p \in Procs |-> Nobody] /\ refused = [p \in Procs |-> {}]
  /\ wrote = [p \in Procs |-> {}]

-----------------------------------------------------------------------------
(* main, step by step.                                                     *)
At(p, here) == proc[p].at = here

Moves(p, next) ==
  /\ proc' = [proc EXCEPT ![p] = next]
  /\ UNCHANGED <<deployment, minute, requests>>

Goto(p, there) ==
  /\ Moves(p, [proc[p] EXCEPT !.at = there])
  /\ UNCHANGED <<limiter, ends, lookupVars, searchVars>>

(* The end of the process, and of what it had in memory.                   *)
Gone(p) ==
  /\ Moves(p, Down)
  /\ limiter' = [limiter EXCEPT ![p] = NewRateLimiter]
  /\ passed' = [passed EXCEPT ![p] = Nobody] /\ refused' = [refused EXCEPT ![p] = {}]
  /\ wrote' = [wrote EXCEPT ![p] = {}]
  /\ SchemaEnds(p) /\ SearchEnds(p)

(* os.Exit.                                                                *)
Exit(p) == Gone(p) /\ UNCHANGED ends

Boot(p) ==
  /\ At(p, "down")
  /\ Goto(p, "config")
  /\ UNCHANGED sqlVars

(* lookupEnabled.                                                          *)
LookupEnabled(c) == c.PaymailDomain

(* checkLookupBackend: only MongoDB has a registry.                        *)
CheckLookupBackend(c) == LookupEnabled(c) => c.StorageBackend = "mongo"

(* openStore, of a configuration that is accepted.                         *)
OpenStore(p) ==
  \/ OnSql /\ Goto(p, "schema") /\ SchemaStart(p)
  \/ cfg.StorageBackend = "mongo" /\ Goto(p, "schema") /\ UNCHANGED sqlVars
  \/ ~ OnSql /\ cfg.StorageBackend # "mongo" /\ Exit(p)

Configure(p) ==
  /\ At(p, "config")
  /\ IF cfg # Refused /\ CheckLookupBackend(cfg) THEN OpenStore(p) ELSE Exit(p)

(* p waits for an index, built for it or for another, that is not there    *)
(* before storeSetupTimeout.                                               *)
Overdue(p) ==
  /\ deployment.slow /\ cfg.StorageBackend = "sql"
  /\ \/ mig[p] = "buildIndex"
     \/ mig[p] \in {"dropInvalid", "createIndex"} /\ db.index = "building"
     \/ mig[p] = "createIndex" /\ db.index = None /\ db.driver = Sqlite

EnsureSchema(p) ==
  /\ At(p, "schema") /\ cfg.StorageBackend = "sql"
  /\ \/ ~ Overdue(p) /\ SchemaStep(p) /\ UNCHANGED <<procVars, searchVars>>
     \/ SchemaFails(p) /\ Exit(p)

(* The deadline of setupCtx: the statement is cancelled, on every boot     *)
(* anew.  MongoDB may be in time or not.                                   *)
Timeout(p) ==
  /\ At(p, "schema") /\ (Overdue(p) \/ (deployment.slow /\ cfg.StorageBackend = "mongo"))
  /\ Exit(p)

(* lookupRegistry of the opened store.                                     *)
LookupRegistry(c) == LookupEnabled(c) => c.StorageBackend = "mongo"

(* Mutant: the credentials are taken as they are.                          *)
InitializeUnchecked(c) == IF c.FirebaseProjectID THEN c.FirebaseServiceAccount ELSE FALSE

(* firebase.Initialize: without it the server goes on.                     *)
Initialize(c) == c.FirebaseProjectID /\ c.FirebaseServiceAccount = TRUE

SchemaReady(p) ==
  /\ At(p, "schema") /\ (cfg.StorageBackend = "mongo" \/ mig[p] = "done")
  /\ \/ /\ LookupRegistry(cfg)
        /\ Moves(p, [proc[p] EXCEPT !.at = "wallet", !.push = Initialize(cfg)])
        /\ UNCHANGED <<limiter, ends, lookupVars, sqlVars, searchVars>>
     \/ ~ LookupRegistry(cfg) /\ Exit(p)

(* parseNetwork.                                                           *)
Networks == {"mainnet", "testnet", "main", "test", "ttn", "tstn"}

(* createWallet.                                                           *)
CreateWallet(p) ==
  /\ At(p, "wallet")
  /\ IF cfg.BSVNetwork \in Networks /\ cfg.ServerPrivateKey # Malformed
     THEN Goto(p, "mount") /\ UNCHANGED sqlVars
     ELSE Exit(p)

(* purchaseVerifiers: a store whose secret cannot be used is an error.     *)
PurchaseVerifiers(c) ==
  IF \E s \in DOMAIN c.Secrets : c.Secrets[s] = Malformed THEN Refused ELSE DOMAIN c.Secrets

(* mountLookup and enablePurchases, with the sweeper, then ListenAndServe. *)
Mount(p) ==
  LET required == cfg.HandlePurchasesRequired
      fails == required /\ (cfg.StorageBackend # "mongo" \/ PurchaseVerifiers(cfg) = Refused)
  IN /\ At(p, "mount")
     /\ \/ /\ ~ fails
           /\ Moves(p, [proc[p] EXCEPT !.at = "serving", !.public = LookupEnabled(cfg),
                                       !.verifiers = IF required THEN PurchaseVerifiers(cfg) ELSE {},
                                       !.sweeper = required])
           /\ UNCHANGED <<limiter, ends, lookupVars, sqlVars, searchVars>>
        \/ fails /\ Exit(p)

(* SIGTERM: the sweep and the listener are stopped, and the process ends   *)
(* when its requests have, or ten seconds later.                           *)
Shutdown(p) ==
  /\ At(p, "serving") /\ ends < deployment.ends
  /\ Gone(p)
  /\ ends' = ends + 1

(* Before it serves, the process is killed or a call fails; PostgreSQL     *)
(* also fails a statement to end a deadlock.                               *)
Crash(p) ==
  /\ proc[p].at \in {"schema", "wallet", "mount"} /\ ends < deployment.ends
  /\ Gone(p)
  /\ ends' = ends + 1

MainStep(p) ==
  \/ Boot(p) \/ Configure(p) \/ EnsureSchema(p) \/ Timeout(p) \/ SchemaReady(p)
  \/ CreateWallet(p) \/ Mount(p)

-----------------------------------------------------------------------------
(* Requests.                                                               *)
Request(kind) ==
  /\ kind \in deployment.asks /\ requests < deployment.requests
  /\ requests' = requests + 1
  /\ UNCHANGED <<deployment, proc, minute, ends>>

(* X-Forwarded-For of a client's request: behind what the client has sent, *)
(* each proxy has put the address it was called from.                      *)
Lines(c, forged) ==
  LET added == <<c>> \o SubSeq(Proxies, 1, Len(Proxies) - 1)
      each == [i \in DOMAIN added |-> <<added[i]>>]
  IN IF deployment.joins THEN <<forged \o added>>
     ELSE IF forged = <<>> THEN each ELSE <<forged>> \o each

LookupRequest(c, forged, header) ==
  [header |-> header, remote |-> Proxies[Len(Proxies)], forwarded |-> Lines(c, forged)]

(* A lookup of client c, through the proxies: the first sets the header of *)
(* the configuration, or adds it to what the client had sent.              *)
Lookup(p, c, forged) ==
  /\ At(p, "serving") /\ proc[p].public /\ ~ Unlimited(cfg)
  /\ Request("lookup")
  /\ \E header \in {<<c>>, forged \o <<c>>} :
       LET ip == ClientIP(cfg, LookupRequest(c, forged, header))
           counted == Counted(limiter[p], minute, ip)
       IN /\ limiter' = [limiter EXCEPT ![p] = counted]
          /\ IF Allowed(cfg, counted, ip)
             THEN passed' = [passed EXCEPT ![p][c] = @ + 1] /\ UNCHANGED refused
             ELSE refused' = [refused EXCEPT ![p] = @ \cup {c}] /\ UNCHANGED passed
  /\ wrote' = [wrote EXCEPT ![p] = IF forged = <<>> THEN @ ELSE @ \cup {c}]
  /\ UNCHANGED <<sqlVars, searchVars>>

Tick ==
  /\ minute < MaxMinute
  /\ minute' = minute + 1
  /\ passed' = [p \in Procs |-> Nobody] /\ refused' = [p \in Procs |-> {}]
  /\ wrote' = [p \in Procs |-> {}]
  /\ UNCHANGED <<deployment, proc, limiter, requests, ends, sqlVars, searchVars>>

(* Searches, of a process that does not limit them, and the registry they  *)
(* read.                                                                   *)
Search(p) ==
  \/ /\ At(p, "serving") /\ proc[p].public /\ Unlimited(cfg)
     /\ Request("search")
     /\ \E q \in Queries : SearchStart(p, q)
     /\ UNCHANGED <<limiter, lookupVars, sqlVars>>
  \/ /\ ReadExact(p) \/ ReadTier(p) \/ SearchFails(p)
     /\ UNCHANGED <<procVars, sqlVars>>

RegistryChanges ==
  /\ Request("search")
  /\ \E h \in Handles : Registry(h)
  /\ UNCHANGED <<limiter, lookupVars, sqlVars>>

(* The requests a process serves from its SQL store.                       *)
Serving(p) == At(p, "serving") /\ cfg.StorageBackend = "sql"

DeviceRequest(p) ==
  /\ Serving(p) /\ Request("device")
  /\ \/ \E k \in Keys, t \in Tokens : RegisterDevice(k, t) \/ UnregisterDevice(k, t)
     \/ \E t \in Tokens : DeactivateDevice(t)
  /\ UNCHANGED <<limiter, lookupVars, searchVars>>

BoxWideRequest(p) ==
  /\ Serving(p) /\ Request("boxWide")
  /\ \/ \E w \in Writers, fee \in Fees : WriteBoxWide(w, TRUE, fee)
     \/ \E w \in Writers : WriteBoxWide(w, FALSE, DefaultFee)
  /\ UNCHANGED <<limiter, lookupVars, searchVars>>

(* Replicas of the previous release, on the same database.                 *)
Outside ==
  /\ Request("device")
  /\ \E k \in Keys, t \in Tokens : OldRegister(k, t)
  /\ UNCHANGED <<limiter, lookupVars, searchVars>>

(* What the database does with what processes have left to it.             *)
BuildEnds == OrphanBuildEnds /\ UNCHANGED <<procVars, searchVars>>

StoreStep(w) == WriteStep(w) /\ UNCHANGED <<procVars, searchVars>>
StoreFails(w) == WriteFails(w) /\ UNCHANGED <<procVars, searchVars>>

Next ==
  \/ \E p \in Procs : MainStep(p) \/ Shutdown(p) \/ Crash(p) \/ DeviceRequest(p) \/ BoxWideRequest(p)
  \/ \E p \in Procs, c \in Clients, forged \in Forgeries : Lookup(p, c, forged)
  \/ \E w \in Writers : StoreStep(w) \/ StoreFails(w)
  \/ BuildEnds
  \/ \E p \in Procs : Search(p)
  \/ RegistryChanges \/ Outside \/ Tick

(* A process that is started goes on, and one that has ended is started    *)
(* again.  Nothing makes anyone send a request, or a process fail that is  *)
(* in time.                                                                *)
Fairness ==
  /\ \A p \in Procs : WF_vars(MainStep(p))
  /\ WF_vars(BuildEnds)

Spec == Init /\ [][Next]_vars /\ Fairness

-----------------------------------------------------------------------------
(* The types of the state; a process pushes, looks up and sweeps or it     *)
(* does not, whatever the texts it was configured with.                    *)
TypeOK ==
  /\ SqlTypeOK /\ SearchTypeOK
  /\ deployment \in Deployments /\ proc \in [Procs -> Processes]
  /\ minute \in 1 .. MaxMinute /\ requests \in 0 .. deployment.requests /\ ends \in 0 .. deployment.ends
  /\ passed \in [Procs -> [Clients -> Nat]] /\ refused \in [Procs -> SUBSET Clients]
  /\ wrote \in [Procs -> SUBSET Clients]

(* A process that listens serves what the environment asks for, and never  *)
(* half of it: paid handles only with the registry, a verifier of every    *)
(* store and the sweeper; and the durations that guard handles are as long *)
(* as asked for, up to their cap, and never negative.                      *)
ServesAsConfigured ==
  \A p \in Procs : At(p, "serving") =>
    /\ proc[p].public = IsSet(env, "PAYMAIL_DOMAIN")
    /\ IF Flag(env, "HANDLE_PURCHASES_REQUIRED")
       THEN /\ proc[p].public /\ proc[p].sweeper
            /\ proc[p].verifiers = ConfiguredStores(env) /\ proc[p].verifiers # {}
       ELSE proc[p].verifiers = {} /\ ~ proc[p].sweeper
    /\ cfg.HandleCooldown >= Least(GetEnvInt(env, "HANDLE_COOLDOWN_DAYS", 30), MaxCooldownDays)
    /\ cfg.HandleGrace >= Least(GetEnvInt(env, "HANDLE_GRACE_DAYS", 14), MaxGraceDays)

(* The entry of X-Forwarded-For that is trusted was written by a proxy of  *)
(* the deployment; and it is the client's address.                         *)
ProxysEntry == cfg.TrustProxy => deployment.joins /\ cfg.TrustedProxyHops <= Len(Proxies)
OwnAddress == cfg.TrustProxy /\ deployment.joins /\ cfg.TrustedProxyHops = Len(Proxies)

(* How many lookups clientIP and allow let a client have at a process in a *)
(* minute.  A client that leaves the headers alone gets no more than the   *)
(* limit, whatever the configuration trusts and whatever others write.     *)
(* One that writes into them gets no more either, if the trusted entry was *)
(* written by a proxy, or twice the limit where a header that is there     *)
(* twice falls back to an address others share.  And if the trusted entry  *)
(* is the client's address, it is refused for its own lookups only.        *)
(* A client that writes is not bounded behind a hop count that is too      *)
(* high, which src/README.md:355 calls safe: a header it has padded is     *)
(* long enough; nor behind proxies that add lines of their own, as the     *)
(* client's line is then the first.                                        *)
ClientBounded ==
  cfg # Refused /\ ~ Unlimited(cfg) =>
    \A p \in Procs, c \in Clients :
      /\ c \notin wrote[p] => passed[p][c] <= cfg.LookupRatePerMin
      /\ ProxysEntry =>
           passed[p][c] <= cfg.LookupRatePerMin * (IF cfg.ClientIPHeader /\ ~ OwnAddress THEN 2 ELSE 1)
      /\ OwnAddress /\ c \in refused[p] => passed[p][c] = cfg.LookupRatePerMin

(* An environment in which nothing is missing and nothing malformed.       *)
Sound ==
  /\ cfg # Refused /\ CheckLookupBackend(cfg)
  /\ cfg.StorageBackend = "mongo" \/ (cfg.StorageBackend = "sql" /\ cfg.DBDriver \in {Sqlite, Postgres})
  /\ cfg.BSVNetwork \in Networks /\ cfg.ServerPrivateKey # Malformed
  /\ \A s \in DOMAIN cfg.Secrets : cfg.Secrets[s] # Malformed

(* With such an environment, and a database that is ready before           *)
(* storeSetupTimeout, every process comes up, and again each time it ends, *)
(* whoever else is in EnsureSchema and wherever an earlier one died.  (An  *)
(* index that takes longer is cancelled, dropped and built anew at every   *)
(* boot.)                                                                  *)
ReplicasServe == Sound /\ ~ deployment.slow => \A p \in Procs : []<>At(p, "serving")
=============================================================================
