----------------------------- MODULE StartupProofs -----------------------------
(***************************************************************************)
(* Proofs about the processes of a deployment, for every environment, any  *)
(* number of processes and clients, and any proxies in front of them.      *)
(***************************************************************************)
EXTENDS SqlStoreProofs

-----------------------------------------------------------------------------
(* The configuration.                                                      *)
LEMMA IntOfEnvironment ==
  ASSUME NEW d \in Deployments, NEW k \in Numbers, NEW n \in Nat
  PROVE  GetEnvInt(d.env, k, n) \in Nat
<1>1. k \in DOMAIN d.env => d.env[k] = Malformed \/ d.env[k] \in Int
  BY StartupAssumption
<1> QED BY <1>1 DEF GetEnvInt, IsSet

(* A configuration that is accepted says what the environment asks for.    *)
LEMMA Accepted ==
  ASSUME NEW d \in Deployments, NEW c, c = Load(d.env), c # Refused
  PROVE  /\ c.PaymailDomain = IsSet(d.env, "PAYMAIL_DOMAIN")
         /\ c.HandlePurchasesRequired = Flag(d.env, "HANDLE_PURCHASES_REQUIRED")
         /\ c.TrustProxy = Flag(d.env, "TRUST_PROXY")
         /\ c.ClientIPHeader = IsSet(d.env, "CLIENT_IP_HEADER")
         /\ c.FirebaseProjectID = IsSet(d.env, "FIREBASE_PROJECT_ID")
         /\ c.HandleCooldown = HandleCooldown(d.env) /\ c.HandleGrace = HandleGrace(d.env)
         /\ DOMAIN c.Secrets = ConfiguredStores(d.env)
         /\ c.LookupRatePerMin = GetEnvInt(d.env, "LOOKUP_RATE_PER_MIN", 60)
         /\ c.TrustedProxyHops = LET hops == GetEnvInt(d.env, "TRUSTED_PROXY_HOPS", 1)
                                 IN IF hops < 1 THEN 1 ELSE hops
         /\ ~ PurchasesUnservable(d.env)
<1>1. ~ PurchasesUnservable(d.env)
  BY DEF Load
<1> QED BY <1>1 DEF Load

LEMMA Bounds ==
  ASSUME NEW d \in Deployments, NEW c, c = Load(d.env), c # Refused
  PROVE  /\ c.LookupRatePerMin \in Nat /\ c.TrustedProxyHops \in Nat \ {0}
         /\ c.TrustProxy \in BOOLEAN /\ c.ClientIPHeader \in BOOLEAN
<1>1. /\ GetEnvInt(d.env, "LOOKUP_RATE_PER_MIN", 60) \in Nat
      /\ GetEnvInt(d.env, "TRUSTED_PROXY_HOPS", 1) \in Nat
  BY IntOfEnvironment DEF Numbers
<1>2. Flag(d.env, "TRUST_PROXY") \in BOOLEAN /\ IsSet(d.env, "CLIENT_IP_HEADER") \in BOOLEAN
  BY DEF Flag, IsSet
<1> QED BY <1>1, <1>2, Accepted

(* The days a duration is made of never wrap around.                       *)
LEMMA DurationsHold ==
  ASSUME NEW d \in Deployments
  PROVE  /\ HandleCooldown(d.env) >= Least(GetEnvInt(d.env, "HANDLE_COOLDOWN_DAYS", 30), MaxCooldownDays)
         /\ HandleGrace(d.env) >= Least(GetEnvInt(d.env, "HANDLE_GRACE_DAYS", 14), MaxGraceDays)
<1>1. ASSUME NEW n \in Nat
      PROVE  Days(Least(n, 3650)) >= Least(n, 3650)
  BY DEF Days, DurationDays, Least
<1>2. /\ GetEnvInt(d.env, "HANDLE_COOLDOWN_DAYS", 30) \in Nat
      /\ GetEnvInt(d.env, "HANDLE_GRACE_DAYS", 14) \in Nat
  BY IntOfEnvironment DEF Numbers
<1> QED BY <1>1, <1>2 DEF HandleCooldown, HandleGrace, MaxCooldownDays, MaxGraceDays

-----------------------------------------------------------------------------
(* main.                                                                   *)

(* What is knowable from the configuration has been refused.               *)
Opened == cfg # Refused /\ (LookupEnabled(cfg) => cfg.StorageBackend = "mongo")

(* What a process serves was decided when it was mounted.                  *)
Mounted(p) ==
  LET required == cfg.HandlePurchasesRequired IN
  /\ proc[p].public = LookupEnabled(cfg) /\ proc[p].sweeper = required
  /\ proc[p].verifiers = IF required THEN DOMAIN cfg.Secrets ELSE {}

ProcInv ==
  /\ deployment \in Deployments /\ proc \in [Procs -> Processes]
  /\ \A p \in Procs : proc[p].at \notin {"down", "config"} => Opened
  /\ \A p \in Procs : proc[p].at = "serving" => Mounted(p)

LEMMA ProcInit == Init => ProcInv
<1> SUFFICES ASSUME Init
             PROVE  ProcInv
  OBVIOUS
<1>1. deployment \in Deployments /\ proc = [p \in Procs |-> Down]
  BY DEF Init
<1>2. Down \in Processes /\ Down.at = "down"
  BY DEF Down, Processes
<1> QED BY <1>1, <1>2 DEF ProcInv

LEMMA ProcNext ==
  ASSUME ProcInv, [Next]_vars
  PROVE  ProcInv'
<1>0. /\ deployment \in Deployments /\ proc \in [Procs -> Processes]
      /\ cfg = Load(deployment.env)
  BY DEF ProcInv, cfg, Loaded
<1> DEFINE Same == /\ deployment' = deployment /\ cfg' = cfg /\ (Opened <=> Opened')
                   /\ \A p \in Procs : proc'[p] = proc[p] => (Mounted(p) <=> Mounted(p)')
<1>1. ASSUME deployment' = deployment
      PROVE  Same
  BY <1>1 DEF cfg, Opened, Mounted
(* One process moves.                                                      *)
<1>2. ASSUME NEW p \in Procs, NEW next \in Processes, Moves(p, next),
             next.at \notin {"down", "config"} => Opened,
             next.at = "serving" =>
               /\ next.public = LookupEnabled(cfg) /\ next.sweeper = cfg.HandlePurchasesRequired
               /\ next.verifiers = IF cfg.HandlePurchasesRequired THEN DOMAIN cfg.Secrets ELSE {}
      PROVE  ProcInv'
  <2>1. proc' = [proc EXCEPT ![p] = next] /\ deployment' = deployment
    BY <1>2 DEF Moves
  <2>2. Same
    BY <1>1, <2>1
  <2>3. proc'[p] = next /\ \A q \in Procs \ {p} : proc'[q] = proc[q]
    BY <1>0, <2>1
  <2>4. next.at = "serving" => Mounted(p)'
    BY <1>2, <2>2, <2>3 DEF Mounted
  <2> QED BY <1>0, <1>2, <2>1, <2>2, <2>3, <2>4 DEF ProcInv
<1>3. ASSUME NEW p \in Procs, Gone(p)
      PROVE  ProcInv'
  <2>1. Down \in Processes /\ Down.at = "down"
    BY DEF Down, Processes
  <2> QED BY <1>2, <1>3, <2>1 DEF Gone
<1>4. ASSUME NEW p \in Procs, NEW there \in {"config", "schema", "wallet", "mount"}, Goto(p, there),
             there # "config" => Opened
      PROVE  ProcInv'
  <2>1. [proc[p] EXCEPT !.at = there] \in Processes /\ [proc[p] EXCEPT !.at = there].at = there
    BY <1>0 DEF Processes
  <2> QED BY <1>2, <1>4, <2>1 DEF Goto
<1>5. ASSUME UNCHANGED <<deployment, proc>>
      PROVE  ProcInv'
  BY <1>0, <1>1, <1>5 DEF ProcInv
<1>6. ASSUME NEW p \in Procs, proc[p].at \notin {"down", "config"}
      PROVE  Opened
  BY <1>6 DEF ProcInv
<1>7. ASSUME NEW p \in Procs, Boot(p) \/ Configure(p)
      PROVE  ProcInv'
  <2>1. CASE Boot(p)
    BY <1>0, <1>4, <2>1 DEF Boot
  <2>2. CASE Configure(p) /\ cfg # Refused /\ CheckLookupBackend(cfg)
    <3>1. OpenStore(p) /\ Opened
      BY <2>2 DEF Configure, CheckLookupBackend, Opened
    <3> QED BY <1>0, <1>3, <1>4, <3>1 DEF OpenStore, Exit
  <2>3. CASE Configure(p) /\ ~ (cfg # Refused /\ CheckLookupBackend(cfg))
    BY <1>0, <1>3, <2>3 DEF Configure, Exit
  <2> QED BY <1>7, <2>1, <2>2, <2>3
<1>8. ASSUME NEW p \in Procs, EnsureSchema(p) \/ Timeout(p)
      PROVE  ProcInv'
  BY <1>0, <1>3, <1>5, <1>8 DEF EnsureSchema, Timeout, Exit, procVars
<1>9. ASSUME NEW p \in Procs, SchemaReady(p)
      PROVE  ProcInv'
  <2>1. Opened
    BY <1>6, <1>9 DEF SchemaReady, At
  <2>2. CASE Exit(p)
    BY <1>0, <1>3, <2>1, <2>2 DEF Exit
  <2>3. CASE Moves(p, [proc[p] EXCEPT !.at = "wallet", !.push = Initialize(cfg)])
    <3> DEFINE next == [proc[p] EXCEPT !.at = "wallet", !.push = Initialize(cfg)]
    <3>1. Initialize(cfg) \in BOOLEAN
      BY DEF Initialize
    <3>2. next \in Processes /\ next.at = "wallet"
      BY <1>0, <3>1 DEF Processes
    <3> HIDE DEF next
    <3>3. Moves(p, next)
      BY <2>3 DEF next
    <3> QED BY <1>0, <1>2, <2>1, <3>2, <3>3
  <2> QED BY <1>9, <2>2, <2>3 DEF SchemaReady
<1>10. ASSUME NEW p \in Procs, CreateWallet(p)
       PROVE  ProcInv'
  <2>1. Opened
    BY <1>6, <1>10 DEF CreateWallet, At
  <2> QED BY <1>3, <1>4, <1>10, <2>1 DEF CreateWallet, Exit
<1>11. ASSUME NEW p \in Procs, Mount(p)
       PROVE  ProcInv'
  <2> DEFINE required == cfg.HandlePurchasesRequired
             fails == required /\ (cfg.StorageBackend # "mongo" \/ PurchaseVerifiers(cfg) = Refused)
             next == [proc[p] EXCEPT !.at = "serving", !.public = LookupEnabled(cfg),
                                     !.verifiers = IF required THEN PurchaseVerifiers(cfg) ELSE {},
                                     !.sweeper = required]
  <2>1. Opened
    BY <1>6, <1>11 DEF Mount, At
  <2>2. CASE Exit(p)
    BY <1>0, <1>3, <2>1, <2>2 DEF Exit
  <2>3. CASE ~ fails /\ Moves(p, next)
    <3>1. cfg # Refused
      BY <2>1 DEF Opened
    <3>2. /\ cfg.PaymailDomain = IsSet(deployment.env, "PAYMAIL_DOMAIN")
          /\ required = Flag(deployment.env, "HANDLE_PURCHASES_REQUIRED")
          /\ DOMAIN cfg.Secrets = ConfiguredStores(deployment.env)
      BY <1>0, <3>1, Accepted
    <3>3. LookupEnabled(cfg) \in BOOLEAN /\ required \in BOOLEAN
      BY <3>2 DEF LookupEnabled, IsSet, Flag
    <3>4. required => PurchaseVerifiers(cfg) = DOMAIN cfg.Secrets
      BY <2>3 DEF PurchaseVerifiers
    <3>5. (IF required THEN PurchaseVerifiers(cfg) ELSE {}) \in SUBSET {AppStore, GooglePlay}
      BY <3>2, <3>4 DEF ConfiguredStores
    <3>6. /\ next \in Processes /\ next.at = "serving" /\ next.public = LookupEnabled(cfg)
          /\ next.sweeper = required
          /\ next.verifiers = IF required THEN PurchaseVerifiers(cfg) ELSE {}
      BY <1>0, <3>3, <3>5 DEF Processes
    <3> HIDE DEF next
    <3> QED BY <1>0, <1>2, <2>1, <2>3, <3>4, <3>6
  <2> QED BY <1>11, <2>2, <2>3 DEF Mount
<1>12. ASSUME NEW p \in Procs, Shutdown(p) \/ Crash(p)
       PROVE  ProcInv'
  BY <1>0, <1>3, <1>12 DEF Shutdown, Crash
<1>13. ASSUME \/ \E p \in Procs : DeviceRequest(p) \/ BoxWideRequest(p) \/ Search(p)
              \/ \E p \in Procs, c \in Clients, forged \in Forgeries : Lookup(p, c, forged)
              \/ \E w \in Writers : StoreStep(w) \/ StoreFails(w)
              \/ BuildEnds \/ RegistryChanges \/ Outside \/ Tick
              \/ UNCHANGED vars
       PROVE  ProcInv'
  BY <1>5, <1>13 DEF DeviceRequest, BoxWideRequest, Search, Lookup, StoreStep, StoreFails, BuildEnds,
     RegistryChanges, Outside, Tick, Request, procVars, vars
<1> QED
  BY <1>7, <1>8, <1>9, <1>10, <1>11, <1>12, <1>13 DEF Next, MainStep

(* The invariant of main.                                                  *)
THEOREM ProcInvariant == Spec => []ProcInv
BY ProcInit, ProcNext, PTL DEF Spec

(* A process that listens serves what the environment asks for, and never  *)
(* half of it, for every environment.                                      *)
THEOREM ServedAsConfigured == Spec => []ServesAsConfigured
<1>1. ASSUME ProcInv
      PROVE  ServesAsConfigured
  <2>1. SUFFICES ASSUME NEW p \in Procs, proc[p].at = "serving"
                 PROVE  /\ proc[p].public = IsSet(env, "PAYMAIL_DOMAIN")
                        /\ IF Flag(env, "HANDLE_PURCHASES_REQUIRED")
                           THEN /\ proc[p].public /\ proc[p].sweeper
                                /\ proc[p].verifiers = ConfiguredStores(env) /\ proc[p].verifiers # {}
                           ELSE proc[p].verifiers = {} /\ ~ proc[p].sweeper
                        /\ cfg.HandleCooldown >= Least(GetEnvInt(env, "HANDLE_COOLDOWN_DAYS", 30), MaxCooldownDays)
                        /\ cfg.HandleGrace >= Least(GetEnvInt(env, "HANDLE_GRACE_DAYS", 14), MaxGraceDays)
    BY DEF ServesAsConfigured, At
  <2>2. deployment \in Deployments /\ cfg = Load(env) /\ env = deployment.env /\ cfg # Refused /\ Mounted(p)
    BY <1>1, <2>1 DEF ProcInv, cfg, Loaded, env, Opened
  <2>3. /\ cfg.PaymailDomain = IsSet(env, "PAYMAIL_DOMAIN")
        /\ cfg.HandlePurchasesRequired = Flag(env, "HANDLE_PURCHASES_REQUIRED")
        /\ cfg.HandleCooldown = HandleCooldown(env) /\ cfg.HandleGrace = HandleGrace(env)
        /\ DOMAIN cfg.Secrets = ConfiguredStores(env) /\ ~ PurchasesUnservable(env)
    BY <2>2, Accepted
  <2>4. Flag(env, "HANDLE_PURCHASES_REQUIRED") => IsSet(env, "PAYMAIL_DOMAIN") /\ ConfiguredStores(env) # {}
    BY <2>3 DEF PurchasesUnservable
  <2>5. /\ HandleCooldown(env) >= Least(GetEnvInt(env, "HANDLE_COOLDOWN_DAYS", 30), MaxCooldownDays)
        /\ HandleGrace(env) >= Least(GetEnvInt(env, "HANDLE_GRACE_DAYS", 14), MaxGraceDays)
    BY <2>2, DurationsHold
  <2>6. /\ proc[p].public = IsSet(env, "PAYMAIL_DOMAIN")
        /\ proc[p].sweeper = Flag(env, "HANDLE_PURCHASES_REQUIRED")
        /\ proc[p].verifiers = IF Flag(env, "HANDLE_PURCHASES_REQUIRED") THEN ConfiguredStores(env) ELSE {}
    BY <2>2, <2>3 DEF Mounted, LookupEnabled
  <2> QED BY <2>3, <2>4, <2>5, <2>6
<1> QED BY <1>1, ProcInvariant, PTL

-----------------------------------------------------------------------------
(* The rate limiter.                                                       *)

Limits == cfg # Refused /\ ~ Unlimited(cfg)
Behind == Limits /\ ProxysEntry

(* The address of a client that leaves the headers alone.                  *)
Plain(c) == ClientIP(cfg, LookupRequest(c, <<>>, <<c>>))

(* The address a request without a header counts for that does not show    *)
(* its client's: a proxy's, the same for everyone.                         *)
Shared ==
  LET n == Len(Proxies)
      entry == Proxies[n - cfg.TrustedProxyHops]
  IN IF cfg.TrustProxy /\ entry # Malformed THEN entry ELSE Proxies[n]

LEMMA AddressOf ==
  ASSUME deployment \in Deployments, Behind, NEW c \in Clients, NEW forged \in Forgeries,
         NEW header \in {<<c>>, forged \o <<c>>}, NEW req, req = LookupRequest(c, forged, header)
  PROVE  /\ OwnAddress => ClientIP(cfg, req) = c
         /\ ~ OwnAddress => /\ ClientIP(cfg, req) = Shared \/ (cfg.ClientIPHeader /\ ClientIP(cfg, req) = c)
                            /\ Shared \notin Clients
<1> DEFINE n == Len(Proxies)
           hops == cfg.TrustedProxyHops
           after == SubSeq(Proxies, 1, n - 1)
           added == <<c>> \o after
<1>1. /\ Proxies \in Seq(Range(Proxies)) /\ n \in Nat \ {0} /\ c # Malformed
      /\ forged \in Seq(Range(forged)) /\ Len(forged) \in Nat
      /\ \A i \in 1 .. n : Proxies[i] \in Range(Proxies) /\ Proxies[i] \notin Clients
  <2>1. Proxies \in Seq(Range(Proxies)) /\ Proxies # <<>> /\ Range(Proxies) \cap Clients = {}
    BY StartupAssumption
  <2>2. n \in Nat \ {0} /\ DOMAIN Proxies = 1 .. n
    BY <2>1, EmptySeq
  <2>3. \A i \in DOMAIN Proxies : Proxies[i] \in Range(Proxies)
    BY DEF Range
  <2> QED BY <2>1, <2>2, <2>3, StartupAssumption
<1>2. cfg = Load(deployment.env) /\ cfg # Refused
  BY DEF cfg, Loaded, Behind, Limits
<1>3. hops \in Nat \ {0} /\ cfg.TrustProxy \in BOOLEAN /\ cfg.ClientIPHeader \in BOOLEAN
  BY <1>2, Bounds
<1>4. /\ after \in Seq(Range(Proxies)) /\ Len(after) = n - 1
      /\ \A i \in 1 .. n - 1 : after[i] = Proxies[i]
  BY <1>1
<1>5. /\ added \in Seq({c} \cup Range(Proxies)) /\ Len(added) = n /\ added[1] = c
      /\ \A i \in 1 .. n - 1 : added[1 + i] = Proxies[i]
  <2>1. after \in Seq({c} \cup Range(Proxies)) /\ <<c>> \in Seq({c} \cup Range(Proxies))
        /\ Len(<<c>>) = 1 /\ <<c>>[1] = c
    BY <1>4
  <2> HIDE DEF after, n
  <2>2. /\ added \in Seq({c} \cup Range(Proxies)) /\ Len(added) = 1 + Len(after)
        /\ \A i \in 1 .. 1 + Len(after) : added[i] = IF i <= 1 THEN <<c>>[i] ELSE after[i - 1]
    BY <2>1, ConcatProperties
  <2> HIDE DEF added
  <2>3. ASSUME NEW i \in 1 .. n - 1
        PROVE  added[1 + i] = Proxies[i]
    <3>1. 1 + i \in 1 .. 1 + Len(after) /\ ~ (1 + i <= 1) /\ (1 + i) - 1 = i
      BY <1>1, <1>4
    <3> QED BY <1>4, <2>2, <3>1
  <2>4. added[1] = c
    <3>1. 1 \in 1 .. 1 + Len(after) /\ 1 <= 1
      BY <1>1, <1>4
    <3> QED BY <2>1, <2>2, <3>1
  <2>5. Len(added) = n
    BY <1>1, <1>4, <2>2
  <2> QED BY <2>2, <2>3, <2>4, <2>5
<1>6. Len(header) = 1 => header[1] = c
  BY <1>1
<1> DEFINE forwarded == forged \o added
<1>7. /\ Len(forwarded) = Len(forged) + n
      /\ forwarded[Len(forged) + 1] = c
      /\ \A i \in 1 .. n - 1 : forwarded[Len(forged) + 1 + i] = Proxies[i]
  <2> DEFINE Addresses == Range(forged) \cup {c} \cup Range(Proxies)
  <2> HIDE DEF added, n
  <2>1. forged \in Seq(Addresses) /\ added \in Seq(Addresses)
    BY <1>1, <1>5
  <2> HIDE DEF Addresses
  <2>2. /\ Len(forwarded) = Len(forged) + Len(added)
        /\ \A i \in 1 .. Len(forged) + Len(added) :
             forwarded[i] = IF i <= Len(forged) THEN forged[i] ELSE added[i - Len(forged)]
    BY <2>1, ConcatProperties
  <2> HIDE DEF forwarded
  <2>3. ASSUME NEW i \in 1 .. n - 1
        PROVE  forwarded[Len(forged) + 1 + i] = Proxies[i]
    <3>1. /\ Len(forged) + 1 + i \in 1 .. Len(forged) + Len(added)
          /\ ~ (Len(forged) + 1 + i <= Len(forged)) /\ (Len(forged) + 1 + i) - Len(forged) = 1 + i
      BY <1>1, <1>5
    <3> QED BY <1>5, <2>2, <3>1
  <2>4. forwarded[Len(forged) + 1] = c
    <3>1. /\ Len(forged) + 1 \in 1 .. Len(forged) + Len(added) /\ ~ (Len(forged) + 1 <= Len(forged))
          /\ (Len(forged) + 1) - Len(forged) = 1
      BY <1>1, <1>5
    <3> QED BY <1>5, <2>2, <3>1
  <2>5. Len(forwarded) = Len(forged) + n
    BY <1>5, <2>2
  <2> QED BY <2>3, <2>4, <2>5
<1>8. /\ req.header = header /\ req.remote = Proxies[n]
      /\ cfg.TrustProxy => FirstLine(req.forwarded) = forwarded
  <2>1. req.header = header /\ req.remote = Proxies[n] /\ req.forwarded = Lines(c, forged)
    BY DEF LookupRequest
  <2>2. cfg.TrustProxy => deployment.joins
    BY DEF Behind, ProxysEntry
  <2>3. cfg.TrustProxy => Lines(c, forged) = <<forwarded>>
    BY <2>2 DEF Lines
  <2>4. FirstLine(<<forwarded>>) = forwarded
    <3> HIDE DEF forwarded
    <3> QED BY DEF FirstLine
  <2> QED BY <2>1, <2>3, <2>4
<1> HIDE DEF after, added, forwarded
<1>9. cfg.TrustProxy => hops <= n /\ deployment.joins
  BY DEF Behind, ProxysEntry
<1>10. CASE OwnAddress
  <2>1. cfg.TrustProxy /\ hops = n
    BY <1>10 DEF OwnAddress
  <2>2. Forwarded(forwarded, hops) = c
    BY <1>1, <1>7, <2>1 DEF Forwarded
  <2> QED BY <1>1, <1>6, <1>8, <1>10, <2>1, <2>2 DEF ClientIP
<1>11. CASE ~ OwnAddress /\ cfg.TrustProxy
  <2>1. hops \in 1 .. n - 1 /\ n - hops \in 1 .. n - 1
    BY <1>1, <1>3, <1>9, <1>11 DEF OwnAddress
  <2>2. Forwarded(forwarded, hops) = Proxies[n - hops]
    <3> HIDE DEF n, hops
    <3>1. Len(forwarded) + 1 - hops = Len(forged) + 1 + (n - hops) /\ Len(forwarded) >= hops
      BY <1>1, <1>7, <2>1
    <3> QED BY <1>7, <2>1, <3>1 DEF Forwarded
  <2>3. Shared = IF Proxies[n - hops] # Malformed THEN Proxies[n - hops] ELSE Proxies[n]
    BY <1>11 DEF Shared
  <2>4. Shared \notin Clients
    BY <1>1, <2>1, <2>3
  <2> QED BY <1>6, <1>8, <1>11, <2>2, <2>3, <2>4 DEF ClientIP
<1>12. CASE ~ OwnAddress /\ ~ cfg.TrustProxy
  <2>1. Shared = Proxies[n]
    BY <1>12 DEF Shared
  <2> QED BY <1>1, <1>6, <1>8, <1>12, <2>1 DEF ClientIP
<1> QED BY <1>10, <1>11, <1>12

(* How often a limiter has counted an address this minute, and how many of *)
(* those requests it let through.                                          *)
Seen(l, now, a) == IF l.window = now /\ a \in DOMAIN l.counts THEN l.counts[a] ELSE 0
Capped(n) == IF n < cfg.LookupRatePerMin THEN n ELSE cfg.LookupRatePerMin

IsLimiter(l) ==
  /\ l \in [window : {l.window}, counts : {l.counts}]
  /\ l.window \in Nat /\ \A a \in DOMAIN l.counts : l.counts[a] \in Nat

LEMMA NothingCounted ==
  IsLimiter(NewRateLimiter) /\ NewRateLimiter.window = 0
BY DEF IsLimiter, NewRateLimiter

LEMMA CountedOnce ==
  ASSUME NEW l, IsLimiter(l), NEW now \in Nat, NEW ip
  PROVE  /\ IsLimiter(Counted(l, now, ip)) /\ Counted(l, now, ip).window = now
         /\ Counted(l, now, ip).counts[ip] = Seen(l, now, ip) + 1
         /\ \A a : /\ Seen(l, now, a) \in Nat
                   /\ Seen(Counted(l, now, ip), now, a) = Seen(l, now, a) + IF a = ip THEN 1 ELSE 0
<1> DEFINE counts == IF l.window = now THEN l.counts ELSE <<>>
           before == IF ip \in DOMAIN counts THEN counts[ip] ELSE 0
           next == [a \in DOMAIN counts \cup {ip} |-> IF a = ip THEN before + 1 ELSE counts[a]]
<1>1. Counted(l, now, ip) = [window |-> now, counts |-> next]
  BY DEF Counted
<1>2. ASSUME NEW a
      PROVE  Seen(l, now, a) = (IF a \in DOMAIN counts THEN counts[a] ELSE 0) /\ Seen(l, now, a) \in Nat
  BY DEF Seen, IsLimiter
<1>3. \A a \in DOMAIN counts : counts[a] \in Nat
  BY DEF IsLimiter
<1>4. before = Seen(l, now, ip) /\ before \in Nat
  BY <1>2
<1> HIDE DEF counts, before
<1>5. DOMAIN next = DOMAIN counts \cup {ip} /\ next[ip] = before + 1
      /\ \A a \in DOMAIN counts : a # ip => next[a] = counts[a]
  OBVIOUS
<1> HIDE DEF next
<1>6. Counted(l, now, ip).window = now /\ Counted(l, now, ip).counts = next
  BY <1>1
<1>7. IsLimiter(Counted(l, now, ip))
  BY <1>1, <1>3, <1>4, <1>5, <1>6 DEF IsLimiter
<1>8. ASSUME NEW a
      PROVE  Seen(Counted(l, now, ip), now, a) = Seen(l, now, a) + IF a = ip THEN 1 ELSE 0
  <2>1. Seen(Counted(l, now, ip), now, a) = IF a \in DOMAIN next THEN next[a] ELSE 0
    BY <1>6 DEF Seen
  <2>2. CASE a = ip
    BY <1>4, <1>5, <2>1, <2>2
  <2>3. CASE a # ip /\ a \in DOMAIN counts
    BY <1>2, <1>3, <1>5, <2>1, <2>3
  <2>4. CASE a # ip /\ a \notin DOMAIN counts
    BY <1>2, <1>5, <2>1, <2>4
  <2> QED BY <2>2, <2>3, <2>4
<1> QED BY <1>2, <1>4, <1>5, <1>6, <1>7, <1>8

(* What a client got through this minute, by what was counted for its own  *)
(* address and for the shared one.                                         *)
ClientCounted(p, c) ==
  LET own == Seen(limiter[p], minute, c)
      shared == Seen(limiter[p], minute, Shared)
  IN IF OwnAddress
     THEN passed[p][c] = Capped(own) /\ (c \in refused[p] => own > cfg.LookupRatePerMin)
     ELSE passed[p][c] <= Capped(shared) + IF cfg.ClientIPHeader THEN Capped(own) ELSE 0

PlainCounted(p, c) ==
  c \notin wrote[p] => passed[p][c] <= Capped(Seen(limiter[p], minute, Plain(c)))

LimiterInv ==
  /\ deployment \in Deployments /\ minute \in 1 .. MaxMinute
  /\ passed \in [Procs -> [Clients -> Nat]] /\ refused \in [Procs -> SUBSET Clients]
  /\ DOMAIN limiter = Procs
  /\ \A p \in Procs : IsLimiter(limiter[p]) /\ limiter[p].window <= minute
  /\ wrote \in [Procs -> SUBSET Clients]
  /\ Behind => \A p \in Procs, c \in Clients : ClientCounted(p, c)
  /\ Limits => \A p \in Procs, c \in Clients : PlainCounted(p, c)

LEMMA CapHolds ==
  ASSUME deployment \in Deployments, Limits
  PROVE  /\ cfg.LookupRatePerMin \in Nat \ {0} /\ cfg.ClientIPHeader \in BOOLEAN
         /\ Capped(0) = 0
         /\ \A n \in Nat : Capped(n) \in Nat /\ Capped(n) <= cfg.LookupRatePerMin
<1>1. cfg = Load(deployment.env) /\ cfg # Refused
  BY DEF cfg, Loaded, Limits
<1>2. cfg.LookupRatePerMin \in Nat /\ cfg.ClientIPHeader \in BOOLEAN
  BY <1>1, Bounds
<1>3. cfg.LookupRatePerMin \in Nat \ {0}
  BY <1>2 DEF Limits, Unlimited
<1> QED BY <1>2, <1>3 DEF Capped

LEMMA LimiterInit == Init => LimiterInv
<1> SUFFICES ASSUME Init
             PROVE  LimiterInv
  OBVIOUS
<1>1. /\ deployment \in Deployments /\ minute = 1 /\ limiter = [p \in Procs |-> NewRateLimiter]
      /\ passed = [p \in Procs |-> Nobody] /\ refused = [p \in Procs |-> {}]
      /\ wrote = [p \in Procs |-> {}]
  BY DEF Init
<1>2. \A p \in Procs : passed[p] = Nobody /\ refused[p] = {} /\ limiter[p] = NewRateLimiter
  BY <1>1
<1>3. minute \in 1 .. MaxMinute /\ minute # 0
  BY <1>1, StartupAssumption
<1>4. /\ passed \in [Procs -> [Clients -> Nat]] /\ refused \in [Procs -> SUBSET Clients]
      /\ wrote \in [Procs -> SUBSET Clients]
  BY <1>1 DEF Nobody
<1>5. ASSUME Limits, NEW p \in Procs, NEW c \in Clients
      PROVE  ClientCounted(p, c) /\ PlainCounted(p, c)
  <2>1. passed[p][c] = 0 /\ c \notin refused[p]
    BY <1>2 DEF Nobody
  <2>2. \A a : Seen(limiter[p], minute, a) = 0
    BY <1>2, <1>3, NothingCounted DEF Seen
  <2>3. Capped(0) = 0 /\ cfg.ClientIPHeader \in BOOLEAN
    BY <1>1, <1>5, CapHolds
  <2> QED BY <2>1, <2>2, <2>3 DEF ClientCounted, PlainCounted
<1> QED BY <1>1, <1>2, <1>3, <1>4, <1>5, NothingCounted DEF LimiterInv, Behind

(* All of this depends on the deployment alone.                            *)
LEMMA SameDeployment ==
  ASSUME deployment' = deployment
  PROVE  /\ cfg' = cfg /\ (Limits' <=> Limits) /\ (Behind' <=> Behind) /\ (OwnAddress' <=> OwnAddress)
         /\ Shared' = Shared /\ \A b : Plain(b)' = Plain(b)
<1>1. cfg' = cfg
  BY DEF cfg
<1> QED BY <1>1 DEF Limits, Behind, ProxysEntry, OwnAddress, Shared, Plain, LookupRequest, Lines

(* A lookup is counted for one address: the client's own, or the shared    *)
(* one, and let through while that address has requests left.              *)
LEMMA LookupCounted ==
  ASSUME LimiterInv, NEW p \in Procs, NEW c \in Clients, NEW forged \in Forgeries, Lookup(p, c, forged)
  PROVE  LimiterInv'
<1>0. /\ deployment \in Deployments /\ minute \in 1 .. MaxMinute /\ minute \in Nat
      /\ passed \in [Procs -> [Clients -> Nat]] /\ refused \in [Procs -> SUBSET Clients]
      /\ wrote \in [Procs -> SUBSET Clients] /\ DOMAIN limiter = Procs
      /\ \A q \in Procs : IsLimiter(limiter[q]) /\ limiter[q].window <= minute
  BY DEF LimiterInv
<1>1. deployment' = deployment /\ minute' = minute
  BY DEF Lookup, Request
<1>2. /\ cfg' = cfg /\ (Limits' <=> Limits) /\ (Behind' <=> Behind) /\ (OwnAddress' <=> OwnAddress)
      /\ Shared' = Shared /\ \A b : Plain(b)' = Plain(b)
  BY <1>1, SameDeployment
<1>3. PICK header \in {<<c>>, forged \o <<c>>} :
        LET ip == ClientIP(cfg, LookupRequest(c, forged, header))
            counted == Counted(limiter[p], minute, ip)
        IN /\ limiter' = [limiter EXCEPT ![p] = counted]
           /\ IF Allowed(cfg, counted, ip)
              THEN passed' = [passed EXCEPT ![p][c] = @ + 1] /\ UNCHANGED refused
              ELSE refused' = [refused EXCEPT ![p] = @ \cup {c}] /\ UNCHANGED passed
  BY DEF Lookup
<1> DEFINE req == LookupRequest(c, forged, header)
           ip == ClientIP(cfg, req)
           counted == Counted(limiter[p], minute, ip)
<1>4. /\ limiter' = [limiter EXCEPT ![p] = counted]
      /\ \/ /\ Allowed(cfg, counted, ip)
            /\ passed' = [passed EXCEPT ![p][c] = @ + 1] /\ UNCHANGED refused
         \/ /\ ~ Allowed(cfg, counted, ip)
            /\ refused' = [refused EXCEPT ![p] = @ \cup {c}] /\ UNCHANGED passed
  BY <1>3
<1>5. Behind => /\ OwnAddress => ip = c
                /\ ~ OwnAddress => (ip = Shared \/ (cfg.ClientIPHeader /\ ip = c)) /\ Shared \notin Clients
  BY <1>0, AddressOf
<1>p. c \notin wrote'[p] => ip = Plain(c) /\ c \notin wrote[p]
  <2>1. wrote' = [wrote EXCEPT ![p] = IF forged = <<>> THEN @ ELSE @ \cup {c}]
    BY DEF Lookup
  <2>2. c \notin wrote'[p] => forged = <<>> /\ c \notin wrote[p]
    BY <1>0, <2>1
  <2>3. forged = <<>> => header = <<c>>
    OBVIOUS
  <2> QED BY <2>2, <2>3 DEF Plain
<1>w. /\ wrote' \in [Procs -> SUBSET Clients]
      /\ \A q \in Procs, b \in Clients : q # p \/ b # c => (b \in wrote'[q] <=> b \in wrote[q])
  <2>1. wrote' = [wrote EXCEPT ![p] = IF forged = <<>> THEN @ ELSE @ \cup {c}]
    BY DEF Lookup
  <2>2. CASE forged = <<>>
    BY <1>0, <2>1, <2>2
  <2>3. CASE forged # <<>>
    BY <1>0, <2>1, <2>3
  <2> QED BY <2>2, <2>3
<1> HIDE DEF req, ip
<1>6. /\ IsLimiter(counted) /\ counted.window = minute
      /\ counted.counts[ip] = Seen(limiter[p], minute, ip) + 1
      /\ \A a : /\ Seen(limiter[p], minute, a) \in Nat
                /\ Seen(counted, minute, a) = Seen(limiter[p], minute, a) + IF a = ip THEN 1 ELSE 0
  BY <1>0, CountedOnce
<1> HIDE DEF counted
<1>7. /\ DOMAIN limiter' = Procs /\ limiter'[p] = counted
      /\ \A q \in Procs \ {p} : limiter'[q] = limiter[q]
  BY <1>0, <1>4
<1>8. ASSUME NEW q \in Procs
      PROVE  IsLimiter(limiter'[q]) /\ limiter'[q].window <= minute'
  <2>1. CASE q = p
    <3>1. limiter'[q] = counted /\ IsLimiter(counted)
      BY <1>6, <1>7, <2>1
    <3>2. limiter'[q].window = minute /\ minute <= minute
      BY <1>0, <1>6, <3>1
    <3> QED BY <1>1, <3>1, <3>2
  <2>2. CASE q # p
    <3>1. limiter'[q] = limiter[q]
      BY <1>7, <2>2
    <3> QED BY <1>0, <1>1, <3>1
  <2> QED BY <2>1, <2>2
<1>9. /\ passed' \in [Procs -> [Clients -> Nat]] /\ refused' \in [Procs -> SUBSET Clients]
      /\ \A q \in Procs, b \in Clients :
           q # p \/ b # c => passed'[q][b] = passed[q][b] /\ (b \in refused'[q] <=> b \in refused[q])
  <2>1. CASE passed' = [passed EXCEPT ![p][c] = @ + 1] /\ UNCHANGED refused
    BY <1>0, <2>1
  <2>2. CASE refused' = [refused EXCEPT ![p] = @ \cup {c}] /\ UNCHANGED passed
    BY <1>0, <2>2
  <2> QED BY <1>4, <2>1, <2>2
<1>10. ASSUME Behind, NEW q \in Procs, NEW b \in Clients
       PROVE  ClientCounted(q, b)'
  <2> DEFINE rate == cfg.LookupRatePerMin
  <2>1. rate \in Nat \ {0} /\ cfg.ClientIPHeader \in BOOLEAN
    BY <1>0, <1>10, CapHolds DEF Behind
  <2>2. ClientCounted(q, b)
    BY <1>10 DEF LimiterInv
  <2>3. CASE q # p
    <3>1. limiter'[q] = limiter[q] /\ passed'[q][b] = passed[q][b] /\ (b \in refused'[q] <=> b \in refused[q])
      BY <1>7, <1>9, <2>3
    <3> QED BY <1>1, <1>2, <2>2, <3>1 DEF ClientCounted, Capped
  <2>4. CASE q = p /\ OwnAddress
    <3>1. ip = c
      BY <1>5, <1>10, <2>4
    <3> DEFINE own == Seen(limiter[p], minute, b)
               own2 == Seen(counted, minute, b)
    <3>2. own \in Nat /\ own2 = own + IF b = c THEN 1 ELSE 0
      BY <1>6, <3>1
    <3>3. passed[p][b] = (IF own < rate THEN own ELSE rate) /\ (b \in refused[p] => own > rate)
      BY <2>2, <2>4 DEF ClientCounted, Capped
    <3>4. Allowed(cfg, counted, ip) <=> Seen(limiter[p], minute, c) + 1 <= rate
      BY <1>6, <3>1 DEF Allowed
    <3> HIDE DEF own, own2, rate
    <3>5. passed'[p][b] = (IF own2 < rate THEN own2 ELSE rate) /\ (b \in refused'[p] => own2 > rate)
      <4>1. CASE b # c
        BY <1>9, <3>2, <3>3, <4>1
      <4>2. CASE b = c /\ Allowed(cfg, counted, ip)
        <5>1. passed'[p][b] = passed[p][b] + 1 /\ refused' = refused
          BY <1>0, <1>4, <4>2
        <5>2. own + 1 <= rate
          BY <3>4, <4>2 DEF own
        <5> QED BY <2>1, <3>2, <3>3, <4>2, <5>1, <5>2
      <4>3. CASE b = c /\ ~ Allowed(cfg, counted, ip)
        <5>1. passed' = passed
          BY <1>4, <4>3
        <5>2. ~ (own + 1 <= rate)
          BY <3>4, <4>3 DEF own
        <5> QED BY <2>1, <3>2, <3>3, <4>3, <5>1, <5>2
      <4> QED BY <4>1, <4>2, <4>3
    <3> QED BY <1>1, <1>2, <1>7, <2>4, <3>5 DEF ClientCounted, Capped, own2, rate
  <2>5. CASE q = p /\ ~ OwnAddress
    <3> DEFINE own == Seen(limiter[p], minute, b)
               own2 == Seen(counted, minute, b)
               shared == Seen(limiter[p], minute, Shared)
               shared2 == Seen(counted, minute, Shared)
               Cap(n) == IF n < rate THEN n ELSE rate
               header2 == cfg.ClientIPHeader
    <3>1. /\ own \in Nat /\ own2 = own + (IF b = ip THEN 1 ELSE 0)
          /\ shared \in Nat /\ shared2 = shared + (IF Shared = ip THEN 1 ELSE 0)
      BY <1>6
    <3>2. passed[p][b] <= Cap(shared) + IF header2 THEN Cap(own) ELSE 0
      BY <2>2, <2>5 DEF ClientCounted, Capped
    <3>3. (ip = Shared \/ (header2 /\ ip = c)) /\ Shared \notin Clients
      BY <1>5, <1>10, <2>5
    <3>4. Allowed(cfg, counted, ip) => Seen(limiter[p], minute, ip) + 1 <= rate
      BY <1>6 DEF Allowed
    <3>5. passed[p][b] \in Nat
      BY <1>0
    <3>6. passed'[p][b] <= Cap(shared2) + IF header2 THEN Cap(own2) ELSE 0
      <4>1. ip = Shared => own2 = own /\ shared2 = shared + 1
        BY <3>1, <3>3
      <4>2. ip = b => own2 = own + 1 /\ shared2 = shared
        BY <3>1, <3>3
      <4>3. own2 \in Nat /\ shared2 \in Nat /\ own2 >= own /\ shared2 >= shared
        BY <3>1
      <4>4. (ip = Shared /\ Allowed(cfg, counted, ip) => shared + 1 <= rate)
            /\ (ip = b /\ Allowed(cfg, counted, ip) => own + 1 <= rate)
        BY <3>4
      <4> HIDE DEF own, own2, shared, shared2, rate, header2
      <4>5. CASE b = c /\ Allowed(cfg, counted, ip)
        <5>1. passed'[p][b] = passed[p][b] + 1
          BY <1>0, <1>4, <4>5
        <5>2. CASE ip = Shared
          BY <2>1, <3>1, <3>2, <3>5, <4>1, <4>4, <4>5, <5>1, <5>2 DEF header2
        <5>3. CASE header2 /\ ip = b
          BY <2>1, <3>1, <3>2, <3>5, <4>2, <4>4, <4>5, <5>1, <5>3 DEF header2
        <5> QED BY <3>3, <4>5, <5>2, <5>3
      <4>6. CASE ~ (b = c /\ Allowed(cfg, counted, ip))
        <5>1. passed'[p][b] = passed[p][b]
          BY <1>4, <1>9, <4>6
        <5> QED BY <2>1, <3>1, <3>2, <3>5, <4>3, <5>1 DEF header2
      <4> QED BY <4>5, <4>6
    <3> QED BY <1>1, <1>2, <1>7, <2>5, <3>6 DEF ClientCounted, Capped
  <2> QED BY <2>3, <2>4, <2>5
<1>11. ASSUME Limits, NEW q \in Procs, NEW b \in Clients
       PROVE  PlainCounted(q, b)'
  <2> DEFINE rate == cfg.LookupRatePerMin
  <2>1. rate \in Nat \ {0}
    BY <1>0, <1>11, CapHolds
  <2>2. PlainCounted(q, b)
    BY <1>11 DEF LimiterInv
  <2>3. CASE q # p
    <3>1. limiter'[q] = limiter[q] /\ passed'[q][b] = passed[q][b] /\ (b \in wrote'[q] <=> b \in wrote[q])
      BY <1>7, <1>9, <1>w, <2>3
    <3> QED BY <1>1, <1>2, <2>2, <3>1 DEF PlainCounted, Capped
  <2>4. CASE q = p
    <3> SUFFICES ASSUME b \notin wrote'[p]
                 PROVE  passed'[p][b] <= Capped(Seen(counted, minute, Plain(b)))
      BY <1>1, <1>2, <1>7, <2>4 DEF PlainCounted, Capped
    <3> DEFINE seen == Seen(limiter[p], minute, Plain(b))
               seen2 == Seen(counted, minute, Plain(b))
    <3>1. b \notin wrote[p]
      BY <1>p, <1>w
    <3>2. seen \in Nat /\ seen2 = seen + (IF Plain(b) = ip THEN 1 ELSE 0)
      BY <1>6
    <3>3. passed[p][b] <= (IF seen < rate THEN seen ELSE rate) /\ passed[p][b] \in Nat
      BY <1>0, <2>2, <2>4, <3>1 DEF PlainCounted, Capped
    <3>4. Allowed(cfg, counted, ip) => Seen(limiter[p], minute, ip) + 1 <= rate
      BY <1>6 DEF Allowed
    <3>5. b = c => Plain(b) = ip
      BY <1>p
    <3>6. passed'[p][b] <= IF seen2 < rate THEN seen2 ELSE rate
      <4>1. b = c /\ Allowed(cfg, counted, ip) => seen2 = seen + 1 /\ seen + 1 <= rate
        BY <3>2, <3>4, <3>5
      <4> HIDE DEF seen, seen2, rate
      <4>2. CASE b = c /\ Allowed(cfg, counted, ip)
        <5>1. passed'[p][b] = passed[p][b] + 1
          BY <1>0, <1>4, <4>2
        <5> QED BY <2>1, <3>2, <3>3, <4>1, <4>2, <5>1
      <4>3. CASE ~ (b = c /\ Allowed(cfg, counted, ip))
        <5>1. passed'[p][b] = passed[p][b]
          BY <1>4, <1>9, <4>3
        <5>2. seen2 \in Nat /\ seen2 >= seen
          BY <3>2
        <5> QED BY <2>1, <3>2, <3>3, <5>1, <5>2
      <4> QED BY <4>2, <4>3
    <3> QED BY <3>6 DEF Capped
  <2> QED BY <2>3, <2>4
<1> QED BY <1>0, <1>1, <1>2, <1>7, <1>8, <1>9, <1>w, <1>10, <1>11 DEF LimiterInv

LEMMA LimiterNext ==
  ASSUME LimiterInv, [Next]_vars
  PROVE  LimiterInv'
<1>0. /\ deployment \in Deployments /\ minute \in 1 .. MaxMinute /\ MaxMinute \in Nat /\ minute \in Nat /\ minute # 0
      /\ passed \in [Procs -> [Clients -> Nat]] /\ refused \in [Procs -> SUBSET Clients]
      /\ wrote \in [Procs -> SUBSET Clients] /\ DOMAIN limiter = Procs
      /\ \A q \in Procs : IsLimiter(limiter[q]) /\ limiter[q].window <= minute /\ limiter[q].window \in Nat
  BY StartupAssumption DEF LimiterInv, IsLimiter
<1>1. ASSUME deployment' = deployment
      PROVE  /\ cfg' = cfg /\ (Limits' <=> Limits) /\ (Behind' <=> Behind) /\ (OwnAddress' <=> OwnAddress)
             /\ Shared' = Shared /\ \A b : Plain(b)' = Plain(b)
  BY <1>1, SameDeployment
<1>2. ASSUME UNCHANGED <<deployment, minute, limiter, lookupVars>>
      PROVE  LimiterInv'
  BY <1>1, <1>2 DEF LimiterInv, ClientCounted, PlainCounted, Capped, lookupVars
(* A process whose counts are of no minute any more has let nobody through. *)
<1>3. ASSUME Limits', deployment' = deployment, NEW q \in Procs, NEW c \in Clients,
             passed'[q] = Nobody, refused'[q] = {}, limiter'[q].window # minute'
      PROVE  ClientCounted(q, c)' /\ PlainCounted(q, c)'
  <2>1. passed'[q][c] = 0 /\ c \notin refused'[q]
    BY <1>3 DEF Nobody
  <2>2. \A a : Seen(limiter'[q], minute', a) = 0
    BY <1>3 DEF Seen
  <2>3. Capped(0) = 0 /\ cfg.ClientIPHeader \in BOOLEAN /\ cfg' = cfg
    BY <1>0, <1>1, <1>3, CapHolds
  <2>4. Capped(0)' = 0
    BY <2>3 DEF Capped
  <2> QED BY <2>1, <2>2, <2>3, <2>4 DEF ClientCounted, PlainCounted
<1>4. ASSUME NEW p \in Procs, Gone(p)
      PROVE  LimiterInv'
  <2>1. /\ deployment' = deployment /\ minute' = minute
        /\ limiter' = [limiter EXCEPT ![p] = NewRateLimiter]
        /\ passed' = [passed EXCEPT ![p] = Nobody] /\ refused' = [refused EXCEPT ![p] = {}]
        /\ wrote' = [wrote EXCEPT ![p] = {}]
    BY <1>4 DEF Gone, Moves
  <2>2. Nobody \in [Clients -> Nat]
    BY DEF Nobody
  <2>3. /\ DOMAIN limiter' = Procs /\ limiter'[p] = NewRateLimiter /\ passed'[p] = Nobody /\ refused'[p] = {}
        /\ passed' \in [Procs -> [Clients -> Nat]] /\ refused' \in [Procs -> SUBSET Clients]
        /\ wrote' \in [Procs -> SUBSET Clients]
        /\ \A q \in Procs \ {p} : /\ limiter'[q] = limiter[q] /\ passed'[q] = passed[q]
                                   /\ refused'[q] = refused[q] /\ wrote'[q] = wrote[q]
    BY <1>0, <2>1, <2>2
  <2>4. ASSUME NEW q \in Procs
        PROVE  IsLimiter(limiter'[q]) /\ limiter'[q].window <= minute'
    BY <1>0, <2>1, <2>3, NothingCounted
  <2>5. ASSUME Limits', NEW q \in Procs, NEW c \in Clients
        PROVE  (Behind' => ClientCounted(q, c)') /\ PlainCounted(q, c)'
    <3>1. CASE q = p
      BY <1>0, <1>3, <2>1, <2>3, <2>5, <3>1, NothingCounted
    <3>2. CASE q # p
      <4>1. limiter'[q] = limiter[q] /\ passed'[q] = passed[q] /\ refused'[q] = refused[q] /\ wrote'[q] = wrote[q]
        BY <2>3, <3>2
      <4>2. (Behind => ClientCounted(q, c)) /\ PlainCounted(q, c)
        BY <1>1, <2>1, <2>5 DEF LimiterInv
      <4> QED BY <1>1, <2>1, <4>1, <4>2 DEF ClientCounted, PlainCounted, Capped
    <3> QED BY <3>1, <3>2
  <2> QED BY <1>0, <2>1, <2>3, <2>4, <2>5 DEF LimiterInv, Behind
<1>5. CASE Tick
  <2>1. /\ deployment' = deployment /\ minute < MaxMinute /\ minute' = minute + 1 /\ limiter' = limiter
        /\ passed' = [p \in Procs |-> Nobody] /\ refused' = [p \in Procs |-> {}]
        /\ wrote' = [p \in Procs |-> {}]
    BY <1>5 DEF Tick
  <2>2. /\ passed' \in [Procs -> [Clients -> Nat]] /\ refused' \in [Procs -> SUBSET Clients]
        /\ wrote' \in [Procs -> SUBSET Clients]
        /\ \A q \in Procs : passed'[q] = Nobody /\ refused'[q] = {}
    BY <2>1 DEF Nobody
  <2>3. minute' \in 1 .. MaxMinute
    BY <1>0, <2>1
  <2>4. ASSUME NEW q \in Procs
        PROVE  IsLimiter(limiter'[q]) /\ limiter'[q].window <= minute' /\ limiter'[q].window # minute'
    BY <1>0, <2>1
  <2>5. ASSUME Limits', NEW q \in Procs, NEW c \in Clients
        PROVE  (Behind' => ClientCounted(q, c)') /\ PlainCounted(q, c)'
    BY <1>3, <2>1, <2>2, <2>4, <2>5
  <2> QED BY <1>0, <2>1, <2>2, <2>3, <2>4, <2>5 DEF LimiterInv, Behind
<1>6. ASSUME NEW p \in Procs, MainStep(p) \/ Shutdown(p) \/ Crash(p)
      PROVE  LimiterInv'
  <2>1. Gone(p) \/ UNCHANGED <<deployment, minute, limiter, lookupVars>>
    BY <1>6 DEF MainStep, Boot, Configure, OpenStore, EnsureSchema, Timeout, SchemaReady, CreateWallet, Mount,
       Shutdown, Crash, Exit, Goto, Moves, procVars
  <2> QED BY <1>2, <1>4, <2>1
<1>7. ASSUME \/ \E p \in Procs : DeviceRequest(p) \/ BoxWideRequest(p) \/ Search(p)
             \/ \E w \in Writers : StoreStep(w) \/ StoreFails(w)
             \/ BuildEnds \/ RegistryChanges \/ Outside
             \/ UNCHANGED vars
      PROVE  LimiterInv'
  BY <1>2, <1>7 DEF DeviceRequest, BoxWideRequest, Search, StoreStep, StoreFails, BuildEnds,
     RegistryChanges, Outside, Request, procVars, vars
<1> QED BY <1>5, <1>6, <1>7, LookupCounted DEF Next

(* For every configuration, proxies and headers: a client that leaves the  *)
(* headers alone gets at most the limit through a process in a minute; one *)
(* that writes into them gets no more, or at most twice as many where      *)
(* there is a header to fall back from, if the trusted entry is a proxy's; *)
(* and a client whose own address is trusted is refused for its own        *)
(* lookups only.                                                           *)
THEOREM ClientsBounded == Spec => []ClientBounded
<1>0. ASSUME LimiterInv, Limits, NEW p \in Procs, NEW c \in Clients
      PROVE  c \notin wrote[p] => passed[p][c] <= cfg.LookupRatePerMin
  <2> DEFINE seen == Seen(limiter[p], minute, Plain(c))
  <2>1. PlainCounted(p, c) /\ deployment \in Deployments /\ passed[p][c] \in Nat
    BY <1>0 DEF LimiterInv
  <2>2. seen \in Nat
    BY <1>0, CountedOnce DEF LimiterInv
  <2>3. Capped(seen) \in Nat /\ Capped(seen) <= cfg.LookupRatePerMin /\ cfg.LookupRatePerMin \in Nat
    BY <1>0, <2>1, <2>2, CapHolds
  <2>4. c \notin wrote[p] => passed[p][c] <= Capped(seen)
    BY <2>1 DEF PlainCounted
  <2> QED BY <2>1, <2>3, <2>4
<1>1. ASSUME LimiterInv, Behind, NEW p \in Procs, NEW c \in Clients
      PROVE  /\ passed[p][c] <= cfg.LookupRatePerMin * (IF cfg.ClientIPHeader /\ ~ OwnAddress THEN 2 ELSE 1)
             /\ OwnAddress /\ c \in refused[p] => passed[p][c] = cfg.LookupRatePerMin
  <2> DEFINE rate == cfg.LookupRatePerMin
             own == Seen(limiter[p], minute, c)
             shared == Seen(limiter[p], minute, Shared)
             header == cfg.ClientIPHeader
  <2>2. rate \in Nat \ {0} /\ header \in BOOLEAN /\ \A n \in Nat : Capped(n) \in Nat /\ Capped(n) <= rate
    BY <1>1, CapHolds DEF LimiterInv, Behind
  <2>3. own \in Nat /\ shared \in Nat /\ passed[p][c] \in Nat
    BY <1>1, CountedOnce DEF LimiterInv
  <2>4. ClientCounted(p, c)
    BY <1>1 DEF LimiterInv
  <2>5. CASE OwnAddress
    <3>1. passed[p][c] = Capped(own) /\ (c \in refused[p] => own > rate)
      BY <2>4, <2>5 DEF ClientCounted
    <3>2. own > rate => Capped(own) = rate
      BY <2>2, <2>3 DEF Capped
    <3> HIDE DEF own, rate
    <3>3. passed[p][c] <= rate
      BY <2>2, <2>3, <3>1
    <3>4. rate * 1 = rate
      BY <2>2
    <3> QED BY <2>5, <3>1, <3>2, <3>3, <3>4 DEF rate
  <2>6. CASE ~ OwnAddress
    <3>1. passed[p][c] <= Capped(shared) + IF header THEN Capped(own) ELSE 0
      BY <2>4, <2>6 DEF ClientCounted
    <3>2. Capped(shared) \in Nat /\ Capped(own) \in Nat /\ Capped(shared) <= rate /\ Capped(own) <= rate
      BY <2>2, <2>3
    <3> HIDE DEF own, shared, rate, header
    <3>3. passed[p][c] <= IF header THEN rate + rate ELSE rate
      BY <2>2, <2>3, <3>1, <3>2
    <3>4. rate * 1 = rate /\ rate * 2 = rate + rate
      BY <2>2
    <3> QED BY <2>6, <3>3, <3>4 DEF rate, header
  <2> QED BY <2>5, <2>6
<1>2. LimiterInv => ClientBounded
  <2>1. OwnAddress => ProxysEntry
    <3>1. Len(Proxies) \in Nat
      BY StartupAssumption
    <3> QED BY <3>1 DEF OwnAddress, ProxysEntry
  <2> QED BY <1>0, <1>1, <2>1 DEF ClientBounded, Behind, Limits
<1>3. LimiterInv /\ [Next]_vars => LimiterInv'
  BY LimiterNext
<1> QED BY <1>2, <1>3, LimiterInit, PTL DEF Spec

-----------------------------------------------------------------------------
(* Searches.                                                               *)

(* The tiers of a query are sets of handles, one to three of them.         *)
LEMMA TiersOf ==
  ASSUME NEW q \in Queries \cup {Nothing}
  PROVE  SearchTiers(q) \in Seq(SUBSET Handles) /\ Len(SearchTiers(q)) \in 1 .. 3
<1>1. q.prefix \in SUBSET Handles /\ q.skeleton \in SUBSET Handles /\ q.contains \in SUBSET Handles
  BY SearchAssumption DEF Nothing
<1> DEFINE s == IF q.folded THEN <<q.skeleton>> ELSE <<>>
           t == IF q.long THEN <<q.contains>> ELSE <<>>
<1>2. s \in Seq(SUBSET Handles) /\ Len(s) \in 0 .. 1 /\ t \in Seq(SUBSET Handles) /\ Len(t) \in 0 .. 1
  <2>1. ASSUME NEW x \in SUBSET Handles
        PROVE  <<x>> \in Seq(SUBSET Handles) /\ Len(<<x>>) = 1
    OBVIOUS
  <2>2. <<>> \in Seq(SUBSET Handles) /\ Len(<<>>) = 0
    OBVIOUS
  <2>3. s = <<q.skeleton>> \/ s = <<>>
    BY Zenon
  <2>4. t = <<q.contains>> \/ t = <<>>
    BY Zenon
  <2>5. 0 \in 0 .. 1 /\ 1 \in 0 .. 1
    OBVIOUS
  <2> HIDE DEF s, t
  <2>6. s \in Seq(SUBSET Handles) /\ Len(s) \in 0 .. 1
    BY <1>1, <2>1, <2>2, <2>3, <2>5, Zenon
  <2>7. t \in Seq(SUBSET Handles) /\ Len(t) \in 0 .. 1
    BY <1>1, <2>1, <2>2, <2>4, <2>5, Zenon
  <2> QED BY <2>6, <2>7
<1>3. <<q.prefix>> \in Seq(SUBSET Handles) /\ Len(<<q.prefix>>) = 1
  BY <1>1
<1> HIDE DEF s, t
<1>4. /\ (<<q.prefix>> \o s) \o t \in Seq(SUBSET Handles)
      /\ Len((<<q.prefix>> \o s) \o t) = 1 + Len(s) + Len(t)
  BY <1>2, <1>3
<1>5. SearchTiers(q) = (<<q.prefix>> \o s) \o t
  BY DEF SearchTiers, s, t
<1>6. 1 + Len(s) + Len(t) \in 1 .. 3
  <2>1. \A a, b \in 0 .. 1 : 1 + a + b \in 1 .. 3
    OBVIOUS
  <2> QED BY <1>2, <2>1
<1> QED BY <1>4, <1>5, <1>6

(* FindHandles returns matches that are registered, none twice, and all of *)
(* them unless there are more than it was asked for.                       *)
LEMMA HandlesFound ==
  ASSUME active \subseteq Handles, NEW matches, NEW limit \in Nat, NEW found, found = FindHandles(matches, limit)
  PROVE  /\ found \in Seq(Handles) /\ Len(found) <= limit
         /\ \A i \in DOMAIN found : found[i] \in matches \cap active
         /\ \A i, j \in DOMAIN found : found[i] = found[j] => i = j
         /\ Len(found) < limit => matches \cap active \subseteq Range(found)
<1> DEFINE all == matches \cap active
           n == Cardinality(all)
           m == IF n < limit THEN n ELSE limit
<1>1. all \in SUBSET Nat /\ all \in SUBSET Handles /\ IsFiniteSet(all) /\ n \in Nat
  <2>1. all \in SUBSET Handles /\ IsFiniteSet(Handles) /\ Handles \subseteq Nat
    BY SearchAssumption
  <2>2. IsFiniteSet(all)
    BY <2>1, FS_Subset
  <2> QED BY <2>1, <2>2, FS_CardinalityType
<1>2. found = [k \in 1 .. m |-> Nth(all, k)]
  BY DEF FindHandles
<1> HIDE DEF all
<1>3. m \in 0 .. n /\ m <= limit /\ m \in Nat
  BY <1>1
<1>4. ASSUME NEW k \in 1 .. m
      PROVE  Nth(all, k) \in all /\ k \in 1 .. n
  <2>1. k \in 1 .. n
    BY <1>1, <1>3
  <2> QED BY <1>1, <2>1, NthProperty
<1>5. found \in Seq(Handles) /\ Len(found) = m /\ DOMAIN found = 1 .. m
  <2>1. \A k \in 1 .. m : Nth(all, k) \in Handles
    BY <1>1, <1>4
  <2> HIDE DEF m
  <2> QED BY <1>2, <1>3, <2>1
<1>6. \A i \in DOMAIN found : found[i] \in all
  BY <1>2, <1>4, <1>5
<1>7. ASSUME NEW i \in DOMAIN found, NEW j \in DOMAIN found, found[i] = found[j]
      PROVE  i = j
  <2>1. i \in 1 .. n /\ j \in 1 .. n /\ Nth(all, i) = Nth(all, j)
    BY <1>2, <1>4, <1>5, <1>7
  <2> QED BY <1>1, <2>1, NthDistinct
<1>8. ASSUME Len(found) < limit, NEW x \in all
      PROVE  x \in Range(found)
  <2>1. m = n
    BY <1>1, <1>3, <1>5, <1>8
  <2>2. PICK k \in 1 .. n : Nth(all, k) = x
    BY <1>1, NthOfEach
  <2> QED BY <1>2, <1>5, <2>1, <2>2 DEF Range
<1> QED BY <1>3, <1>5, <1>6, <1>7, <1>8 DEF all

(* A tier that is added keeps what was found, is cut off at the limit, and *)
(* if that leaves room, every record of the tier is there: a tier that was *)
(* cut off itself has filled the answer.                                   *)
LEMMA TierAdded ==
  ASSUME NEW certs \in Seq(Handles), Len(certs) < SearchLimit, IsInjective(certs),
         NEW records \in Seq(Handles), Len(records) <= SearchLimit,
         \A i, j \in DOMAIN records : records[i] = records[j] => i = j,
         NEW next, next = Added(certs, records)
  PROVE  /\ next \in Seq(Handles) /\ Len(next) \in Len(certs) .. SearchLimit /\ IsInjective(next)
         /\ \A i \in 1 .. Len(certs) : next[i] = certs[i]
         /\ Len(next) < SearchLimit => Len(records) < SearchLimit /\ Range(records) \subseteq Range(next)
<1> DEFINE S == {i \in DOMAIN records : records[i] \notin Range(certs)}
           new == Entries(records, S)
           room == SearchLimit - Len(certs)
           n == IF Len(new) < room THEN Len(new) ELSE room
           tail == SubSeq(new, 1, n)
<1>1. SearchLimit \in Nat \ {0} /\ Len(certs) \in Nat /\ Len(records) \in Nat
  BY SearchAssumption
<1>2. /\ new \in Seq(Handles) /\ Len(new) = Cardinality(S) /\ Cardinality(S) \in Nat
      /\ \A i \in S : \E k \in 1 .. Cardinality(S) : new[k] = records[i]
  <2>1. S \in SUBSET DOMAIN records
    OBVIOUS
  <2> HIDE DEF S
  <2> QED BY <2>1, EntriesProperty
<1>3. /\ \A k \in 1 .. Cardinality(S) : \E i \in S : new[k] = records[i]
      /\ \A j, k \in 1 .. Cardinality(S) : new[j] = new[k] => j = k
  <2>1. S \in SUBSET DOMAIN records
    OBVIOUS
  <2> HIDE DEF S
  <2> QED BY <2>1, EntriesDistinct
<1>4. \A k \in 1 .. Len(new) : new[k] \notin Range(certs)
  BY <1>2, <1>3
<1>5. next = certs \o tail
  BY DEF Added
<1> HIDE DEF new, S
<1>6. room \in Nat \ {0} /\ n \in 0 .. Len(new) /\ n \in Nat /\ n <= room
  BY <1>1, <1>2
<1>7. tail \in Seq(Handles) /\ Len(tail) = n /\ \A k \in 1 .. n : tail[k] = new[k]
  <2> HIDE DEF n
  <2> QED BY <1>2, <1>6, SubSeqProperties
<1> HIDE DEF tail
<1>8. /\ next \in Seq(Handles) /\ Len(next) = Len(certs) + n
      /\ \A i \in 1 .. Len(certs) + n : next[i] = IF i <= Len(certs) THEN certs[i] ELSE new[i - Len(certs)]
  <2> HIDE DEF n
  <2>1. /\ next \in Seq(Handles) /\ Len(next) = Len(certs) + Len(tail)
        /\ \A i \in 1 .. Len(certs) + Len(tail) :
             next[i] = IF i <= Len(certs) THEN certs[i] ELSE tail[i - Len(certs)]
    <3>1. /\ certs \o tail \in Seq(Handles) /\ Len(certs \o tail) = Len(certs) + Len(tail)
          /\ \A i \in 1 .. Len(certs) + Len(tail) :
               (certs \o tail)[i] = IF i <= Len(certs) THEN certs[i] ELSE tail[i - Len(certs)]
      BY <1>7, ConcatProperties, Zenon
    <3> QED BY <1>5, <3>1, Zenon
  <2>2. ASSUME NEW i \in 1 .. Len(certs) + n
        PROVE  next[i] = IF i <= Len(certs) THEN certs[i] ELSE new[i - Len(certs)]
    <3>1. i <= Len(certs) \/ i - Len(certs) \in 1 .. n
      BY <1>1, <1>6
    <3> QED BY <1>7, <2>1, <3>1
  <2> QED BY <1>7, <2>1, <2>2
<1>9. Len(next) \in Len(certs) .. SearchLimit
  <2> HIDE DEF n
  <2> QED BY <1>1, <1>6, <1>8
<1>10. IsInjective(next)
  <2> HIDE DEF n
  <2>1. SUFFICES ASSUME NEW i \in 1 .. Len(certs) + n, NEW j \in 1 .. Len(certs) + n, next[i] = next[j], i <= j
                 PROVE  i = j
    <3>1. DOMAIN next = 1 .. Len(certs) + n
      BY <1>8
    <3>2. \A i, j \in 1 .. Len(certs) + n : i <= j \/ j <= i
      BY <1>1, <1>6
    <3> QED BY <2>1, <3>1, <3>2 DEF IsInjective
  <2>2. CASE j <= Len(certs)
    <3>1. i \in DOMAIN certs /\ j \in DOMAIN certs /\ certs[i] = certs[j]
      BY <1>1, <1>6, <1>8, <2>1, <2>2
    <3> QED BY <3>1 DEF IsInjective
  <2>3. CASE i <= Len(certs) /\ ~ (j <= Len(certs))
    <3>1. i \in DOMAIN certs /\ j - Len(certs) \in 1 .. Len(new) /\ certs[i] = new[j - Len(certs)]
      BY <1>1, <1>2, <1>6, <1>8, <2>1, <2>3
    <3>2. certs[i] \in Range(certs)
      BY <3>1 DEF Range
    <3> QED BY <1>4, <3>1, <3>2
  <2>4. CASE ~ (i <= Len(certs))
    <3>1. /\ i - Len(certs) \in 1 .. Len(new) /\ j - Len(certs) \in 1 .. Len(new)
          /\ new[i - Len(certs)] = new[j - Len(certs)]
      BY <1>1, <1>2, <1>6, <1>8, <2>1, <2>4
    <3>2. i - Len(certs) = j - Len(certs)
      BY <1>2, <1>3, <3>1
    <3> QED BY <1>1, <1>6, <3>2
  <2> QED BY <1>1, <1>6, <2>1, <2>2, <2>3, <2>4
<1>11. ASSUME Len(next) < SearchLimit
       PROVE  Len(records) < SearchLimit /\ Range(records) \subseteq Range(next)
  <2>1. n = Len(new)
    BY <1>1, <1>2, <1>6, <1>8, <1>11
  <2>2. ASSUME NEW i \in DOMAIN records
        PROVE  \E j \in 1 .. Len(next) : next[j] = records[i]
    <3> HIDE DEF n
    <3>1. CASE records[i] \in Range(certs)
      <4>1. PICK j \in 1 .. Len(certs) : certs[j] = records[i]
        BY <3>1 DEF Range
      <4> QED BY <1>1, <1>6, <1>8, <4>1
    <3>2. CASE records[i] \notin Range(certs)
      <4>1. i \in S
        BY <3>2 DEF S
      <4>2. PICK k \in 1 .. n : new[k] = records[i]
        BY <1>2, <2>1, <4>1
      <4>3. /\ Len(certs) + k \in 1 .. Len(certs) + n /\ ~ (Len(certs) + k <= Len(certs))
            /\ (Len(certs) + k) - Len(certs) = k
        BY <1>1, <1>6
      <4> QED BY <1>8, <4>2, <4>3
    <3> QED BY <3>1, <3>2
  <2>3. Range(records) \subseteq Range(next)
    BY <1>8, <2>2 DEF Range
  <2>4. Len(records) < SearchLimit
    <3>1. SUFFICES ASSUME Len(records) = SearchLimit
                   PROVE  FALSE
      BY <1>1
    <3> DEFINE f == [i \in DOMAIN records |-> CHOOSE j \in 1 .. Len(next) : next[j] = records[i]]
    <3>2. DOMAIN records = 1 .. SearchLimit /\ Len(next) \in Nat
      BY <1>8, <3>1
    <3>3. ASSUME NEW b \in Nat
          PROVE  IsFiniteSet(1 .. b) /\ Cardinality(1 .. b) = b
      <4>1. IsFiniteSet(1 .. b) /\ Cardinality(1 .. b) = IF 1 > b THEN 0 ELSE b - 1 + 1
        BY FS_Interval
      <4> QED BY <4>1
    <3>4. \A i \in DOMAIN records : f[i] \in 1 .. Len(next) /\ next[f[i]] = records[i]
      BY <2>2
    <3>5. f \in [1 .. SearchLimit -> 1 .. Len(next)]
      BY <3>2, <3>4
    <3> HIDE DEF f
    <3>6. \E x, y \in 1 .. SearchLimit : x # y /\ f[x] = f[y]
      <4>1. /\ IsFiniteSet(1 .. SearchLimit) /\ IsFiniteSet(1 .. Len(next))
            /\ Cardinality(1 .. Len(next)) < Cardinality(1 .. SearchLimit)
        BY <1>1, <1>11, <3>2, <3>3
      <4> DEFINE D == 1 .. SearchLimit
                 R == 1 .. Len(next)
      <4>2. f \in [D -> R]
        BY <3>5
      <4>3. \E x, y \in D : x # y /\ f[x] = f[y]
        <5> HIDE DEF D, R
        <5>1. IsFiniteSet(D) /\ IsFiniteSet(R) /\ Cardinality(R) < Cardinality(D)
          BY <4>1 DEF D, R
        <5> QED BY <4>2, <5>1, FS_PigeonHole
      <4> QED BY <4>3
    <3>7. PICK x \in 1 .. SearchLimit, y \in 1 .. SearchLimit : x # y /\ f[x] = f[y]
      BY <3>6
    <3> QED BY <3>2, <3>4, <3>7
  <2> QED BY <2>3, <2>4
<1>12. \A i \in 1 .. Len(certs) : next[i] = certs[i]
  <2> HIDE DEF n
  <2> QED BY <1>1, <1>6, <1>8
<1> QED BY <1>8, <1>9, <1>10, <1>11, <1>12

Searches ==
  [open: BOOLEAN, tier: Nat, query: Queries \cup {Nothing}, certs: Seq(Handles), throughout: SUBSET Handles]

(* A search, while `registered` are the handles that are: what it has      *)
(* found so far, and that it is short of nothing in the tiers it has read. *)
Searched(s, registered) ==
  LET tiers == SearchTiers(s.query) IN
    /\ s \in Searches
    /\ Len(s.certs) <= SearchLimit /\ IsInjective(s.certs)
    /\ s.tier <= Len(tiers) + 1
    /\ s.open => /\ s.throughout \subseteq registered /\ s.tier <= Len(tiers)
                 /\ s.tier > 0 => Len(s.certs) < SearchLimit
    /\ ~ s.open /\ s.query.ok => s.tier > 0 /\ (Len(s.certs) >= SearchLimit \/ s.tier = Len(tiers) + 1)
    /\ s.tier > 0 => /\ s.query.exact \in s.throughout => s.certs # <<>> /\ s.certs[1] = s.query.exact
                     /\ Len(s.certs) < SearchLimit =>
                          \A i \in 1 .. s.tier - 1 : tiers[i] \cap s.throughout \subseteq Range(s.certs)

SearchInv ==
  /\ active \subseteq Handles
  /\ search = [p \in Procs |-> search[p]] /\ \A p \in Procs : Searched(search[p], active)

SearchStep ==
  \/ \E p \in Procs : (\E q \in Queries : SearchStart(p, q)) \/ ReadExact(p) \/ ReadTier(p) \/ SearchEnds(p)
  \/ \E h \in Handles : Registry(h)
  \/ UNCHANGED searchVars

(* What a step does to the searches and to the registry.                   *)
LEMMA StepsOfSearches ==
  ASSUME [Next]_vars
  PROVE  SearchStep
<1>1. ASSUME NEW p \in Procs, MainStep(p) \/ Shutdown(p) \/ Crash(p)
      PROVE  SearchStep
  <2>1. Gone(p) \/ UNCHANGED searchVars
    BY <1>1 DEF MainStep, Boot, Configure, OpenStore, EnsureSchema, Timeout, SchemaReady, CreateWallet, Mount,
       Shutdown, Crash, Exit, Goto
  <2> QED BY <2>1 DEF Gone, SearchStep
<1>2. ASSUME NEW p \in Procs, Search(p)
      PROVE  SearchStep
  BY <1>2 DEF Search, SearchFails, SearchStep
<1>3. ASSUME \/ \E p \in Procs : DeviceRequest(p) \/ BoxWideRequest(p)
             \/ \E p \in Procs, c \in Clients, forged \in Forgeries : Lookup(p, c, forged)
             \/ \E w \in Writers : StoreStep(w) \/ StoreFails(w)
             \/ BuildEnds \/ Outside \/ Tick \/ UNCHANGED vars
      PROVE  SearchStep
  BY <1>3 DEF DeviceRequest, BoxWideRequest, Lookup, StoreStep, StoreFails, BuildEnds, Outside, Tick, vars, SearchStep
<1>4. ASSUME RegistryChanges
      PROVE  SearchStep
  BY <1>4 DEF RegistryChanges, SearchStep
<1> QED BY <1>1, <1>2, <1>3, <1>4 DEF Next

(* A search that has found nothing yet.                                    *)
LEMMA NothingFound ==
  <<>> \in Seq(Handles) /\ Len(<<>>) = 0 /\ IsInjective(<<>>)
<1>1. <<>> \in Seq(Handles) /\ Len(<<>>) = 0 /\ DOMAIN <<>> = {}
  OBVIOUS
<1> QED BY <1>1 DEF IsInjective

LEMMA OneFound ==
  ASSUME NEW x \in Handles
  PROVE  <<x>> \in Seq(Handles) /\ Len(<<x>>) = 1 /\ <<x>>[1] = x /\ <<x>> # <<>> /\ IsInjective(<<x>>)
<1>1. <<x>> \in Seq(Handles) /\ Len(<<x>>) = 1 /\ <<x>>[1] = x /\ <<x>> # <<>> /\ DOMAIN <<x>> = {1}
  OBVIOUS
<1> QED BY <1>1 DEF IsInjective

LEMMA IdleSearched == Searched(Idle, active)
<1>1. /\ Idle \in Searches /\ Idle.open = FALSE /\ Idle.tier = 0 /\ Idle.certs = <<>> /\ Idle.query = Nothing
      /\ Nothing.ok = FALSE
  BY NothingFound DEF Idle, Nothing, Searches
<1>2. Len(SearchTiers(Nothing)) \in 1 .. 3
  BY TiersOf
<1>3. 0 <= SearchLimit /\ 0 <= Len(SearchTiers(Nothing)) + 1
  BY <1>2, SearchAssumption
<1> QED BY <1>1, <1>3, NothingFound DEF Searched

LEMMA SearchInit == Init => SearchInv
<1> SUFFICES ASSUME Init
             PROVE  SearchInv
  OBVIOUS
<1>1. active \subseteq Handles /\ search = [p \in Procs |-> Idle]
  BY DEF Init
<1> QED BY <1>1, IdleSearched DEF SearchInv

(* What a read has found becomes the search's.                             *)
LEMMA ReadKeeps ==
  ASSUME SearchInv, NEW p \in Procs, search[p].open,
         NEW certs \in Seq(Handles), Len(certs) <= SearchLimit, IsInjective(certs), Found(p, certs),
         search[p].query.exact \in search[p].throughout => certs # <<>> /\ certs[1] = search[p].query.exact,
         Len(certs) < SearchLimit =>
           \A i \in 1 .. search[p].tier : SearchTiers(search[p].query)[i] \cap search[p].throughout \subseteq Range(certs)
  PROVE  SearchInv'
<1> DEFINE s == search[p]
           tiers == SearchTiers(s.query)
           answered == Len(certs) >= SearchLimit \/ s.tier = Len(tiers)
           open == ~ answered
           new == [s EXCEPT !.certs = certs, !.tier = @ + 1, !.open = open]
<1>1. search' = [search EXCEPT ![p] = new] /\ active' = active
  BY DEF Found
<1>2. s \in Searches /\ s.throughout \subseteq active /\ s.tier <= Len(tiers)
  BY DEF SearchInv, Searched
<1>3. Len(tiers) \in Nat /\ s.tier \in Nat /\ s.query \in Queries \cup {Nothing} /\ SearchLimit \in Nat /\ Len(certs) \in Nat
  BY <1>2, TiersOf, SearchAssumption DEF Searches
<1>4. open \in BOOLEAN
  OBVIOUS
<1> HIDE DEF open
<1>5. /\ new \in Searches /\ new.certs = certs /\ new.tier = s.tier + 1 /\ new.open = open
      /\ new.query = s.query /\ new.throughout = s.throughout
  <2> DEFINE tier == s.tier + 1
  <2>1. new = [s EXCEPT !.certs = certs, !.tier = tier, !.open = open] /\ tier \in Nat
    BY <1>3
  <2>2. s \in Searches
    BY <1>2
  <2> HIDE DEF s, new, tier
  <2>3. /\ new \in Searches /\ new.certs = certs /\ new.tier = tier /\ new.open = open
        /\ new.query = s.query /\ new.throughout = s.throughout
    <3>1. /\ new.certs = certs /\ new.tier = tier /\ new.open = open
          /\ new.query = s.query /\ new.throughout = s.throughout
      BY <1>4, <2>1, <2>2 DEF Searches
    <3>2. new \in Searches
      BY <1>4, <2>1, <2>2 DEF Searches
    <3> QED BY <3>1, <3>2
  <2> QED BY <2>3 DEF tier
<1> HIDE DEF new
<1>6. Searched(new, active)
  <2> HIDE DEF s
  <2>1. s.tier + 1 <= Len(tiers) + 1 /\ s.tier + 1 > 0 /\ (s.tier + 1) - 1 = s.tier
    BY <1>2, <1>3
  <2>2. open => s.tier + 1 <= Len(tiers) /\ Len(certs) < SearchLimit
    BY <1>2, <1>3 DEF open
  <2>3. ~ open => Len(certs) >= SearchLimit \/ s.tier + 1 = Len(tiers) + 1
    BY DEF open
  <2>4. s.query.exact \in s.throughout => certs # <<>> /\ certs[1] = s.query.exact
    BY DEF s
  <2>5. Len(certs) < SearchLimit => \A i \in 1 .. s.tier : tiers[i] \cap s.throughout \subseteq Range(certs)
    BY DEF s
  <2> HIDE DEF tiers
  <2>6. SearchTiers(new.query) = tiers
    BY <1>5 DEF tiers
  <2> QED BY <1>2, <1>5, <2>1, <2>2, <2>3, <2>4, <2>5, <2>6 DEF Searched
<1> QED BY <1>1, <1>6 DEF SearchInv

(* The tiers are read in order, each while the search is open: the next    *)
(* tier's matches that are registered throughout are found by its read or  *)
(* were found before it.                                                   *)
LEMMA TierRead ==
  ASSUME SearchInv, NEW p \in Procs, ReadTier(p)
  PROVE  SearchInv'
<1> DEFINE s == search[p]
           tiers == SearchTiers(s.query)
           records == FindHandles(tiers[s.tier], SearchLimit)
           next == Added(s.certs, records)
<1>1. s.open /\ s.tier > 0 /\ Found(p, next)
  BY DEF ReadTier, TierLimit
<1>2. /\ active \subseteq Handles /\ s \in Searches /\ s.throughout \subseteq active /\ s.tier <= Len(tiers)
      /\ Len(s.certs) < SearchLimit /\ IsInjective(s.certs)
      /\ s.query.exact \in s.throughout => s.certs # <<>> /\ s.certs[1] = s.query.exact
      /\ \A i \in 1 .. s.tier - 1 : tiers[i] \cap s.throughout \subseteq Range(s.certs)
  BY <1>1 DEF SearchInv, Searched
<1>3. s.certs \in Seq(Handles) /\ s.tier \in Nat /\ s.query \in Queries \cup {Nothing} /\ SearchLimit \in Nat
  BY <1>2, SearchAssumption DEF Searches
<1>4. /\ records \in Seq(Handles) /\ Len(records) <= SearchLimit
      /\ \A i, j \in DOMAIN records : records[i] = records[j] => i = j
      /\ Len(records) < SearchLimit => tiers[s.tier] \cap active \subseteq Range(records)
  <2> HIDE DEF s, tiers, records
  <2>1. records = FindHandles(tiers[s.tier], SearchLimit)
    BY DEF records
  <2> QED BY <1>2, <1>3, <2>1, HandlesFound
<1> HIDE DEF records
<1>5. /\ next \in Seq(Handles) /\ Len(next) \in Len(s.certs) .. SearchLimit /\ IsInjective(next)
      /\ \A i \in 1 .. Len(s.certs) : next[i] = s.certs[i]
      /\ Len(next) < SearchLimit => Len(records) < SearchLimit /\ Range(records) \subseteq Range(next)
  <2> HIDE DEF s, next
  <2>1. next = Added(s.certs, records)
    BY DEF next
  <2> QED BY <1>2, <1>3, <1>4, <2>1, TierAdded
<1> HIDE DEF next
<1>6. Len(s.certs) \in Nat /\ Len(next) \in Nat /\ Len(next) <= SearchLimit
  BY <1>3, <1>5
<1>7. ASSUME s.query.exact \in s.throughout
      PROVE  next # <<>> /\ next[1] = s.query.exact
  <2>1. s.certs # <<>> /\ s.certs[1] = s.query.exact
    BY <1>2, <1>7
  <2> HIDE DEF s
  <2>2. 1 \in 1 .. Len(s.certs) /\ 1 \in 1 .. Len(next)
    BY <1>3, <1>5, <1>6, <2>1, EmptySeq
  <2>3. next # <<>>
    BY <1>5, <2>2
  <2> QED BY <1>5, <2>1, <2>2, <2>3
<1>8. Range(s.certs) \subseteq Range(next)
  <2> HIDE DEF s
  <2>1. ASSUME NEW i \in DOMAIN s.certs
        PROVE  i \in DOMAIN next /\ next[i] = s.certs[i]
    <3>1. i \in 1 .. Len(s.certs)
      BY <1>3
    <3>2. i \in 1 .. Len(next)
      BY <1>5, <1>6, <3>1
    <3> QED BY <1>5, <3>1, <3>2
  <2> QED BY <2>1 DEF Range
<1>9. ASSUME Len(next) < SearchLimit, NEW i \in 1 .. s.tier
      PROVE  tiers[i] \cap s.throughout \subseteq Range(next)
  <2>1. CASE i = s.tier
    <3>1. tiers[i] \cap active \subseteq Range(next)
      BY <1>4, <1>5, <1>9, <2>1
    <3> QED BY <1>2, <3>1
  <2>2. CASE i # s.tier
    <3>1. i \in 1 .. s.tier - 1
      <4> HIDE DEF s
      <4> QED BY <1>3, <2>2
    <3> QED BY <1>2, <1>8, <3>1
  <2> QED BY <2>1, <2>2
<1> QED BY <1>1, <1>5, <1>6, <1>7, <1>9, ReadKeeps

LEMMA SearchNext == SearchInv /\ [Next]_vars => SearchInv'
<1> SUFFICES ASSUME SearchInv, SearchStep
             PROVE  SearchInv'
  BY StepsOfSearches
<1>1. active \subseteq Handles /\ search = [p \in Procs |-> search[p]] /\ \A p \in Procs : Searched(search[p], active)
  BY DEF SearchInv
<1>2. ASSUME NEW p \in Procs, NEW new, Searched(new, active), search' = [search EXCEPT ![p] = new], active' = active
      PROVE  SearchInv'
  BY <1>1, <1>2 DEF SearchInv
<1>3. ASSUME NEW p \in Procs, NEW q \in Queries, SearchStart(p, q)
      PROVE  SearchInv'
  <2> DEFINE new == [open |-> q.ok, tier |-> 0, query |-> q, certs |-> <<>>, throughout |-> active]
  <2>1. q.ok \in BOOLEAN /\ SearchLimit \in Nat /\ Len(SearchTiers(q)) \in Nat
    BY SearchAssumption, TiersOf
  <2>2. new \in Searches
    BY <1>1, <2>1, NothingFound DEF Searches
  <2>3. /\ new.open = q.ok /\ new.tier = 0 /\ new.query = q /\ new.certs = <<>> /\ new.throughout = active
    OBVIOUS
  <2>4. search' = [search EXCEPT ![p] = new] /\ active' = active
    BY <1>3 DEF SearchStart
  <2> HIDE DEF new
  <2>5. 0 <= SearchLimit /\ 0 <= Len(SearchTiers(q)) + 1 /\ 0 <= Len(SearchTiers(q))
    BY <2>1
  <2>6. Searched(new, active)
    BY <2>1, <2>2, <2>3, <2>5, NothingFound DEF Searched
  <2> QED BY <1>2, <2>4, <2>6
<1>4. ASSUME NEW p \in Procs, ReadExact(p)
      PROVE  SearchInv'
  <2> DEFINE s == search[p]
             certs == IF s.query.exact \in active THEN <<s.query.exact>> ELSE <<>>
  <2>1. s.open /\ s.tier = 0 /\ Found(p, certs)
    BY <1>4 DEF ReadExact
  <2>2. s.throughout \subseteq active /\ SearchLimit \in Nat \ {0}
    BY <1>1, <2>1, SearchAssumption DEF Searched
  <2>3. /\ certs \in Seq(Handles) /\ Len(certs) \in 0 .. 1 /\ IsInjective(certs)
        /\ s.query.exact \in active => certs # <<>> /\ certs[1] = s.query.exact
    <3>1. CASE s.query.exact \in active
      BY <1>1, <3>1, OneFound
    <3>2. CASE s.query.exact \notin active
      BY <3>2, NothingFound
    <3> QED BY <3>1, <3>2
  <2> HIDE DEF certs
  <2>4. Len(certs) <= SearchLimit
    <3>1. \A a \in 0 .. 1, b \in Nat \ {0} : a <= b
      OBVIOUS
    <3> QED BY <2>2, <2>3, <3>1
  <2>5. \A i \in 1 .. s.tier : SearchTiers(s.query)[i] \cap s.throughout \subseteq Range(certs)
    BY <2>1
  <2>6. s.query.exact \in s.throughout => certs # <<>> /\ certs[1] = s.query.exact
    BY <2>2, <2>3
  <2> QED BY <2>1, <2>3, <2>4, <2>5, <2>6, ReadKeeps
<1>5. ASSUME NEW p \in Procs, SearchEnds(p)
      PROVE  SearchInv'
  <2>1. Searched(Idle, active)
    BY IdleSearched
  <2> QED BY <1>2, <1>5, <2>1 DEF SearchEnds
<1>6. ASSUME NEW h \in Handles, Registry(h)
      PROVE  SearchInv'
  <2>1. active' \subseteq Handles /\ active \ {h} \subseteq active'
    BY <1>1, <1>6 DEF Registry
  <2>2. search' = [p \in Procs |-> [search[p] EXCEPT !.throughout = IF search[p].open THEN @ \ {h} ELSE @]]
    BY <1>6, StartupAssumption DEF Registry
  <2>3. ASSUME NEW p \in Procs
        PROVE  Searched(search'[p], active')
    <3> DEFINE s == search[p]
               left == IF s.open THEN s.throughout \ {h} ELSE s.throughout
               new == [s EXCEPT !.throughout = left]
    <3>1. search'[p] = new /\ Searched(s, active) /\ s \in Searches
      BY <1>1, <2>2 DEF Searched
    <3>2. left \subseteq s.throughout /\ (s.open => left \subseteq active')
      BY <2>1, <3>1 DEF Searched
    <3>3. left \in SUBSET Handles
      BY <3>1, <3>2 DEF Searches
    <3> HIDE DEF left, s
    <3>4. /\ new.open = s.open /\ new.tier = s.tier /\ new.query = s.query /\ new.certs = s.certs
          /\ new.throughout = left
      BY <3>1 DEF Searches
    <3>5. new \in Searches
      BY <3>1, <3>3 DEF Searches
    <3> HIDE DEF new
    <3> QED BY <3>1, <3>2, <3>4, <3>5 DEF Searched
  <2> QED BY <2>1, <2>2, <2>3 DEF SearchInv
<1>7. ASSUME UNCHANGED searchVars
      PROVE  SearchInv'
  BY <1>7 DEF SearchInv, searchVars
<1> QED BY <1>3, <1>4, <1>5, <1>6, <1>7, TierRead DEF SearchStep

(* An answer that is not full has every match that was registered from the *)
(* first read to the last, in any tier; the exact handle leads it.         *)
THEOREM SearchesComplete == Spec => []SearchComplete
<1>1. ASSUME SearchInv
      PROVE  SearchComplete
  <2>1. SUFFICES ASSUME NEW p \in Procs, ~ search[p].open, search[p].query.ok
                 PROVE  LET s == search[p] IN
                        /\ Len(s.certs) <= SearchLimit /\ IsInjective(s.certs)
                        /\ s.query.exact \in s.throughout => s.certs # <<>> /\ s.certs[1] = s.query.exact
                        /\ Len(s.certs) < SearchLimit =>
                             \A i \in DOMAIN SearchTiers(s.query) :
                               SearchTiers(s.query)[i] \cap s.throughout \subseteq Range(s.certs)
    BY StartupAssumption DEF SearchComplete
  <2> DEFINE s == search[p]
             tiers == SearchTiers(s.query)
  <2>2. /\ Len(s.certs) <= SearchLimit /\ IsInjective(s.certs) /\ s \in Searches
        /\ s.tier > 0 /\ (Len(s.certs) >= SearchLimit \/ s.tier = Len(tiers) + 1)
        /\ s.query.exact \in s.throughout => s.certs # <<>> /\ s.certs[1] = s.query.exact
        /\ Len(s.certs) < SearchLimit =>
             \A i \in 1 .. s.tier - 1 : tiers[i] \cap s.throughout \subseteq Range(s.certs)
    BY <1>1, <2>1 DEF SearchInv, Searched
  <2>3. /\ tiers \in Seq(SUBSET Handles) /\ DOMAIN tiers = 1 .. Len(tiers) /\ Len(tiers) \in Nat
        /\ Len(s.certs) \in Nat /\ SearchLimit \in Nat
    BY <2>2, TiersOf, SearchAssumption DEF Searches
  <2> HIDE DEF s, tiers
  <2>4. Len(s.certs) < SearchLimit => s.tier - 1 = Len(tiers)
    BY <2>2, <2>3
  <2>5. Len(s.certs) < SearchLimit => \A i \in DOMAIN tiers : tiers[i] \cap s.throughout \subseteq Range(s.certs)
    BY <2>2, <2>3, <2>4
  <2> QED BY <2>2, <2>5 DEF s, tiers
<1>2. SearchInv /\ [Next]_vars => SearchInv'
  BY SearchNext
<1> QED BY <1>1, <1>2, SearchInit, PTL DEF Spec

-----------------------------------------------------------------------------
(* A deployment stays as it is, and its bounds are kept.                   *)
BoundInv ==
  /\ deployment \in Deployments /\ requests \in 0 .. deployment.requests /\ ends \in 0 .. deployment.ends

LEMMA BoundNext ==
  ASSUME BoundInv, [Next]_vars
  PROVE  BoundInv'
<1>1. requests \in Nat /\ ends \in Nat /\ deployment.requests \in Nat /\ deployment.ends \in Nat
  BY StartupAssumption DEF BoundInv
<1>2. /\ deployment' = deployment
      /\ requests' = requests \/ (requests < deployment.requests /\ requests' = requests + 1)
      /\ ends' = ends \/ (ends < deployment.ends /\ ends' = ends + 1)
  <2>1. ASSUME NEW p \in Procs, MainStep(p)
        PROVE  UNCHANGED <<deployment, requests, ends>>
    BY <2>1 DEF MainStep, Boot, Configure, OpenStore, EnsureSchema, Timeout, SchemaReady, CreateWallet, Mount, Exit, Gone,
       Goto, Moves, procVars
  <2>2. ASSUME NEW p \in Procs, Shutdown(p) \/ Crash(p)
        PROVE  UNCHANGED <<deployment, requests>> /\ ends < deployment.ends /\ ends' = ends + 1
    BY <2>2 DEF Shutdown, Crash, Gone, Moves
  <2>3. ASSUME NEW kind, Request(kind)
        PROVE  UNCHANGED <<deployment, ends>> /\ requests < deployment.requests /\ requests' = requests + 1
    BY <2>3 DEF Request
  <2>4. ASSUME \/ \E p \in Procs : DeviceRequest(p) \/ BoxWideRequest(p)
               \/ \E p \in Procs, c \in Clients, forged \in Forgeries : Lookup(p, c, forged)
               \/ RegistryChanges \/ Outside
        PROVE  UNCHANGED <<deployment, ends>> /\ requests < deployment.requests /\ requests' = requests + 1
    BY <2>3, <2>4 DEF DeviceRequest, BoxWideRequest, Lookup, RegistryChanges, Outside
  <2>5. ASSUME NEW p \in Procs, Search(p)
        PROVE  \/ UNCHANGED <<deployment, requests, ends>>
               \/ UNCHANGED <<deployment, ends>> /\ requests < deployment.requests /\ requests' = requests + 1
    BY <2>3, <2>5 DEF Search, procVars
  <2>6. ASSUME (\E w \in Writers : StoreStep(w) \/ StoreFails(w)) \/ BuildEnds \/ Tick \/ UNCHANGED vars
        PROVE  UNCHANGED <<deployment, requests, ends>>
    BY <2>6 DEF StoreStep, StoreFails, BuildEnds, Tick, procVars, vars
  <2> QED BY <2>1, <2>2, <2>4, <2>5, <2>6 DEF Next
<1>3. requests' \in 0 .. deployment.requests
  BY <1>1, <1>2 DEF BoundInv
<1>4. ends' \in 0 .. deployment.ends
  BY <1>1, <1>2 DEF BoundInv
<1> QED BY <1>2, <1>3, <1>4 DEF BoundInv

(* The types of the processes, the database, the searches and the counts.  *)
THEOREM StartupTyped == Spec => []TypeOK
<1>1. Init => BoundInv
  BY StartupAssumption DEF Init, BoundInv
<1>2. BoundInv /\ [Next]_vars => BoundInv'
  BY BoundNext
<1>3. SearchInv /\ [Next]_vars => SearchInv'
  BY SearchNext
<1>4. LimiterInv /\ [Next]_vars => LimiterInv'
  BY LimiterNext
<1>5. ASSUME SearchInv
      PROVE  SearchTypeOK
  <2>1. ASSUME NEW p \in Procs
        PROVE  search[p].query \in Queries \cup {Nothing} /\ search[p].tier \in 0 .. 4
    <3> DEFINE q == search[p].query
               tier == search[p].tier
    <3>1. search[p] \in Searches /\ tier <= Len(SearchTiers(q)) + 1
      BY <1>5 DEF SearchInv, Searched
    <3>2. q \in Queries \cup {Nothing} /\ tier \in Nat
      BY <3>1 DEF Searches
    <3>3. Len(SearchTiers(q)) \in 1 .. 3
      BY <3>2, TiersOf
    <3>4. \A n \in 1 .. 3, m \in Nat : m <= n + 1 => m \in 0 .. 4
      OBVIOUS
    <3> QED BY <3>1, <3>2, <3>3, <3>4
  <2> QED BY <1>5, <2>1, StartupAssumption DEF SearchInv, SearchTypeOK
<1>6. SqlTypeOK /\ SearchInv /\ ProcInv /\ LimiterInv /\ BoundInv => TypeOK
  BY <1>5 DEF TypeOK, ProcInv, LimiterInv, BoundInv
<1>7. Spec => []SearchInv
  BY <1>3, SearchInit, PTL DEF Spec
<1>8. Spec => []LimiterInv
  BY <1>4, LimiterInit, PTL DEF Spec
<1>9. Spec => []BoundInv
  BY <1>1, <1>2, PTL DEF Spec
<1> QED BY <1>6, <1>7, <1>8, <1>9, SqlTyped, ProcInvariant, PTL
=============================================================================
