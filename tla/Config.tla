-------------------------------- MODULE Config --------------------------------
(***************************************************************************)
(* config.Load: the configuration the server reads from its environment,   *)
(* once, before it starts.                                                 *)
(*                                                                         *)
(* An environment is a function of the variables that are set, to what     *)
(* their text says: a number, a set of the entries of a list, TRUE for a   *)
(* flag or for a text that only has to be there, or Malformed.             *)
(***************************************************************************)
EXTENDS Integers

CONSTANTS
  Malformed,   \* a text that is not what its variable wants
  Refused      \* config.Load returns an error

IsSet(env, k) == k \in DOMAIN env

(* getEnv, and a flag that has to say "true".                              *)
GetEnv(env, k, fallback) == IF IsSet(env, k) THEN env[k] ELSE fallback
Flag(env, k) == IsSet(env, k) /\ env[k] = TRUE

(* What getEnvInt is asked for.                                            *)
Numbers == {"HANDLE_COOLDOWN_DAYS", "HANDLE_GRACE_DAYS", "LOOKUP_RATE_PER_MIN", "TRUSTED_PROXY_HOPS"}

(* getEnvInt: anything but a natural number is the fallback.               *)
GetEnvInt(env, k, fallback) ==
  IF IsSet(env, k) /\ env[k] # Malformed /\ env[k] >= 0 THEN env[k] ELSE fallback

(* What getEnvListBound is asked for.                                      *)
ListNumbers == {"LIST_DEFAULT_LIMIT", "LIST_MAX_LIMIT", "LIST_MAX_OFFSET", "LIST_MAX_RESPONSE_BYTES"}

(* getEnvListBound: a positive number, or -1 for no cap.                   *)
GetEnvListBound(env, k, fallback) ==
  LET v == GetEnv(env, k, fallback) IN
  IF v = Malformed \/ (v # -1 /\ v <= 0) THEN Malformed ELSE v

-----------------------------------------------------------------------------
(* A time.Duration is an int64 of nanoseconds: it holds as many days, and  *)
(* a product beyond them wraps around.                                     *)
DurationDays == 106752
Days(n) == ((n + DurationDays) % (2 * DurationDays)) - DurationDays

MaxCooldownDays == 3650
MaxGraceDays == 3650
Least(a, b) == IF a < b THEN a ELSE b

HandleCooldown(env) == Days(Least(GetEnvInt(env, "HANDLE_COOLDOWN_DAYS", 30), MaxCooldownDays))
HandleGrace(env) == Days(Least(GetEnvInt(env, "HANDLE_GRACE_DAYS", 14), MaxGraceDays))

(* The stores whose purchases are accepted.                                *)
AppStore == "app-store"
GooglePlay == "google-play"

ConfiguredStores(env) ==
  {s \in {AppStore, GooglePlay} :
     IsSet(env, IF s = AppStore THEN "APPLE_BUNDLE_ID" ELSE "GOOGLE_PLAY_PACKAGE_NAME")}

(* What a store's secret says, or the file it is in.                       *)
Secret(env, s) ==
  IF s = AppStore
  THEN GetEnv(env, "APPLE_PRIVATE_KEY", GetEnv(env, "APPLE_PRIVATE_KEY_PATH", FALSE))
  ELSE GetEnv(env, "GOOGLE_PLAY_SERVICE_ACCOUNT_JSON", GetEnv(env, "GOOGLE_PLAY_SERVICE_ACCOUNT_PATH", FALSE))

(* A store needs the credentials it is asked with.                         *)
StoreIncomplete(env) ==
  \/ Malformed \in GetEnv(env, "APPLE_ENVIRONMENTS", {"Production"})
  \/ /\ AppStore \in ConfiguredStores(env)
     /\ \/ ~ IsSet(env, "APPLE_ISSUER_ID") \/ ~ IsSet(env, "APPLE_KEY_ID")
  \/ \E s \in ConfiguredStores(env) : Secret(env, s) = FALSE

(* Mutant: purchases may be required where no store is configured.         *)
PurchasesUnservableNoStore(env) ==
  Flag(env, "HANDLE_PURCHASES_REQUIRED") /\ ~ IsSet(env, "PAYMAIL_DOMAIN")

(* Paid handles need the registry, and a store that sells them.            *)
PurchasesUnservable(env) ==
  /\ Flag(env, "HANDLE_PURCHASES_REQUIRED")
  /\ ~ IsSet(env, "PAYMAIL_DOMAIN") \/ ConfiguredStores(env) = {}

(* The lookup needs a bare domain and a host, a header field that can      *)
(* arrive, and administrators that can exist.                              *)
LookupMalformed(env) ==
  \/ IsSet(env, "PAYMAIL_DOMAIN") /\ (env["PAYMAIL_DOMAIN"] = Malformed \/ ~ IsSet(env, "PAYMAIL_HOST"))
  \/ GetEnv(env, "CLIENT_IP_HEADER", FALSE) = Malformed
  \/ Malformed \in GetEnv(env, "ADMIN_IDENTITY_KEYS", {})

-----------------------------------------------------------------------------
(* The bounds of POST /listMessages.                                       *)
ListBounds(env) ==
  [DefaultLimit     |-> GetEnvListBound(env, "LIST_DEFAULT_LIMIT", 1000),
   MaxLimit         |-> GetEnvListBound(env, "LIST_MAX_LIMIT", 1000),
   MaxOffset        |-> GetEnvListBound(env, "LIST_MAX_OFFSET", 100000),
   MaxResponseBytes |-> GetEnvListBound(env, "LIST_MAX_RESPONSE_BYTES", 8 * 1024 * 1024)]

(* Mutant: the default may be larger than the maximum.                     *)
BoundsRefusedLax(b) == \E f \in DOMAIN b : b[f] = Malformed

BoundsRefused(b) ==
  \/ \E f \in DOMAIN b : b[f] = Malformed
  \/ b.MaxLimit # -1 /\ b.DefaultLimit > b.MaxLimit

(* PORT, then HTTP_PORT, then what NODE_ENV says; what is no port is 8080. *)
Port(env) ==
  LET fallback == IF GetEnv(env, "NODE_ENV", "development") = "development" THEN 8080 ELSE 3000
      port == GetEnv(env, "PORT", GetEnv(env, "HTTP_PORT", fallback))
  IN IF port = Malformed \/ port <= 0 THEN 8080 ELSE port

Load(env) ==
  IF \/ ~ IsSet(env, "SERVER_PRIVATE_KEY")
     \/ LookupMalformed(env) \/ StoreIncomplete(env) \/ PurchasesUnservable(env)
     \/ BoundsRefused(ListBounds(env))
  THEN Refused
  ELSE [StorageBackend   |-> GetEnv(env, "STORAGE_BACKEND", "sql"),
        DBDriver         |-> GetEnv(env, "DB_DRIVER", "sqlite3"),
        ServerPrivateKey |-> env["SERVER_PRIVATE_KEY"],
        BSVNetwork       |-> GetEnv(env, "BSV_NETWORK", "mainnet"),
        FirebaseProjectID |-> IsSet(env, "FIREBASE_PROJECT_ID"),
        FirebaseServiceAccount |-> GetEnv(env, "FIREBASE_SERVICE_ACCOUNT_JSON",
                                     GetEnv(env, "FIREBASE_SERVICE_ACCOUNT_PATH", FALSE)),
        PaymailDomain    |-> IsSet(env, "PAYMAIL_DOMAIN"),
        HandleCooldown   |-> HandleCooldown(env),
        AdminIdentityKeys |-> GetEnv(env, "ADMIN_IDENTITY_KEYS", {}),
        LookupRatePerMin |-> GetEnvInt(env, "LOOKUP_RATE_PER_MIN", 60),
        TrustProxy       |-> Flag(env, "TRUST_PROXY"),
        TrustedProxyHops |-> LET hops == GetEnvInt(env, "TRUSTED_PROXY_HOPS", 1)
                             IN IF hops < 1 THEN 1 ELSE hops,
        ClientIPHeader   |-> IsSet(env, "CLIENT_IP_HEADER"),
        HandlePurchasesRequired |-> Flag(env, "HANDLE_PURCHASES_REQUIRED"),
        HandleGrace      |-> HandleGrace(env),
        Secrets          |-> [s \in ConfiguredStores(env) |-> Secret(env, s)],
        PubSubAudience   |-> IsSet(env, "GOOGLE_PUBSUB_AUDIENCE"),
        List             |-> ListBounds(env),
        Port             |-> Port(env)]
=============================================================================
