------------------------------- MODULE MCStartup -------------------------------
(***************************************************************************)
(* Two processes, every environment that is told apart, and a database     *)
(* that is new or left by the previous release.  There are two proxies: a  *)
(* hop count of three is one too high.                                     *)
(***************************************************************************)
EXTENDS Startup, TLC

CONSTANTS k1, k2, t1, c1, c2, x1, x2

Key == "SERVER_PRIVATE_KEY" :> TRUE
Backend(b) == "STORAGE_BACKEND" :> b
Domain == ("PAYMAIL_DOMAIN" :> TRUE) @@ ("PAYMAIL_HOST" :> TRUE)
Registered(rate) == Key @@ Backend("mongo") @@ Domain @@ ("LOOKUP_RATE_PER_MIN" :> rate)
Directory == Registered(1)
Open == Registered(0)
Paid == Key @@ Backend("mongo") @@ Domain @@ ("HANDLE_PURCHASES_REQUIRED" :> TRUE)
Apple == ("APPLE_BUNDLE_ID" :> TRUE) @@ ("APPLE_ISSUER_ID" :> TRUE) @@ ("APPLE_KEY_ID" :> TRUE)
Google == "GOOGLE_PLAY_PACKAGE_NAME" :> TRUE
AppleKey(v) == "APPLE_PRIVATE_KEY" :> v
GoogleFile == "GOOGLE_PLAY_SERVICE_ACCOUNT_PATH" :> TRUE
Firebase(v) == ("FIREBASE_PROJECT_ID" :> TRUE) @@ ("FIREBASE_SERVICE_ACCOUNT_JSON" :> v)

Databased == {Key, Key @@ ("DB_DRIVER" :> Postgres)}

Limited ==
  {Directory, Directory @@ ("TRUST_PROXY" :> TRUE)}
  \cup {Directory @@ ("TRUST_PROXY" :> TRUE) @@ ("TRUSTED_PROXY_HOPS" :> n) : n \in {0, 2, 3}}
  \cup {Directory @@ ("CLIENT_IP_HEADER" :> TRUE),
        Directory @@ ("CLIENT_IP_HEADER" :> TRUE) @@ ("TRUST_PROXY" :> TRUE) @@ ("TRUSTED_PROXY_HOPS" :> 2)}

Purchases ==
  {Paid, Paid @@ Apple, Paid @@ Apple @@ AppleKey(TRUE), Paid @@ Apple @@ AppleKey(Malformed),
   Paid @@ Google, Paid @@ Google @@ GoogleFile @@ ("HANDLE_GRACE_DAYS" :> 110000),
   Paid @@ Apple @@ AppleKey(TRUE) @@ Google @@ GoogleFile,
   Key @@ ("HANDLE_PURCHASES_REQUIRED" :> TRUE) @@ Google @@ GoogleFile}

Mistakes ==
  {Backend("mongo"), Key @@ Domain, Key @@ Backend("other"), Key @@ ("DB_DRIVER" :> "other"),
   Key @@ ("BSV_NETWORK" :> "other"), "SERVER_PRIVATE_KEY" :> Malformed,
   Key @@ Backend("mongo") @@ ("PAYMAIL_DOMAIN" :> TRUE),
   Key @@ Backend("mongo") @@ Domain @@ ("CLIENT_IP_HEADER" :> Malformed),
   Key @@ Backend("mongo") @@ Domain @@ ("ADMIN_IDENTITY_KEYS" :> {Malformed}),
   Key @@ Backend("mongo") @@ ("LIST_MAX_LIMIT" :> 0),
   Key @@ Backend("mongo") @@ ("LIST_DEFAULT_LIMIT" :> 50) @@ ("LIST_MAX_LIMIT" :> 10)}

Others ==
  {Key @@ Backend("mongo") @@ Firebase(v) : v \in {TRUE, Malformed}}
  \cup {Open @@ ("HANDLE_COOLDOWN_DAYS" :> 110000)}

Deploys(envs, legacies, kind, n, m) ==
  {[env |-> e, legacy |-> l, asks |-> {kind}, requests |-> n, ends |-> m, slow |-> FALSE, joins |-> TRUE] :
     e \in envs, l \in legacies}
Slow(deployments) == {[d EXCEPT !.slow = TRUE] : d \in deployments}
AddLines(deployments) == {[d EXCEPT !.joins = FALSE] : d \in deployments}

Old == {[id |-> 2, key |-> k1, token |-> t1, active |-> TRUE]}

MCDeployments ==
  Deploys(Databased, {{}, Old}, "device", 2, 2)
  \cup Slow(Deploys(Databased, {Old}, "device", 1, 1) \cup Deploys({Open}, {{}}, "lookup", 0, 0))
  \cup Deploys(Databased, {{}}, "boxWide", 3, 0)
  \cup Deploys(Limited, {{}}, "lookup", 3, 1)
  \cup AddLines(Deploys({e \in Limited : Flag(e, "TRUST_PROXY")}, {{}}, "lookup", 3, 0))
  \cup Deploys(Purchases \cup Mistakes \cup Others, {{}}, "lookup", 1, 1)
  \cup Deploys({Open}, {{}}, "search", 3, 0)

(* Tiers that overlap, with more matches than an answer has room for; and  *)
(* queries too short to fold or for a substring.                           *)
Full == [ok |-> TRUE, exact |-> 1, prefix |-> {1, 3}, skeleton |-> {1, 2, 3}, contains |-> {1, 3, 4},
         folded |-> TRUE, long |-> TRUE]
MCQueries ==
  {Full, [Full EXCEPT !.exact = 3], [Full EXCEPT !.exact = NoHandle, !.folded = FALSE],
   [Full EXCEPT !.skeleton = {2}, !.long = FALSE], Nothing}

MCProxies == <<x1, x2>>
MCForgeries == {<<>>, <<c1>>, <<c2>>}
=============================================================================
