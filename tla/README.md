# A formal model of go-message-box-server

TLA+ modules for the parts of the server whose correctness depends on the order
of database, wallet and store calls; TLC instances that check them; and
machine-checked proofs that the registry, the paid handles, delivery, the device
registrations, listing, the SQL store, start-up, the rate limiter and search keep
what the runs check, but for liveness, for any number of requests, processes,
names and keys.

Run from this directory: `tlc -config MCDevices.cfg MCDevices` checks a run,
`tlapm HandleRegistryProofs.tla` the proofs of a module. `PROJECT.json` lists the
runs, the source lines behind every definition, the hazards and the theorems.

## 1. Inventory

The server is a set of identical replicas behind a load balancer. A replica
keeps nothing in memory but the counts of its rate limiter: every handler is a goroutine that makes a
few calls to a shared database (MongoDB, PostgreSQL or SQLite), to a wallet, to
the App Store or Play, or to Firebase. Calls of different requests interleave
freely, any call may fail, and a process may end between two of them. There are
no multi-document transactions in the MongoDB store, so what protects the data
is the filter of each write and the unique indexes. Every replica brings the
schema up to date when it starts, also while others serve or start.

| Component | State | Operations | What makes it correct |
|---|---|---|---|
| Handle registry (`pkg/storage/handles.go`, `mongostore/handles.go`, `handlers/lookup.go`, `admin_handle.go`) | one document per name ever claimed: holder, last holder, skeleton, certificate, newest date, cooldown | `PUT /api/handle` (claim, update, tombstone), `POST /admin/handle/release`, availability | a name has one holder and a key one name; look-alikes exclude each other for ever; old certificates never come back; cooldowns hold; each answer was true at some instant |
| Paid handles (`handlers/purchases.go`, `mongostore/subscriptions.go`, `pkg/purchases`) | one row per subscription: handle, key, last known status, released mark | purchase check, bind, claim, store notifications, linked tokens, hourly sweep on every replica | one subscription pays for one handle; nobody who pays loses the handle; a lapsed handle is released in the end |
| Message delivery (`handlers/send_message.go`, `helpers.go`, `policy.go`) | messages, permissions, default fees | `POST /sendMessage`, quotes, `POST /permissions/set`, `POST /acknowledgeMessage` | blocks and fees that recipients chose are honoured; payment outputs go to whom they are meant for, once; a fee taken means a message stored |
| Device registrations and push (`handlers/devices.go`, `mongostore.go`, `internal/firebase`) | one document per identity and token, plus documents of the previous release | register, unregister, list, push, deactivate, backfill at boot | during a rolling deploy no registration is lost, revived, pushed to twice, or deactivated unless FCM refused its token |
| Message listing (`handlers/list_messages.go`) | none of its own | `POST /listMessages` | following `nextOffset` shows every message; both pagers agree; a walk never stands still |
| Configuration (`pkg/config`) | none: a function of the environment | `Load` | durations never wrap; list bounds fit together |
| Start-up and shutdown (`cmd/server`, `firebase.go`) | a process between its start and its end | open the store, migrate, open the wallet, mount routes, sweep, serve, stop | serves all that is configured or nothing; a sound deployment comes up, also after a crash |
| SQL store (`sqlstore.go`, `queries.go`) | tables, keys and indexes; device rows; the box-wide permission | `EnsureSchema`, device statements, `withBoxWideLock` | an upgrade loses no registration and no id, at no moment without a key; what a serving replica relies on stays while others migrate; a recipient's choice is one row |
| Handle search (`handlers/lookup.go`, `FindHandles`) | none of its own | `GET /api/handle/{query}` | a short answer misses nothing; the exact handle leads; none is named twice |
| Rate limiter (`handlers/ratelimit.go`) | counts per address in a window of a minute | `Wrap` in front of the public routes | no client that leaves the headers alone passes its limit; none at all where the trusted entry is one a proxy wrote |
| Name grammar, certificate parsing, authentication library, JSON types, logging, API docs | | | not modelled, or only as a constant of the above: section 7 |

Interactions: `PUT /api/handle` on a paid name runs the purchase check before the
registry; the sweep releases through the registry; sending a message pushes to
the recipient's devices after it is stored, from a goroutine of its own, and
nothing flows back; listing reads what delivery stores, within the bounds of the
configuration. `main` decides from the configuration which store is opened and
whether the lookup, paid handles and the sweeper exist at all.

What is hard here: reads that are acted upon several calls later, two replicas
doing the same job, replies that are lost although the write applied, store
notifications that are lost, late or duplicated, a rolling deploy in which two
releases share a collection or a table, migrations that several processes run at
once and that may end anywhere, and a refusal found only after money has moved.
The list of hazards in `PROJECT.json` names each at its line.

## 2. Modules

| Module | Models | Composes |
|---|---|---|
| `HandleDirectory` | what the registry promises: `Register`, `Renew`, `Tombstone`, `Revoke` over holder and newest date | |
| `HandleRegistry` | the registry, one database call per step | refines `HandleDirectory` |
| `PaidHandles` | requests with a purchase, notifications and sweeps | takes the registry at `HandleDirectory`'s promise |
| `Delivery` | sending, quotes, permissions, acknowledgement | extends `Ranks` |
| `Devices` | registrations, pushes and boots during a rolling deploy | |
| `Config` | `config.Load` | |
| `Paging` | listing, with clients that follow pages | extends `Config` for its bounds, and `Ranks` |
| `RateLimiter` | which address a request counts for, and the window of counts | extends `Config` |
| `SqlStore` | `EnsureSchema` statement by statement, device rows of two releases, the box-wide permission | |
| `Ranks` | the k-th number of a set, and what filtering a list in order leaves of it | |
| `HandleSearch` | searches of the registry, read by read | extends `Ranks` |
| `Startup` | the processes of one deployment from the configuration to serving, and what they serve | composes `Config`, `RateLimiter`, `SqlStore` and `HandleSearch` |
| `MC...` | constants and symmetry for TLC | |
| `HandleRegistryProofs` | the registry's documents, then what it answers | extends `HandleRegistry` |
| `PaidHandlesProofs`, `DevicesProofs`, `DeliveryProofs`, `PagingProofs` | one component each | extend it |
| `RanksProofs` | lemmas about `Ranks` | used by the next two, `DeliveryProofs` and `PagingProofs` |
| `SqlStoreProofs`, `StartupProofs` | the database; processes, limiter and search, of one deployment | extend `Startup` |

**HandleRegistry.** `rows[h]` is the document of name `h`. A request is at a
program counter `pc[r]`, the database call it makes next: `update`, `reclaim`,
`insert` (the three writes of `claimOnce`), `diagHandle`, `diagKey`,
`diagSkeleton` (the reads of `DiagnoseClaim`), `release`, `diagRelease`. Each
write is a filter (`OwnerUpdateFilter`, `ReclaimFilter`, `ReleaseFilter`) and a
document (`OwnerUpdated`, `Claimed`, `ReleasedRow`), and applies only if
`UniqueIndexes` holds of the result. `RetryOnce` is `ClaimHandle`'s loop.
`StoreFails` ends a request with an internal error, with its write applied or
not. A certificate is abstracted to what `Parse` hands on: name, key, serial,
date, tombstone flag and a body that tells two certificates apart. `Folds` is
the set of fold tables deployed, so a row may hold the skeleton of an older
release. The observer `possible[r]` collects what an atomic registry
(`ClaimOutcome`, `ReleaseOutcome`, written from the contract and not from the
order of the code) could have answered at each instant of the request.

**PaidHandles.** `subs[s]` is a row, `store[s]` and `known` what the store says,
`put`, `notice` and `sweep` are the goroutines. Subscription states are merged
where the code treats them alike: `active` also stands for canceled but paid
up, `ended` for on hold, expired, revoked and pending. The store sells, renews
(also in another tier), grants a grace period, ends, refunds and forgets.
`payer[h]` observes which subscription was verified for the claim that
registered `h`, `overdue[w]` what the store let lapse while sweep `w` ran.

**Delivery.** One box. Fees are abstracted to blocked, free and pay; a payment
is the sequence of its entries with the output index and the recipient each
names; indexes are what the client sends, and one may come twice. A request may
name no recipients: it has no fees to settle and goes on to the decision. A send reads the
fees of its recipients one after the other (`FeeFromSender`, `FeeFromBox`,
`FeeDefault`, `FeeReread`), decides, lets the wallet take the delivery fee, maps
the outputs (`BuildPerRecipientOutputs`) and inserts the messages one by one; a
quote makes the same reads. The upsert of a permission is one step: MongoDB's
unique index, SQLite's serial writers and PostgreSQL's advisory lock each make
it one.

**Devices.** `legacy[t]` is the document the previous release keys by token `t`,
`fresh[k][t]` the one of this release. An upsert is two steps, the search and
the insert, as MongoDB executes it; the insert meets the unique index. The
backfill runs document by document. FCM answers a send with delivered, unregistered,
invalid argument or another error; the second is for a token that is gone,
the third also for a payload it does not take, whatever the token.
`refused` observes which documents have had their token refused, of either
kind, since they were last written for a registration. `OldRegister` and `OldDeactivate` are the
previous release, which is not in the repository: they follow what the comments
in `mongostore.go` and `src/README.md` say of it.

**Paging.** `box[m]` is the time a message is stored under. `Bounded`,
`ParseListPagination`, `Fitting` and `ReadMessagePage` are the handler's pure
functions; a message has a size and a page a budget. The order of a box is given
by `Rank`, how many stored messages sort before one; `Fitting` is the largest
count of rows within the limit and the budget, which is where the handler's loop
stops (`FittingIsTheLoop`). `bounds` is what
`Config.ListBounds` makes of an environment that `BoundsRefused` lets pass, so
every set of bounds the server can run with is walked. Clients (`walk[c]`) follow
`nextOffset`; what each was due to see and has seen is observed. A request for
one message by id is not walked, since its page has at most one row; both pagers
are compared on it (`PagersAgree`).

**Config.** An environment is a function from the variables that are set to
what their text says; a text that does not parse is `Malformed`. `Load` is
`Refused` or the record the rest of the server works with. A `time.Duration` is
counted in days that wrap around at `DurationDays` (an approximation to whole
days of an int64 of nanoseconds).

**SqlStore.** `db` is the schema: the driver, whether the device table is there,
its key on the token (previous release) and on the pair (this one), the state of
the index on messages, and whether `server_fees` has its row. `mig[p]` is the statement of
`EnsureSchema` that process `p` executes next, in the order of
`PostgresMigrations` or `SqliteMigrations`. PostgreSQL's concurrent build has
two steps, so the index is there and invalid in between (`building`); whoever
wants to drop or create it waits; a build whose process is gone is ended by the
database, either way (`OrphanBuildEnds`). `write[w]` is a `SetPermission` or
`SetPermissionIfAbsent` of the box-wide row: on PostgreSQL a transaction
under the advisory lock, on SQLite two statements. `told`, `chosen` and `alone`
are observers. Sequences of PostgreSQL leave no gaps here.

**HandleSearch.** `active` is the set of registered handles, numbered in the
registry's order; a query is given by the sets of handles it equals, begins,
begins when folded, or is part of (`Queries`), and by the lengths that decide
which tiers are asked. `search[p]` is a search between two reads;
`throughout` observes which handles were registered all the while.

**Startup.** `proc[p]` is how far `main` is in process `p`, and what it has
enabled; one action per call that may fail or that others can see. `Exit` is any
of its `os.Exit(1)`, `Crash` a process that is killed or a failing call,
`Shutdown` a SIGTERM. A process that is down boots again. `Timeout` is the end of
`setupCtx`, fifteen seconds into `EnsureSchema` (`main.go:51, 92`): on a database
that is `slow` no index is built in that time, so whoever builds or waits for one
exits (`Overdue`), at this boot and at every other, and is not counted as a
crash; PostgreSQL may still finish the build behind it (`OrphanBuildEnds`).
`Lookup` sends one request through `Proxies`, after the client has put one of
`Forgeries` into `X-Forwarded-For`: each proxy adds the address it was called
from, to the line that is there (`joins`) or as a line of its own. The limiter
reads the first line only, as `Header.Get` does (`FirstLine`). `wrote` observes
which clients have sent a header of their own.
`DeviceRequest`, `BoxWideRequest` and `Outside` run the store's statements and
those of the previous release beside the migrations.

## 3. Runs

| Run | Checks | Result |
|---|---|---|
| `registry_contract` | one request at a time, two names, two fold tables, two serials and bodies: `CertificateMatchesRow`, `AvailabilityAgrees`, `AnswersExplained` | holds |
| `registry_race` | two requests on one name, with two serials and lost replies: `TypeOK`, `ClaimAnswersExplained`, `ReleaseAnswersExplained`, `RacedOnlyUnderContention`, `CooldownHonoured`, `ImplementsDirectory` | holds |
| `paid_sweep` | two requests with one subscription, the store, a sweep: `TypeOK`, `SweepAsksFirst` | holds |
| `paid_lapse` | linked tokens, notifications, failing sweeps, no requests: `Watched`, and the liveness `LapseReleased` | holds |
| `paid_two_handles` | `OneSubscriptionOneHandle` | **violated** |
| `paid_free_ride` | `NothingForFree` | **violated** |
| `paid_wrong_key` | `SweepReleasesItsKey` | **violated** |
| `delivery` | two requests, permissions set meanwhile: `TypeOK`, `ChoiceKept`, `StandingBlockHonoured`, `OutputsHandedOnce`, `FeeIsOnFile` | holds |
| `delivery_fee_taken` | `FeeTakenMessageStored` | **violated** |
| `devices` | a rolling deploy: `TypeOK`, `RegistrationKept`, `StaysUnregistered`, `ListedOnce`, `DeactivatedOnRefusal`, `NumbersStable` | holds |
| `paging` | a client walking a changing box under every set of bounds that starts up: `WalkShowsAll`, `WalkMovesOn`, `PagersAgree`, `RefusedAtBoundsOnly` | holds |
| `startup` | two processes, some thirty environments, a new database, one of the previous release and one too slow for the set-up: `TypeOK`, `RegistrationsSurvive`, `RegistrationsGuarded`, `BoxWideChoiceStands`, `SchemaStands`, `LoneBootHealsIndex`, `ServesAsConfigured`, `ClientBounded`, `SearchComplete`, and the liveness `ReplicasServe` | holds |

The four violated runs are disagreements between the code and its own text:

- **One subscription, two handles** (`purchases.go:176`). A bind may move a
  subscription whose handle is not held, but a request binds before it claims.
  Two concurrent requests with one purchase bind in turn, then both claim.
- **A handle for free** (`purchases.go:111`). A key that holds its handle needs no
  purchase for an update. If the handle is released between that check and the
  write, the write is a new registration nobody pays for.
- **The wrong key's handle** (`purchases.go:456`). The sweep checks that the
  lapsed key holds the handle, then releases it from whoever holds it.
- **Fee taken, message not stored** (`send_message.go:224`). The wallet takes the
  delivery fee before the outputs are mapped; a payment with too few outputs is
  then refused.

Every property of a passing run has a mutant: a small change to one mapped
definition, as a plausible bug would make it, that TLC shows to break the
property. The mutants stand before the definitions they change.

## 4. Bounds, and why they are enough

All bounds are constants named in the `.cfg` files.

- Registry: two requests, since every race here is between one request's reads
  and another's writes; a request in the model starts over when it is done, so
  sequences of any length arise. `MaxTime` 2 and a skew of 1 give certificates
  that are older, equal and newer than what is stored, and a cooldown that runs
  out. `MaxForeign` 2 caps the count of foreign writes at what
  `RacedOnlyUnderContention` compares it with.
  Two requests that meet on two names are not run; that no two rows ever clash is
  proved for any number of them.
- Paid handles: one or two subscriptions, one period, no grace days beyond the
  store's, three instants: one to buy, one to lapse, one to be swept. `MaxLag` is
  how long a goroutine may sit between two calls. `LastSale` leaves room for a
  lapse after the last sale. `paid_lapse` and `paid_wrong_key` start from a
  state with one handle claimed (`Claimed`), which `Init` leads to. `paid_lapse`
  has no requests, and its properties name what they leave out: with two rows on
  file, one that was marked done earlier may count as paying (section 8). The
  three instants are too few for that to happen with linked tokens, so the
  exception was tried on a larger instance that is no run, with four instants and
  two subscriptions that are not linked, one marked done at the start: there the
  handle does stay held after both have lapsed, and the two properties hold.
- Delivery: requests to nobody, to one recipient, to two, and twice to one;
  payments with a named output, with an output listed twice, with one short and
  without; two permissions set at any moment.
- Devices: two identities sharing a token, two registrations, two boots, a push,
  two registrations by old replicas. One token suffices: every operation of a
  registration is about one, and pushes treat tokens one by one.
- Paging: four messages, one of which fills a page and one of which never fits,
  pages of two, offsets up to two, timestamps one tick late; bounds equal, below,
  above and without a cap, and a default beyond the safe integers.
- Start-up: two processes, since a statement of one meets those of one other at a
  time. Each member of `Deployments` carries its own bounds (the kinds of its
  requests, how many, how many ends), so that one run covers migrations with
  crashes, the box-wide writers and the limiter without multiplying them: two
  device requests and two ends on each database, three box-wide writes, three
  lookups with a limit of one over two minutes and two proxies, with hop counts from
  0 to 3 and proxies of both habits, and three searches
  or changes of the registry over four handles with room for two in an answer. The requests of
  one deployment are of one kind because the parts of the database they touch
  are disjoint.

`startup` is checked without looking for deadlocks: when a deployment's requests
and ends are used up and every process serves, nothing is left to do. That no
process is stuck before it serves is `ReplicasServe`.

Symmetry is declared on identities, requests and the like only in runs without
liveness, and only on values no definition names.

## 5. Fairness

Two runs check liveness. In `startup`, `Fairness` says that a process that runs
`main` goes on, that one that has ended is started again (the code leaves that
to its supervisor, and speaks of the crash loop it expects), and that PostgreSQL
ends a build whose client is gone. Nothing is assumed of requests, and a process
is killed only as often as the deployment's bound says; the fifteen seconds of the
set-up have no such bound. `ReplicasServe` is about databases that are ready in
time: without that condition TLC finds the deployment that is cancelled at every
boot (section 8). In `paid_lapse`, `Fairness`
says that time passes, that every
replica keeps sweeping (`RunSubscriptionSweeper` ticks hourly until the process
ends, and processes are restarted) and that an outage ends: calls may fail and
processes die any number of times, but not for ever. `SF` on the clock is
needed because a running sweep holds it up (`MaxLag`). No fairness is assumed of
requests, notifications or the stores: a notification may never come.

## 6. Proofs

Each theorem holds for every value of the constants that satisfies the `ASSUME`s
of the module. `Spec => []P` is proved throughout by an inductive invariant that
TLC has checked on an instance of a run.

| Module | Theorems (the property each states) |
|---|---|
| `HandleRegistryProofs` | `TypesCorrect` (`TypeOK`), `CertificateServed` (`CertificateMatchesRow`), `CooldownHonouredByAll` (`CooldownHonoured`), `RegistryImplementsDirectory` (`ImplementsDirectory`), `AvailabilityAgreed` (`AvailabilityAgrees`), `ClaimsExplained` (`ClaimAnswersExplained`, for one fold table), `ReleasesExplained` (`ReleaseAnswersExplained`), `RacesNeedTwoWrites` (`RacedOnlyUnderContention`), `UndisturbedAnswers`, `AnswersAreExplained` (`AnswersExplained`, for one request) |
| `PaidHandlesProofs` | `PaidTyped` (`TypeOK`), `SweepsAskFirst` (`SweepAsksFirst`), `HandlesStayWatched` (`Watched`, while no request runs) |
| `DeliveryProofs` | `DeliveryTyped` (`TypeOK`), `ChoicesKept` (`ChoiceKept`), `StandingBlocksHonoured` (`StandingBlockHonoured`), `OutputsAreHandedOnce` (`OutputsHandedOnce`), `FeesAreOnFile` (`FeeIsOnFile`) |
| `DevicesProofs` | `DevicesTyped` (`TypeOK`), `RegistrationsKept` (`RegistrationKept`), `UnregistrationsKept` (`StaysUnregistered`), `DevicesListedOnce` (`ListedOnce`), `DeactivationsOnRefusal` (`DeactivatedOnRefusal`), `NumbersAreStable` (`NumbersStable`) |
| `SqlStoreProofs` | `SqlTyped`, `RegistrationsAlwaysSurvive` (`RegistrationsSurvive`), `RegistrationsAlwaysGuarded` (`RegistrationsGuarded`), `BoxWideChoicesStand` (`BoxWideChoiceStands`), `SchemaAlwaysStands` (`SchemaStands`), `LoneBootsHealTheIndex` (`LoneBootHealsIndex`) |
| `StartupProofs` | `StartupTyped` (`TypeOK`), `ServedAsConfigured` (`ServesAsConfigured`), `ClientsBounded` (`ClientBounded`), `SearchesComplete` (`SearchComplete`) |
| `PagingProofs` | `PagingInvariant`, `WalksShowAll` (`WalkShowsAll`), `PagersAlwaysAgree` (`PagersAgree`), `WalksMoveOn` (`WalkMovesOn`), `RefusalsAtBoundsOnly` (`RefusedAtBoundsOnly`) |
| `RanksProofs` | lemmas only |

**Assumptions.** The absent value `None` is none of the values it stands beside
(`NoneAssumption`, `NoneIsNoDocument`, `NoneIsNoRow`, `NoneIsNothing` and parts of
the others); bounds are numbers; inputs have the shape the handlers' parsers let
through, requests to nobody and repeated output indexes among them. Beyond that: `MaxForeign` is at least 2, or `ErrClaimRaced` could not be
compared with two writes; the handles are finitely many and numbered in the
registry's order; a numeric variable of the environment is malformed or an
integer; the largest safe integer is at least the number of messages (there are
never 2^53 in a box); a proxy is not a client; the device table of the previous release has
each token and each id once, and a largest id.

**The registry's documents.** The inductive invariant is

    Inv == TypeOK /\ RequestsCarry /\ AbsentRows /\ Unique /\ CertificateMatchesRow

`Unique` is a part of it and no property of its own: it says that the unique
indexes hold of the collection, which every claiming write is checked against.
What follows from it, that no interleaving of claims makes two holders, is
`ImplementsDirectory`.

`RequestsCarry` says that a request at a call carries what that call needs (a
claim its certificate, a tombstone its flag, a clock reading not ahead of the
clock); without it a write's document need not name its handle. `AbsentRows`
says that a name never claimed has the empty row; without it an insert could
meet remains. The collection changes only by a write of a request, with or
without its reply (`OnlyWrites`); `WriteShape` reduces each write to a name and
a document, and `WriteKeepsRows` shows that no such document breaks uniqueness or
the certificate. The requests stay well formed action by action (`RequestsKept`).
The cooldown follows because a claim judges by a clock reading that is never
ahead; the refinement because every write is one of the directory's four steps.

**Its answers.** `Answerable` says that the answer on the present documents is
always among those noted for a running request, so a write's answer is explained
at the write. A diagnosis reads several documents one after the other:
`CoolingNoted` keeps that a cooldown it has read of was the answer at that instant,
and `FoldedRows` ties a skeleton on file to a fold table, which is why
`ClaimsExplained` is for one table (`OneTable`). For `RacesNeedTwoWrites`,
`Contended` says that as long as nobody else wrote since a pass of `claimOnce`
began, the writes it has tried do not apply and its diagnosis has read what is
there; a pass that finds no reason needs a write of another in it, and there are
two passes. Two of the properties changed while they were proved: the proof
showed that a claim can be told of a cooldown or a look-alike although its key
held a handle, which the rules put first, and that two foreign writes suffice for
`ErrClaimRaced` where the property had said three. The run `registry_race` now has
the second serial that shows the first.

The same facts give the exact statement about a request that meets nobody.
`UndisturbedAnswers` says that a request during which the collection did not
change is answered as an atomic registry would, among any number of others and
under any fold tables: with `Tried` its writes do not apply to the documents the
diagnosis reads, and `ReleaseTried` says the same of a release, so that the stale
tombstone and `ERR_KEY_HAS_HANDLE`, which the concurrent statements leave out, are
right too. With one request at a time nobody else ever writes (`AloneCounts`), and
that is `AnswersAreExplained`.

**Paid handles.** `TypeInv` adds to the types what a goroutine carries at each
call (`PutCarries`, `NoticeCarries`, `SweepCarries`), which rests on rows never
being deleted (`Grows`). `AskedInv` says that a sweep with an answer that lets a
handle go, or past it, has seen the store let that subscription lapse; it holds
because the sweep judges by the answer it has just fetched and never by the row.

`HandlesStayWatched` is about what goes on between requests: it starts from any
state in which nobody is at work (`Quiet`) and allows every step but a request's.
Nobody is then given a handle and no row moves or goes (`Settled`), so that what a
sweep has found out when it marks a row is still so: `WatchInv` says that a sweep
works on rows bound as they are on file, found another that pays only where there
is another on file, and is about to mark only a row whose key does not hold the
handle or has another (`MayBeDone`). An earlier form of `Watched` said that of any
number of rows one is always looked after. It passed on the run's three instants
and is false: the attempt to prove it led to the two-row case of section 8, and
`Watched` and `LapseReleased` now leave that case out by name.

**Delivery.** `RequestOK` says of a request what it has settled, and of every
block that stood since it began (`BlocksSeen`): a recipient passed is down as
blocked, and one whose two rows were both read is not blocked. That the default
is read back from a row that exists (`Defaulted`) needs that rows are never
deleted. `OutputsHandedOnce` is about `BuildPerRecipientOutputs` alone: what is
handed out by position are entries of the list whose index no recipient has by
name, each once (`EntriesDistinct`). It is stated for entries and not for outputs
of the transaction, since nothing keeps a payment from listing one output twice;
two recipients then hold it both by position or both by name.

**Listing.** The ranks of the stored messages are 0 to n - 1 without a gap, each
once (`OneOfEachRank`), so a page is an interval of ranks (`PageOfBox`) and both
pagers take the same one (`FallbackAgrees`). A message that arrives lowers
no rank (`InsertedRanks`); one acknowledged that ranks at or after the place a walk
goes on from lets no other fall before that place (`RemovedRanks`). So

    WalkOK == ... at = "more" /\ ~ shifted => every message due and not seen ranks at or after next

is kept by every step, which is the heart of `PagingInv`; the rest of it ties the
bounds to an environment that starts up and the limit of a walk to those bounds.
`EncodedBytes` is a recursive function: that it counts as the loop does, and grows,
is shown by a least counterexample (`CountExists`, `BytesCounted`, `BytesGrow`), so
no induction over data is needed; `FittingIsTheLoop` then says that the count a page
takes is where the handler's loop stops. Proving `RefusedAtBoundsOnly` found a
fourth case it had not named: a default limit beyond the safe integers (section 8);
the run has an environment for it now.

**Devices.** A pair has at most one document with its `fcmToken` (`OnePerPair`,
the unique index), a registration of this release has one (`MineStored`), a pair
given up has none (`GoneAbsent`). Without `OnePerPair` a backfill could drop the
only document for a duplicate. For the numbers, `NumbersApart` says that one drawn
from the counter is with the call that drew it or in one document, never in two
places, and `Steady` that a standing registration keeps its own. `DeactivatedOnRefusal`
needs that a push about to deactivate has an answer in hand for that token, and
that the answer was noted for every document of it then on file.

**The SQL store.** `IndexKnown` is what a process alone in `EnsureSchema` knows of
the index at each statement; `KeyBeforeDrop` that PostgreSQL's old key goes only
once the new one is there; `TokensUnique` that the old key, while it is there,
keeps a token to one row; `OnePastLock` that the advisory lock lets one writer
past it. `StatementsHold` says of each statement a PostgreSQL process is at what
those before it have established, and that the statements of others, which are
the same list, take none of it away: at the end of the list that is
`SchemaStands`. Ids survive SQLite's rebuild because the new table counts on from the
largest id of the old.

**Start-up, limiter, search.** `ProcInv` follows `main`: a process past the check
has a configuration that can be served and has mounted what it asks for. For the
limiter, a client that sends no header of its own is shown to count for one and the
same address whatever is trusted, and any client for a proxy's entry where
`ProxysEntry` holds, so that what a limiter has counted for an address bounds what
it has let through for each client behind it. For search, `SearchInv` says that while the
answer has room, every match of a tier already read that was registered
throughout is in it, the exact handle first. A tier cut off at the limit does not
break that: it brought as many handles as an answer holds, all different, so at
most as many of them as the answer has already are not new, and the new ones fill
it (`TierAdded`).
`RanksProofs` has the facts about the k-th number of a finite set that
this and delivery need; they rest on the least element of a set of numbers, so
that no induction over data is needed.

**Only model-checked.**

- Liveness (`LapseReleased`, `ReplicasServe`): out of the prover's reach.
- What two theorems say under a condition, `ClaimAnswersExplained` for one fold
  table and `Watched` while no request runs: with requests the sweep's mark can
  break `Watched` (section 8). The run `registry_race` has one table and `paid_lapse`
  no requests, so each run is an instance of its theorem.
- The properties of the four violated runs.

## 7. Not modelled

- Logging, CORS headers, JSON shapes, generated documentation, and the test
  suites under `storagetest`, `purchasestest` and `certtest`, which run the code
  rather than being part of it.
- The grammar and folding of names: character tables. The parsing and signature
  of certificates: the set of accepted ones is an input.
- HTTP, JWS and JSON of the App Store and Play; their answers are modelled.
- The creation of MongoDB's indexes and the seeding of its fees: one step of
  `Startup`; its backfill has its steps in `Devices`.
- `GET /permissions/get` and `list`, and the reverse lookup: read-only, and
  one query each, but for `list`, which counts the rows and then reads a page: its
  `totalCount` may be older than the page, and nothing relies on it.
- The SQL statements on messages and on one sender's permission: one statement
  each, the store that `Delivery` and `Paging` assume.
- The authentication library; keys are authenticated when they reach a handler.

## 8. Limits of the code met while modelling

No run states these, either because nothing in the repository promises otherwise
or because the properties leave them out, as their comments say.

- A claim that races with another of the same key may be told
  `ERR_KEY_HAS_HANDLE` of the very handle it asks for, or of the cooldown or the
  look-alike that `DiagnoseClaim` meets although the key's own handle was what
  kept the write out (`reply.keyHeld`); a tombstone that overtakes
  its claim may be told it is stale. While two fold tables are deployed, a
  look-alike can appear between two reads of a diagnosis, and availability judges
  by today's table.
- The sweep's mark is unconditional: a subscription renewed, bound and claimed
  with again between the release and the mark is not looked after any more.
- Only a bind takes the mark back; a status that is written later does not. A key
  whose subscription lapsed, was marked, and that claimed its handle again with a
  second one may have the first renewed: its row is active and marked. When the
  second lapses, `releaseLapsed` finds the first paying and marks the second too.
  When the first lapses, no row of the handle is listed by the sweep any more, and
  the handle stays held. An answer of the store that is written after the mark
  although it is older does the same to a row with a linked token. For a handle with
  one subscription on file it cannot happen (`HandlesStayWatched`).
- A linked token adopted while its payment is pending takes over from a row that
  is no longer looked at. A subscription forgotten by the store in its billing
  grace period is entitled for ever.
- The sweep's batch always starts with the earliest expiry, so rows that cannot
  be refreshed can keep later ones out.
- A recipient who blocks a sender and then opens the box between the two reads
  of `recipientFee` has the message delivered: only one row that stood
  throughout is honoured (`StandingBlockHonoured`).
- The inserts of a send to several recipients are separate. A failure leaves
  some stored, and a retry with the same ids ends at the first duplicate.
- An empty list of recipients with an empty list of ids passes the validation of
  `SendMessage`: the delivery fee is taken if there is one, and the answer is 200,
  sent to 0 recipients (`send_message.go:69-111, 313-320`).
- The output indexes of a payment are not compared with each other
  (`helpers.go:218, 255`): one that lists an output twice hands it to two
  recipients, or the server's own to one (`OutputsHandedOnce` says which cases
  remain excluded).
- A recipient listed twice in one send gets the outputs of its last mention
  only; a quote looks permissions up by the untrimmed key.
- The backfill's delete does not name the identity: a document an old replica
  moves to another identity after the collision is dropped although nothing else
  holds that pair. A document an old replica has just written for a registration is
  dropped in favour of one of this release that is inactive (`mongostore.go:555`).
  An old replica that moves a document while its number is
  filled in gives one number to two identities in turn.
- FCM's invalid argument, which a payload can cause as well as a token,
  deactivates the token (`send_fmc_notification.go:179-181`), and an answer in hand
  deactivates a registration renewed since it was asked for
  (`DeactivatedOnRefusal` allows both).
- `LIST_DEFAULT_LIMIT=-1` with a capped `LIST_MAX_LIMIT` starts up and then
  refuses every listing without a limit (`RefusedAtBoundsOnly` leaves that case
  out), although `src/README.md` says the default must not exceed the maximum. So
  does a `LIST_DEFAULT_LIMIT` beyond 2^53 - 1 without a maximum: the default is
  checked like a limit a client sends. A
  message beyond `LIST_MAX_OFFSET` cannot be listed until earlier ones are
  acknowledged.
- Replicas that boot together on PostgreSQL: one takes the index another is
  building for an invalid leftover, waits for the build and drops the finished
  index; or finds it gone, since `DROP INDEX` has no `IF EXISTS`, and exits. A
  build that fails after another process has looked leaves an invalid index that
  process serves with. Only a boot with nobody else in `EnsureSchema` is sure to
  leave a valid one (`LoneBootHealsIndex`). The build counts towards the fifteen
  seconds of `storeSetupTimeout`, at every boot anew: an index that takes longer is
  cancelled, dropped as invalid by the next boot and built from the start, so that
  a large table may keep a deployment from ever serving. Only a build that
  PostgreSQL finishes after its client has gone ends that.
- On SQLite the old key is looked for outside the transaction that rebuilds the
  table: a second process may rebuild a table that is already of the new shape and
  drop its unique index until `commonMigrations` creates it again; registrations
  fail in between, also those of a process that serves, so `SchemaStands` is about
  PostgreSQL only. The new table counts on from its largest id, so the id of a
  row deleted before the upgrade may be given out again.
- `src/README.md:355` says that "a hop count that is too high is safe", since a
  header with fewer entries than hops falls back to the connection
  (`ratelimit.go:85-88` argues the same). It is for clients that leave
  `X-Forwarded-For` alone; one a client has filled is as long as the client likes,
  and the entry trusted is then its own. `Header.Get` reads the first line of the
  header only, so behind proxies that add a line instead of extending the one
  there, the client's line is the one read. `ClientBounded` bounds clients that
  write into the header only where neither is the case (`ProxysEntry`).
- With `CLIENT_IP_HEADER` and a proxy that adds to the header instead of setting
  it, a client can have itself counted for the connection instead, and get up to
  twice its limit (`ClientBounded` says so). The window is fixed, and each
  replica counts alone.
- The comment of `ErrInvalidHandle` (`pkg/handles/handles.go`) speaks of 3 to 32
  characters; `handleRE` admits one to 32, since short handles are sold.
- A malformed server key or an unknown `BSV_NETWORK` is found in `createWallet`
  (`main.go:133, 277`), after the store was opened and migrated and, for the key,
  local wallet storage as well: their files are left behind.
- The sweeper is cancelled at shutdown, not waited for.

## 9. Plan

Done, in this order because the registry is what the other handle code rests
on: registry and its proofs, paid handles, delivery, devices, listing, then
configuration, the SQL store with its migrations, start-up and the rate limiter;
then the proofs of section 6. Next:

1. `Watched` with requests, for which the observer must note the binds that come
   between a sweep's check and its mark.
2. `PaidHandles` composed with `HandleRegistry` itself instead of the directory,
   so that certificate dates and cooldowns meet the sweep.
3. An abstract mailbox that `Delivery` and `Paging` both implement.
